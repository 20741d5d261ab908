------------------------------- MODULE Sampler -------------------------------
(***************************************************************************)
(* The sampling loop of m4/src/mpu6050_rpmsg.c: one frame per period of    *)
(* the cycle counter while the stream is on, and the sensor configured     *)
(* again after a run of frames that are all zero.                          *)
(*                                                                         *)
(* One action is one pass of the loop.  It begins when DWT->CYCCNT has the *)
(* value "cycle" and its duration is chosen when it ends.  The counter has *)
(* Wrap values, as the 32-bit one has 2^32.                                *)
(***************************************************************************)
EXTENDS Integers

CONSTANTS
    Period,      \* sample_cycles
    SampleTime,  \* most cycles a pass takes that reads the sensor and sends
    ConfigTime,  \* most cycles sensor_configure adds
    Wrap,        \* number of values of the cycle counter
    ZeroFrames,  \* SENSOR_REINIT_ZERO_FRAMES
    Cooldown,    \* SENSOR_REINIT_COOLDOWN_FRAMES
    MaxUpsets    \* bound: times the sensor is disturbed

Max(a, b) == IF a > b THEN a ELSE b

(* Frames that are sure to lie between two that configure the sensor.       *)
Between == Max(ZeroFrames - 1, Cooldown)

(* A sample fits in its period: the period is 20 ms, and README.md measures *)
(* 16.6 ms for a pass that reads the sensor and does nothing else.  The     *)
(* five writes of sensor_configure take about as long as a read: the frame  *)
(* that configures leaves the loop behind, by less than a period, and what  *)
(* the frames before the next attempt save is enough to make up for it.     *)
(* 2^31 cycles are ten seconds.                                             *)
ASSUME TimingAssumption ==
    /\ Period \in Nat /\ SampleTime \in 1..(Period - 1)
    /\ ConfigTime \in Nat /\ SampleTime + ConfigTime < 2 * Period
    /\ SampleTime + ConfigTime - Period <= Between * (Period - SampleTime)
    /\ Wrap \in Nat /\ Wrap % 2 = 0 /\ Wrap > 4 * Period

ASSUME ReinitAssumption ==
    ZeroFrames \in Nat \ {0} /\ Cooldown \in Nat /\ MaxUpsets \in Nat

VARIABLES
    cycle,              \* now_cycle of the next pass
    next_sample_cycle,
    stream_enabled,
    address,            \* "strap": where the sensor is; "other": 0x69
    sensor,             \* "absent", "asleep" after a reset: reads zero, "ready"
    zero_streak,
    reinit_cooldown,
    lag,                \* history: true time since the next frame was due
    upsets              \* history: disturbances so far

schedule == <<cycle, next_sample_cycle, lag>>
reinit   == <<zero_streak, reinit_cooldown>>
vars     == <<schedule, stream_enabled, address, sensor, reinit, upsets>>

(* (int32_t)(a - b)                                                         *)
Diff(a, b) ==
    LET d == (a - b) % Wrap IN IF d < Wrap \div 2 THEN d ELSE d - Wrap

(* main, up to its loop.  WHO_AM_I at 0x68; if that fails for whatever      *)
(* reason the address becomes 0x69 and stays so.  The sensor is configured  *)
(* if it answered, and may have been so by an earlier run of the firmware.  *)
Init ==
    /\ cycle = 0 /\ next_sample_cycle = Period /\ lag = -Period
    /\ stream_enabled = FALSE
    /\ \/ address = "strap" /\ sensor \in {"asleep", "ready"}
       \/ address = "other" /\ sensor \in {"absent", "asleep", "ready"}
    /\ zero_streak = 0 /\ reinit_cooldown = 0
    /\ upsets = 0

-----------------------------------------------------------------------------
(* The surroundings of the firmware.                                        *)

Disturb == upsets < MaxUpsets /\ upsets' = upsets + 1

(* The module is pulled out, put in, or loses its registers.                *)
SensorChanges ==
    /\ Disturb
    /\ \/ sensor # "absent" /\ sensor' = "absent"
       \/ sensor = "absent" /\ sensor' = "asleep"
       \/ sensor = "ready"  /\ sensor' = "asleep"
    /\ UNCHANGED <<schedule, stream_enabled, address, reinit>>

(* "start" or "stop" in OPENAMP_check_for_message, the first thing a pass   *)
(* does.                                                                    *)
ReceiveCommand ==
    /\ stream_enabled' \in BOOLEAN
    /\ UNCHANGED <<schedule, address, sensor, reinit, upsets>>

-----------------------------------------------------------------------------
(* The passes of the loop.                                                  *)

(* The pass takes d cycles and moves the deadline by "moved".               *)
Takes(d, moved) ==
    /\ cycle' = (cycle + d) % Wrap
    /\ lag' = lag + d - moved

Due == Diff(cycle, next_sample_cycle) >= 0

(* Fault: the deadlines missed while the stream is off are kept. *)
IdleAccumulates ==
    /\ ~stream_enabled
    /\ Takes(1, lag + Period)
    /\ UNCHANGED <<next_sample_cycle, stream_enabled, address, sensor, reinit, upsets>>

(* Nobody reads: the first frame is due a period from now.                  *)
Idle ==
    /\ ~stream_enabled
    /\ next_sample_cycle' = (cycle + Period) % Wrap
    /\ Takes(1, lag + Period)
    /\ UNCHANGED <<stream_enabled, address, sensor, reinit, upsets>>

Wait ==
    /\ stream_enabled
    /\ ~Due
    /\ Takes(1, 0)
    /\ UNCHANGED <<next_sample_cycle, stream_enabled, address, sensor, reinit, upsets>>

(* Fault: PWR_MGMT_1 is not written. *)
ConfigureAsleep(noise) == UNCHANGED sensor

(* sensor_configure: the sensor wakes up if the writes get through to it;   *)
(* what it returns is not looked at.                                        *)
Configure(noise) ==
    IF sensor = "absent" \/ address # "strap" THEN UNCHANGED sensor
    ELSE sensor' \in {"ready"} \cup IF noise THEN {sensor} ELSE {}

(* Fault: the streak is compared for equality. *)
LastingOnce(streak) == streak = ZeroFrames

Lasting(streak) == streak >= ZeroFrames

(* What becomes of the streak of zero frames that ends with this one.       *)
Cool(streak) ==
    /\ reinit_cooldown # 0
    /\ reinit_cooldown' = reinit_cooldown - 1
    /\ zero_streak' = streak
    /\ UNCHANGED sensor
    /\ \E d \in 1..SampleTime : Takes(d, Period)

Count(streak) ==
    /\ reinit_cooldown = 0
    /\ ~Lasting(streak)
    /\ zero_streak' = streak
    /\ UNCHANGED <<sensor, reinit_cooldown>>
    /\ \E d \in 1..SampleTime : Takes(d, Period)

(* Fault: the cooldown is not begun. *)
ReinitAgain(streak, noise) ==
    /\ reinit_cooldown = 0
    /\ Lasting(streak)
    /\ zero_streak' = 0
    /\ UNCHANGED reinit_cooldown
    /\ Configure(noise)
    /\ \E d \in 1..(SampleTime + ConfigTime) : Takes(d, Period)

Reinit(streak, noise) ==
    /\ reinit_cooldown = 0
    /\ Lasting(streak)
    /\ zero_streak' = 0
    /\ reinit_cooldown' = Cooldown
    /\ Configure(noise)
    /\ \E d \in 1..(SampleTime + ConfigTime) : Takes(d, Period)

(* A frame is due: read the sensor and send.  Noise on the bus may make the *)
(* read fail, and a frame that failed ends the streak although it is sent   *)
(* as zeros.                                                                *)
SampleFrame ==
    /\ stream_enabled
    /\ Due
    /\ next_sample_cycle' = (next_sample_cycle + Period) % Wrap
    /\ \E noise, failed \in BOOLEAN :
        /\ IF noise THEN Disturb ELSE UNCHANGED upsets
        /\ noise \/ (failed <=> sensor = "absent" \/ address # "strap")
        /\ sensor = "absent" \/ address # "strap" => failed
        /\ LET streak == IF sensor = "asleep" /\ ~failed THEN zero_streak + 1 ELSE 0
           IN  Cool(streak) \/ Count(streak) \/ Reinit(streak, noise)
    /\ UNCHANGED <<stream_enabled, address>>

Loop == Idle \/ Wait \/ SampleFrame

Next == SensorChanges \/ ReceiveCommand \/ Loop

(* The firmware does nothing but run its loop.                              *)
Spec == Init /\ [][Next]_vars /\ WF_vars(Loop)

-----------------------------------------------------------------------------
(* Properties.                                                              *)

(* Every variable keeps to its domain.                                      *)
TypeOK ==
    /\ cycle \in 0..(Wrap - 1) /\ next_sample_cycle \in 0..(Wrap - 1)
    /\ lag \in Int
    /\ stream_enabled \in BOOLEAN
    /\ address \in {"strap", "other"}
    /\ sensor \in {"absent", "asleep", "ready"}
    /\ zero_streak \in Nat /\ reinit_cooldown \in 0..Cooldown
    /\ upsets \in 0..MaxUpsets

(* Frames keep real time: the deadline the firmware works with is the true  *)
(* one, across the wrap of the counter, and the frame it is for is never a  *)
(* period late, so that the 20 ms that timestamp_ms counts per frame are    *)
(* real ones: not even when the sensor is configured over and over, each    *)
(* attempt leaving the loop behind, since the cooldown is long enough to    *)
(* catch up.  Nothing missed while the stream was off is made up for.       *)
OnSchedule ==
    Diff(cycle, next_sample_cycle) = lag /\ lag \in (-Period)..(Period - 1)

(* The run of zero frames of a sensor that answers ends in time: with the   *)
(* tenth one, or else with the end of the cooldown.                         *)
ZeroRunBounded ==
    zero_streak <= IF ZeroFrames > Cooldown THEN ZeroFrames - 1 ELSE Cooldown

(* A sensor that was reset is woken up again, however often the attempts    *)
(* are disturbed, if the stream stays on, the sensor stays plugged in and   *)
(* it was at its address when the firmware started.                         *)
Recovers ==
    sensor = "asleep" /\ address = "strap" /\ stream_enabled
        ~> sensor # "asleep" \/ ~stream_enabled
=============================================================================
