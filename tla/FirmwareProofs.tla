--------------------------- MODULE FirmwareProofs ---------------------------
(***************************************************************************)
(* Proofs about the firmware of the M4: its sampling loop, Sampler, and    *)
(* the I2C bus it drives, I2cBus.                                          *)
(*                                                                         *)
(* Sampler: for any timing that the assumptions allow, any thresholds and  *)
(* any width of the cycle counter.  The frame that configures the sensor   *)
(* may take longer than its period, and many frames may pass before the    *)
(* loop has caught up, so that OnSchedule alone is not inductive: what it  *)
(* is behind by is at most what the frames save that are sure to come      *)
(* before the sensor is configured again.                                  *)
(*                                                                         *)
(* I2cBus: for either address of the sensor, any contents of its           *)
(* registers, any length of a burst, any number of transfers and restarts. *)
(* BusFree and TransfersTrue speak of the end of a transfer; BusInv says   *)
(* for every call of every function what the lines, the sensor and the     *)
(* bytes under way are.                                                    *)
(***************************************************************************)
EXTENDS I2cBus, Sampler, SequenceTheorems, TLAPS

-----------------------------------------------------------------------------
(* The sampling loop.                                                       *)

(* The wrap of the counter, for the values that occur.                      *)
LEMMA ModNear ==
    ASSUME NEW x \in (-Wrap)..(Wrap - 1)
    PROVE  x % Wrap = IF x < 0 THEN x + Wrap ELSE x
<1>1. Wrap \in Nat \ {0}
  BY TimingAssumption
<1>2. QED
  BY <1>1

LEMMA ModSum ==
    \A x \in 0..(2 * Wrap - 1) : x % Wrap = IF x < Wrap THEN x ELSE x - Wrap
<1>1. Wrap \in Nat \ {0}
  BY TimingAssumption
<1>2. QED
  BY <1>1

LEMMA Halved == 2 * (Wrap \div 2) = Wrap /\ Wrap \div 2 \in Nat
BY TimingAssumption

(* How far the counter is past the deadline is read off the two wrapped     *)
(* values, while it is less than two periods.                               *)
LEMMA DiffNear ==
    ASSUME NEW a \in 0..(Wrap - 1), NEW b \in 0..(Wrap - 1), NEW l \in (-Period)..(2 * Period),
           a - b - l \in {-Wrap, 0, Wrap}
    PROVE  Diff(a, b) = l
<1>1. Wrap \in Nat /\ Period \in Nat /\ Wrap > 4 * Period
  BY TimingAssumption
<1>2. a - b \in (-Wrap)..(Wrap - 1)
  BY <1>1
<1>3. (a - b) % Wrap = IF a - b < 0 THEN a - b + Wrap ELSE a - b
  BY <1>1, <1>2, ModNear
<1>4. l < Wrap \div 2 /\ Wrap + l >= Wrap \div 2
  BY <1>1, Halved
<1>5. QED
  BY <1>1, <1>3, <1>4 DEF Diff

-----------------------------------------------------------------------------
(* The frames that are still to come before the next attempt are counted    *)
(* down, one by one, by either of the two counters.                         *)
StreakInv == zero_streak + reinit_cooldown <= Between

(* How many frames are sure to come before one configures the sensor,       *)
(* however they turn out.                                                   *)
Ahead == Max(reinit_cooldown, ZeroFrames - 1 - zero_streak)

(* What a frame leaves of its period, at least.                             *)
Saved == Period - SampleTime

ScheduleInv ==
    /\ cycle - next_sample_cycle - lag \in {-Wrap, 0, Wrap}
    /\ lag \in (-Period)..(Period - 1)
    /\ lag > 0 => lag <= Ahead * Saved

SamplerInv == TypeOK /\ StreakInv /\ ScheduleInv

LEMMA SamplerInit == Init => SamplerInv
<1> SUFFICES ASSUME Init PROVE SamplerInv
  OBVIOUS
<1>1. /\ Wrap \in Nat /\ Period \in Nat /\ Wrap > 4 * Period /\ Period > 1
      /\ ZeroFrames \in Nat \ {0} /\ Cooldown \in Nat /\ MaxUpsets \in Nat
  BY TimingAssumption, ReinitAssumption
<1>2. TypeOK
  <2>1. stream_enabled \in BOOLEAN
    BY Zenon DEF Init
  <2>2. QED
    BY <1>1, <2>1 DEF Init, TypeOK
<1>3. StreakInv
  BY <1>1 DEF Init, StreakInv, Between, Max
<1>4. ScheduleInv
  BY <1>1 DEF Init, ScheduleInv
<1>5. QED
  BY <1>2, <1>3, <1>4 DEF SamplerInv

(* A pass, as far as time goes.                                             *)
LEMMA PassTimed ==
    ASSUME ScheduleInv, cycle \in 0..(Wrap - 1), next_sample_cycle \in 0..(Wrap - 1),
           NEW d \in 1..(2 * Period), Takes(d, Period),
           next_sample_cycle' = (next_sample_cycle + Period) % Wrap
    PROVE  /\ cycle' \in 0..(Wrap - 1) /\ next_sample_cycle' \in 0..(Wrap - 1)
           /\ lag' = lag + d - Period /\ lag' \in Int
           /\ lag' <= Period => (cycle' - next_sample_cycle' - lag') \in {-Wrap, 0, Wrap}
<1>1. Wrap \in Nat /\ Period \in Nat /\ Wrap > 4 * Period /\ Period > 1 /\ lag \in Int
  BY TimingAssumption DEF ScheduleInv
<1>2. cycle' = IF cycle + d < Wrap THEN cycle + d ELSE cycle + d - Wrap
  <2>1. cycle + d \in 0..(2 * Wrap - 1)
    BY <1>1
  <2>2. (cycle + d) % Wrap = IF cycle + d < Wrap THEN cycle + d ELSE cycle + d - Wrap
    BY <1>1, <2>1, ModSum
  <2>3. QED
    BY <2>2 DEF Takes
<1>3. next_sample_cycle' = IF next_sample_cycle + Period < Wrap
                           THEN next_sample_cycle + Period
                           ELSE next_sample_cycle + Period - Wrap
  <2>1. next_sample_cycle + Period \in 0..(2 * Wrap - 1)
    BY <1>1
  <2>2. QED
    BY <1>1, <2>1, ModSum
<1>4. lag' = lag + d - Period
  BY DEF Takes
<1>5. /\ cycle' \in 0..(Wrap - 1) /\ next_sample_cycle' \in 0..(Wrap - 1)
      /\ lag' \in Int
  BY <1>1, <1>2, <1>3, <1>4
<1>6. ASSUME lag' <= Period
      PROVE  (cycle' - next_sample_cycle' - lag') \in {-Wrap, 0, Wrap}
  <2>1. lag >= -Period /\ cycle - next_sample_cycle - lag \in {-Wrap, 0, Wrap}
    BY DEF ScheduleInv
  <2>2. QED
    BY <1>1, <1>2, <1>3, <1>4, <1>6, <2>1
<1>7. QED
  BY <1>4, <1>5, <1>6

(* What the frames save, all together.                                      *)
LEMMA NotAhead == ASSUME NEW a \in Int, NEW s \in Nat, a <= 0 PROVE a * s <= 0
<1>1. -a \in Nat /\ (-a) * s \in Nat
  OBVIOUS
<1>2. (-a) * s = -(a * s)
  OBVIOUS
<1>3. a * s \in Int
  OBVIOUS
<1>4. QED
  BY <1>1, <1>2, <1>3

LEMMA MaxIs ==
    \A a, b \in Int : Max(a, b) \in Int /\ Max(a, b) >= a /\ Max(a, b) >= b
                       /\ (Max(a, b) = a \/ Max(a, b) = b)
BY DEF Max

LEMMA OneNearer ==
    \A n, x, y \in Int : /\ n - 1 - x \in Int
                         /\ y <= x + 1 => n - 1 - y >= (n - 1 - x) - 1
OBVIOUS

LEMMA OneLess ==
    ASSUME NEW a \in Int, NEW b \in Int, NEW s \in Nat, b >= a - 1
    PROVE  b * s >= a * s - s
<1>1. PICK c \in Nat : c = b - a + 1
  OBVIOUS
<1>2. c * s \in Nat
  OBVIOUS
<1>3. c * s = b * s - a * s + s
  BY <1>1
<1>4. a * s \in Int /\ b * s \in Int
  OBVIOUS
<1>5. QED
  BY <1>2, <1>3, <1>4

(* A frame, with the three things it may come to.                           *)
LEMMA FrameStep == ASSUME SamplerInv, SampleFrame PROVE SamplerInv'
<1>0. /\ Wrap \in Nat /\ Period \in Nat /\ Wrap > 4 * Period /\ SampleTime \in 1..(Period - 1)
      /\ ConfigTime \in Nat /\ SampleTime + ConfigTime < 2 * Period
      /\ ZeroFrames \in Nat \ {0} /\ Cooldown \in Nat /\ MaxUpsets \in Nat
      /\ Saved \in Nat /\ Saved = Period - SampleTime
  BY TimingAssumption, ReinitAssumption DEF Saved
<1>1. TypeOK /\ StreakInv /\ ScheduleInv
  BY DEF SamplerInv
<1>2. /\ next_sample_cycle' = (next_sample_cycle + Period) % Wrap
      /\ UNCHANGED <<stream_enabled, address>>
      /\ Due
  BY DEF SampleFrame
<1>3. PICK noise \in BOOLEAN, streak \in {0, zero_streak + 1} :
        /\ upsets' \in {upsets} \cup (IF upsets < MaxUpsets THEN {upsets + 1} ELSE {})
        /\ Cool(streak) \/ Count(streak) \/ Reinit(streak, noise)
  <2>1. PICK noise, failed \in BOOLEAN :
          /\ IF noise THEN Disturb ELSE UNCHANGED upsets
          /\ LET streak == IF sensor = "asleep" /\ ~failed THEN zero_streak + 1 ELSE 0
             IN  Cool(streak) \/ Count(streak) \/ Reinit(streak, noise)
    BY DEF SampleFrame
  <2>2. QED
    BY <2>1 DEF Disturb
<1>4. lag \in 0..(Period - 1)
  <2>1. Diff(cycle, next_sample_cycle) = lag
    BY <1>0, <1>1, DiffNear DEF ScheduleInv, TypeOK
  <2>2. QED
    BY <1>0, <1>1, <1>2, <2>1 DEF Due, ScheduleInv
<1>5. zero_streak \in Nat /\ reinit_cooldown \in 0..Cooldown /\ streak \in Nat
  BY <1>1, <1>3 DEF TypeOK
<1>6. /\ zero_streak' \in Nat /\ reinit_cooldown' \in 0..Cooldown /\ StreakInv'
      /\ sensor' \in {"absent", "asleep", "ready"}
  <2>1. CASE Cool(streak)
    BY <1>0, <1>1, <1>3, <1>5, <2>1 DEF Cool, StreakInv, Between, Max, TypeOK
  <2>2. CASE Count(streak)
    BY <1>0, <1>1, <1>3, <1>5, <2>2 DEF Count, Lasting, StreakInv, Between, Max, TypeOK
  <2>3. CASE Reinit(streak, noise)
    <3>1. sensor' \in {"absent", "asleep", "ready"}
      BY <1>1, <2>3 DEF Reinit, Configure, TypeOK
    <3>2. QED
      BY <1>0, <2>3, <3>1 DEF Reinit, StreakInv, Between, Max
  <2>4. QED
    BY <1>3, <2>1, <2>2, <2>3
<1>7. PICK d \in 1..(SampleTime + ConfigTime) :
        /\ Takes(d, Period)
        /\ d > SampleTime => Reinit(streak, noise)
  BY <1>0, <1>3 DEF Cool, Count, Reinit
<1>8. d \in 1..(2 * Period)
  BY <1>0, <1>7
<1>9. /\ cycle' \in 0..(Wrap - 1) /\ next_sample_cycle' \in 0..(Wrap - 1)
      /\ lag' = lag + d - Period /\ lag' \in Int
      /\ lag' <= Period => (cycle' - next_sample_cycle' - lag') \in {-Wrap, 0, Wrap}
  BY <1>1, <1>2, <1>7, <1>8, PassTimed DEF TypeOK
<1>10. /\ Ahead \in Int /\ Ahead' \in Int
       /\ ~Reinit(streak, noise) => Ahead' >= Ahead - 1
       /\ Reinit(streak, noise) => Ahead <= 0 /\ Ahead' = Between
  <2> DEFINE a == ZeroFrames - 1 - zero_streak
             b == ZeroFrames - 1 - zero_streak'
  <2>0. /\ a \in Int /\ b \in Int /\ reinit_cooldown \in Int /\ reinit_cooldown' \in Int
        /\ Ahead = Max(reinit_cooldown, a) /\ Ahead' = Max(reinit_cooldown', b)
    <3>1. Ahead = Max(reinit_cooldown, a) /\ Ahead' = Max(reinit_cooldown', b)
      BY DEF Ahead
    <3>2. QED
      BY <1>0, <1>5, <1>6, <3>1
  <2>1. /\ Ahead \in Int /\ Ahead >= reinit_cooldown /\ Ahead >= a
        /\ Ahead = reinit_cooldown \/ Ahead = a
        /\ Ahead' \in Int /\ Ahead' >= reinit_cooldown' /\ Ahead' >= b
    BY <2>0, MaxIs
  <2>2. CASE Cool(streak)
    <3>1. ~Reinit(streak, noise)
      BY <2>2 DEF Cool, Reinit
    <3>2. reinit_cooldown' = reinit_cooldown - 1 /\ zero_streak' <= zero_streak + 1
      BY <1>3, <1>5, <2>2 DEF Cool
    <3>3. Ahead' >= Ahead - 1
      <4>1. zero_streak \in Int /\ zero_streak' \in Int /\ reinit_cooldown \in Int
            /\ reinit_cooldown' \in Int /\ ZeroFrames \in Int
        BY <1>0, <1>5, <1>6
      <4>2. CASE Ahead = reinit_cooldown
        BY <2>1, <3>2, <4>1, <4>2
      <4>3. CASE Ahead = a
        <5>1. b >= a - 1 /\ a \in Int /\ b \in Int
          BY <3>2, <4>1, OneNearer
        <5>2. Ahead' >= b /\ Ahead' \in Int
          BY <2>1
        <5> HIDE DEF a, b
        <5>3. QED
          BY <4>3, <5>1, <5>2
      <4>4. QED
        BY <2>1, <4>2, <4>3
    <3>4. QED
      BY <2>1, <3>1, <3>3
  <2>3. CASE Count(streak)
    <3>1. ~Reinit(streak, noise)
      BY <2>3 DEF Count, Reinit
    <3>2. reinit_cooldown = 0 /\ reinit_cooldown' = 0 /\ zero_streak' < ZeroFrames
          /\ zero_streak' <= zero_streak + 1
      BY <1>0, <1>3, <1>5, <2>3 DEF Count, Lasting
    <3>3. Ahead' >= Ahead - 1
      <4>1. zero_streak \in Int /\ zero_streak' \in Int /\ reinit_cooldown \in Int
            /\ reinit_cooldown' \in Int /\ ZeroFrames \in Int
        BY <1>0, <1>5, <1>6
      <4>2. CASE Ahead = reinit_cooldown
        BY <2>1, <3>2, <4>1, <4>2
      <4>3. CASE Ahead = a
        <5>1. b >= a - 1 /\ a \in Int /\ b \in Int
          BY <3>2, <4>1, OneNearer
        <5>2. Ahead' >= b /\ Ahead' \in Int
          BY <2>1
        <5> HIDE DEF a, b
        <5>3. QED
          BY <4>3, <5>1, <5>2
      <4>4. QED
        BY <2>1, <4>2, <4>3
    <3>4. QED
      BY <2>1, <3>1, <3>3
  <2>4. CASE Reinit(streak, noise)
    <3>1. reinit_cooldown = 0 /\ zero_streak >= ZeroFrames - 1
          /\ reinit_cooldown' = Cooldown /\ zero_streak' = 0
      BY <1>0, <1>3, <1>5, <2>4 DEF Reinit, Lasting
    <3>2. Ahead <= 0
      BY <1>0, <1>5, <2>1, <3>1
    <3>3. Ahead' = Between
      BY <1>0, <2>0, <3>1 DEF Between, Max
    <3>4. QED
      BY <2>1, <2>4, <3>2, <3>3
  <2>5. QED
    BY <1>3, <2>2, <2>3, <2>4
<1>11. ASSUME Reinit(streak, noise) PROVE ScheduleInv'
  <2>1. lag = 0
    <3>1. Ahead * Saved <= 0
      BY <1>0, <1>10, <1>11, NotAhead
    <3>2. lag > 0 => lag <= Ahead * Saved
      BY <1>1 DEF ScheduleInv
    <3>3. Ahead * Saved \in Int
      BY <1>0, <1>10
    <3>4. QED
      BY <1>4, <3>1, <3>2, <3>3
  <2>2. lag' <= SampleTime + ConfigTime - Period /\ lag' > -Period /\ lag' < Period
    BY <1>0, <1>7, <1>9, <2>1
  <2>3. Between \in Nat /\ Between * Saved \in Int
    BY <1>0 DEF Between, Max
  <2>4. SampleTime + ConfigTime - Period <= Between * Saved
    BY TimingAssumption DEF Saved
  <2>5. lag' <= Ahead' * Saved
    BY <1>0, <1>9, <1>10, <1>11, <2>2, <2>3, <2>4
  <2>6. QED
    BY <1>0, <1>9, <2>2, <2>5 DEF ScheduleInv
<1>12. ASSUME ~Reinit(streak, noise) PROVE ScheduleInv'
  <2>1. d <= SampleTime
    BY <1>0, <1>7, <1>12
  <2>2. lag' <= lag - Saved /\ lag' > -Period /\ lag' < Period
    BY <1>0, <1>4, <1>7, <1>9, <2>1
  <2>3. ASSUME lag' > 0 PROVE lag' <= Ahead' * Saved
    <3>1. lag > 0 /\ lag <= Ahead * Saved
      BY <1>0, <1>1, <1>4, <1>9, <2>2, <2>3 DEF ScheduleInv
    <3>2. Ahead' * Saved >= Ahead * Saved - Saved
      BY <1>0, <1>10, <1>12, OneLess
    <3>3. Ahead * Saved \in Int /\ Ahead' * Saved \in Int
      BY <1>0, <1>10
    <3>4. QED
      BY <1>0, <1>4, <1>9, <2>2, <3>1, <3>2, <3>3
  <2>4. QED
    BY <1>0, <1>9, <2>2, <2>3 DEF ScheduleInv
<1>13. ScheduleInv'
  BY <1>11, <1>12
<1>14. TypeOK'
  <2>1. upsets' \in 0..MaxUpsets
    BY <1>0, <1>1, <1>3 DEF TypeOK
  <2>2. QED
    BY <1>1, <1>2, <1>6, <1>9, <2>1 DEF TypeOK
<1>15. QED
  BY <1>6, <1>13, <1>14 DEF SamplerInv

LEMMA SamplerStep == SamplerInv /\ [Next]_vars => SamplerInv'
<1> SUFFICES ASSUME SamplerInv, [Next]_vars PROVE SamplerInv'
  OBVIOUS
<1>0. /\ Wrap \in Nat /\ Period \in Nat /\ Wrap > 4 * Period /\ Period > 1
      /\ Cooldown \in Nat /\ MaxUpsets \in Nat
  BY TimingAssumption, ReinitAssumption
<1>1. TypeOK /\ StreakInv /\ ScheduleInv
  BY DEF SamplerInv
<1>2. CASE SensorChanges \/ ReceiveCommand \/ UNCHANGED vars
  <2>1. UNCHANGED <<cycle, next_sample_cycle, lag, zero_streak, reinit_cooldown, address>>
    BY <1>2 DEF SensorChanges, ReceiveCommand, vars, schedule, reinit
  <2>2. upsets' \in 0..MaxUpsets /\ sensor' \in {"absent", "asleep", "ready"}
    BY <1>0, <1>1, <1>2 DEF SensorChanges, ReceiveCommand, Disturb, vars, TypeOK
  <2>3. stream_enabled' \in BOOLEAN
    BY <1>1, <1>2, Zenon DEF SensorChanges, ReceiveCommand, vars, TypeOK
  <2>4. QED
    BY <1>1, <2>1, <2>2, <2>3 DEF SamplerInv, TypeOK, StreakInv, ScheduleInv, Ahead
<1>3. CASE Idle
  <2>1. /\ next_sample_cycle' = (cycle + Period) % Wrap
        /\ cycle' = (cycle + 1) % Wrap /\ lag' = 1 - Period
        /\ UNCHANGED <<stream_enabled, address, sensor, zero_streak, reinit_cooldown, upsets>>
    BY <1>0, <1>1, <1>3 DEF Idle, Takes, reinit, TypeOK
  <2>2. cycle \in 0..(Wrap - 1)
    BY <1>1 DEF TypeOK
  <2>3. cycle + 1 \in 0..(2 * Wrap - 1) /\ cycle + Period \in 0..(2 * Wrap - 1)
    BY <1>0, <2>2
  <2>4. (cycle + 1) % Wrap = IF cycle + 1 < Wrap THEN cycle + 1 ELSE cycle + 1 - Wrap
    BY <1>0, <2>2, <2>3, ModSum
  <2>5. (cycle + Period) % Wrap =
          IF cycle + Period < Wrap THEN cycle + Period ELSE cycle + Period - Wrap
    BY <1>0, <2>2, <2>3, ModSum
  <2>6. cycle' \in 0..(Wrap - 1) /\ next_sample_cycle' \in 0..(Wrap - 1)
    BY <1>0, <2>1, <2>2, <2>4, <2>5
  <2>7. ScheduleInv'
    BY <1>0, <2>1, <2>2, <2>4, <2>5 DEF ScheduleInv
  <2>8. QED
    BY <1>0, <1>1, <2>1, <2>6, <2>7 DEF SamplerInv, TypeOK, StreakInv
<1>4. CASE Wait
  <2>1. /\ cycle' = (cycle + 1) % Wrap /\ lag' = lag + 1
        /\ UNCHANGED <<next_sample_cycle, stream_enabled, address, sensor, zero_streak,
                       reinit_cooldown, upsets>>
    BY <1>0, <1>1, <1>4 DEF Wait, Takes, reinit, TypeOK
  <2>2. /\ cycle \in 0..(Wrap - 1) /\ next_sample_cycle \in 0..(Wrap - 1)
        /\ lag \in (-Period)..(Period - 1)
        /\ cycle - next_sample_cycle - lag \in {-Wrap, 0, Wrap}
    BY <1>1 DEF TypeOK, ScheduleInv
  <2>3. Diff(cycle, next_sample_cycle) = lag
    BY <1>0, <2>2, DiffNear
  <2>4. lag < 0
    BY <1>0, <1>4, <2>2, <2>3 DEF Wait, Due
  <2>5. cycle + 1 \in 0..(2 * Wrap - 1)
    BY <1>0, <2>2
  <2>6. (cycle + 1) % Wrap = IF cycle + 1 < Wrap THEN cycle + 1 ELSE cycle + 1 - Wrap
    BY <1>0, <2>2, <2>5, ModSum
  <2>7. cycle' \in 0..(Wrap - 1)
    BY <1>0, <2>1, <2>2, <2>6
  <2>8. ScheduleInv'
    BY <1>0, <2>1, <2>2, <2>4, <2>6 DEF ScheduleInv
  <2>9. QED
    BY <1>0, <1>1, <2>1, <2>2, <2>7, <2>8 DEF SamplerInv, TypeOK, StreakInv
<1>5. CASE SampleFrame
  BY <1>5, FrameStep
<1>6. QED
  BY <1>2, <1>3, <1>4, <1>5 DEF Next, Loop

LEMMA SamplerInductive == Spec => []SamplerInv
BY SamplerInit, SamplerStep, PTL DEF Spec

-----------------------------------------------------------------------------
(* Every variable keeps to its domain; the two counters of the cycle        *)
(* counter to its width.                                                    *)
THEOREM TypeCorrect == Spec => []TypeOK
<1>1. SamplerInv => TypeOK
  BY DEF SamplerInv
<1>2. QED
  BY <1>1, SamplerInductive, PTL

(* The signed difference of two wrapped cycle counts is the true lateness,  *)
(* and the loop catches up after configuring the sensor before it is a      *)
(* period late, for any period, pass times and counter width.               *)
THEOREM ScheduleProved == Spec => []OnSchedule
<1>1. SamplerInv => OnSchedule
  <2>1. SUFFICES ASSUME SamplerInv PROVE OnSchedule
    OBVIOUS
  <2>2. /\ cycle \in 0..(Wrap - 1) /\ next_sample_cycle \in 0..(Wrap - 1)
        /\ lag \in (-Period)..(Period - 1) /\ Period \in Nat
        /\ cycle - next_sample_cycle - lag \in {-Wrap, 0, Wrap}
    BY <2>1, TimingAssumption DEF SamplerInv, TypeOK, ScheduleInv
  <2>3. Diff(cycle, next_sample_cycle) = lag
    BY <2>2, DiffNear
  <2>4. QED
    BY <2>2, <2>3 DEF OnSchedule
<1>2. QED
  BY <1>1, SamplerInductive, PTL

(* SENSOR_REINIT_ZERO_FRAMES and SENSOR_REINIT_COOLDOWN_FRAMES bound the    *)
(* run of zero frames, whichever of the two is larger.                      *)
THEOREM ZeroRunProved == Spec => []ZeroRunBounded
<1>1. SamplerInv => ZeroRunBounded
  BY ReinitAssumption DEF SamplerInv, TypeOK, StreakInv, Between, Max, ZeroRunBounded
<1>2. QED
  BY <1>1, SamplerInductive, PTL

-----------------------------------------------------------------------------
(* The bus: its invariant.                                                  *)

Eight == [1..8 -> {0, 1}]

Mode == {"idle", "address", "receive", "send"}

Device ==
    [mode : Mode, n : 0..9, byte : Eight, out : {0, 1},
     heard : Seq(Eight), sent : Seq(Eight)]

Place == {"init", "rest", "start", "address", "register", "value", "restart", "read",
          "data", "stop"}

Typed ==
    /\ sda \in {0, 1} /\ scl \in {0, 1} /\ dev \in Device
    /\ made \in Nat /\ at \in Place
    /\ at \notin {"init", "rest"} => job \in Jobs
    /\ got \in Seq({0, 1}) /\ data \in Seq(Eight) /\ error \in BOOLEAN /\ done \in Nat

(* What the sensor does to the line follows from how far it is in its byte. *)
Wired(d, high, clock) ==
    /\ d.mode = "idle" => d.n = 0 /\ d.out = 1
    /\ clock = 0 => d.n <= 8
    /\ d.mode \in {"address", "receive"} => d.out = IF d.n = 8 + clock THEN 0 ELSE 1
    /\ d.mode = "address" =>
           /\ d.n = 8 + clock => Addressed(d)
           /\ clock = 1 /\ d.n \in 1..8 => d.byte[d.n] = high
    /\ d.mode \in {"receive", "send"} /\ clock = 1 => d.n > 0
    /\ d.mode = "send" => d.out = IF d.n < 8 + clock THEN d.byte[d.n + 1 - clock] ELSE 1

DeviceInv == Wired(dev, sda, scl)

Idling   == dev.mode = "idle"
Fresh    == dev.mode = "address" /\ dev.n = 0
Ready    == dev.mode = "receive" /\ dev.n = 0

(* The sensor holds the line while the clock is high: it sees no stop.      *)
Deaf ==
    /\ dev.out = 0
    /\ \/ dev.mode = "receive" /\ dev.n = 9
       \/ dev.mode = "send" /\ dev.n \in {7, 8}

(* After k rises of the clock with SDA let go.                              *)
Clocked(k) ==
    \/ Idling
    \/ dev.mode = "receive"
    \/ /\ dev.mode = "address" /\ dev.n >= k
       /\ \A i \in 1..8 : dev.n - k <= i /\ i <= dev.n => dev.byte[i] = 1
    \/ dev.mode = "send" /\ dev.n + 2 >= k /\ (dev.n = 9 => k = 0)

(* After gpio_i2c_init the sensor waits for a start, or is deaf to it.       *)
InitInv ==
    at = "init" =>
        /\ calls = gpio_i2c_init /\ made \in 0..22
        /\ made \in 1..19 => sda = 1 /\ scl = made % 2 /\ Clocked((made - 1) \div 2)
        /\ made \in 20..21 => sda = 0 /\ scl = 1 /\ (Deaf \/ Fresh)
        /\ made = 22 => sda = 1 /\ scl = 1 /\ (Deaf \/ Idling)
        /\ got = <<>> /\ done = 0

(* Between transfers; a deaf sensor is left by an initialisation only.      *)
RestInv ==
    at = "rest" =>
        /\ calls = <<>> /\ made = 0 /\ got = <<>>
        /\ sda = 1 /\ scl = 1 /\ (Idling \/ (done = 0 /\ Deaf))

(* The start gets through, or a deaf sensor takes the address for a byte.   *)
StartInv ==
    at = "start" =>
        /\ calls = i2c_start /\ made \in 0..3
        /\ made <= 1 => sda = 1 /\ scl = 1 /\ (Idling \/ (done = 0 /\ Deaf))
        /\ made = 2  => sda = 0 /\ scl = 1 /\ (Fresh \/ (done = 0 /\ Deaf))
        /\ made = 3  =>
               /\ sda = 0 /\ scl = 0
               /\ Fresh \/ (done = 0 /\ (Ready \/ (dev.mode = "send" /\ dev.n \in {7, 8})))
        /\ got = <<>> /\ data = <<>> /\ ~error

Value == CASE at = "address"  -> Bits(2 * job.address)
           [] at = "register" -> Bits(job.reg)
           [] at = "value"    -> Bits(job.arg)
           [] at = "read"     -> Bits(2 * job.address + 1)

(* The sensor takes the byte as it is put on the line.                      *)
Hears(mode) ==
    /\ made < 28 /\ dev.mode = mode /\ dev.n = (made + 1) \div 3
    /\ \A i \in 1..8 : i <= dev.n => dev.byte[i] = Value[i]

(* The two bytes that address the sensor.                                   *)
Calling == at \in {"address", "read"}

(* The sensor takes the byte, or has just taken it.                         *)
Answers ==
    \/ Hears(IF Calling THEN "address" ELSE "receive")
          /\ (Calling /\ made >= 24 => job.address = Strap)
    \/ /\ made = 28
       /\ IF at = "read" THEN dev.mode = "send" /\ dev.n = 0 ELSE Ready
       /\ Calling => job.address = Strap

(* In the first transfer the sensor may be in a byte of its own.            *)
Mishears ==
    /\ at = "address" /\ done = 0
    /\ \/ Idling
       \/ Hears("receive")
       \/ made = 28 /\ Ready
       \/ /\ made <= 4 /\ dev.mode = "send" /\ dev.n \in {7, 8}
          /\ made >= 2 => dev.n = 8

(* The M4 writes a byte.                                                    *)
Writing == {"address", "register", "value", "read"}

WriteInv ==
    at \in Writing =>
        /\ calls = i2c_write_byte(Value) /\ made \in 0..28
        /\ scl = IF made % 3 = 2 \/ made = 27 THEN 1 ELSE 0
        /\ made \in 1..24 => sda = Value[(made + 2) \div 3]
        /\ made > 24 => sda = 1
        /\ got = IF made < 27 THEN <<>> ELSE IF Idling THEN <<1>> ELSE <<0>>
        /\ \/ Answers
           \/ Calling /\ made >= 24 /\ Idling /\ job.address # Strap
           \/ Mishears
        /\ data = <<>> /\ ~error
        /\ at = "value" => job.kind = "write"
        /\ at = "read" => job.kind = "read"
        /\ at # "address" /\ done > 0 => job.address = Strap

(* The repeated start always gets through: the sensor waits for a byte.     *)
RestartInv ==
    at = "restart" =>
        /\ calls = i2c_start /\ made \in 0..3
        /\ made = 0 => sda = 1 /\ scl = 0 /\ Ready
        /\ made = 1 => sda = 1 /\ scl = 1 /\ dev.mode = "receive" /\ dev.n = 1
        /\ made = 2 => sda = 0 /\ scl = 1 /\ Fresh
        /\ made = 3 => sda = 0 /\ scl = 0 /\ Fresh
        /\ got = <<>> /\ data = <<>> /\ ~error
        /\ job.kind = "read" /\ (done > 0 => job.address = Strap)

(* Another byte follows: this one is acknowledged.                          *)
More == Len(data) + 1 < job.arg

(* The sensor and the M4 are at the same bit of the same byte.              *)
DataInv ==
    at = "data" =>
        /\ calls = i2c_read_byte(More) /\ made \in 0..29
        /\ Len(data) < job.arg
        /\ made <= 24 => scl = IF made % 3 = 1 \/ made = 0 THEN 0 ELSE 1
        /\ made > 24  => scl = IF made = 27 THEN 1 ELSE 0
        /\ made \in 1..25  => sda = 1
        /\ made \in 26..28 => sda = IF More THEN 0 ELSE 1
        /\ Len(got) = IF made <= 24 THEN made \div 3 ELSE 8
        /\ made <= 26 =>
               /\ dev.mode = "send" /\ dev.n = IF made <= 24 THEN (made + 1) \div 3 ELSE 8
               /\ \A i \in 1..8 : i <= Len(got) => got[i] = dev.byte[i]
               /\ dev.sent = Append(data, dev.byte)
        /\ made = 27 =>
               /\ IF More THEN dev.mode = "send" /\ dev.n = 9 ELSE Idling
               /\ dev.sent = Append(data, got)
        /\ made >= 28 =>
               IF More THEN /\ dev.mode = "send" /\ dev.n = 0
                            /\ dev.sent = Append(Append(data, got), dev.byte)
                       ELSE Idling /\ dev.sent = Append(data, got)
        /\ ~error /\ job.kind = "read" /\ (done > 0 => job.address = Strap)

(* The sensor has let SDA go, so that it sees the stop.                     *)
StopInv ==
    at = "stop" =>
        /\ calls = i2c_stop /\ made \in 0..3
        /\ made <= 1 => scl = 0
        /\ made = 1  => sda = 0
        /\ made <= 2 => dev.out = 1
        /\ made = 2  => scl = 1 /\ sda = 0
        /\ made = 3  => scl = 1 /\ sda = 1 /\ Idling
        /\ got = <<>>

(* What the sensor has heard, from the second transfer on.                  *)
HeardInv ==
    done > 0 =>
        /\ at = "address" /\ made = 28 /\ ~Idling => dev.heard = <<>>
        /\ at = "register" => dev.heard = IF made < 24 THEN <<>> ELSE <<Bits(job.reg)>>
        /\ at = "value" => dev.heard = IF made < 24 THEN <<Bits(job.reg)>>
                                                    ELSE <<Bits(job.reg), Bits(job.arg)>>
        /\ at \in {"restart", "read", "data"} => dev.heard = <<Bits(job.reg)>>

(* A read that has addressed the sensor holds the first byte it sends.      *)
SentInv == at = "read" /\ made = 28 /\ ~Idling => dev.sent = <<dev.byte>>

(* The end of a transfer, as TransfersTrue states it.                       *)
Meant ==
    /\ error <=> job.address # Strap
    /\ ~error /\ job.kind = "write" => dev.heard = <<Bits(job.reg), Bits(job.arg)>>
    /\ ~error /\ job.kind = "read" =>
           dev.heard = <<Bits(job.reg)>> /\ data = dev.sent /\ Len(data) = job.arg

ResultInv == (at = "stop" /\ done > 0) \/ (at = "rest" /\ done > 1) => Meant

BusInv ==
    /\ Typed /\ DeviceInv
    /\ InitInv /\ RestInv /\ StartInv /\ WriteInv /\ RestartInv /\ DataInv /\ StopInv
    /\ HeardInv /\ SentInv /\ ResultInv

-----------------------------------------------------------------------------
(* The sensor and the lines, whatever the M4 does.                         *)

(* The bits of a byte, the highest first.                                  *)
LEMMA BitsEight ==
    ASSUME NEW v \in Nat
    PROVE  /\ Bits(v) \in Eight
           /\ Bits(v)[1] = (v \div 128) % 2 /\ Bits(v)[2] = (v \div 64) % 2
           /\ Bits(v)[3] = (v \div 32) % 2  /\ Bits(v)[4] = (v \div 16) % 2
           /\ Bits(v)[5] = (v \div 8) % 2   /\ Bits(v)[6] = (v \div 4) % 2
           /\ Bits(v)[7] = (v \div 2) % 2   /\ Bits(v)[8] = (v \div 1) % 2
<1>1. \A i \in 1..8 : (v \div <<128, 64, 32, 16, 8, 4, 2, 1>>[i]) % 2 \in {0, 1}
  OBVIOUS
<1> QED
  BY <1>1 DEF Bits, Eight

(* The bytes that address a sensor: its bits 1 to 7 are the address, the   *)
(* last one says whether it is to send.  Bit 6 is low in both addresses,   *)
(* which is what keeps nine clocks with SDA let go from being one of them. *)
LEMMA AddressBits ==
    ASSUME NEW a \in {104, 105}
    PROVE  /\ Bits(2 * a)[1] = 1 /\ Bits(2 * a)[2] = 1 /\ Bits(2 * a)[8] = 0
           /\ Bits(2 * a + 1)[8] = 1
           /\ (\A i \in 1..7 : Bits(2 * a)[i] = Bits(2 * Strap)[i]) <=> a = Strap
           /\ (\A i \in 1..7 : Bits(2 * a + 1)[i] = Bits(2 * Strap)[i]) <=> a = Strap
           /\ Bits(2 * Strap)[6] = 0
<1> Strap \in {104, 105}
  BY BusAssumption
<1>1. ASSUME NEW v \in {208, 209, 210, 211}
      PROVE  /\ Bits(v)[1] = 1 /\ Bits(v)[2] = 1 /\ Bits(v)[3] = 0 /\ Bits(v)[4] = 1
             /\ Bits(v)[5] = 0 /\ Bits(v)[6] = 0
  <2>1. v \in Nat
    OBVIOUS
  <2>2. /\ (v \div 128) % 2 = 1 /\ (v \div 64) % 2 = 1 /\ (v \div 32) % 2 = 0
        /\ (v \div 16) % 2 = 1 /\ (v \div 8) % 2 = 0 /\ (v \div 4) % 2 = 0
    OBVIOUS
  <2>3. /\ Bits(v)[1] = (v \div 128) % 2 /\ Bits(v)[2] = (v \div 64) % 2
        /\ Bits(v)[3] = (v \div 32) % 2 /\ Bits(v)[4] = (v \div 16) % 2
        /\ Bits(v)[5] = (v \div 8) % 2 /\ Bits(v)[6] = (v \div 4) % 2
    BY <2>1, BitsEight, Zenon
  <2> QED
    BY <2>2, <2>3, Zenon
<1>2. Bits(208)[8] = 0 /\ Bits(209)[8] = 1 /\ Bits(210)[8] = 0 /\ Bits(211)[8] = 1
  BY BitsEight
<1>3. Bits(208)[7] = 0 /\ Bits(209)[7] = 0 /\ Bits(210)[7] = 1 /\ Bits(211)[7] = 1
  BY BitsEight
<1>4. CASE a = 104
  BY <1>1, <1>2, <1>3, <1>4
<1>5. CASE a = 105
  BY <1>1, <1>2, <1>3, <1>5
<1> QED
    BY <1>4, <1>5

(* The sensor with all its fields set, one by one.                         *)
Update(d, m, n, b, o, h, t) ==
    [d EXCEPT !.mode = m, !.n = n, !.byte = b, !.out = o, !.heard = h, !.sent = t]

LEMMA Updated ==
    ASSUME NEW d \in Device, NEW m \in Mode, NEW n \in 0..9,
           NEW b \in Eight, NEW o \in {0, 1}, NEW h \in Seq(Eight), NEW t \in Seq(Eight)
    PROVE  Update(d, m, n, b, o, h, t) \in Device
<1> DEFINE e == Update(d, m, n, b, o, h, t)
           d1 == [d EXCEPT !.mode = m]
           d2 == [d1 EXCEPT !.n = n]
           d3 == [d2 EXCEPT !.byte = b]
           d4 == [d3 EXCEPT !.out = o]
           d5 == [d4 EXCEPT !.heard = h]
           d6 == [d5 EXCEPT !.sent = t]
<1>1. e = d6
  BY DEF Update
<1>2. d1 \in Device
  BY DEF Device
<1> HIDE DEF d1
<1>3. d2 \in Device
  BY <1>2 DEF Device
<1> HIDE DEF d2
<1>4. d3 \in Device
  BY <1>3 DEF Device
<1> HIDE DEF d3
<1>5. d4 \in Device
  BY <1>4 DEF Device, Mode
<1> HIDE DEF d4
<1>6. d5 \in Device
  BY <1>5 DEF Device
<1> HIDE DEF d5
<1>7. d6 \in Device
  BY <1>6 DEF Device
<1> QED
  BY <1>1, <1>7

(* A stop, and a start, as the sensor sees them.                           *)
LEMMA Freed ==
    ASSUME NEW d \in Device
    PROVE  /\ Free(d) \in Device
           /\ Free(d).mode = "idle" /\ Free(d).n = 0 /\ Free(d).out = 1
           /\ Free(d).heard = d.heard /\ Free(d).sent = d.sent
<1>1. Free(d) = Update(d, "idle", 0, d.byte, 1, d.heard, d.sent)
  BY DEF Free, Update, Device
<1>2. /\ "idle" \in Mode /\ 0 \in 0..9 /\ 1 \in {0, 1}
      /\ d.byte \in Eight /\ d.heard \in Seq(Eight) /\ d.sent \in Seq(Eight)
  BY DEF Device, Mode
<1>3. Free(d) \in Device
  BY <1>1, <1>2, Updated, Zenon
<1> QED
  BY <1>3 DEF Free, Device

LEMMA StartedFresh ==
    ASSUME NEW d \in Device
    PROVE  /\ Started(d) \in Device
           /\ Started(d).mode = "address" /\ Started(d).n = 0 /\ Started(d).out = 1
           /\ Started(d).heard = d.heard /\ Started(d).sent = d.sent
<1>1. Started(d) = Update(d, "address", 0, Bits(0), 1, d.heard, d.sent)
  BY DEF Started, Update, Device
<1>2. /\ "address" \in Mode /\ 0 \in 0..9 /\ 1 \in {0, 1}
      /\ Bits(0) \in Eight /\ d.heard \in Seq(Eight) /\ d.sent \in Seq(Eight)
  BY BitsEight DEF Device, Mode
<1>3. Started(d) \in Device
  BY <1>1, <1>2, Updated, Zenon
<1> QED
  BY <1>3 DEF Started, Device

(* Edges of SDA, a rising clock and a falling one keep the sensor wired.   *)
LEMMA EdgeWired ==
    ASSUME NEW d \in Device, NEW old \in {0, 1}, NEW new \in {0, 1}, NEW clock \in {0, 1},
           Wired(d, old, clock)
    PROVE  /\ DataEdge(d, old, new, clock) \in Device
           /\ Wired(DataEdge(d, old, new, clock), new, clock)
<1> DEFINE e == DataEdge(d, old, new, clock)
<1>1. CASE clock = 0 \/ d.out = 0 \/ old = new
  <2>1. e = d
    BY <1>1 DEF DataEdge
  <2>2. Wired(d, new, clock)
    BY <1>1 DEF Wired, Device, Mode
  <2> QED
    BY <2>1, <2>2
<1>2. CASE clock = 1 /\ d.out = 1 /\ old # new /\ new = 1
  <2>1. e = Free(d)
    BY <1>2 DEF DataEdge
  <2>2. e \in Device /\ e.mode = "idle" /\ e.n = 0 /\ e.out = 1
    BY <2>1, Freed
  <2> QED
    BY <1>2, <2>2 DEF Wired
<1>3. CASE clock = 1 /\ d.out = 1 /\ old # new /\ new = 0
  <2>1. e = Started(d)
    BY <1>3 DEF DataEdge
  <2>2. e \in Device /\ e.mode = "address" /\ e.n = 0 /\ e.out = 1
    BY <2>1, StartedFresh
  <2> QED
    BY <1>3, <2>2 DEF Wired
<1> QED
  BY <1>1, <1>2, <1>3 DEF Device, Mode

LEMMA RiseWired ==
    ASSUME NEW d \in Device, NEW level \in {0, 1}, Wired(d, level, 0)
    PROVE  ClockRises(d, level) \in Device /\ Wired(ClockRises(d, level), level, 1)
<1> DEFINE e == ClockRises(d, level)
<1>1. CASE d.mode = "idle"
  BY <1>1 DEF Wired, ClockRises
<1>2. CASE d.mode = "send" /\ d.n = 8 /\ level = 1
  <2>1. e = Free(d)
    BY <1>2 DEF ClockRises
  <2>2. e \in Device /\ e.mode = "idle" /\ e.n = 0 /\ e.out = 1
    BY <2>1, Freed
  <2> QED
    BY <2>2 DEF Wired
<1>3. CASE d.mode = "send" /\ ~(d.n = 8 /\ level = 1)
  <2>1. e = [d EXCEPT !.n = @ + 1]
    BY <1>3 DEF ClockRises, Device
  <2>2. /\ e \in Device /\ e.mode = "send" /\ e.n = d.n + 1 /\ e.out = d.out
        /\ e.byte = d.byte
    BY <1>3, <2>1 DEF Device, Wired
  <2> QED
    BY <1>3, <2>2 DEF Wired, Device, Mode
<1>4. CASE d.mode \in {"address", "receive"}
  <2>1. d.n \in 0..8 /\ (d.n < 8 => d.n + 1 \in 1..8)
    BY DEF Wired, Device, Mode
  <2> DEFINE bits == IF d.n = 8 THEN d.byte ELSE [d.byte EXCEPT ![d.n + 1] = level]
  <2>2. bits \in Eight
    BY <2>1 DEF Device, Eight
  <2>3. /\ d.mode \in Mode /\ d.n + 1 \in 0..9
        /\ d.out \in {0, 1} /\ d.heard \in Seq(Eight) /\ d.sent \in Seq(Eight)
    BY <2>1 DEF Device, Mode
  <2> HIDE DEF bits
  <2>4. e = Update(d, d.mode, d.n + 1, bits, d.out, d.heard, d.sent)
    BY <1>4 DEF ClockRises, Device, Update, bits
  <2>5. e \in Device
    BY <2>2, <2>3, <2>4, Updated, ZenonT(30)
  <2>6. e.mode = d.mode /\ e.n = d.n + 1 /\ e.out = d.out /\ e.byte = bits
    BY <1>4 DEF ClockRises, Device, bits
  <2>7. /\ e \in Device /\ e.mode = d.mode /\ e.n = d.n + 1 /\ e.out = d.out
        /\ e.byte = IF d.n = 8 THEN d.byte ELSE [d.byte EXCEPT ![d.n + 1] = level]
    BY <2>5, <2>6 DEF bits
  <2>8. d.n < 8 => e.byte[e.n] = level
    BY <2>1, <2>7 DEF Device, Eight
  <2>9. d.n = 8 => Addressed(d) <=> Addressed(e)
    BY <2>7 DEF Addressed
  <2> QED
    BY <1>4, <2>1, <2>7, <2>8, <2>9 DEF Wired, Device, Mode
<1> QED
  BY <1>1, <1>2, <1>3, <1>4 DEF Device, Mode

(* What a sensor does when the clock falls, by what it is doing.           *)
LEMMA FallCases ==
    ASSUME NEW d \in Device, NEW e \in ClockFalls(d)
    PROVE  /\ e \in Device
           /\ d.mode = "idle" => e = d
           /\ d.mode = "address" /\ d.n < 8 => e = d
           /\ d.mode = "address" /\ d.n = 8 /\ Addressed(d) => e = [d EXCEPT !.out = 0]
           /\ d.mode = "address" /\ d.n = 8 /\ ~Addressed(d) =>
                  /\ e.mode = "idle" /\ e.n = 0 /\ e.out = 1
                  /\ e.heard = d.heard /\ e.sent = d.sent
           /\ d.mode = "address" /\ d.n = 9 =>
                  /\ d.byte[8] = 1 =>
                         /\ e.mode = "send" /\ e.n = 0 /\ e.out = e.byte[1]
                         /\ e.heard = d.heard /\ e.sent = <<e.byte>>
                  /\ d.byte[8] # 1 =>
                         /\ e.mode = "receive" /\ e.n = 0 /\ e.out = 1
                         /\ e.heard = <<>> /\ e.sent = d.sent
           /\ d.mode = "receive" /\ d.n < 8 => e = d
           /\ d.mode = "receive" /\ d.n = 8 =>
                  /\ e.mode = d.mode /\ e.n = d.n /\ e.out = 0
                  /\ e.heard = Append(d.heard, d.byte) /\ e.sent = d.sent
           /\ d.mode = "receive" /\ d.n = 9 =>
                  /\ e.mode = "receive" /\ e.n = 0 /\ e.out = 1
                  /\ e.heard = d.heard /\ e.sent = d.sent
           /\ d.mode = "send" /\ d.n = 0 => e = d
           /\ d.mode = "send" /\ d.n \in 1..7 => e = [d EXCEPT !.out = d.byte[d.n + 1]]
           /\ d.mode = "send" /\ d.n = 8 => e = [d EXCEPT !.out = 1]
           /\ d.mode = "send" /\ d.n = 9 =>
                  /\ e.mode = "send" /\ e.n = 0 /\ e.out = e.byte[1]
                  /\ e.heard = d.heard /\ e.sent = Append(d.sent, e.byte)
<1>1. ASSUME NEW c \in Device, NEW f \in Sending(c)
      PROVE  /\ f \in Device /\ f.mode = "send" /\ f.n = 0 /\ f.out = f.byte[1]
             /\ f.heard = c.heard /\ f.sent = Append(c.sent, f.byte)
  <2>1. PICK v \in SensorBytes :
            f = [c EXCEPT !.mode = "send", !.n = 0, !.byte = Bits(v), !.out = Bits(v)[1],
                          !.sent = Append(@, Bits(v))]
    BY DEF Sending
  <2>2. Bits(v) \in Eight /\ Bits(v)[1] \in {0, 1}
    BY BitsEight, BusAssumption DEF Eight
  <2>3. Append(c.sent, Bits(v)) \in Seq(Eight)
    BY <2>2 DEF Device
  <2>4. f = Update(c, "send", 0, Bits(v), Bits(v)[1], c.heard, Append(c.sent, Bits(v)))
    BY <2>1 DEF Device, Update
  <2>5. c.heard \in Seq(Eight) /\ "send" \in Mode /\ 0 \in 0..9
    BY DEF Device, Mode
  <2>6. f \in Device
    BY <2>2, <2>3, <2>4, <2>5, Updated, Zenon
  <2> QED
    BY <2>1, <2>6 DEF Device
<1>2. CASE d.mode = "idle"
  BY <1>2 DEF ClockFalls
<1>3. CASE d.mode = "address" /\ d.n < 8
  BY <1>3 DEF ClockFalls, Device
<1>4. CASE d.mode = "address" /\ d.n = 8 /\ Addressed(d)
  BY <1>4 DEF ClockFalls, Device
<1>5. CASE d.mode = "address" /\ d.n = 8 /\ ~Addressed(d)
  <2>1. e = Free(d)
    BY <1>5 DEF ClockFalls
  <2>2. /\ e \in Device /\ e.mode = "idle" /\ e.n = 0 /\ e.out = 1
        /\ e.heard = d.heard /\ e.sent = d.sent
    BY <2>1, Freed
  <2> QED
    BY <1>5, <2>2
<1>6. CASE d.mode = "address" /\ d.n = 9 /\ d.byte[8] = 1
  <2>1. \A t \in Seq(Eight) : [d EXCEPT !.sent = t] \in Device
    BY DEF Device
  <2>2. <<>> \in Seq(Eight)
    OBVIOUS
  <2>3. [d EXCEPT !.sent = <<>>] \in Device
    BY <2>1, <2>2, Zenon
  <2>4. e \in Sending([d EXCEPT !.sent = <<>>])
    BY <1>6 DEF ClockFalls
  <2>5. Append(<<>>, e.byte) = <<e.byte>>
    OBVIOUS
  <2> QED
    BY <1>1, <1>6, <2>3, <2>4, <2>5 DEF Device
<1>7. CASE d.mode = "address" /\ d.n = 9 /\ d.byte[8] # 1
  <2>1. e = [d EXCEPT !.mode = "receive", !.n = 0, !.byte = Bits(0), !.out = 1, !.heard = <<>>]
    BY <1>7 DEF ClockFalls
  <2>2. e = Update(d, "receive", 0, Bits(0), 1, <<>>, d.sent)
    BY <2>1 DEF Device, Update
  <2>3. /\ "receive" \in Mode /\ 0 \in 0..9 /\ 1 \in {0, 1}
        /\ Bits(0) \in Eight /\ <<>> \in Seq(Eight) /\ d.sent \in Seq(Eight)
    BY BitsEight DEF Device, Mode
  <2>4. e \in Device
    BY <2>2, <2>3, Updated, Zenon
  <2> QED
    BY <1>7, <2>1, <2>4 DEF Device
<1>8. CASE d.mode = "receive" /\ d.n < 8
  BY <1>8 DEF ClockFalls, Device
<1>9. CASE d.mode = "receive" /\ d.n = 8
  <2>1. e = [d EXCEPT !.out = 0, !.heard = Append(@, d.byte)]
    BY <1>9 DEF ClockFalls
  <2>2. e = Update(d, d.mode, d.n, d.byte, 0, Append(d.heard, d.byte), d.sent)
    BY <2>1 DEF Device, Update
  <2>3. /\ 0 \in {0, 1} /\ d.mode \in Mode /\ d.n \in 0..9 /\ d.byte \in Eight
        /\ Append(d.heard, d.byte) \in Seq(Eight) /\ d.sent \in Seq(Eight)
    BY DEF Device, Mode
  <2>4. e \in Device
    BY <2>2, <2>3, Updated, Zenon
  <2> QED
    BY <1>9, <2>1, <2>4 DEF Device
<1>10. CASE d.mode = "receive" /\ d.n = 9
  <2>1. e = [d EXCEPT !.n = 0, !.byte = Bits(0), !.out = 1]
    BY <1>10 DEF ClockFalls
  <2>2. e = Update(d, "receive", 0, Bits(0), 1, d.heard, d.sent)
    BY <1>10, <2>1 DEF Device, Update
  <2>3. /\ "receive" \in Mode /\ 0 \in 0..9 /\ 1 \in {0, 1}
        /\ Bits(0) \in Eight /\ d.heard \in Seq(Eight) /\ d.sent \in Seq(Eight)
    BY BitsEight DEF Device, Mode
  <2>4. e \in Device
    BY <2>2, <2>3, Updated, Zenon
  <2> QED
    BY <1>10, <2>1, <2>4 DEF Device
<1>11. CASE d.mode = "send" /\ d.n = 0
  BY <1>11 DEF ClockFalls, Device
<1>12. CASE d.mode = "send" /\ d.n \in 1..7
  <2>1. d.byte[d.n + 1] \in {0, 1}
    BY <1>12 DEF Device, Eight
  <2> QED
    BY <1>12, <2>1 DEF ClockFalls, Device
<1>13. CASE d.mode = "send" /\ d.n = 8
  BY <1>13 DEF ClockFalls, Device
<1>14. CASE d.mode = "send" /\ d.n = 9
  <2>1. e \in Sending(d)
    BY <1>14 DEF ClockFalls
  <2> QED
    BY <1>1, <1>14, <2>1
<1> QED
  BY <1>2, <1>3, <1>4, <1>5, <1>6, <1>7, <1>8, <1>9, <1>10, <1>11, <1>12, <1>13,
     <1>14 DEF Device, Mode

LEMMA FallWired ==
    ASSUME NEW d \in Device, NEW level \in {0, 1}, Wired(d, level, 1), NEW e \in ClockFalls(d)
    PROVE  e \in Device /\ Wired(e, level, 0)
<1> e \in Device
  BY FallCases
<1>1. CASE d.mode = "idle"
  <2>1. e = d
    BY <1>1, FallCases
  <2> QED
    BY <1>1, <2>1 DEF Wired
<1>2. CASE d.mode = "address" /\ d.n < 8
  <2>1. e = d
    BY <1>2, FallCases
  <2> QED
    BY <1>2, <2>1 DEF Wired, Device, Mode
<1>3. CASE d.mode = "address" /\ d.n = 8 /\ Addressed(d)
  <2>1. e = [d EXCEPT !.out = 0]
    BY <1>3, FallCases
  <2>2. e.mode = "address" /\ e.n = 8 /\ e.out = 0 /\ e.byte = d.byte
    BY <1>3, <2>1 DEF Device
  <2> QED
    BY <1>3, <2>2 DEF Wired, Addressed
<1>4. CASE d.mode = "address" /\ d.n = 8 /\ ~Addressed(d)
  <2>1. e.mode = "idle" /\ e.n = 0 /\ e.out = 1
    BY <1>4, FallCases
  <2> QED
    BY <2>1 DEF Wired
<1>5. CASE d.n = 9 /\ d.mode # "idle"
  <2>1. /\ e.mode \in {"receive", "send"} /\ e.n = 0
        /\ e.mode = "receive" => e.out = 1
        /\ e.mode = "send" => e.out = e.byte[1]
    BY <1>5, FallCases DEF Device, Mode
  <2> QED
    BY <2>1 DEF Wired
<1>6. CASE d.mode = "receive" /\ d.n < 8
  <2>1. e = d
    BY <1>6, FallCases
  <2> QED
    BY <1>6, <2>1 DEF Wired, Device, Mode
<1>7. CASE d.mode = "receive" /\ d.n = 8
  <2>1. e.mode = "receive" /\ e.n = 8 /\ e.out = 0
    BY <1>7, FallCases
  <2> QED
    BY <2>1 DEF Wired
<1>8. CASE d.mode = "send" /\ d.n < 9
  <2>1. d.n > 0
    BY <1>8 DEF Wired
  <2>2. CASE d.n < 8
    <3>1. e = [d EXCEPT !.out = d.byte[d.n + 1]]
      BY <1>8, <2>1, <2>2, FallCases DEF Device
    <3>2. e.mode = "send" /\ e.n = d.n /\ e.byte = d.byte /\ e.out = d.byte[d.n + 1]
      BY <1>8, <3>1 DEF Device
    <3> QED
      BY <2>2, <3>2 DEF Wired, Device
  <2>3. CASE d.n = 8
    <3>1. e = [d EXCEPT !.out = 1]
      BY <1>8, <2>3, FallCases
    <3>2. e.mode = "send" /\ e.n = 8 /\ e.out = 1
      BY <1>8, <2>3, <3>1 DEF Device
    <3> QED
      BY <3>2 DEF Wired
  <2> QED
    BY <1>8, <2>2, <2>3 DEF Device
<1> QED
  BY <1>1, <1>2, <1>3, <1>4, <1>5, <1>6, <1>7, <1>8 DEF Device, Mode

(* Whatever was heard and sent stays so until the clock falls.             *)
LEMMA EdgeKeeps ==
    ASSUME NEW d \in Device, NEW old \in {0, 1}, NEW new \in {0, 1}, NEW clock \in {0, 1}
    PROVE  /\ DataEdge(d, old, new, clock).heard = d.heard
           /\ DataEdge(d, old, new, clock).sent = d.sent
BY Freed, StartedFresh DEF DataEdge

LEMMA RiseKeeps ==
    ASSUME NEW d \in Device, NEW level \in {0, 1}
    PROVE  ClockRises(d, level).heard = d.heard /\ ClockRises(d, level).sent = d.sent
<1>1. CASE d.mode = "idle"
  BY <1>1 DEF ClockRises
<1>2. CASE d.mode # "idle" /\ d.mode = "send" /\ d.n = 8 /\ level = 1
  BY <1>2, Freed DEF ClockRises
<1>3. CASE d.mode # "idle" /\ ~(d.mode = "send" /\ d.n = 8 /\ level = 1)
  BY <1>3 DEF ClockRises, Device
<1> QED
  BY <1>1, <1>2, <1>3

LineCall == DriveData \/ ClockHigh \/ ClockLow \/ BothHigh \/ ReadLine

Line0 == <<calls, at, job, data, error, done, restarts>>

(* What one call does, by which it is.  The device and the lines stay      *)
(* wired whatever the function under way.                                  *)
LEMMA Calls ==
    ASSUME Typed, DeviceInv, LineCall
    PROVE  /\ made < Len(calls) /\ made' = made + 1 /\ UNCHANGED Line0
           /\ calls[made + 1] = "sda+" =>
                  sda' = 1 /\ scl' = scl /\ got' = got /\ dev' = DataEdge(dev, sda, 1, scl)
           /\ calls[made + 1] = "sda-" =>
                  sda' = 0 /\ scl' = scl /\ got' = got /\ dev' = DataEdge(dev, sda, 0, scl)
           /\ calls[made + 1] = "scl+" =>
                  /\ sda' = sda /\ scl' = 1 /\ got' = got
                  /\ scl = 1 => dev' = dev
                  /\ scl = 0 => dev' = ClockRises(dev, sda)
           /\ calls[made + 1] = "scl-" =>
                  /\ sda' = sda /\ scl' = 0 /\ got' = got
                  /\ scl = 0 => dev' = dev
                  /\ scl = 1 => dev' \in ClockFalls(dev)
           /\ calls[made + 1] = "both+" =>
                  /\ sda' = 1 /\ scl' = 1 /\ got' = got
                  /\ scl = 1 => dev' = DataEdge(dev, sda, 1, 1)
                  /\ scl = 0 => dev' \in {ClockRises(DataEdge(dev, sda, 1, 0), 1),
                                         DataEdge(ClockRises(dev, sda), sda, 1, 1)}
           /\ calls[made + 1] = "read" =>
                  sda' = sda /\ scl' = scl /\ got' = Append(got, Line) /\ dev' = dev
           /\ Typed' /\ DeviceInv'
<1> sda \in {0, 1} /\ scl \in {0, 1} /\ dev \in Device /\ made \in Nat
  BY DEF Typed
<1> Wired(dev, sda, scl)
  BY DEF DeviceInv
<1>1. made < Len(calls) /\ made' = made + 1 /\ UNCHANGED Line0
  BY DEF LineCall, DriveData, ClockHigh, ClockLow, BothHigh, ReadLine, Called,
         Line0
<1>2. sda' \in {0, 1} /\ scl' \in {0, 1} /\ got' \in Seq({0, 1}) /\ dev' \in Device
      /\ Wired(dev', sda', scl')
      => Typed' /\ DeviceInv'
  BY <1>1 DEF Typed, DeviceInv, Line0
<1>3. got \in Seq({0, 1})
  BY DEF Typed
<1>4. CASE DriveData
  <2>1. \/ calls[made + 1] = "sda+" /\ sda' = 1
        \/ calls[made + 1] = "sda-" /\ sda' = 0
    BY <1>4 DEF DriveData, Called
  <2>2. dev' = DataEdge(dev, sda, sda', scl) /\ scl' = scl /\ got' = got
    BY <1>4 DEF DriveData
  <2>3. sda' \in {0, 1}
    BY <2>1
  <2>4. dev' \in Device /\ Wired(dev', sda', scl)
    BY <2>2, <2>3, EdgeWired
  <2> QED
    BY <1>1, <1>2, <1>3, <2>1, <2>2, <2>3, <2>4
<1>5. CASE ClockHigh
  <2>1. calls[made + 1] = "scl+" /\ scl' = 1 /\ sda' = sda /\ got' = got
    BY <1>5 DEF ClockHigh, Called
  <2>2. CASE scl = 1
    <3>1. dev' = dev
      BY <1>5, <2>2 DEF ClockHigh
    <3> QED
      BY <1>1, <1>2, <1>3, <2>1, <2>2, <3>1
  <2>3. CASE scl = 0
    <3>1. dev' = ClockRises(dev, sda)
      BY <1>5, <2>3 DEF ClockHigh
    <3>2. dev' \in Device /\ Wired(dev', sda, 1)
      BY <2>3, <3>1, RiseWired
    <3> QED
      BY <1>1, <1>2, <1>3, <2>1, <2>3, <3>1, <3>2
  <2> QED
    BY <2>2, <2>3
<1>6. CASE ClockLow
  <2>1. calls[made + 1] = "scl-" /\ scl' = 0 /\ sda' = sda /\ got' = got
    BY <1>6 DEF ClockLow, Called
  <2>2. CASE scl = 0
    <3>1. dev' = dev
      BY <1>6, <2>2 DEF ClockLow
    <3> QED
      BY <1>1, <1>2, <1>3, <2>1, <2>2, <3>1
  <2>3. CASE scl = 1
    <3>1. dev' \in ClockFalls(dev)
      BY <1>6, <2>3 DEF ClockLow
    <3>2. dev' \in Device /\ Wired(dev', sda, 0)
      BY <2>3, <3>1, FallWired
    <3> QED
      BY <1>1, <1>2, <1>3, <2>1, <2>3, <3>1, <3>2
  <2> QED
    BY <2>2, <2>3
<1>7. CASE BothHigh
  <2>1. calls[made + 1] = "both+" /\ scl' = 1 /\ sda' = 1 /\ got' = got
    BY <1>7 DEF BothHigh, Called
  <2>2. CASE scl = 1
    <3>1. dev' = DataEdge(dev, sda, 1, 1)
      BY <1>7, <2>2 DEF BothHigh
    <3>2. dev' \in Device /\ Wired(dev', 1, 1)
      BY <2>2, <3>1, EdgeWired
    <3> QED
      BY <1>1, <1>2, <1>3, <2>1, <2>2, <3>1, <3>2
  <2>3. CASE scl = 0
    <3> DEFINE a == DataEdge(dev, sda, 1, 0)
               b == ClockRises(dev, sda)
    <3>1. dev' = ClockRises(a, 1) \/ dev' = DataEdge(b, sda, 1, 1)
      BY <1>7, <2>3 DEF BothHigh
    <3>2. a \in Device /\ Wired(a, 1, 0)
      BY <2>3, EdgeWired
    <3>3. b \in Device /\ Wired(b, sda, 1)
      BY <2>3, RiseWired
    <3>4. dev' \in Device /\ Wired(dev', 1, 1)
      <4> HIDE DEF a, b
      <4>1. ClockRises(a, 1) \in Device /\ Wired(ClockRises(a, 1), 1, 1)
        BY <3>2, RiseWired
      <4>2. DataEdge(b, sda, 1, 1) \in Device /\ Wired(DataEdge(b, sda, 1, 1), 1, 1)
        BY <3>3, EdgeWired
      <4> QED
        BY <3>1, <4>1, <4>2
    <3> QED
      BY <1>1, <1>2, <1>3, <2>1, <2>3, <3>1, <3>4
  <2> QED
    BY <2>2, <2>3
<1>8. CASE ReadLine
  <2>1. calls[made + 1] = "read" /\ UNCHANGED <<sda, scl, dev>> /\ got' = Append(got, Line)
    BY <1>8 DEF ReadLine, Called
  <2>2. Line \in {0, 1}
    BY DEF Line
  <2>3. got' \in Seq({0, 1})
    BY <1>3, <2>1, <2>2
  <2> QED
    BY <1>1, <1>2, <2>1, <2>3
<1> QED
  BY <1>4, <1>5, <1>6, <1>7, <1>8 DEF LineCall

(* The calls of the functions, by their place.                             *)
LEMMA InitCalls ==
    /\ Len(gpio_i2c_init) = 22
    /\ gpio_i2c_init[1] = "both+"
    /\ \A k \in 1..18 : gpio_i2c_init[k + 1] = IF k % 2 = 1 THEN "scl-" ELSE "scl+"
    /\ gpio_i2c_init[20] = "sda-" /\ gpio_i2c_init[21] = "scl+" /\ gpio_i2c_init[22] = "sda+"
BY DEF gpio_i2c_init, i2c_stop

LEMMA WriteCalls ==
    ASSUME NEW v \in Eight
    PROVE  LET f == i2c_write_byte(v) IN
           /\ Len(f) = 28
           /\ \A b \in 0..7 : /\ f[3 * b + 1] = Level(v[b + 1])
                              /\ f[3 * b + 2] = "scl+" /\ f[3 * b + 3] = "scl-"
           /\ f[25] = "sda+" /\ f[26] = "scl+" /\ f[27] = "read" /\ f[28] = "scl-"
BY DEF i2c_write_byte, Eight

LEMMA ReadCalls ==
    ASSUME NEW a \in BOOLEAN
    PROVE  LET f == i2c_read_byte(a) IN
           /\ Len(f) = 29
           /\ f[1] = "sda+"
           /\ \A b \in 0..7 : /\ f[3 * b + 2] = "scl+" /\ f[3 * b + 3] = "read"
                              /\ f[3 * b + 4] = "scl-"
           /\ f[26] = IF a THEN "sda-" ELSE "sda+"
           /\ f[27] = "scl+" /\ f[28] = "scl-" /\ f[29] = "sda+"
BY DEF i2c_read_byte

(* Data moves the sensor only while the clock is high.                     *)
LEMMA Moved ==
    ASSUME NEW d \in Device, NEW old \in {0, 1}, NEW new \in {0, 1}
    PROVE  /\ DataEdge(d, old, new, 0) = d
           /\ DataEdge(d, old, old, 1) = d
           /\ d.out = 0 => DataEdge(d, old, new, 1) = d
           /\ d.out = 1 => LET e == DataEdge(d, 0, 1, 1) IN e.mode = "idle" /\ e.n = 0
           /\ d.out = 1 => LET e == DataEdge(d, 1, 0, 1) IN e.mode = "address" /\ e.n = 0
<1>1. /\ DataEdge(d, old, new, 0) = d
      /\ DataEdge(d, old, old, 1) = d
      /\ d.out = 0 => DataEdge(d, old, new, 1) = d
  BY DEF DataEdge
<1>2. d.out = 1 => DataEdge(d, 0, 1, 1) = Free(d)
  BY DEF DataEdge
<1>3. d.out = 1 => DataEdge(d, 1, 0, 1) = Started(d)
  BY DEF DataEdge
<1>4. Free(d).mode = "idle" /\ Free(d).n = 0 /\ Started(d).mode = "address" /\ Started(d).n = 0
  BY Freed, StartedFresh
<1> QED
  BY <1>1, <1>2, <1>3, <1>4

(* A rising clock.                                                         *)
LEMMA Risen ==
    ASSUME NEW d \in Device, NEW level \in {0, 1}, Wired(d, level, 0)
    PROVE  LET e == ClockRises(d, level) IN
           /\ d.mode = "idle" => e = d
           /\ d.mode = "send" /\ d.n = 8 /\ level = 1 => e.mode = "idle" /\ e.n = 0
           /\ d.mode # "idle" /\ ~(d.mode = "send" /\ d.n = 8 /\ level = 1) =>
                  e.mode = d.mode /\ e.n = d.n + 1 /\ e.out = d.out
           /\ d.mode = "send" /\ ~(d.n = 8 /\ level = 1) => e.byte = d.byte
           /\ d.mode \in {"address", "receive"} =>
                  e.byte = IF d.n = 8 THEN d.byte ELSE [d.byte EXCEPT ![d.n + 1] = level]
<1> DEFINE e == ClockRises(d, level)
<1>1. CASE d.mode = "idle"
  BY <1>1 DEF ClockRises
<1>2. CASE d.mode = "send" /\ d.n = 8 /\ level = 1
  <2>1. e = Free(d)
    BY <1>2 DEF ClockRises
  <2> QED
    BY <1>2, <2>1, Freed
<1>3. CASE d.mode = "send" /\ ~(d.n = 8 /\ level = 1)
  <2>1. e = [d EXCEPT !.n = @ + 1]
    BY <1>3 DEF ClockRises, Device
  <2> QED
    BY <1>3, <2>1 DEF Device
<1>4. CASE d.mode \in {"address", "receive"}
  <2>1. e = [d EXCEPT !.n = @ + 1,
                      !.byte = IF d.n = 8 THEN @ ELSE [@ EXCEPT ![d.n + 1] = level]]
    BY <1>4 DEF ClockRises, Device
  <2> QED
    BY <1>4, <2>1 DEF Device
<1> QED
  BY <1>1, <1>2, <1>3, <1>4 DEF Device, Mode

-----------------------------------------------------------------------------
(* The functions, one call each.                                           *)

(* A call of i2c_stop.  SDA falls while the clock is low and the sensor    *)
(* has let it go, so the sensor sees it rise.                              *)
LEMMA StopStep ==
    ASSUME Typed, DeviceInv, StopInv, at = "stop", LineCall
    PROVE  StopInv' /\ dev'.heard = dev.heard /\ dev'.sent = dev.sent
<1>1. /\ calls = i2c_stop /\ made \in 0..3 /\ got = <<>>
      /\ made <= 1 => scl = 0
      /\ made = 1 => sda = 0
      /\ made <= 2 => dev.out = 1
      /\ made = 2 => scl = 1 /\ sda = 0
  BY DEF StopInv
<1>2. Len(i2c_stop) = 3 /\ i2c_stop[1] = "sda-" /\ i2c_stop[2] = "scl+" /\ i2c_stop[3] = "sda+"
  BY DEF i2c_stop
<1>3. made \in 0..2 /\ made' = made + 1 /\ calls' = calls
  BY <1>1, <1>2, Calls DEF Line0
<1> dev \in Device /\ sda \in {0, 1} /\ Wired(dev, sda, scl)
  BY DEF Typed, DeviceInv
<1>4. CASE made = 0
  <2>1. sda' = 0 /\ scl' = 0 /\ got' = got /\ dev' = dev
    BY <1>1, <1>2, <1>4, Calls, Moved
  <2> QED
    BY <1>1, <1>3, <1>4, <2>1 DEF StopInv
<1>5. CASE made = 1
  <2>1. calls[made + 1] = "scl+" /\ sda = 0 /\ scl = 0
    BY <1>1, <1>2, <1>5
  <2>2. sda' = sda /\ scl' = 1 /\ got' = got /\ dev' = ClockRises(dev, sda)
    BY <2>1, Calls
  <2>3. sda' = 0 /\ scl' = 1 /\ got' = got /\ dev' = ClockRises(dev, 0)
    BY <2>1, <2>2
  <2>4. Wired(dev, 0, 0) /\ dev.out = 1
    BY <1>1, <1>5, <2>1
  <2>5. dev'.heard = dev.heard /\ dev'.sent = dev.sent
    BY <2>3, RiseKeeps
  <2>6. dev'.out = 1
    <3>1. CASE dev.mode = "idle"
      BY <2>3, <2>4, <3>1, Risen
    <3>2. CASE dev.mode # "idle"
      <4>1. ~(dev.mode = "send" /\ dev.n = 8 /\ 0 = 1)
        OBVIOUS
      <4>2. ClockRises(dev, 0).out = dev.out
        BY <2>4, <3>2, <4>1, Risen, Zenon
      <4> QED
        BY <2>3, <2>4, <4>2
    <3> QED
      BY <3>1, <3>2
  <2>7. dev'.out = 1 /\ dev'.heard = dev.heard /\ dev'.sent = dev.sent
    BY <2>5, <2>6
  <2> QED
    BY <1>1, <1>3, <1>5, <2>3, <2>7 DEF StopInv
<1>6. CASE made = 2
  <2>1. sda' = 1 /\ scl' = 1 /\ got' = got /\ dev' = DataEdge(dev, 0, 1, 1)
    BY <1>1, <1>2, <1>6, Calls
  <2>2. dev'.mode = "idle" /\ dev'.heard = dev.heard /\ dev'.sent = dev.sent
    BY <1>1, <1>6, <2>1, Moved, EdgeKeeps
  <2> QED
    BY <1>1, <1>3, <1>6, <2>1, <2>2 DEF StopInv, Idling
<1> QED
  BY <1>3, <1>4, <1>5, <1>6

LEMMA StartCalls ==
    /\ Len(i2c_start) = 3
    /\ i2c_start[1] = "both+" /\ i2c_start[2] = "sda-" /\ i2c_start[3] = "scl-"
BY DEF i2c_start

(* A call of the first i2c_start of a transfer, and of the repeated one.   *)
LEMMA StartStep ==
    ASSUME Typed, DeviceInv, StartInv, at = "start", LineCall
    PROVE  StartInv'
<1>1. /\ calls = i2c_start /\ made \in 0..3 /\ got = <<>> /\ data = <<>> /\ ~error
      /\ made <= 1 => sda = 1 /\ scl = 1 /\ (Idling \/ (done = 0 /\ Deaf))
      /\ made = 2  => sda = 0 /\ scl = 1 /\ (Fresh \/ (done = 0 /\ Deaf))
  BY DEF StartInv
<1>2. /\ made \in 0..2 /\ made' = made + 1
      /\ UNCHANGED <<calls, at, job, data, error, done>>
  BY <1>1, StartCalls, Calls DEF Line0
<1> dev \in Device /\ sda \in {0, 1} /\ Wired(dev, sda, scl)
  BY DEF Typed, DeviceInv
<1>3. CASE made = 0
  <2>1. sda' = 1 /\ scl' = 1 /\ got' = got /\ dev' = dev
    BY <1>1, <1>3, StartCalls, Calls, Moved
  <2> QED
    BY <1>1, <1>2, <1>3, <2>1 DEF StartInv, Idling, Deaf
<1>4. CASE made = 1
  <2>1. sda' = 0 /\ scl' = 1 /\ got' = got /\ dev' = DataEdge(dev, 1, 0, 1)
    BY <1>1, <1>4, StartCalls, Calls
  <2>2. CASE Idling
    <3>1. dev.out = 1
      BY <2>2 DEF Idling, Wired
    <3>2. Fresh'
      BY <2>1, <3>1, Moved DEF Fresh
    <3> QED
      BY <1>1, <1>2, <1>4, <2>1, <3>2 DEF StartInv
  <2>3. CASE done = 0 /\ Deaf
    <3>1. dev' = dev
      BY <2>1, <2>3, Moved DEF Deaf
    <3>2. Deaf'
      BY <2>3, <3>1 DEF Deaf
    <3> QED
      BY <1>1, <1>2, <1>4, <2>1, <2>3, <3>2 DEF StartInv
  <2> QED
    BY <1>1, <1>4, <2>2, <2>3
<1>5. CASE made = 2
  <2>1. sda' = 0 /\ scl' = 0 /\ got' = got /\ dev' \in ClockFalls(dev)
    BY <1>1, <1>5, StartCalls, Calls
  <2>2. CASE Fresh
    <3>1. dev' = dev
      BY <2>1, <2>2, FallCases DEF Fresh
    <3>2. Fresh'
      BY <2>2, <3>1 DEF Fresh
    <3> QED
      BY <1>1, <1>2, <1>5, <2>1, <3>2 DEF StartInv
  <2>3. CASE done = 0 /\ Deaf
    <3>1. Ready' \/ (dev'.mode = "send" /\ dev'.n \in {7, 8})
      <4>1. CASE dev.mode = "receive" /\ dev.n = 9
        BY <2>1, <4>1, FallCases DEF Ready
      <4>2. CASE dev.mode = "send" /\ dev.n = 7
        <5>1. dev' = [dev EXCEPT !.out = dev.byte[dev.n + 1]]
          BY <2>1, <4>2, FallCases
        <5> QED
          BY <4>2, <5>1 DEF Device
      <4>3. CASE dev.mode = "send" /\ dev.n = 8
        <5>1. dev' = [dev EXCEPT !.out = 1]
          BY <2>1, <4>3, FallCases
        <5> QED
          BY <4>3, <5>1 DEF Device
      <4> QED
        BY <2>3, <4>1, <4>2, <4>3 DEF Deaf
    <3> QED
      BY <1>1, <1>2, <1>5, <2>1, <2>3, <3>1 DEF StartInv
  <2> QED
    BY <1>1, <1>5, <2>2, <2>3
<1> QED
  BY <1>2, <1>3, <1>4, <1>5

LEMMA RestartStep ==
    ASSUME Typed, DeviceInv, RestartInv, at = "restart", LineCall
    PROVE  RestartInv' /\ dev'.heard = dev.heard
<1>1. /\ calls = i2c_start /\ made \in 0..3 /\ got = <<>> /\ data = <<>> /\ ~error
      /\ job.kind = "read" /\ (done > 0 => job.address = Strap)
      /\ made = 0 => sda = 1 /\ scl = 0 /\ Ready
      /\ made = 1 => sda = 1 /\ scl = 1 /\ dev.mode = "receive" /\ dev.n = 1
      /\ made = 2 => sda = 0 /\ scl = 1 /\ Fresh
  BY DEF RestartInv
<1>2. /\ made \in 0..2 /\ made' = made + 1
      /\ UNCHANGED <<calls, at, job, data, error, done>>
  BY <1>1, StartCalls, Calls DEF Line0
<1> dev \in Device /\ sda \in {0, 1} /\ Wired(dev, sda, scl)
  BY DEF Typed, DeviceInv
<1>3. CASE made = 0
  <2>1. DataEdge(dev, sda, 1, 0) = dev
    BY Moved
  <2>2. /\ sda' = 1 /\ scl' = 1 /\ got' = got
        /\ dev' = ClockRises(dev, 1) \/ dev' = DataEdge(ClockRises(dev, 1), 1, 1, 1)
    <3>1. calls[made + 1] = "both+" /\ sda = 1 /\ scl = 0
      BY <1>1, <1>3, StartCalls
    <3>2. /\ sda' = 1 /\ scl' = 1 /\ got' = got
          /\ \/ dev' = ClockRises(DataEdge(dev, sda, 1, 0), 1)
             \/ dev' = DataEdge(ClockRises(dev, sda), sda, 1, 1)
      BY <3>1, Calls
    <3> QED
      BY <2>1, <3>1, <3>2
  <2>3. ClockRises(dev, 1) \in Device
    BY <1>1, <1>3, RiseWired
  <2>4. dev' = ClockRises(dev, 1)
    BY <2>2, <2>3, Moved
  <2>5. Wired(dev, 1, 0) /\ dev.mode = "receive" /\ dev.n = 0
    BY <1>1, <1>3 DEF Ready
  <2>6. dev'.heard = dev.heard
    BY <2>4, RiseKeeps
  <2>7. ClockRises(dev, 1).mode = dev.mode /\ ClockRises(dev, 1).n = dev.n + 1
    BY <2>5, Risen
  <2>8. dev'.mode = "receive" /\ dev'.n = 1
    BY <2>4, <2>5, <2>7
  <2>9. dev'.mode = "receive" /\ dev'.n = 1 /\ dev'.heard = dev.heard
    BY <2>6, <2>8
  <2> QED
    BY <1>1, <1>2, <1>3, <2>2, <2>9 DEF RestartInv
<1>4. CASE made = 1
  <2>1. sda' = 0 /\ scl' = 1 /\ got' = got /\ dev' = DataEdge(dev, 1, 0, 1)
    BY <1>1, <1>4, StartCalls, Calls
  <2>2. dev.out = 1
    BY <1>1, <1>4 DEF Wired
  <2>3. Fresh' /\ dev'.heard = dev.heard
    BY <2>1, <2>2, Moved, EdgeKeeps DEF Fresh
  <2> QED
    BY <1>1, <1>2, <1>4, <2>1, <2>3 DEF RestartInv
<1>5. CASE made = 2
  <2>1. sda' = 0 /\ scl' = 0 /\ got' = got /\ dev' \in ClockFalls(dev)
    BY <1>1, <1>5, StartCalls, Calls
  <2>2. dev' = dev
    BY <1>1, <1>5, <2>1, FallCases DEF Fresh
  <2>3. Fresh'
    BY <1>1, <1>5, <2>2 DEF Fresh
  <2> QED
    BY <1>1, <1>2, <1>5, <2>1, <2>2, <2>3 DEF RestartInv
<1> QED
  BY <1>2, <1>3, <1>4, <1>5

(* A clock that falls, or rises with SDA let go, keeps count.              *)
LEMMA ClockedFall ==
    ASSUME Typed, DeviceInv, scl = 1, NEW k \in 0..9, Clocked(k), dev' \in ClockFalls(dev)
    PROVE  Clocked(k)'
<1> dev \in Device /\ Wired(dev, sda, 1)
  BY DEF Typed, DeviceInv
<1>1. CASE dev.mode = "idle"
  <2>1. dev' = dev
    BY <1>1, FallCases
  <2> QED
    BY <1>1, <2>1 DEF Clocked, Idling
<1>2. CASE dev.mode = "receive"
  <2>1. dev.n < 8 \/ dev.n = 8 \/ dev.n = 9
    BY DEF Device
  <2>2. CASE dev.n < 8
    BY <1>2, <2>2, FallCases DEF Clocked
  <2>3. CASE dev.n = 8
    BY <1>2, <2>3, FallCases DEF Clocked
  <2>4. CASE dev.n = 9
    BY <1>2, <2>4, FallCases DEF Clocked
  <2> QED
    BY <2>1, <2>2, <2>3, <2>4
<1>3. CASE dev.mode = "address" /\ dev.n < 8
  <2>1. dev' = dev
    BY <1>3, FallCases
  <2> QED
    BY <1>3, <2>1 DEF Clocked, Idling
<1>4. CASE dev.mode = "address" /\ dev.n = 8 /\ Addressed(dev)
  <2>1. dev' = [dev EXCEPT !.out = 0]
    BY <1>4, FallCases
  <2>2. dev'.mode = "address" /\ dev'.n = 8 /\ dev'.byte = dev.byte
    BY <1>4, <2>1 DEF Device
  <2> QED
    BY <1>4, <2>2 DEF Clocked, Idling
<1>5. CASE dev.mode = "address" /\ dev.n = 8 /\ ~Addressed(dev)
  <2>1. dev'.mode = "idle"
    BY <1>5, FallCases
  <2> QED
    BY <2>1 DEF Clocked, Idling
<1>6. CASE dev.mode = "address" /\ dev.n = 9
  <2>1. Addressed(dev)
    BY <1>6 DEF Wired
  <2>2. dev.byte[6] = 0
    BY <2>1, AddressBits, BusAssumption DEF Addressed
  <2>3. k <= 2
    BY <1>6, <2>2 DEF Clocked, Idling
  <2>4. dev'.mode = "receive" \/ (dev'.mode = "send" /\ dev'.n = 0)
    BY <1>6, FallCases
  <2> QED
    BY <2>3, <2>4 DEF Clocked
<1>7. CASE dev.mode = "send"
  <2>1. dev.n + 2 >= k /\ (dev.n = 9 => k = 0) /\ dev.n \in 0..9
    BY <1>7 DEF Clocked, Idling, Device
  <2>2. CASE dev.n = 9
    <3>1. dev'.mode = "send" /\ dev'.n = 0
      BY <1>7, <2>2, FallCases
    <3> QED
      BY <2>1, <2>2, <3>1 DEF Clocked
  <2>3. CASE dev.n < 9
    <3>1. dev' = dev \/ (\E o : dev' = [dev EXCEPT !.out = o])
      BY <1>7, <2>1, <2>3, FallCases
    <3>2. dev'.mode = "send" /\ dev'.n = dev.n
      BY <1>7, <3>1 DEF Device
    <3> QED
      BY <2>1, <3>2 DEF Clocked
  <2> QED
    BY <2>1, <2>2, <2>3
<1> QED
  BY <1>1, <1>2, <1>3, <1>4, <1>5, <1>6, <1>7 DEF Device, Mode, Wired

LEMMA ClockedRise ==
    ASSUME Typed, DeviceInv, scl = 0, sda = 1, NEW k \in 0..8, Clocked(k),
           dev' = ClockRises(dev, 1)
    PROVE  Clocked(k + 1)'
<1> dev \in Device /\ Wired(dev, 1, 0)
  BY DEF Typed, DeviceInv
<1>1. dev.n \in 0..8
  BY DEF Wired, Device
<1>2. CASE dev.mode = "idle"
  <2>1. dev' = dev
    BY <1>2, Risen
  <2> QED
    BY <1>2, <2>1 DEF Clocked, Idling
<1>3. CASE dev.mode = "receive"
  <2>1. ClockRises(dev, 1).mode = dev.mode
    BY <1>3, Risen
  <2> QED
    BY <1>3, <2>1 DEF Clocked
<1>4. CASE dev.mode = "address"
  <2>1. /\ ClockRises(dev, 1).mode = dev.mode /\ ClockRises(dev, 1).n = dev.n + 1
        /\ ClockRises(dev, 1).byte =
               IF dev.n = 8 THEN dev.byte ELSE [dev.byte EXCEPT ![dev.n + 1] = 1]
    BY <1>4, Risen
  <2>2. dev.n >= k /\ \A i \in 1..8 : dev.n - k <= i /\ i <= dev.n => dev.byte[i] = 1
    BY <1>4 DEF Clocked, Idling
  <2>3. ASSUME NEW i \in 1..8, dev.n - k <= i, i <= dev.n + 1
        PROVE  dev'.byte[i] = 1
    <3>1. CASE dev.n = 8
      BY <2>1, <2>2, <2>3, <3>1
    <3>2. CASE dev.n < 8
      <4>1. dev'.byte = [dev.byte EXCEPT ![dev.n + 1] = 1] /\ dev.byte \in Eight
        BY <2>1, <3>2 DEF Device
      <4>2. CASE i = dev.n + 1
        BY <4>1, <4>2 DEF Eight
      <4>3. CASE i <= dev.n
        BY <1>1, <2>2, <2>3, <4>1, <4>3 DEF Eight
      <4> QED
        BY <1>1, <2>3, <4>2, <4>3
    <3> QED
      BY <1>1, <3>1, <3>2
  <2>4. dev'.mode = "address" /\ dev'.n = dev.n + 1
    BY <1>4, <2>1
  <2>5. \A i \in 1..8 : dev'.n - (k + 1) <= i /\ i <= dev'.n => dev'.byte[i] = 1
    BY <1>1, <2>3, <2>4
  <2> QED
    BY <1>1, <2>2, <2>4, <2>5 DEF Clocked
<1>5. CASE dev.mode = "send"
  <2>1. dev.n + 2 >= k
    BY <1>5 DEF Clocked, Idling
  <2>2. CASE dev.n = 8
    <3>1. ClockRises(dev, 1).mode = "idle"
      BY <1>5, <2>2, Risen
    <3> QED
      BY <3>1 DEF Clocked, Idling
  <2>3. CASE dev.n < 8
    <3>1. ~(dev.mode = "send" /\ dev.n = 8 /\ 1 = 1)
      BY <2>3 DEF Device
    <3>2. ClockRises(dev, 1).mode = dev.mode /\ ClockRises(dev, 1).n = dev.n + 1
      BY <1>5, <3>1, Risen
    <3> QED
      BY <1>1, <1>5, <2>1, <2>3, <3>2 DEF Clocked
  <2> QED
    BY <1>1, <2>2, <2>3
<1> QED
  BY <1>2, <1>3, <1>4, <1>5 DEF Device, Mode

(* A call of gpio_i2c_init: after nine clocks the sensor is idle, or it    *)
(* holds SDA and does not see the stop.                                    *)
LEMMA InitStep ==
    ASSUME Typed, DeviceInv, InitInv, at = "init", LineCall
    PROVE  InitInv'
<1>1. /\ calls = gpio_i2c_init /\ made \in 0..22 /\ got = <<>> /\ done = 0
      /\ made \in 1..19 => sda = 1 /\ scl = made % 2 /\ Clocked((made - 1) \div 2)
      /\ made \in 20..21 => sda = 0 /\ scl = 1 /\ (Deaf \/ Fresh)
  BY DEF InitInv
<1>2. /\ made \in 0..21 /\ made' = made + 1
      /\ UNCHANGED <<calls, at, job, data, error, done>>
  BY <1>1, InitCalls, Calls DEF Line0
<1>3. Typed' /\ DeviceInv'
  BY Calls
<1> dev \in Device /\ sda \in {0, 1} /\ Wired(dev, sda, scl)
  BY DEF Typed, DeviceInv
<1>4. CASE made = 0
  <2>1. calls[made + 1] = "both+"
    BY <1>1, <1>4, InitCalls
  <2>2. sda' = 1 /\ scl' = 1 /\ got' = got
    BY <2>1, Calls
  <2>3. dev' \in Device /\ Wired(dev', 1, 1)
    BY <1>3, <2>2 DEF Typed, DeviceInv
  <2>4. Clocked(0)'
    BY <2>3, SMTT(20) DEF Clocked, Idling, Wired, Device, Mode
  <2> QED
    BY <1>1, <1>2, <1>4, <2>2, <2>4 DEF InitInv
<1>5. ASSUME NEW k \in 0..8, made = 2 * k + 1
      PROVE  InitInv'
  <2>1. scl = 1 /\ sda = 1 /\ Clocked(k)
    <3>1. made \in 1..19 /\ made % 2 = 1 /\ (made - 1) \div 2 = k
      BY <1>5
    <3> QED
      BY <1>1, <3>1
  <2>2. calls[made + 1] = "scl-"
    BY <1>1, <1>5, InitCalls, SMTT(20)
  <2>3. sda' = 1 /\ scl' = 0 /\ got' = got /\ dev' \in ClockFalls(dev)
    BY <2>1, <2>2, Calls
  <2>4. Clocked(k)'
    BY <2>1, <2>3, ClockedFall
  <2>5. made' \in 2..18 /\ made' % 2 = 0 /\ (made' - 1) \div 2 = k
    BY <1>2, <1>5
  <2> QED
    BY <1>1, <1>2, <2>3, <2>4, <2>5 DEF InitInv
<1>6. ASSUME NEW k \in 0..8, made = 2 * k + 2
      PROVE  InitInv'
  <2>1. scl = 0 /\ sda = 1 /\ Clocked(k)
    <3>1. made \in 1..19 /\ made % 2 = 0 /\ (made - 1) \div 2 = k
      BY <1>6
    <3> QED
      BY <1>1, <3>1
  <2>2. calls[made + 1] = "scl+"
    BY <1>1, <1>6, InitCalls, SMTT(20)
  <2>3. sda' = 1 /\ scl' = 1 /\ got' = got /\ dev' = ClockRises(dev, 1)
    BY <2>1, <2>2, Calls
  <2>4. Clocked(k + 1)'
    BY <2>1, <2>3, ClockedRise
  <2>5. made' \in 3..19 /\ made' % 2 = 1 /\ (made' - 1) \div 2 = k + 1
    BY <1>2, <1>6
  <2> QED
    BY <1>1, <1>2, <2>3, <2>4, <2>5 DEF InitInv
<1>7. CASE made = 19
  <2>1. sda = 1 /\ scl = 1 /\ Clocked(9)
    BY <1>1, <1>7
  <2>2. calls[made + 1] = "sda-"
    BY <1>1, <1>7, InitCalls
  <2>3. sda' = 0 /\ scl' = 1 /\ got' = got /\ dev' = DataEdge(dev, 1, 0, 1)
    BY <2>1, <2>2, Calls
  <2>4. CASE dev.out = 1
    <3>1. Fresh'
      BY <2>3, <2>4, Moved DEF Fresh
    <3> QED
      BY <1>1, <1>2, <1>7, <2>3, <3>1 DEF InitInv
  <2>5. CASE dev.out = 0
    <3>1. dev' = dev
      BY <2>3, <2>5, Moved
    <3>2. dev.mode # "idle"
      BY <2>5 DEF Wired
    <3>3. dev.mode # "address"
      <4> SUFFICES ASSUME dev.mode = "address" PROVE FALSE
        OBVIOUS
      <4>1. dev.n = 9 /\ Addressed(dev)
        BY <2>1, <2>5 DEF Wired
      <4>2. dev.byte[6] = 0
        BY <4>1, AddressBits, BusAssumption DEF Addressed
      <4> QED
        BY <2>1, <4>1, <4>2 DEF Clocked, Idling
    <3>4. dev.mode = "receive" => dev.n = 9
      BY <2>1, <2>5 DEF Wired
    <3>5. dev.mode = "send" => dev.n \in {7, 8}
      BY <2>1 DEF Clocked, Idling, Device
    <3>6. Deaf'
      BY <2>5, <3>1, <3>2, <3>3, <3>4, <3>5 DEF Deaf, Device, Mode
    <3> QED
      BY <1>1, <1>2, <1>7, <2>3, <3>6 DEF InitInv
  <2> QED
    BY <2>4, <2>5 DEF Device
<1>8. CASE made = 20
  <2>1. sda = 0 /\ scl = 1 /\ calls[made + 1] = "scl+"
    BY <1>1, <1>8, InitCalls
  <2>2. sda' = 0 /\ scl' = 1 /\ got' = got /\ dev' = dev
    BY <2>1, Calls
  <2>3. (Deaf \/ Fresh)'
    BY <1>1, <1>8, <2>2 DEF Deaf, Fresh
  <2> QED
    BY <1>1, <1>2, <1>8, <2>2, <2>3 DEF InitInv
<1>9. CASE made = 21
  <2>1. sda = 0 /\ scl = 1 /\ calls[made + 1] = "sda+"
    BY <1>1, <1>9, InitCalls
  <2>2. sda' = 1 /\ scl' = 1 /\ got' = got /\ dev' = DataEdge(dev, 0, 1, 1)
    BY <2>1, Calls
  <2>3. (Deaf \/ Idling)'
    <3>1. CASE Deaf
      <4>1. dev' = dev
        BY <2>2, <3>1, Moved DEF Deaf
      <4> QED
        BY <3>1, <4>1 DEF Deaf
    <3>2. CASE Fresh
      <4>1. dev.out = 1
        BY <2>1, <3>2 DEF Fresh, Wired
      <4> QED
        BY <2>2, <4>1, Moved DEF Idling
    <3> QED
      BY <1>1, <1>9, <3>1, <3>2
  <2> QED
    BY <1>1, <1>2, <1>9, <2>2, <2>3 DEF InitInv
<1>10. \/ made = 0 \/ \E k \in 0..8 : made = 2 * k + 1
       \/ \E k \in 0..8 : made = 2 * k + 2
       \/ made \in {19, 20, 21}
  BY <1>2
<1> QED
  BY <1>4, <1>5, <1>6, <1>7, <1>8, <1>9, <1>10

(* Eight bits read one by one are the byte they were read from.            *)
LEMMA SameBits ==
    ASSUME NEW s \in Seq({0, 1}), NEW b \in Eight, Len(s) = 8, \A i \in 1..8 : s[i] = b[i]
    PROVE  s = b
<1>1. s \in [1..8 -> {0, 1}]
  BY LenProperties
<1> QED
  BY <1>1 DEF Eight

(* A call of i2c_read_byte.                                                *)
LEMMA DataStep ==
    ASSUME Typed, DeviceInv, DataInv, at = "data", LineCall
    PROVE  DataInv' /\ dev'.heard = dev.heard
<1>1. /\ calls = i2c_read_byte(More) /\ made \in 0..29 /\ Len(data) < job.arg
      /\ made <= 24 => scl = IF made % 3 = 1 \/ made = 0 THEN 0 ELSE 1
      /\ made > 24  => scl = IF made = 27 THEN 1 ELSE 0
      /\ made \in 1..25  => sda = 1
      /\ made \in 26..28 => sda = IF More THEN 0 ELSE 1
      /\ Len(got) = IF made <= 24 THEN made \div 3 ELSE 8
      /\ made <= 26 =>
             /\ dev.mode = "send" /\ dev.n = IF made <= 24 THEN (made + 1) \div 3 ELSE 8
             /\ \A i \in 1..8 : i <= Len(got) => got[i] = dev.byte[i]
             /\ dev.sent = Append(data, dev.byte)
      /\ ~error /\ job.kind = "read" /\ (done > 0 => job.address = Strap)
  BY DEF DataInv
<1>2. More \in BOOLEAN /\ More' \in BOOLEAN
  BY DEF More
<1>3. /\ Len(calls) = 29 /\ calls[1] = "sda+"
      /\ \A b \in 0..7 : /\ calls[3 * b + 2] = "scl+" /\ calls[3 * b + 3] = "read"
                         /\ calls[3 * b + 4] = "scl-"
      /\ calls[26] = IF More THEN "sda-" ELSE "sda+"
      /\ calls[27] = "scl+" /\ calls[28] = "scl-" /\ calls[29] = "sda+"
  BY <1>1, <1>2, ReadCalls, SMTT(20)
<1>4. /\ made \in 0..28 /\ made' = made + 1
      /\ UNCHANGED <<calls, at, job, data, error, done>>
  BY <1>1, <1>3, Calls DEF Line0
<1>5. More' = More /\ (calls = i2c_read_byte(More))'
  BY <1>1, <1>4 DEF More
<1>6. dev \in Device /\ sda \in {0, 1} /\ got \in Seq({0, 1}) /\ dev.byte \in Eight
  BY DEF Typed, Device
<1>7. Wired(dev, sda, scl)
  BY DEF DeviceInv
<1> DEFINE Kept == /\ (~error)' /\ (job.kind = "read")' /\ (Len(data) < job.arg)'
                   /\ (done > 0 => job.address = Strap)'
<1>8. Kept
  BY <1>1, <1>4
<1> HIDE DEF Kept
<1>9. CASE made = 0
  <2>1. calls[made + 1] = "sda+" /\ scl = 0
    BY <1>1, <1>3, <1>9
  <2>2. sda' = 1 /\ scl' = 0 /\ got' = got /\ dev' = dev
    BY <1>6, <2>1, Calls, Moved
  <2>3. made' = 1 /\ dev.n = 0 /\ Len(got) = 0
    BY <1>1, <1>4, <1>9
  <2> QED
    BY <1>1, <1>4, <1>5, <1>8, <1>9, <2>2, <2>3 DEF DataInv, Kept
<1>10. ASSUME NEW b \in 0..7, made = 3 * b + 1
       PROVE  DataInv' /\ dev'.heard = dev.heard
  <2>1. (made + 1) \div 3 = b /\ made \div 3 = b /\ made % 3 = 1
    BY <1>10
  <2>2. scl = 0 /\ sda = 1 /\ dev.mode = "send" /\ dev.n = b /\ Len(got) = b
    BY <1>1, <1>10, <2>1
  <2>3. calls[made + 1] = "scl+"
    BY <1>3, <1>10
  <2>4. sda' = 1 /\ scl' = 1 /\ got' = got /\ dev' = ClockRises(dev, 1)
    BY <2>2, <2>3, Calls
  <2>5. Wired(dev, 1, 0) /\ ~(dev.mode = "send" /\ dev.n = 8 /\ 1 = 1) /\ dev.mode # "idle"
    BY <1>7, <2>2
  <2>6. dev'.mode = dev.mode /\ dev'.n = dev.n + 1 /\ dev'.byte = dev.byte
    BY <1>6, <2>2, <2>4, <2>5, Risen
  <2>7. dev'.heard = dev.heard /\ dev'.sent = dev.sent
    BY <1>6, <2>4, RiseKeeps
  <2>8. made' = 3 * b + 2 /\ (made' + 1) \div 3 = b + 1 /\ made' \div 3 = b /\ made' % 3 = 2
    BY <1>4, <1>10
  <2> QED
    BY <1>1, <1>4, <1>5, <1>8, <1>10, <2>2, <2>4, <2>6, <2>7, <2>8, SMTT(20)
      DEF DataInv, Kept
<1>11. ASSUME NEW b \in 0..7, made = 3 * b + 2
       PROVE  DataInv' /\ dev'.heard = dev.heard
  <2>1. (made + 1) \div 3 = b + 1 /\ made \div 3 = b /\ made % 3 = 2
    BY <1>11
  <2>2. scl = 1 /\ sda = 1 /\ dev.mode = "send" /\ dev.n = b + 1 /\ Len(got) = b
    BY <1>1, <1>11, <2>1
  <2>3. calls[made + 1] = "read"
    BY <1>3, <1>11
  <2>4. sda' = sda /\ scl' = scl /\ got' = Append(got, Line) /\ dev' = dev
    BY <2>3, Calls
  <2>5. dev.out = dev.byte[b + 1]
    BY <1>7, <2>2 DEF Wired
  <2>6. Line = dev.byte[b + 1]
    BY <1>6, <2>2, <2>5 DEF Line, Device
  <2>7. Len(got') = b + 1 /\ \A i \in 1..8 : i <= b + 1 => got'[i] = dev.byte[i]
    <3>1. Line \in {0, 1} /\ \A i \in 1..8 : i <= Len(got) => got[i] = dev.byte[i]
      BY <1>1, <1>11 DEF Line
    <3>2. /\ Len(Append(got, Line)) = Len(got) + 1
          /\ \A i \in 1..Len(got) : Append(got, Line)[i] = got[i]
          /\ Append(got, Line)[Len(got) + 1] = Line
      BY <1>6, <3>1, AppendProperties
    <3> QED
      BY <2>2, <2>4, <2>6, <3>1, <3>2
  <2>8. made' = 3 * b + 3 /\ (made' + 1) \div 3 = b + 1 /\ made' \div 3 = b + 1 /\ made' % 3 = 0
    BY <1>4, <1>11
  <2> QED
    BY <1>1, <1>4, <1>5, <1>8, <1>11, <2>2, <2>4, <2>7, <2>8 DEF DataInv, Kept
<1>12. ASSUME NEW b \in 0..7, made = 3 * b + 3
       PROVE  DataInv' /\ dev'.heard = dev.heard
  <2>1. (made + 1) \div 3 = b + 1 /\ made \div 3 = b + 1 /\ made % 3 = 0
    BY <1>12
  <2>2. scl = 1 /\ sda = 1 /\ dev.mode = "send" /\ dev.n = b + 1 /\ Len(got) = b + 1
    BY <1>1, <1>12, <2>1
  <2>3. calls[made + 1] = "scl-"
    BY <1>3, <1>12
  <2>4. sda' = 1 /\ scl' = 0 /\ got' = got /\ dev' \in ClockFalls(dev)
    BY <2>2, <2>3, Calls
  <2>5. \E o : dev' = [dev EXCEPT !.out = o]
    <3>1. CASE b < 7
      BY <1>6, <2>2, <2>4, <3>1, FallCases
    <3>2. CASE b = 7
      BY <1>6, <2>2, <2>4, <3>2, FallCases
    <3> QED
      BY <3>1, <3>2
  <2>6. /\ dev'.mode = dev.mode /\ dev'.n = dev.n /\ dev'.byte = dev.byte
        /\ dev'.heard = dev.heard /\ dev'.sent = dev.sent
    BY <1>6, <2>5 DEF Device
  <2>7. /\ made' = 3 * b + 4 /\ (made' + 1) \div 3 = b + 1 /\ made' \div 3 = b + 1
        /\ made' % 3 = 1
    BY <1>4, <1>12
  <2>8. /\ \A i \in 1..8 : i <= Len(got') => got'[i] = dev'.byte[i]
        /\ (dev.sent = Append(data, dev.byte))'
    BY <1>1, <1>4, <1>12, <2>4, <2>6
  <2>9. Len(got') = IF made' <= 24 THEN made' \div 3 ELSE 8
    BY <2>2, <2>4, <2>7
  <2>10. dev'.n = IF made' <= 24 THEN (made' + 1) \div 3 ELSE 8
    BY <2>2, <2>6, <2>7
  <2>11. made' \in 4..25 /\ (made' <= 24 => made' % 3 = 1)
    BY <2>7
  <2> QED
    BY <1>1, <1>4, <1>5, <1>8, <2>2, <2>4, <2>6, <2>8, <2>9, <2>10, <2>11
      DEF DataInv, Kept
<1>13. CASE made = 25
  <2>1. calls[made + 1] = IF More THEN "sda-" ELSE "sda+"
    BY <1>3, <1>13
  <2>2. scl = 0
    BY <1>1, <1>13
  <2>3. sda' = (IF More THEN 0 ELSE 1) /\ scl' = 0 /\ got' = got /\ dev' = dev
    BY <1>6, <2>1, <2>2, Calls, Moved
  <2> QED
    BY <1>1, <1>4, <1>5, <1>8, <1>13, <2>3 DEF DataInv, Kept
<1>14. CASE made = 26
  <2>1. calls[made + 1] = "scl+" /\ scl = 0 /\ sda = IF More THEN 0 ELSE 1
    BY <1>1, <1>3, <1>14
  <2>2. sda' = sda /\ scl' = 1 /\ got' = got /\ dev' = ClockRises(dev, sda)
    BY <2>1, Calls
  <2>3. dev.mode = "send" /\ dev.n = 8
    BY <1>1, <1>14
  <2>4. Wired(dev, sda, 0)
    BY <1>7, <2>1
  <2>5. dev'.heard = dev.heard /\ dev'.sent = dev.sent
    BY <1>6, <2>2, RiseKeeps
  <2>6. got = dev.byte
    <3>1. Len(got) = 8 /\ \A i \in 1..8 : got[i] = dev.byte[i]
      BY <1>1, <1>14
    <3> QED
      BY <1>6, <3>1, SameBits, Zenon
  <2>7. IF More THEN dev'.mode = "send" /\ dev'.n = 9 ELSE Idling'
    <3>1. CASE More
      <4>1. sda = 0 /\ ~(dev.mode = "send" /\ dev.n = 8 /\ sda = 1)
        BY <2>1, <3>1
      <4>2. /\ ClockRises(dev, sda).mode = dev.mode
            /\ ClockRises(dev, sda).n = dev.n + 1
        BY <1>6, <2>3, <2>4, <4>1, Risen
      <4> QED
        BY <2>2, <2>3, <3>1, <4>2
    <3>2. CASE ~More
      BY <1>6, <2>1, <2>2, <2>3, <2>4, <3>2, Risen DEF Idling
    <3> QED
      BY <3>1, <3>2
  <2> QED
    BY <1>1, <1>4, <1>5, <1>8, <1>14, <2>1, <2>2, <2>5, <2>6, <2>7
      DEF DataInv, Kept
<1>15. CASE made = 27
  <2>1. calls[made + 1] = "scl-" /\ scl = 1 /\ sda = IF More THEN 0 ELSE 1
    BY <1>1, <1>3, <1>15
  <2>2. sda' = sda /\ scl' = 0 /\ got' = got /\ dev' \in ClockFalls(dev)
    BY <2>1, Calls
  <2>3. /\ IF More THEN dev.mode = "send" /\ dev.n = 9 ELSE Idling
        /\ dev.sent = Append(data, got)
    BY <1>15 DEF DataInv
  <2>4. CASE More
    <3>1. /\ dev'.mode = "send" /\ dev'.n = 0 /\ dev'.heard = dev.heard
          /\ dev'.sent = Append(dev.sent, dev'.byte)
      BY <1>6, <2>2, <2>3, <2>4, FallCases
    <3> QED
      BY <1>1, <1>4, <1>5, <1>8, <1>15, <2>1, <2>2, <2>3, <2>4, <3>1
        DEF DataInv, Kept
  <2>5. CASE ~More
    <3>1. dev' = dev
      BY <1>6, <2>2, <2>3, <2>5, FallCases DEF Idling
    <3> QED
      BY <1>1, <1>4, <1>5, <1>8, <1>15, <2>1, <2>2, <2>3, <2>5, <3>1
        DEF DataInv, Kept, Idling
  <2> QED
    BY <2>4, <2>5
<1>16. CASE made = 28
  <2>1. calls[made + 1] = "sda+" /\ scl = 0
    BY <1>1, <1>3, <1>16
  <2>2. sda' = 1 /\ scl' = 0 /\ got' = got /\ dev' = dev
    BY <1>6, <2>1, Calls, Moved
  <2>3. IF More THEN /\ dev.mode = "send" /\ dev.n = 0
                     /\ dev.sent = Append(Append(data, got), dev.byte)
                ELSE Idling /\ dev.sent = Append(data, got)
    BY <1>16 DEF DataInv
  <2> QED
    BY <1>1, <1>4, <1>5, <1>8, <1>16, <2>2, <2>3 DEF DataInv, Kept, Idling
<1>17. \/ made \in {0, 25, 26, 27, 28}
       \/ \E b \in 0..7 : made = 3 * b + 1
       \/ \E b \in 0..7 : made = 3 * b + 2
       \/ \E b \in 0..7 : made = 3 * b + 3
  BY <1>4
<1> QED
  BY <1>9, <1>10, <1>11, <1>12, <1>13, <1>14, <1>15, <1>16, <1>17

(* The arguments of a transfer, and the byte under way.                    *)
LEMMA JobTypes ==
    ASSUME NEW j \in Jobs
    PROVE  /\ j.kind \in {"read", "write"} /\ j.address \in {104, 105}
           /\ j.reg \in Nat /\ j.arg \in Nat
           /\ j.kind = "read" => j.arg > 0
BY BusAssumption DEF Jobs

LEMMA ValueEight ==
    ASSUME Typed, at \in Writing
    PROVE  /\ Value \in Eight
           /\ at \in {"address", "read"} =>
                  /\ Value[1] = 1 /\ Value[2] = 1
                  /\ (\A i \in 1..7 : Value[i] = Bits(2 * Strap)[i]) <=> job.address = Strap
           /\ at = "address" => Value[8] = 0
           /\ at = "read" => Value[8] = 1
           /\ at = "register" => Value = Bits(job.reg)
           /\ at = "value" => Value = Bits(job.arg)
<1>1. /\ job.kind \in {"read", "write"} /\ job.address \in {104, 105}
      /\ job.reg \in Nat /\ job.arg \in Nat
  BY JobTypes DEF Typed, Writing
<1>2. CASE at = "address"
  <2>1. Value = Bits(2 * job.address) /\ 2 * job.address \in Nat
    BY <1>1, <1>2 DEF Value
  <2>2. Bits(2 * job.address) \in Eight
    BY <2>1, BitsEight
  <2> QED
    BY <1>1, <1>2, <2>1, <2>2, AddressBits
<1>3. CASE at = "register"
  <2>1. Value = Bits(job.reg)
    BY <1>3 DEF Value
  <2> QED
    BY <1>1, <1>3, <2>1, BitsEight
<1>4. CASE at = "value"
  <2>1. Value = Bits(job.arg)
    BY <1>4 DEF Value
  <2> QED
    BY <1>1, <1>4, <2>1, BitsEight
<1>5. CASE at = "read"
  <2>1. Value = Bits(2 * job.address + 1)
    BY <1>5 DEF Value
  <2>2. 2 * job.address + 1 \in Nat
    BY <1>1
  <2>3. Bits(2 * job.address + 1)[1] = 1 /\ Bits(2 * job.address + 1)[2] = 1
    <3>1. CASE job.address = 104
      <4>1. (209 \div 128) % 2 = 1 /\ (209 \div 64) % 2 = 1
        OBVIOUS
      <4> QED
        BY <3>1, <4>1, BitsEight
    <3>2. CASE job.address = 105
      <4>1. (211 \div 128) % 2 = 1 /\ (211 \div 64) % 2 = 1
        OBVIOUS
      <4> QED
        BY <3>2, <4>1, BitsEight
    <3> QED
      BY <1>1, <3>1, <3>2
  <2>4. Bits(2 * job.address + 1) \in Eight
    BY <2>2, BitsEight, Zenon
  <2> QED
    BY <1>1, <1>5, <2>1, <2>3, <2>4, AddressBits
<1> QED
  BY <1>2, <1>3, <1>4, <1>5 DEF Writing

(* The calls of i2c_write_byte, and what they do to the lines.             *)
LEMMA WriteLines ==
    ASSUME Typed, DeviceInv, WriteInv, at \in Writing, LineCall
    PROVE  /\ made \in 0..27 /\ made' = made + 1
           /\ UNCHANGED <<calls, at, job, data, error, done>>
           /\ \A b \in 0..7 :
                  /\ made = 3 * b => dev' = dev
                  /\ made = 3 * b + 1 =>
                         scl = 0 /\ sda = Value[b + 1] /\ dev' = ClockRises(dev, Value[b + 1])
                  /\ made = 3 * b + 2 => scl = 1 /\ dev' \in ClockFalls(dev)
           /\ made = 24 => dev' = dev
           /\ made = 25 => scl = 0 /\ sda = 1 /\ dev' = ClockRises(dev, 1)
           /\ made = 26 => scl = 1 /\ sda = 1 /\ dev' = dev /\ got' = Append(got, Line)
           /\ made = 27 => scl = 1 /\ sda = 1 /\ dev' \in ClockFalls(dev)
           /\ made # 26 => got' = got
           /\ (scl = IF made % 3 = 2 \/ made = 27 THEN 1 ELSE 0)'
           /\ (made \in 1..24 => sda = Value[(made + 2) \div 3])'
           /\ (made > 24 => sda = 1)'
           /\ Value' = Value /\ (calls = i2c_write_byte(Value))'
<1>1. /\ calls = i2c_write_byte(Value) /\ made \in 0..28
      /\ scl = IF made % 3 = 2 \/ made = 27 THEN 1 ELSE 0
      /\ made \in 1..24 => sda = Value[(made + 2) \div 3]
      /\ made > 24 => sda = 1
  BY DEF WriteInv, Writing
<1>2. Value \in Eight
  BY ValueEight
<1>3. /\ Len(calls) = 28
      /\ \A b \in 0..7 : /\ calls[3 * b + 1] = Level(Value[b + 1])
                         /\ calls[3 * b + 2] = "scl+" /\ calls[3 * b + 3] = "scl-"
      /\ calls[25] = "sda+" /\ calls[26] = "scl+" /\ calls[27] = "read" /\ calls[28] = "scl-"
  BY <1>1, <1>2, WriteCalls
<1>4. /\ made \in 0..27 /\ made' = made + 1
      /\ UNCHANGED <<calls, at, job, data, error, done>>
  BY <1>1, <1>3, Calls DEF Line0
<1>5. Value' = Value
  BY <1>4 DEF Value
<1>6. (calls = i2c_write_byte(Value))'
  BY <1>1, <1>4, <1>5
<1>7. dev \in Device /\ sda \in {0, 1}
  BY DEF Typed
<1> DEFINE Lines == /\ scl' = IF made' % 3 = 2 \/ made' = 27 THEN 1 ELSE 0
                    /\ made' \in 1..24 => sda' = Value[(made' + 2) \div 3]
                    /\ made' > 24 => sda' = 1
<1>8. ASSUME NEW b \in 0..7, made = 3 * b
      PROVE  dev' = dev /\ got' = got /\ Lines
  <2>1. calls[made + 1] = Level(Value[b + 1]) /\ Value[b + 1] \in {0, 1}
    BY <1>2, <1>3, <1>8 DEF Eight
  <2>2. scl = 0
    BY <1>1, <1>8
  <2>3. sda' = Value[b + 1] /\ scl' = 0 /\ got' = got /\ dev' = dev
    <3>1. CASE Value[b + 1] = 1
      <4>1. calls[made + 1] = "sda+"
        BY <2>1, <3>1 DEF Level
      <4> QED
        BY <1>7, <2>2, <3>1, <4>1, Calls, Moved
    <3>2. CASE Value[b + 1] = 0
      <4>1. calls[made + 1] = "sda-"
        BY <2>1, <3>2 DEF Level
      <4> QED
        BY <1>7, <2>2, <3>2, <4>1, Calls, Moved
    <3> QED
      BY <2>1, <3>1, <3>2
  <2>4. /\ made' = 3 * b + 1 /\ made' % 3 = 1 /\ (made' + 2) \div 3 = b + 1
        /\ made' # 27 /\ made' <= 24
    BY <1>4, <1>8
  <2> QED
    BY <2>3, <2>4
<1>9. ASSUME NEW b \in 0..7, made = 3 * b + 1
      PROVE  /\ scl = 0 /\ sda = Value[b + 1] /\ dev' = ClockRises(dev, Value[b + 1])
             /\ got' = got /\ Lines
  <2>1. calls[made + 1] = "scl+"
    BY <1>3, <1>9
  <2>2. made % 3 = 1 /\ (made + 2) \div 3 = b + 1 /\ made \in 1..24 /\ made # 27
    BY <1>9
  <2>3. scl = 0 /\ sda = Value[b + 1]
    BY <1>1, <2>2
  <2>4. sda' = sda /\ scl' = 1 /\ got' = got /\ dev' = ClockRises(dev, sda)
    BY <2>1, <2>3, Calls
  <2>5. /\ made' = 3 * b + 2 /\ made' % 3 = 2 /\ (made' + 2) \div 3 = b + 1
        /\ made' <= 24
    BY <1>4, <1>9
  <2> QED
    BY <2>3, <2>4, <2>5
<1>10. ASSUME NEW b \in 0..7, made = 3 * b + 2
       PROVE  scl = 1 /\ dev' \in ClockFalls(dev) /\ got' = got /\ Lines
  <2>1. calls[made + 1] = "scl-"
    BY <1>3, <1>10
  <2>2. made % 3 = 2 /\ (made + 2) \div 3 = b + 1 /\ made \in 1..24
    BY <1>10
  <2>3. scl = 1 /\ sda = Value[b + 1]
    BY <1>1, <2>2
  <2>4. sda' = sda /\ scl' = 0 /\ got' = got /\ dev' \in ClockFalls(dev)
    BY <2>1, <2>3, Calls
  <2>5. /\ made' = 3 * b + 3 /\ made' % 3 = 0 /\ (made' + 2) \div 3 = b + 1
        /\ made' <= 24
    BY <1>4, <1>10
  <2> QED
    BY <2>3, <2>4, <2>5
<1>11. CASE made = 24
  <2>1. calls[made + 1] = "sda+" /\ scl = 0
    BY <1>1, <1>3, <1>11
  <2>2. sda' = 1 /\ scl' = 0 /\ got' = got /\ dev' = dev
    BY <1>7, <2>1, Calls, Moved
  <2> QED
    BY <1>4, <1>5, <1>6, <1>11, <2>2
<1>12. CASE made = 25
  <2>1. calls[made + 1] = "scl+" /\ scl = 0 /\ sda = 1
    BY <1>1, <1>3, <1>12
  <2>2. sda' = 1 /\ scl' = 1 /\ got' = got /\ dev' = ClockRises(dev, 1)
    BY <2>1, Calls
  <2> QED
    BY <1>4, <1>5, <1>6, <1>12, <2>1, <2>2
<1>13. CASE made = 26
  <2>1. calls[made + 1] = "read" /\ scl = 1 /\ sda = 1
    BY <1>1, <1>3, <1>13
  <2>2. sda' = 1 /\ scl' = 1 /\ got' = Append(got, Line) /\ dev' = dev
    BY <2>1, Calls
  <2> QED
    BY <1>4, <1>5, <1>6, <1>13, <2>1, <2>2
<1>14. CASE made = 27
  <2>1. calls[made + 1] = "scl-" /\ scl = 1 /\ sda = 1
    BY <1>1, <1>3, <1>14
  <2>2. sda' = 1 /\ scl' = 0 /\ got' = got /\ dev' \in ClockFalls(dev)
    BY <2>1, Calls
  <2> QED
    BY <1>4, <1>5, <1>6, <1>14, <2>1, <2>2
<1>15. CASE made < 24
  <2>1. PICK b \in 0..7 : made = 3 * b \/ made = 3 * b + 1 \/ made = 3 * b + 2
    BY <1>4, <1>15
  <2>2. Lines /\ got' = got
    BY <1>8, <1>9, <1>10, <2>1
  <2>3. /\ (scl = IF made % 3 = 2 \/ made = 27 THEN 1 ELSE 0)'
        /\ (made \in 1..24 => sda = Value[(made + 2) \div 3])'
        /\ (made > 24 => sda = 1)'
    BY <1>5, <2>2
  <2> HIDE DEF Lines
  <2> QED
    BY <1>4, <1>5, <1>6, <1>8, <1>9, <1>10, <1>15, <2>2, <2>3
<1> QED
  BY <1>4, <1>11, <1>12, <1>13, <1>14, <1>15

(* A sensor that takes bits puts the level of SDA behind those it has.     *)
LEMMA TakesBit ==
    ASSUME NEW d \in Device, NEW level, d.mode \in {"address", "receive"}
    PROVE  /\ ClockRises(d, level).mode = d.mode
           /\ ClockRises(d, level).n = d.n + 1
           /\ ClockRises(d, level).byte =
                  IF d.n = 8 THEN d.byte ELSE [d.byte EXCEPT ![d.n + 1] = level]
<1>1. ClockRises(d, level) =
          [d EXCEPT !.n = @ + 1,
                    !.byte = IF d.n = 8 THEN @ ELSE [@ EXCEPT ![d.n + 1] = level]]
  BY DEF ClockRises
<1> QED
  BY <1>1 DEF Device

(* A sensor that takes the byte, one call of i2c_write_byte.               *)
LEMMA HearsStep ==
    ASSUME Typed, DeviceInv, WriteInv, at \in Writing, LineCall,
           NEW mode \in {"address", "receive"}, Hears(mode)
    PROVE  /\ made \notin {23, 27} =>
                  Hears(mode)' /\ dev'.heard = dev.heard /\ dev'.sent = dev.sent
           /\ made = 23 /\ mode = "receive" =>
                  Hears(mode)' /\ dev'.heard = Append(dev.heard, Value)
           /\ made = 23 /\ mode = "address" =>
                  /\ dev'.heard = dev.heard
                  /\ IF \A i \in 1..7 : Value[i] = Bits(2 * Strap)[i]
                     THEN Hears(mode)' ELSE Idling'
           /\ made = 27 /\ mode = "receive" => Ready' /\ dev'.heard = dev.heard
           /\ made = 27 /\ mode = "address" =>
                  IF Value[8] = 1
                  THEN /\ dev'.mode = "send" /\ dev'.n = 0 /\ dev'.heard = dev.heard
                       /\ dev'.sent = <<dev'.byte>>
                  ELSE Ready' /\ dev'.heard = <<>>
           /\ made = 26 => Line = 0
<1>1. /\ made \in 0..27 /\ made' = made + 1 /\ Value' = Value
      /\ \A b \in 0..7 :
             /\ made = 3 * b => dev' = dev
             /\ made = 3 * b + 1 =>
                    scl = 0 /\ sda = Value[b + 1] /\ dev' = ClockRises(dev, Value[b + 1])
             /\ made = 3 * b + 2 => scl = 1 /\ dev' \in ClockFalls(dev)
      /\ made = 24 => dev' = dev
      /\ made = 25 => scl = 0 /\ sda = 1 /\ dev' = ClockRises(dev, 1)
      /\ made = 26 => scl = 1 /\ sda = 1 /\ dev' = dev
      /\ made = 27 => scl = 1 /\ dev' \in ClockFalls(dev)
  BY WriteLines
<1>2. /\ dev.mode = mode /\ dev.n = (made + 1) \div 3
      /\ \A i \in 1..8 : i <= dev.n => dev.byte[i] = Value[i]
  BY DEF Hears
<1>3. dev \in Device /\ dev.byte \in Eight
  BY DEF Typed, Device
<1>4. Value \in Eight
  BY ValueEight
<1>5. Wired(dev, sda, scl)
  BY DEF DeviceInv
<1>6. ASSUME NEW b \in 0..7, made = 3 * b
      PROVE  Hears(mode)' /\ dev'.heard = dev.heard /\ dev'.sent = dev.sent
  <2>1. (made + 1) \div 3 = b /\ (made' + 1) \div 3 = b /\ made' < 28
    BY <1>1, <1>6
  <2>2. dev' = dev
    BY <1>1, <1>6
  <2> QED
    BY <1>1, <1>2, <2>1, <2>2 DEF Hears
<1>7. ASSUME NEW b \in 0..7, made = 3 * b + 1
      PROVE  Hears(mode)' /\ dev'.heard = dev.heard /\ dev'.sent = dev.sent
  <2>1. (made + 1) \div 3 = b /\ (made' + 1) \div 3 = b + 1 /\ made' < 28
    BY <1>1, <1>7
  <2>2. /\ scl = 0 /\ sda = Value[b + 1] /\ Value[b + 1] \in {0, 1}
        /\ dev' = ClockRises(dev, Value[b + 1])
    BY <1>1, <1>4, <1>7 DEF Eight
  <2>3. dev'.heard = dev.heard /\ dev'.sent = dev.sent
    BY <1>3, <2>2, RiseKeeps
  <2>4. dev.n = b /\ dev.mode \in {"address", "receive"}
    BY <1>2, <2>1
  <2>5. /\ dev'.mode = mode /\ dev'.n = b + 1
        /\ dev'.byte = [dev.byte EXCEPT ![b + 1] = Value[b + 1]]
    <3>1. PICK l : l = Value[b + 1]
      OBVIOUS
    <3>2. /\ ClockRises(dev, l).mode = dev.mode
          /\ ClockRises(dev, l).n = dev.n + 1
          /\ ClockRises(dev, l).byte =
                 IF dev.n = 8 THEN dev.byte ELSE [dev.byte EXCEPT ![dev.n + 1] = l]
      BY <1>3, <2>4, TakesBit
    <3> QED
      BY <1>2, <2>2, <2>4, <3>1, <3>2
  <2>6. \A i \in 1..8 : i <= b + 1 => dev'.byte[i] = Value[i]
    BY <1>2, <1>3, <2>4, <2>5 DEF Eight
  <2> QED
    BY <1>1, <2>1, <2>3, <2>5, <2>6 DEF Hears
<1>8. ASSUME NEW b \in 0..6, made = 3 * b + 2
      PROVE  Hears(mode)' /\ dev'.heard = dev.heard /\ dev'.sent = dev.sent
  <2>1. (made + 1) \div 3 = b + 1 /\ (made' + 1) \div 3 = b + 1 /\ made' < 28
    BY <1>1, <1>8
  <2>2. dev' \in ClockFalls(dev)
    BY <1>1, <1>8
  <2>3. dev.n < 8
    BY <1>2, <2>1
  <2>4. dev' = dev
    BY <1>2, <1>3, <2>2, <2>3, FallCases
  <2> QED
    BY <1>1, <1>2, <2>1, <2>4 DEF Hears
<1>9. CASE made = 23
  <2>1. dev.n = 8 /\ dev' \in ClockFalls(dev) /\ made' = 24
    <3>1. 7 \in 0..7 /\ 23 = 3 * 7 + 2 /\ 24 \div 3 = 8
      OBVIOUS
    <3> QED
      BY <1>1, <1>2, <1>9, <3>1
  <2>2. dev.byte = Value
    BY <1>2, <1>3, <1>4, <2>1 DEF Eight
  <2>3. CASE mode = "receive"
    <3>1. dev' = [dev EXCEPT !.out = 0, !.heard = Append(@, dev.byte)]
      BY <1>2, <2>1, <2>3 DEF ClockFalls
    <3>2. /\ dev'.mode = mode /\ dev'.n = 8 /\ dev'.byte = dev.byte
          /\ dev'.heard = Append(dev.heard, Value)
      BY <1>2, <1>3, <2>1, <2>2, <3>1 DEF Device
    <3> QED
      BY <1>1, <1>2, <1>9, <2>1, <2>2, <2>3, <3>2 DEF Hears
  <2>4. CASE mode = "address" /\ Addressed(dev)
    <3>1. dev' = [dev EXCEPT !.out = 0]
      BY <1>2, <1>3, <2>1, <2>4, FallCases
    <3>2. /\ dev'.mode = mode /\ dev'.n = 8 /\ dev'.byte = dev.byte
          /\ dev'.heard = dev.heard
      BY <1>2, <1>3, <2>1, <3>1 DEF Device
    <3> QED
      BY <1>1, <1>2, <1>9, <2>1, <2>2, <2>4, <3>2 DEF Hears, Addressed
  <2>5. CASE mode = "address" /\ ~Addressed(dev)
    <3>1. dev'.mode = "idle" /\ dev'.heard = dev.heard
      BY <1>2, <1>3, <2>1, <2>5, FallCases
    <3> QED
      BY <1>9, <2>2, <2>5, <3>1 DEF Idling, Addressed
  <2> QED
    BY <2>3, <2>4, <2>5
<1>10. CASE made = 24
  BY <1>1, <1>2, <1>10 DEF Hears
<1>11. CASE made = 25
  <2>1. scl = 0 /\ sda = 1 /\ dev' = ClockRises(dev, 1) /\ dev.n = 8
    BY <1>1, <1>2, <1>11
  <2>2. dev'.heard = dev.heard /\ dev'.sent = dev.sent
    BY <1>3, <2>1, RiseKeeps
  <2>3. /\ Wired(dev, 1, 0) /\ dev.mode # "idle" /\ dev.mode \in {"address", "receive"}
        /\ ~(dev.mode = "send" /\ dev.n = 8 /\ 1 = 1)
    BY <1>2, <1>5, <2>1
  <2>4. ClockRises(dev, 1).mode = dev.mode /\ ClockRises(dev, 1).n = dev.n + 1
    BY <1>3, <2>3, Risen
  <2>5. ClockRises(dev, 1).byte =
              IF dev.n = 8 THEN dev.byte ELSE [dev.byte EXCEPT ![dev.n + 1] = 1]
    BY <1>3, <2>3, Risen
  <2> QED
    BY <1>1, <1>2, <1>11, <2>1, <2>2, <2>4, <2>5 DEF Hears
<1>12. CASE made = 26
  <2>1. dev' = dev /\ dev.n = 9 /\ scl = 1
    BY <1>1, <1>2, <1>12
  <2>2. dev.out = 0
    BY <1>2, <1>5, <2>1 DEF Wired
  <2>3. Line = 0
    BY <2>2 DEF Line
  <2> QED
    BY <1>1, <1>2, <1>12, <2>1, <2>3 DEF Hears
<1>13. CASE made = 27
  <2>1. dev.n = 9 /\ dev' \in ClockFalls(dev)
    BY <1>1, <1>2, <1>13
  <2>2. dev.byte[8] = Value[8]
    BY <1>2, <2>1
  <2>3. CASE mode = "receive"
    BY <1>2, <1>3, <1>13, <2>1, <2>3, FallCases DEF Ready
  <2>4. CASE mode = "address" /\ Value[8] = 1
    BY <1>2, <1>3, <1>13, <2>1, <2>2, <2>4, FallCases
  <2>5. CASE mode = "address" /\ Value[8] # 1
    BY <1>2, <1>3, <1>13, <2>1, <2>2, <2>5, FallCases DEF Ready
  <2> QED
    BY <2>3, <2>4, <2>5
<1>14. \/ made \in {23, 24, 25, 26, 27}
       \/ \E b \in 0..7 : made = 3 * b
       \/ \E b \in 0..7 : made = 3 * b + 1
       \/ \E b \in 0..6 : made = 3 * b + 2
  BY <1>1
<1>15. ASSUME NEW b \in 0..7, made \in {3 * b, 3 * b + 1} \/ (b < 7 /\ made = 3 * b + 2)
       PROVE  made \notin {23, 26, 27}
  BY <1>15
<1> QED
  BY <1>6, <1>7, <1>8, <1>9, <1>10, <1>11, <1>12, <1>13, <1>14, <1>15

(* A sensor that waits for a start does not notice a byte.                 *)
LEMMA IdleStep ==
    ASSUME Typed, DeviceInv, WriteInv, at \in Writing, LineCall, Idling
    PROVE  dev' = dev /\ (made = 26 => Line = 1)
<1>1. dev \in Device /\ dev.mode = "idle" /\ Wired(dev, sda, scl)
  BY DEF Typed, DeviceInv, Idling
<1>2. \A l : ClockRises(dev, l) = dev
  BY <1>1 DEF ClockRises
<1>3. ClockFalls(dev) = {dev}
  BY <1>1 DEF ClockFalls
<1>4. /\ made \in 0..27
      /\ \A b \in 0..7 :
             /\ made = 3 * b => dev' = dev
             /\ made = 3 * b + 1 => dev' = ClockRises(dev, Value[b + 1])
             /\ made = 3 * b + 2 => dev' \in ClockFalls(dev)
      /\ made = 24 => dev' = dev
      /\ made = 25 => dev' = ClockRises(dev, 1)
      /\ made = 26 => dev' = dev /\ sda = 1
      /\ made = 27 => dev' \in ClockFalls(dev)
  BY WriteLines
<1>5. dev.out = 1
  BY <1>1 DEF Wired
<1>6. \/ made \in {24, 25, 26, 27}
      \/ \E b \in 0..7 : made = 3 * b \/ made = 3 * b + 1 \/ made = 3 * b + 2
  BY <1>4
<1> QED
  BY <1>2, <1>3, <1>4, <1>5, <1>6 DEF Line

(* The second byte heard.                                                  *)
LEMMA TwoAppended ==
    ASSUME NEW x, NEW y
    PROVE  Append(<<x>>, y) = <<x, y>>
<1>1. <<x>> \in Seq({x, y}) /\ <<x, y>> \in Seq({x, y}) /\ y \in {x, y}
  OBVIOUS
<1>2. /\ Append(<<x>>, y) \in Seq({x, y}) /\ Len(Append(<<x>>, y)) = 2
      /\ Append(<<x>>, y)[1] = x /\ Append(<<x>>, y)[2] = y
  <2>1. Len(<<x>>) = 1 /\ <<x>>[1] = x
    OBVIOUS
  <2>2. /\ Append(<<x>>, y) \in Seq({x, y})
        /\ Len(Append(<<x>>, y)) = Len(<<x>>) + 1
        /\ \A i \in 1..Len(<<x>>) : Append(<<x>>, y)[i] = <<x>>[i]
        /\ Append(<<x>>, y)[Len(<<x>>) + 1] = y
    BY <1>1, AppendProperties, ZenonT(30)
  <2> QED
    BY <2>1, <2>2
<1> DEFINE s == Append(<<x>>, y)
           t == <<x, y>>
<1>3. Len(t) = 2 /\ t[1] = x /\ t[2] = y
  OBVIOUS
<1>4. /\ s \in Seq({x, y}) /\ t \in Seq({x, y})
      /\ Len(s) = Len(t) /\ \A i \in 1..Len(s) : s[i] = t[i]
  <2> HIDE DEF s, t
  <2>1. Len(s) = 2 /\ s[1] = x /\ s[2] = y /\ s \in Seq({x, y}) /\ t \in Seq({x, y})
    BY <1>1, <1>2 DEF s, t
  <2> QED
    BY <1>3, <2>1
<1>5. s = t
  <2> HIDE DEF s, t
  <2> QED
    BY <1>4, SeqEqual, Zenon
<1> QED
  BY <1>5

(* A call of i2c_write_byte, whoever hears it.                             *)
LEMMA WriteStep ==
    ASSUME Typed, DeviceInv, WriteInv, HeardInv, at \in Writing, LineCall
    PROVE  WriteInv' /\ HeardInv' /\ SentInv'
<1> DEFINE Unknown  == Calling /\ made >= 24 /\ Idling /\ job.address # Strap
           Answered == got = IF made < 27 THEN <<>> ELSE IF Idling THEN <<1>> ELSE <<0>>
<1>1. /\ made \in 0..27 /\ made' = made + 1
      /\ UNCHANGED <<calls, at, job, data, error, done>>
      /\ made = 26 => got' = Append(got, Line)
      /\ made # 26 => got' = got
      /\ Value' = Value
  BY WriteLines
<1>2. /\ Answered /\ (Answers \/ Unknown \/ Mishears)
      /\ at = "value" => job.kind = "write"
      /\ at = "read" => job.kind = "read"
      /\ at # "address" /\ done > 0 => job.address = Strap
      /\ data = <<>> /\ ~error
  BY DEF WriteInv, Writing
<1>3. ASSUME Answered', (Answers \/ Unknown \/ Mishears)'
      PROVE  WriteInv'
  <2>1. (made \in 0..28)'
    BY <1>1
  <2>2. /\ (scl = IF made % 3 = 2 \/ made = 27 THEN 1 ELSE 0)'
        /\ (made \in 1..24 => sda = Value[(made + 2) \div 3])'
        /\ (made > 24 => sda = 1)'
        /\ (calls = i2c_write_byte(Value))'
    BY WriteLines
  <2>3. /\ (at = "value" => job.kind = "write")'
        /\ (at = "read" => job.kind = "read")'
        /\ (at # "address" /\ done > 0 => job.address = Strap)'
        /\ (data = <<>>)' /\ (~error)'
    BY <1>1, <1>2
  <2> QED
    BY <1>3, <2>1, <2>2, <2>3 DEF WriteInv
<1>4. at' = at /\ job' = job /\ done' = done /\ Calling' = Calling
  BY <1>1 DEF Calling
<1>5. /\ Calling <=> at \in {"address", "read"}
      /\ made < 26 => got = <<>> /\ got' = <<>>
      /\ made = 26 => got' = <<Line>>
      /\ made = 27 => got' = got /\ got = IF Idling THEN <<1>> ELSE <<0>>
  BY <1>1, <1>2 DEF Calling
<1> HIDE DEF Unknown, Answered
<1>6. CASE Idling
  <2>1. dev' = dev /\ Idling' /\ (made = 26 => Line = 1)
    BY <1>6, IdleStep DEF Idling
  <2>2. ~Answers
    BY <1>1, <1>6 DEF Answers, Hears, Idling, Calling
  <2>3. at \in {"address", "read"} /\ (Unknown \/ Mishears)'
    BY <1>1, <1>2, <1>4, <2>1, <2>2 DEF Unknown, Mishears, Calling
  <2>4. Answered'
    BY <1>1, <1>5, <1>6, <2>1 DEF Answered
  <2>5. HeardInv' /\ SentInv'
    BY <1>4, <2>1, <2>3 DEF HeardInv, SentInv
  <2> QED
    BY <1>3, <2>3, <2>4, <2>5
<1>7. CASE Answers
  <2>1. PICK mode \in {"address", "receive"} :
            mode = IF Calling THEN "address" ELSE "receive"
    OBVIOUS
  <2>2. Hears(mode) /\ (Calling /\ made >= 24 => job.address = Strap)
    BY <1>1, <1>7, <2>1 DEF Answers
  <2>3. Hears(mode)' /\ (Calling /\ made >= 24 => job.address = Strap)' => Answers'
    BY <1>4, <2>1 DEF Answers
  <2>4. CASE made \notin {23, 27}
    <3>1. /\ Hears(mode)' /\ dev'.heard = dev.heard /\ dev'.sent = dev.sent
          /\ made = 26 => Line = 0
      BY <2>1, <2>2, <2>4, HearsStep
    <3>2. (Calling /\ made >= 24 => job.address = Strap)'
      BY <1>1, <1>4, <2>2, <2>4
    <3>3. ~Idling'
      BY <2>1, <3>1 DEF Hears, Idling
    <3>4. Answered'
      <4>1. CASE made < 26
        BY <1>1, <1>5, <4>1 DEF Answered
      <4>2. CASE made = 26
        <5>1. Line = 0
          BY <3>1, <4>2
        <5>2. got' = <<Line>>
          BY <1>5, <4>2
        <5>3. made' = 27
          BY <1>1, <4>2
        <5> QED
          BY <3>3, <5>1, <5>2, <5>3 DEF Answered
      <4> QED
        BY <1>1, <2>4, <4>1, <4>2
    <3>5. HeardInv'
      <4>1. (made < 24 <=> made' < 24) /\ made' # 28
        BY <1>1, <2>4
      <4>2. dev'.heard = dev.heard
        BY <3>1
      <4> QED
        BY <1>4, <4>1, <4>2 DEF HeardInv
    <3>6. SentInv'
      BY <1>1, <2>4 DEF SentInv
    <3> QED
      BY <1>3, <2>3, <3>1, <3>2, <3>4, <3>5, <3>6
  <2>5. CASE made = 23 /\ Calling
    <3>1. /\ dev'.heard = dev.heard
          /\ IF \A i \in 1..7 : Value[i] = Bits(2 * Strap)[i]
             THEN Hears("address")' ELSE Idling'
      BY <2>1, <2>2, <2>5, HearsStep
    <3>2. (\A i \in 1..7 : Value[i] = Bits(2 * Strap)[i]) <=> job.address = Strap
      BY <2>5, ValueEight DEF Calling
    <3>3. Answers' \/ Unknown'
      BY <1>1, <1>4, <2>5, <3>1, <3>2 DEF Answers, Unknown
    <3>4. Answered'
      BY <1>1, <1>5, <2>5 DEF Answered
    <3>5. HeardInv'
      BY <1>1, <1>4, <1>5, <2>5, <3>1 DEF HeardInv
    <3>6. SentInv'
      BY <1>1, <2>5 DEF SentInv
    <3> QED
      BY <1>3, <3>3, <3>4, <3>5, <3>6
  <2>6. CASE made = 23 /\ ~Calling
    <3>1. Hears("receive")' /\ dev'.heard = Append(dev.heard, Value)
      BY <2>1, <2>2, <2>6, HearsStep
    <3>2. Answers'
      BY <1>4, <2>6, <3>1 DEF Answers
    <3>3. Answered'
      BY <1>1, <1>5, <2>6 DEF Answered
    <3>4. at \in {"register", "value"}
      BY <1>5, <2>6 DEF Writing
    <3>5. HeardInv'
      <4>1. CASE done > 0 /\ at = "register"
        <5>1. dev.heard = <<>> /\ Value = Bits(job.reg)
          BY <2>6, <4>1, ValueEight DEF HeardInv, Writing
        <5>2. dev'.heard = <<Bits(job.reg)>>
          BY <3>1, <5>1
        <5> QED
          BY <1>1, <1>4, <2>6, <4>1, <5>2 DEF HeardInv
      <4>2. CASE done > 0 /\ at = "value"
        <5>1. dev.heard = <<Bits(job.reg)>> /\ Value = Bits(job.arg)
          BY <2>6, <4>2, ValueEight DEF HeardInv, Writing
        <5>2. dev'.heard = <<Bits(job.reg), Bits(job.arg)>>
          BY <3>1, <5>1, TwoAppended
        <5> QED
          BY <1>1, <1>4, <2>6, <4>2, <5>2 DEF HeardInv
      <4> QED
        BY <1>4, <3>4, <4>1, <4>2 DEF HeardInv
    <3>6. SentInv'
      BY <1>1, <2>6 DEF SentInv
    <3> QED
      BY <1>3, <3>2, <3>3, <3>5, <3>6
  <2>7. CASE made = 27 /\ ~Calling
    <3>1. Ready' /\ dev'.heard = dev.heard
      BY <2>1, <2>2, <2>7, HearsStep
    <3>2. at \in {"register", "value"} /\ ~Idling /\ ~Idling'
      BY <1>5, <2>1, <2>2, <2>7, <3>1 DEF Writing, Ready, Idling, Hears
    <3>3. Answers'
      BY <1>1, <1>4, <2>7, <3>1, <3>2 DEF Answers
    <3>4. Answered'
      BY <1>1, <1>5, <2>7, <3>2 DEF Answered
    <3>5. HeardInv' /\ SentInv'
      BY <1>1, <1>4, <2>7, <3>1, <3>2 DEF HeardInv, SentInv
    <3> QED
      BY <1>3, <3>3, <3>4, <3>5
  <2>8. CASE made = 27 /\ Calling
    <3>1. job.address = Strap /\ Hears("address")
      BY <2>1, <2>2, <2>8
    <3>2. CASE at = "address"
      <4>1. Value[8] # 1
        BY <3>2, ValueEight DEF Writing
      <4>2. Ready' /\ dev'.heard = <<>>
        BY <2>8, <3>1, <4>1, HearsStep
      <4>3. ~Idling /\ ~Idling'
        BY <3>1, <4>2 DEF Ready, Idling, Hears
      <4>4. Answers'
        BY <1>1, <1>4, <2>8, <3>1, <3>2, <4>2 DEF Answers
      <4>5. Answered'
        BY <1>1, <1>5, <2>8, <4>3 DEF Answered
      <4>6. HeardInv' /\ SentInv'
        BY <1>1, <1>4, <3>2, <4>2 DEF HeardInv, SentInv
      <4> QED
        BY <1>3, <4>4, <4>5, <4>6
    <3>3. CASE at = "read"
      <4>1. Value[8] = 1
        BY <3>3, ValueEight DEF Writing
      <4>2. /\ dev'.mode = "send" /\ dev'.n = 0 /\ dev'.heard = dev.heard
            /\ dev'.sent = <<dev'.byte>>
        BY <2>8, <3>1, <4>1, HearsStep
      <4>3. ~Idling /\ ~Idling'
        BY <3>1, <4>2 DEF Idling, Hears
      <4>4. Answers'
        BY <1>1, <1>4, <2>8, <3>1, <3>3, <4>2 DEF Answers
      <4>5. Answered'
        BY <1>1, <1>5, <2>8, <4>3 DEF Answered
      <4>6. HeardInv' /\ SentInv'
        BY <1>1, <1>4, <3>3, <4>2 DEF HeardInv, SentInv
      <4> QED
        BY <1>3, <4>4, <4>5, <4>6
    <3> QED
      BY <1>5, <2>8, <3>2, <3>3
  <2> QED
    BY <2>4, <2>5, <2>6, <2>7, <2>8
<1>8. CASE Mishears /\ ~Idling
  <2>1. at = "address" /\ done = 0
    BY <1>8 DEF Mishears
  <2>2. HeardInv' /\ SentInv'
    BY <1>4, <2>1 DEF HeardInv, SentInv
  <2>3. CASE Hears("receive")
    <3>1. made # 27 => Hears("receive")'
      BY <2>3, HearsStep
    <3>2. made = 27 => Ready' /\ made' = 28
      BY <1>1, <2>3, HearsStep
    <3>3. ~Idling'
      BY <3>1, <3>2 DEF Hears, Ready, Idling
    <3>4. Mishears'
      BY <1>4, <2>1, <3>1, <3>2 DEF Mishears
    <3>5. made = 26 => Line = 0
      BY <2>3, HearsStep
    <3>6. Answered'
      BY <1>1, <1>5, <1>8, <3>3, <3>5 DEF Answered
    <3> QED
      BY <1>3, <2>2, <3>4, <3>6
  <2>4. CASE made <= 4 /\ dev.mode = "send" /\ dev.n \in {7, 8} /\ (made >= 2 => dev.n = 8)
    <3>1. \/ Idling'
          \/ /\ made' <= 4 /\ dev'.mode = "send" /\ dev'.n \in {7, 8}
             /\ made' >= 2 => dev'.n = 8
      <4>1. dev \in Device /\ Wired(dev, sda, scl) /\ Value[1] = 1 /\ Value[2] = 1
        BY <2>1, ValueEight DEF Typed, DeviceInv
      <4>2. /\ made \in {0, 3} => dev' = dev
            /\ made \in {1, 4} => scl = 0 /\ sda = 1 /\ dev' = ClockRises(dev, 1)
            /\ made = 2 => dev' \in ClockFalls(dev)
        <5>1. \A b \in 0..7 :
                 /\ made = 3 * b => dev' = dev
                 /\ made = 3 * b + 1 =>
                        scl = 0 /\ sda = Value[b + 1] /\ dev' = ClockRises(dev, Value[b + 1])
                 /\ made = 3 * b + 2 => scl = 1 /\ dev' \in ClockFalls(dev)
          BY WriteLines
        <5>2. /\ made = 0 => dev' = dev
              /\ made = 3 => dev' = dev
              /\ made = 1 => scl = 0 /\ sda = Value[1] /\ dev' = ClockRises(dev, Value[1])
              /\ made = 4 => scl = 0 /\ sda = Value[2] /\ dev' = ClockRises(dev, Value[2])
              /\ made = 2 => dev' \in ClockFalls(dev)
          BY <5>1
        <5> QED
          BY <4>1, <5>2
      <4>3. CASE made \in {0, 3}
        BY <1>1, <2>4, <4>2, <4>3
      <4>4. CASE made \in {1, 4} /\ dev.n = 8
        <5>1. ClockRises(dev, 1) = Free(dev)
          BY <2>4, <4>4 DEF ClockRises
        <5> QED
          BY <4>1, <4>2, <4>4, <5>1, Freed DEF Idling
      <4>5. CASE made = 1 /\ dev.n = 7
        <5>1. /\ Wired(dev, 1, 0) /\ dev.mode # "idle"
              /\ ~(dev.mode = "send" /\ dev.n = 8 /\ 1 = 1)
          BY <2>4, <4>1, <4>2, <4>5
        <5>2. ClockRises(dev, 1).mode = dev.mode /\ ClockRises(dev, 1).n = dev.n + 1
          BY <4>1, <5>1, Risen
        <5> QED
          BY <1>1, <2>4, <4>2, <4>5, <5>2
      <4>6. CASE made = 2
        <5>1. dev' = [dev EXCEPT !.out = 1]
          BY <2>4, <4>1, <4>2, <4>6, FallCases
        <5> QED
          BY <1>1, <2>4, <4>1, <4>6, <5>1 DEF Device
      <4> QED
        BY <1>1, <2>4, <4>3, <4>4, <4>5, <4>6
    <3>2. Mishears'
      BY <1>4, <2>1, <3>1 DEF Mishears
    <3>3. Answered'
      BY <1>1, <1>5, <2>4 DEF Answered
    <3> QED
      BY <1>3, <2>2, <3>2, <3>3
  <2> QED
    BY <1>1, <1>8, <2>3, <2>4 DEF Mishears
<1> QED
  BY <1>2, <1>6, <1>7, <1>8 DEF Unknown

-----------------------------------------------------------------------------
(* The transfers.                                                          *)

(* Any call of the function under way.                                     *)
LEMMA LineStep ==
    ASSUME BusInv, LineCall
    PROVE  BusInv'
<1> USE DEF BusInv
<1>1. made < Len(calls) /\ made' = made + 1 /\ UNCHANGED Line0 /\ Typed' /\ DeviceInv'
  BY Calls
<1>2. at' = at /\ job' = job /\ data' = data /\ error' = error /\ done' = done
  BY <1>1 DEF Line0
<1>3. at # "rest"
  BY <1>1 DEF RestInv
<1>4. CASE at = "init"
  <2>1. InitInv'
    BY <1>4, InitStep
  <2> QED
    BY <1>1, <1>2, <1>4, <2>1 DEF RestInv, StartInv, WriteInv, Writing,
                                  RestartInv, DataInv, StopInv, HeardInv,
                                  SentInv, ResultInv
<1>5. CASE at = "start"
  <2>1. StartInv'
    BY <1>5, StartStep
  <2> QED
    BY <1>1, <1>2, <1>5, <2>1 DEF InitInv, RestInv, WriteInv, Writing,
                                  RestartInv, DataInv, StopInv, HeardInv,
                                  SentInv, ResultInv
<1>6. CASE at \in Writing
  <2>1. WriteInv' /\ HeardInv' /\ SentInv'
    BY <1>6, WriteStep
  <2> QED
    BY <1>1, <1>2, <1>6, <2>1 DEF InitInv, RestInv, StartInv, Writing,
                                  RestartInv, DataInv, StopInv, ResultInv
<1>7. CASE at = "restart"
  <2>1. RestartInv' /\ dev'.heard = dev.heard
    BY <1>7, RestartStep
  <2>2. HeardInv'
    BY <1>2, <1>7, <2>1 DEF HeardInv
  <2> QED
    BY <1>1, <1>2, <1>7, <2>1, <2>2 DEF InitInv, RestInv, StartInv, WriteInv,
                                        Writing, DataInv, StopInv, SentInv,
                                        ResultInv
<1>8. CASE at = "data"
  <2>1. DataInv' /\ dev'.heard = dev.heard
    BY <1>8, DataStep
  <2>2. HeardInv'
    BY <1>2, <1>8, <2>1 DEF HeardInv
  <2> QED
    BY <1>1, <1>2, <1>8, <2>1, <2>2 DEF InitInv, RestInv, StartInv, WriteInv,
                                        Writing, RestartInv, StopInv, SentInv,
                                        ResultInv
<1>9. CASE at = "stop"
  <2>1. StopInv' /\ dev'.heard = dev.heard /\ dev'.sent = dev.sent
    BY <1>9, StopStep
  <2>2. ResultInv'
    BY <1>2, <1>9, <2>1 DEF ResultInv, Meant
  <2> QED
    BY <1>1, <1>2, <1>9, <2>1, <2>2 DEF InitInv, RestInv, StartInv, WriteInv,
                                        Writing, RestartInv, DataInv, HeardInv,
                                        SentInv
<1> QED
  BY <1>3, <1>4, <1>5, <1>6, <1>7, <1>8, <1>9 DEF Typed, Place, Writing

(* What the firmware reads at the ninth clock.                             *)
LEMMA Acknowledged ==
    ASSUME BusInv, at \in Writing, made = 28
    PROVE  /\ acknowledged => /\ ~Idling
                              /\ IF at = "read" THEN dev.mode = "send" /\ dev.n = 0 ELSE Ready
                              /\ done > 0 => job.address = Strap
           /\ ~acknowledged => /\ Idling /\ dev.out = 1 /\ Calling
                               /\ done > 0 => job.address # Strap
           /\ scl = 0 /\ sda = 1
<1>1. /\ got = IF Idling THEN <<1>> ELSE <<0>>
      /\ Answers \/ (Calling /\ Idling /\ job.address # Strap) \/ Mishears
      /\ at # "address" /\ done > 0 => job.address = Strap
      /\ scl = 0 /\ sda = 1
  BY DEF BusInv, WriteInv
<1>2. <<0>> # <<1>>
  OBVIOUS
<1>3. acknowledged <=> ~Idling
  BY <1>1, <1>2 DEF acknowledged
<1>4. Idling => dev.out = 1
  BY DEF BusInv, DeviceInv, Wired, Idling
<1>5. Answers => /\ ~Idling
                 /\ IF at = "read" THEN dev.mode = "send" /\ dev.n = 0 ELSE Ready
                 /\ Calling => job.address = Strap
  BY DEF Answers, Hears, Idling, Ready
<1>6. Mishears => at = "address" /\ done = 0 /\ (Idling \/ Ready)
  BY DEF Mishears, Hears
<1>7. at = "address" => Calling
  BY DEF Calling
<1> QED
  BY <1>1, <1>3, <1>4, <1>5, <1>6, <1>7

Transferring ==
    \/ Initialised \/ Transfer \/ Start \/ AddressWritten \/ write_register \/ ValueWritten
    \/ read_registers \/ Restarted \/ ReadAddressed \/ ByteRead \/ Stop

(* A transfer gives up.                                                    *)
LEMMA FailStep ==
    ASSUME BusInv, Fail, UNCHANGED <<sda, scl, dev, job, restarts>>, got' = <<>>,
           at \in Writing, made = 28, ~acknowledged
    PROVE  BusInv'
<1>1. /\ at' = "stop" /\ calls' = i2c_stop /\ made' = 0
      /\ error' = TRUE /\ data' = data /\ done' = done
  BY DEF Fail, Then
<1>2. /\ Idling /\ dev.out = 1 /\ Calling /\ scl = 0 /\ (done > 0 => job.address # Strap)
  BY Acknowledged
<1>3. Typed' /\ DeviceInv'
  <2>1. job \in Jobs
    BY DEF BusInv, Typed, Writing
  <2> QED
    BY <1>1, <2>1 DEF BusInv, Typed, Place, DeviceInv
<1>4. StopInv'
  BY <1>1, <1>2 DEF StopInv
<1>5. ResultInv'
  BY <1>1, <1>2 DEF ResultInv, Meant
<1> QED
  BY <1>1, <1>3, <1>4, <1>5 DEF BusInv, InitInv, RestInv, StartInv, WriteInv,
                                Writing, RestartInv, DataInv, HeardInv, SentInv

(* A byte is to be written next.                                           *)
LEMMA NextByte ==
    ASSUME BusInv, NEW place \in {"address", "register", "value", "read"},
           UNCHANGED <<sda, scl, dev, job, restarts, error, done>>, got' = <<>>, data' = <<>>,
           at' = place, made' = 0, job \in Jobs, scl = 0, ~error,
           calls' = i2c_write_byte(Value'),
           place = "value" => job.kind = "write",
           place = "read" => job.kind = "read",
           place # "address" /\ done > 0 => job.address = Strap,
           place \in {"address", "read"} =>
               \/ Fresh
               \/ /\ place = "address" /\ done = 0
                  /\ Ready \/ (dev.mode = "send" /\ dev.n \in {7, 8}),
           place \in {"register", "value"} => Ready,
           done > 0 => /\ place = "register" => dev.heard = <<>>
                       /\ place \in {"value", "read"} => dev.heard = <<Bits(job.reg)>>
    PROVE  BusInv'
<1>1. Typed' /\ DeviceInv'
  BY DEF BusInv, Typed, Place, DeviceInv
<1>2. (0 + 1) \div 3 = 0 /\ 0 % 3 = 0
  OBVIOUS
<1>3. (Answers \/ Mishears)'
  <2>1. CASE Fresh
    <3>1. Hears("address")'
      BY <1>2, <2>1 DEF Fresh, Hears
    <3>2. CASE place \in {"address", "read"}
      BY <3>1, <3>2 DEF Answers, Calling
    <3>3. CASE place \in {"register", "value"}
      BY <2>1, <3>3 DEF Fresh, Ready
    <3> QED
      BY <3>2, <3>3
  <2>2. CASE Ready
    <3>1. Hears("receive")'
      BY <1>2, <2>2 DEF Ready, Hears
    <3>2. CASE place \in {"address", "read"}
      BY <2>2, <3>1, <3>2 DEF Fresh, Ready, Mishears
    <3>3. CASE place \in {"register", "value"}
      BY <3>1, <3>3 DEF Answers, Calling
    <3> QED
      BY <3>2, <3>3
  <2>3. CASE place = "address" /\ done = 0 /\ dev.mode = "send" /\ dev.n \in {7, 8}
    BY <2>3 DEF Mishears
  <2> QED
    BY <2>1, <2>2, <2>3
<1>4. WriteInv'
  BY <1>2, <1>3 DEF WriteInv
<1>5. HeardInv' /\ SentInv'
  BY DEF HeardInv, SentInv
<1> QED
  BY <1>1, <1>4, <1>5 DEF BusInv, InitInv, RestInv, StartInv, RestartInv,
                          DataInv, StopInv, ResultInv

(* The empty sequences of a transfer that begins.                          *)
LEMMA NoneRead == <<>> \in Seq(Eight) /\ <<>> \in Seq({0, 1})
OBVIOUS

(* A function has returned: the next is called, or the transfer ends.      *)
LEMMA ReturnStep ==
    ASSUME BusInv, Transferring
    PROVE  BusInv'
<1>1. CASE Initialised
  <2>1. at = "init" /\ made = 22 /\ InitInv
    BY <1>1, InitCalls DEF BusInv, InitInv, Initialised, Returned
  <2>2. /\ at' = "rest" /\ calls' = <<>> /\ made' = 0 /\ got' = <<>>
        /\ UNCHANGED <<sda, scl, dev, job, restarts, data, error, done>>
    BY <1>1 DEF Initialised, Returned, Then
  <2>3. sda = 1 /\ scl = 1 /\ (Deaf \/ Idling) /\ done = 0
    BY <2>1 DEF InitInv
  <2>4. RestInv'
    BY <2>2, <2>3 DEF RestInv, Deaf, Idling
  <2>5. Typed' /\ DeviceInv'
    BY <2>2 DEF BusInv, Typed, Place, DeviceInv
  <2> QED
    BY <2>2, <2>3, <2>4, <2>5 DEF BusInv, InitInv, StartInv, WriteInv, Writing,
                                  RestartInv, DataInv, StopInv, HeardInv,
                                  SentInv, ResultInv
<1>2. CASE Transfer
  <2>1. /\ at = "rest" /\ job' \in Jobs /\ at' = "start" /\ calls' = i2c_start /\ made' = 0
        /\ data' = <<>> /\ error' = FALSE
        /\ UNCHANGED <<sda, scl, dev, got, done, restarts>>
    BY <1>2 DEF Transfer, Then
  <2>2. sda = 1 /\ scl = 1 /\ (Idling \/ (done = 0 /\ Deaf)) /\ got = <<>>
    BY <2>1 DEF BusInv, RestInv
  <2>3. StartInv'
    BY <2>1, <2>2 DEF StartInv, Deaf, Idling
  <2>4. Typed' /\ DeviceInv'
    BY <2>1, <2>2, NoneRead DEF BusInv, Typed, Place, DeviceInv
  <2> QED
    BY <2>1, <2>3, <2>4 DEF BusInv, InitInv, RestInv, WriteInv, Writing,
                            RestartInv, DataInv, StopInv, HeardInv, SentInv,
                            ResultInv
<1>3. CASE Start
  <2>1. /\ at = "start" /\ made = Len(calls) /\ got' = <<>>
        /\ at' = "address" /\ made' = 0 /\ calls' = i2c_write_byte(Bits(2 * job.address))
        /\ UNCHANGED <<sda, scl, dev, job, restarts, data, error, done>>
    BY <1>3 DEF Start, Returned, Then
  <2>2. /\ made = 3 /\ scl = 0 /\ data = <<>> /\ ~error
        /\ Fresh \/ (done = 0 /\ (Ready \/ (dev.mode = "send" /\ dev.n \in {7, 8})))
    BY <2>1, StartCalls DEF BusInv, StartInv
  <2>3. job \in Jobs
    BY <2>1 DEF BusInv, Typed
  <2>4. calls' = i2c_write_byte(Value')
    BY <2>1 DEF Value
  <2> QED
    BY <2>1, <2>2, <2>3, <2>4, NextByte
<1>4. CASE AddressWritten
  <2>1. /\ at = "address" /\ made = 28 /\ got' = <<>>
        /\ UNCHANGED <<sda, scl, dev, job, restarts>>
    <3>1. /\ at = "address" /\ made = Len(calls) /\ got' = <<>>
          /\ UNCHANGED <<sda, scl, dev, job, restarts>>
      BY <1>4 DEF AddressWritten, Returned
    <3>2. calls = i2c_write_byte(Value) /\ Value \in Eight
      BY <3>1, ValueEight DEF BusInv, WriteInv, Writing
    <3> QED
      BY <3>1, <3>2, WriteCalls
  <2>2. CASE acknowledged
    <3>1. /\ at' = "register" /\ made' = 0 /\ calls' = i2c_write_byte(Bits(job.reg))
          /\ UNCHANGED <<data, error, done>>
      BY <1>4, <2>2 DEF AddressWritten, Onwards, Then
    <3>2. ~Idling /\ Ready /\ scl = 0 /\ (done > 0 => job.address = Strap)
      BY <2>1, <2>2, Acknowledged DEF Writing
    <3>3. job \in Jobs /\ data = <<>> /\ ~error
      BY <2>1 DEF BusInv, Typed, WriteInv, Writing
    <3>4. done > 0 => dev.heard = <<>>
      BY <2>1, <3>2 DEF BusInv, HeardInv
    <3>5. calls' = i2c_write_byte(Value')
      BY <2>1, <3>1 DEF Value
    <3> QED
      BY <2>1, <3>1, <3>2, <3>3, <3>4, <3>5, NextByte
  <2>3. CASE ~acknowledged
    <3>1. Fail
      BY <1>4, <2>3 DEF AddressWritten, Onwards
    <3> QED
      BY <2>1, <2>3, <3>1, FailStep DEF Writing
  <2> QED
    BY <2>2, <2>3
<1>5. ASSUME at = "register", made = Len(calls)
      PROVE  /\ made = 28 /\ acknowledged /\ Ready /\ scl = 0 /\ sda = 1 /\ job \in Jobs
             /\ data = <<>> /\ ~error /\ (done > 0 => job.address = Strap)
             /\ done > 0 => dev.heard = <<Bits(job.reg)>>
  <2>1. calls = i2c_write_byte(Value) /\ Value \in Eight
    BY <1>5, ValueEight DEF BusInv, WriteInv, Writing
  <2>2. made = 28
    BY <1>5, <2>1, WriteCalls
  <2>3. ~Calling
    BY <1>5 DEF Calling
  <2>4. acknowledged /\ Ready /\ scl = 0 /\ sda = 1
    BY <1>5, <2>2, <2>3, Acknowledged DEF Writing
  <2>5. job \in Jobs /\ data = <<>> /\ ~error /\ (done > 0 => job.address = Strap)
    BY <1>5 DEF BusInv, Typed, WriteInv, Writing
  <2>6. done > 0 => dev.heard = <<Bits(job.reg)>>
    BY <1>5, <2>2 DEF BusInv, HeardInv
  <2> QED
    BY <2>2, <2>4, <2>5, <2>6
<1>6. CASE write_register
  <2>1. /\ at = "register" /\ made = Len(calls) /\ job.kind = "write" /\ got' = <<>>
        /\ UNCHANGED <<sda, scl, dev, job, restarts>>
    BY <1>6 DEF write_register, Returned
  <2>2. /\ at' = "value" /\ made' = 0 /\ calls' = i2c_write_byte(Bits(job.arg))
        /\ UNCHANGED <<data, error, done>>
    BY <1>5, <1>6, <2>1 DEF write_register, Onwards, Then
  <2>3. calls' = i2c_write_byte(Value')
    BY <2>1, <2>2 DEF Value
  <2> QED
    BY <1>5, <2>1, <2>2, <2>3, NextByte
<1>7. CASE read_registers
  <2>1. /\ at = "register" /\ made = Len(calls) /\ job.kind = "read" /\ got' = <<>>
        /\ UNCHANGED <<sda, scl, dev, job, restarts>>
    BY <1>7 DEF read_registers, Returned
  <2>2. /\ at' = "restart" /\ made' = 0 /\ calls' = i2c_start /\ UNCHANGED <<data, error, done>>
    BY <1>5, <1>7, <2>1 DEF read_registers, Onwards, Then
  <2>3. Typed' /\ DeviceInv'
    BY <1>5, <2>1, <2>2 DEF BusInv, Typed, Place, DeviceInv
  <2>4. RestartInv'
    BY <1>5, <2>1, <2>2 DEF RestartInv, Ready
  <2>5. HeardInv'
    BY <1>5, <2>1, <2>2 DEF HeardInv
  <2> QED
    BY <2>2, <2>3, <2>4, <2>5 DEF BusInv, InitInv, RestInv, StartInv, WriteInv,
                                  Writing, DataInv, StopInv, SentInv, ResultInv
<1>8. CASE ValueWritten
  <2>1. /\ at = "value" /\ made = 28 /\ got' = <<>>
        /\ UNCHANGED <<sda, scl, dev, job, restarts>>
    <3>1. /\ at = "value" /\ made = Len(calls) /\ got' = <<>>
          /\ UNCHANGED <<sda, scl, dev, job, restarts>>
      BY <1>8 DEF ValueWritten, Returned
    <3>2. calls = i2c_write_byte(Value) /\ Value \in Eight
      BY <3>1, ValueEight DEF BusInv, WriteInv, Writing
    <3> QED
      BY <3>1, <3>2, WriteCalls
  <2>2. acknowledged /\ Ready /\ scl = 0
    BY <2>1, Acknowledged DEF Writing, Calling
  <2>3. at' = "stop" /\ made' = 0 /\ calls' = i2c_stop /\ UNCHANGED <<data, error, done>>
    BY <1>8, <2>2 DEF ValueWritten, Onwards, Then
  <2>4. dev.out = 1
    BY <2>2 DEF BusInv, DeviceInv, Wired, Ready
  <2>5. /\ job \in Jobs /\ ~error /\ job.kind = "write" /\ (done > 0 => job.address = Strap)
        /\ done > 0 => dev.heard = <<Bits(job.reg), Bits(job.arg)>>
    BY <2>1 DEF BusInv, Typed, WriteInv, Writing, HeardInv
  <2>6. Typed' /\ DeviceInv'
    BY <2>1, <2>3, <2>5 DEF BusInv, Typed, Place, DeviceInv
  <2>7. StopInv'
    BY <2>1, <2>2, <2>3, <2>4 DEF StopInv
  <2>8. ResultInv'
    BY <2>1, <2>3, <2>5 DEF ResultInv, Meant
  <2> QED
    BY <2>3, <2>6, <2>7, <2>8 DEF BusInv, InitInv, RestInv, StartInv, WriteInv,
                                  Writing, RestartInv, DataInv, HeardInv,
                                  SentInv
<1>9. CASE Restarted
  <2>1. /\ at = "restart" /\ made = Len(calls) /\ got' = <<>>
        /\ at' = "read" /\ made' = 0 /\ calls' = i2c_write_byte(Bits(2 * job.address + 1))
        /\ UNCHANGED <<sda, scl, dev, job, restarts, data, error, done>>
    BY <1>9 DEF Restarted, Returned, Then
  <2>2. /\ made = 3 /\ scl = 0 /\ data = <<>> /\ ~error /\ Fresh
        /\ job.kind = "read" /\ (done > 0 => job.address = Strap)
    BY <2>1, StartCalls DEF BusInv, RestartInv
  <2>3. job \in Jobs /\ (done > 0 => dev.heard = <<Bits(job.reg)>>)
    BY <2>1 DEF BusInv, Typed, HeardInv
  <2>4. calls' = i2c_write_byte(Value')
    BY <2>1 DEF Value
  <2> QED
    BY <2>1, <2>2, <2>3, <2>4, NextByte
<1>10. CASE ReadAddressed
  <2>1. /\ at = "read" /\ made = 28 /\ got' = <<>>
        /\ UNCHANGED <<sda, scl, dev, job, restarts>>
    <3>1. /\ at = "read" /\ made = Len(calls) /\ got' = <<>>
          /\ UNCHANGED <<sda, scl, dev, job, restarts>>
      BY <1>10 DEF ReadAddressed, Returned
    <3>2. calls = i2c_write_byte(Value) /\ Value \in Eight
      BY <3>1, ValueEight DEF BusInv, WriteInv, Writing
    <3> QED
      BY <3>1, <3>2, WriteCalls
  <2>2. CASE acknowledged
    <3>1. /\ at' = "data" /\ made' = 0 /\ calls' = i2c_read_byte(1 < job.arg)
          /\ UNCHANGED <<data, error, done>>
      BY <1>10, <2>2 DEF ReadAddressed, Onwards, Then
    <3>2. ~Idling /\ dev.mode = "send" /\ dev.n = 0 /\ scl = 0
      BY <2>1, <2>2, Acknowledged DEF Writing
    <3>3. /\ job \in Jobs /\ data = <<>> /\ ~error /\ job.kind = "read"
          /\ done > 0 => job.address = Strap /\ dev.heard = <<Bits(job.reg)>>
      BY <2>1 DEF BusInv, Typed, WriteInv, Writing, HeardInv
    <3>4. dev.sent = <<dev.byte>>
      BY <2>1, <3>2 DEF BusInv, SentInv
    <3>5. job.arg \in Nat /\ job.arg > 0
      BY <3>3, JobTypes
    <3>6. Len(data) = 0 /\ Append(data, dev.byte) = <<dev.byte>>
      BY <3>3
    <3>7. More' = (1 < job.arg)
      BY <2>1, <3>1, <3>5, <3>6 DEF More
    <3>8. calls' = i2c_read_byte(More')
      BY <3>1, <3>7
    <3>9. Typed' /\ DeviceInv'
      BY <2>1, <3>1, <3>3 DEF BusInv, Typed, Place, DeviceInv
    <3>10. DataInv'
      BY <2>1, <3>1, <3>2, <3>3, <3>4, <3>5, <3>6, <3>8 DEF DataInv
    <3>11. HeardInv'
      BY <2>1, <3>1, <3>3 DEF HeardInv
    <3> QED
      BY <3>1, <3>9, <3>10, <3>11 DEF BusInv, InitInv, RestInv, StartInv,
                                      WriteInv, Writing, RestartInv, StopInv,
                                      SentInv, ResultInv
  <2>3. CASE ~acknowledged
    <3>1. Fail
      BY <1>10, <2>3 DEF ReadAddressed, Onwards
    <3> QED
      BY <2>1, <2>3, <3>1, FailStep DEF Writing
  <2> QED
    BY <2>2, <2>3
<1>11. CASE ByteRead
  <2>1. /\ at = "data" /\ made = Len(calls) /\ data' = Append(data, got) /\ got' = <<>>
        /\ UNCHANGED <<sda, scl, dev, job, restarts, error, done>>
    BY <1>11 DEF ByteRead, Returned
  <2>2. More \in BOOLEAN /\ calls = i2c_read_byte(More)
    BY <2>1 DEF BusInv, DataInv, More
  <2>3. made = 29
    BY <2>1, <2>2, ReadCalls
  <2>4. /\ Len(data) < job.arg /\ Len(got) = 8 /\ scl = 0
        /\ IF More THEN /\ dev.mode = "send" /\ dev.n = 0
                        /\ dev.sent = Append(Append(data, got), dev.byte)
                   ELSE Idling /\ dev.sent = Append(data, got)
        /\ ~error /\ job.kind = "read" /\ (done > 0 => job.address = Strap)
    BY <2>1, <2>3 DEF BusInv, DataInv
  <2>5. /\ job \in Jobs /\ data \in Seq(Eight) /\ got \in Seq({0, 1})
        /\ done > 0 => dev.heard = <<Bits(job.reg)>>
    BY <2>1 DEF BusInv, Typed, HeardInv
  <2>6. job.arg \in Nat
    BY <2>5, JobTypes
  <2>7. got \in Eight
    BY <2>4, <2>5, LenProperties DEF Eight
  <2>8. data' \in Seq(Eight) /\ Len(data') = Len(data) + 1 /\ Len(data) \in Nat
    BY <2>1, <2>5, <2>7, AppendProperties, LenProperties
  <2>9. Len(data') < job.arg <=> More
    BY <2>8 DEF More
  <2>10. CASE More
    <3>1. /\ at' = "data" /\ made' = 0 /\ calls' = i2c_read_byte(Len(data') + 1 < job.arg)
      BY <1>11, <2>9, <2>10 DEF ByteRead, Then
    <3>2. calls' = i2c_read_byte(More')
      BY <2>1, <3>1 DEF More
    <3>3. Typed' /\ DeviceInv'
      BY <2>1, <2>5, <2>8, <3>1 DEF BusInv, Typed, Place, DeviceInv
    <3>4. DataInv'
      BY <2>1, <2>4, <2>9, <2>10, <3>1, <3>2 DEF DataInv
    <3>5. HeardInv'
      BY <2>1, <2>5, <3>1 DEF HeardInv
    <3> QED
      BY <3>1, <3>3, <3>4, <3>5 DEF BusInv, InitInv, RestInv, StartInv,
                                    WriteInv, Writing, RestartInv, StopInv,
                                    SentInv, ResultInv
  <2>11. CASE ~More
    <3>1. at' = "stop" /\ made' = 0 /\ calls' = i2c_stop
      BY <1>11, <2>9, <2>11 DEF ByteRead, Then
    <3>2. Typed' /\ DeviceInv'
      BY <2>1, <2>5, <2>8, <3>1 DEF BusInv, Typed, Place, DeviceInv
    <3>3. dev.out = 1 /\ dev.sent = data'
      BY <2>1, <2>4, <2>11 DEF BusInv, DeviceInv, Wired, Idling
    <3>4. StopInv'
      BY <2>1, <2>4, <3>1, <3>3 DEF StopInv
    <3>5. Len(data') = job.arg
      BY <2>4, <2>6, <2>8, <2>9, <2>11
    <3>6. ResultInv'
      BY <2>1, <2>4, <2>5, <3>1, <3>3, <3>5 DEF ResultInv, Meant
    <3> QED
      BY <3>1, <3>2, <3>4, <3>6 DEF BusInv, InitInv, RestInv, StartInv,
                                    WriteInv, Writing, RestartInv, DataInv,
                                    HeardInv, SentInv
  <2> QED
    BY <2>10, <2>11
<1>12. CASE Stop
  <2>1. /\ at = "stop" /\ made = Len(calls) /\ got' = <<>>
        /\ at' = "rest" /\ calls' = <<>> /\ made' = 0 /\ done' = done + 1
        /\ UNCHANGED <<sda, scl, dev, job, restarts, data, error>>
    BY <1>12 DEF Stop, Returned, Then
  <2>2. made = 3 /\ scl = 1 /\ sda = 1 /\ Idling
    <3>1. calls = i2c_stop /\ Len(i2c_stop) = 3
      BY <2>1 DEF BusInv, StopInv, i2c_stop
    <3> QED
      BY <2>1, <3>1 DEF BusInv, StopInv
  <2>3. done \in Nat
    BY DEF BusInv, Typed
  <2>4. Typed' /\ DeviceInv'
    BY <2>1, <2>3 DEF BusInv, Typed, Place, DeviceInv
  <2>5. RestInv'
    BY <2>1, <2>2 DEF RestInv, Idling
  <2>6. ResultInv'
    BY <2>1, <2>3 DEF BusInv, ResultInv, Meant
  <2> QED
    BY <2>1, <2>4, <2>5, <2>6 DEF BusInv, InitInv, StartInv, WriteInv, Writing,
                                  RestartInv, DataInv, StopInv, HeardInv,
                                  SentInv
<1> QED
  BY <1>1, <1>2, <1>3, <1>4, <1>6, <1>7, <1>8, <1>9, <1>10, <1>11, <1>12
    DEF Transferring

(* remoteproc stops the M4 and starts it again, wherever it was.           *)
LEMMA RestartedInit ==
    ASSUME BusInv, Restart
    PROVE  BusInv'
<1>1. /\ at' = "init" /\ calls' = gpio_i2c_init /\ made' = 0 /\ got' = <<>> /\ data' = <<>>
      /\ error' = FALSE /\ done' = 0 /\ UNCHANGED <<sda, scl, dev>>
  BY DEF Restart, Then
<1>2. Typed' /\ DeviceInv'
  BY <1>1, NoneRead DEF BusInv, Typed, Place, DeviceInv
<1>3. InitInv'
  BY <1>1 DEF InitInv
<1> QED
  BY <1>1, <1>2, <1>3 DEF BusInv, RestInv, StartInv, WriteInv, Writing,
                          RestartInv, DataInv, StopInv, HeardInv, SentInv,
                          ResultInv

(* The lines as the pins become outputs.                                   *)
LEMMA BusStarts == BusInit => BusInv
<1> SUFFICES ASSUME BusInit
             PROVE  BusInv
  OBVIOUS
<1>1. /\ sda \in {0, 1} /\ scl = sda
      /\ calls = gpio_i2c_init /\ made = 0 /\ at = "init"
      /\ got = <<>> /\ data = <<>> /\ error = FALSE /\ done = 0
  BY DEF BusInit
<1>2. dev \in [mode : IF sda = 1 THEN {"idle"} ELSE {"idle", "address"}, n : {0}, byte : {Bits(0)},
               out : {1}, heard : {<<>>}, sent : {<<>>}]
  BY DEF BusInit
<1>3. dev \in [mode : {"idle", "address"}, n : {0}, byte : {Bits(0)},
               out : {1}, heard : {<<>>}, sent : {<<>>}]
  BY <1>2
<1>4. Bits(0) \in Eight
  BY BitsEight
<1>5. dev \in Device
  <2>1. PICK m \in {"idle", "address"} :
            dev = [mode |-> m, n |-> 0, byte |-> Bits(0), out |-> 1,
                   heard |-> <<>>, sent |-> <<>>]
    BY <1>3
  <2>2. ASSUME NEW mode \in Mode, NEW n \in 0..9, NEW b \in Eight, NEW o \in {0, 1},
               NEW h \in Seq(Eight), NEW t \in Seq(Eight)
        PROVE  [mode |-> mode, n |-> n, byte |-> b, out |-> o, heard |-> h, sent |-> t] \in Device
    BY DEF Device
  <2>3. m \in Mode /\ 0 \in 0..9 /\ 1 \in {0, 1} /\ <<>> \in Seq(Eight)
    BY <2>1 DEF Mode
  <2> QED
    BY <1>4, <2>1, <2>2, <2>3, Zenon
<1>6. /\ dev.mode \in {"idle", "address"} /\ dev.n = 0 /\ dev.out = 1
      /\ sda = 1 => dev.mode = "idle"
  BY <1>2, <1>3
<1>7. Typed
  BY <1>1, <1>5, NoneRead DEF Typed, Place
<1>8. DeviceInv
  BY <1>1, <1>6 DEF DeviceInv, Wired
<1> QED
  BY <1>1, <1>7, <1>8 DEF BusInv, InitInv, RestInv, StartInv, WriteInv, Writing,
                          RestartInv, DataInv, StopInv, HeardInv, SentInv,
                          ResultInv

(* Nothing happens.                                                        *)
LEMMA BusStuck ==
    ASSUME BusInv, UNCHANGED busVars
    PROVE  BusInv'
<1>1. UNCHANGED <<sda, scl, calls, made, at, job, got, data, error, dev, done>>
  BY DEF busVars, master
<1>2. Typed' /\ DeviceInv'
  BY <1>1 DEF BusInv, Typed, DeviceInv
<1>3. InitInv' /\ RestInv' /\ StartInv'
  BY <1>1 DEF BusInv, InitInv, RestInv, StartInv, Clocked, Deaf, Fresh, Ready,
              Idling
<1>4. Value' = Value /\ More' = More /\ Calling' = Calling /\ Idling' = Idling
  BY <1>1 DEF Value, More, Calling, Idling
<1>5. (Answers \/ Mishears)' = (Answers \/ Mishears)
  BY <1>1, <1>4 DEF Answers, Mishears, Hears, Ready
<1>6. WriteInv'
  BY <1>1, <1>4, <1>5 DEF BusInv, WriteInv
<1>7. RestartInv' /\ DataInv' /\ StopInv'
  BY <1>1, <1>4 DEF BusInv, RestartInv, DataInv, StopInv, Fresh, Ready
<1>8. HeardInv' /\ SentInv' /\ ResultInv'
  BY <1>1, <1>4 DEF BusInv, HeardInv, SentInv, ResultInv, Meant
<1> QED
  BY <1>2, <1>3, <1>6, <1>7, <1>8 DEF BusInv

-----------------------------------------------------------------------------
(* The theorems.                                                           *)

(* BusInv holds throughout.                                                *)
LEMMA BusInductive == BusSpec => []BusInv
<1>1. BusInv /\ [BusNext]_busVars => BusInv'
  <2> SUFFICES ASSUME BusInv, [BusNext]_busVars
               PROVE  BusInv'
    OBVIOUS
  <2>1. CASE LineCall
    BY <2>1, LineStep
  <2>2. CASE Transferring
    BY <2>2, ReturnStep
  <2>3. CASE Restart
    BY <2>3, RestartedInit
  <2>4. CASE UNCHANGED busVars
    BY <2>4, BusStuck
  <2> QED
    BY <2>1, <2>2, <2>3, <2>4 DEF BusNext, LineCall, Transferring
<1> QED
  BY <1>1, BusStarts, PTL DEF BusSpec

(* The lines, the transfer and the sensor have their types: the sensor     *)
(* counts at most nine clocks of a byte, what it hears and what the        *)
(* firmware reads are bytes of eight bits.                                 *)
THEOREM BusTyped == BusSpec => []Typed
<1>1. BusInv => Typed
  BY DEF BusInv
<1> QED
  BY <1>1, BusInductive, PTL

(* Every transfer of either firmware leaves both lines high and the sensor *)
(* waiting for a start, for any address the sensor may have, any length of *)
(* a burst, any contents of its registers and any restarts of the M4.      *)
THEOREM BusFreeProved == BusSpec => []BusFree
<1>1. BusInv => BusFree
  <2> SUFFICES ASSUME BusInv, at = "rest", done > 0
               PROVE  scl = 1 /\ Line = 1 /\ dev.mode = "idle"
    BY DEF BusFree
  <2>1. sda = 1 /\ scl = 1 /\ Idling
    BY DEF BusInv, RestInv, Typed
  <2>2. dev.out = 1
    BY <2>1 DEF BusInv, DeviceInv, Wired, Idling
  <2> QED
    BY <2>1, <2>2 DEF Line, Idling
<1> QED
  BY <1>1, BusInductive, PTL

(* From the second transfer after a start of the M4 on, read_who_am_i,     *)
(* read_registers and write_register fail exactly when the sensor has      *)
(* another address, and otherwise write and read what the sensor hears and *)
(* sends.                                                                  *)
THEOREM TransfersTrueProved == BusSpec => []TransfersTrue
<1>1. BusInv => TransfersTrue
  BY DEF BusInv, ResultInv, Meant, TransfersTrue
<1> QED
  BY <1>1, BusInductive, PTL

=============================================================================
