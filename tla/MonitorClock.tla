---------------------------- MODULE MonitorClock ----------------------------
(***************************************************************************)
(* How tools/monitor_dual_imu.py puts a frame of the M4 and an ICM reading *)
(* on one clock.  The M4 stamps a frame with its own milliseconds; the     *)
(* monitor follows the distance of the two clocks with a first-order       *)
(* filter, maps the stamp to its own time and prints how old the ICM       *)
(* reading is against it.                                                  *)
(*                                                                         *)
(* Times are integers in a unit of the model, and the M4's clock is the    *)
(* reference: the distance between the clocks is 0, so that the estimate   *)
(* a frame gives is the time the frame was under way.  Instants are not    *)
(* kept, only their distances to the frame's arrival.                      *)
(***************************************************************************)
EXTENDS Integers

CONSTANTS
    Period,      \* between two frames of the M4 (20 ms)
    Inertia,     \* 1 / OFFSET_ALPHA (20)
    SyncJump,    \* SYNC_JUMP_MS (20 ms)
    Delays,      \* how long a frame may be under way
    Reads,       \* how long reading the ICM may take
    MaxLost,     \* bound: frames lost in a row
    NoOffset     \* None

ASSUME ClockAssumption ==
    /\ Period \in Nat \ {0} /\ Inertia \in Nat \ {0, 1} /\ SyncJump \in Nat
    /\ Delays \subseteq Nat /\ Reads \subseteq Nat /\ MaxLost \in Nat
    /\ NoOffset \notin Int

(* Against this clock's drift and jitter the filter is fast enough.         *)
ASSUME RateAssumption == (Inertia - 1) * Period > SyncJump + Inertia - 1

VARIABLES
    offset,      \* filtered distance of the clocks, or NoOffset
    delay,       \* the last frame's time under way
    in_step,     \* sync_errors stood still
    read,        \* how long the last ICM reading took
    passed,      \* the buffer was not all zero then: spi_errors stood still
    icm_known,   \* icm_values is not None
    age          \* icm_time of a reading that passed, minus mapped_time

clockVars == <<offset, delay, in_step, read, passed, icm_known, age>>

ClockInit ==
    /\ offset = NoOffset /\ delay \in Delays
    /\ in_step = TRUE /\ read = 0 /\ passed = FALSE /\ icm_known = FALSE /\ age = 0

(* Local time from the last frame's arrival to this one's, k periods later. *)
Elapsed(k, d) == k * Period + d - delay

(* Fault: an estimate that is out of step is thrown away. *)
FilterGated(d) ==
    IF offset = NoOffset
    THEN offset' = d /\ in_step' = TRUE
    ELSE /\ in_step' = (d - offset \in -SyncJump..SyncJump)
         /\ offset' = IF in_step' THEN offset + (d - offset) \div Inertia ELSE offset

(* Fault: the correction is applied with the wrong sign. *)
FilterReversed(d) ==
    IF offset = NoOffset
    THEN offset' = d /\ in_step' = TRUE
    ELSE /\ in_step' = (d - offset \in -SyncJump..SyncJump)
         /\ offset' = offset - (d - offset) \div Inertia

(* The offset follows every estimate, also one that counts as an error.     *)
Filter(d) ==
    IF offset = NoOffset
    THEN offset' = d /\ in_step' = TRUE
    ELSE /\ in_step' = (d - offset \in -SyncJump..SyncJump)
         /\ offset' = offset + (d - offset) \div Inertia

(* One pass of the monitor's loop: the next frame is taken when the last    *)
(* ICM reading is done, the ICM is read, and the times are compared.  A     *)
(* read that failed passes too if it left values in the buffer (Trajectory).*)
Pass(k, d, r, ok) ==
    /\ Elapsed(k, d) >= read
    /\ delay' = d
    /\ read' = r /\ passed' = ok
    /\ icm_known' = (icm_known \/ ok)
    /\ Filter(d)
    /\ age' = d + r - offset'
=============================================================================
