----------------------------- MODULE FusedFrame -----------------------------
(***************************************************************************)
(* The frames of MonitorClock as the window uses them (accept_sample of    *)
(* gui/app.py): the fusion state machine with its validity checks, the     *)
(* gate of the trajectory, and the history of positions in the filter,     *)
(* whose times have to increase (record_position of tools/eskf.py).        *)
(*                                                                         *)
(* The counters that tell the window of in_step and passed, and what the   *)
(* deques of the calibration and of the rest detector hold, are in         *)
(* Trajectory; here a calibration may complete at any frame.               *)
(***************************************************************************)
EXTENDS Fusion, MonitorClock

CONSTANTS
    AgeLimit,     \* icm_age_limit_ms, and the gate's 30 ms
    MaxStep,      \* longest time between two frames that are joined (0.1 s)
    Memory        \* bound: what was recorded longer ago than this is not told apart

ASSUME GateAssumption ==
    /\ AgeLimit \in Nat /\ SyncJump <= AgeLimit /\ MaxStep \in Nat
    /\ Memory \in Nat /\ Memory > SyncJump

VARIABLES
    based,       \* last_timestamp is not None
    tracking,    \* eskf is not None
    since,       \* arrival of this frame minus the last time in history_times
    raised       \* record_position raised: the exception leaves a Qt slot

windowVars == <<based, tracking, since, raised>>
frameVars == <<vars, clockVars, windowVars>>

FrameInit ==
    /\ Init /\ ClockInit
    /\ based = FALSE /\ tracking = FALSE /\ since = Memory /\ raised = FALSE

Aged(e) == IF since + e < Memory THEN since + e ELSE Memory

-----------------------------------------------------------------------------
(* Fault: the time alignment is taken for good, as the offline replay does. *)
IcmValidReplay(good) == good /\ passed' /\ age' <= AgeLimit

(* icm_valid of FusionStateMachine.update.                                  *)
IcmValid(good) == good /\ passed' /\ in_step' /\ age' <= AgeLimit

(* trajectory_valid of accept_sample, which the fusion's verdict is part of.*)
TrajectoryValid(good, clean) == IcmValid(good) /\ clean /\ age' \in -AgeLimit..AgeLimit

Unrecorded(e) == since' = Aged(e) /\ UNCHANGED raised

(* icm_t=nan: the window does not understand the line.                      *)
Unparsed(e) ==
    /\ ~icm_known'
    /\ Unrecorded(e)
    /\ UNCHANGED <<vars, based, tracking>>

Rejected(e, good, clean) ==
    /\ ~TrajectoryValid(good, clean)
    /\ based' = FALSE
    /\ Unrecorded(e)
    /\ UNCHANGED tracking

Rebases(e, good, clean) ==
    /\ TrajectoryValid(good, clean)
    /\ ~based /\ based' = TRUE
    /\ Unrecorded(e)
    /\ UNCHANGED tracking

(* Time from the last ICM reading to this one; 0 is less than a unit.       *)
Dt(e) == e + read' - read

Follows(e, good, clean) ==
    /\ TrajectoryValid(good, clean)
    /\ based /\ Dt(e) <= MaxStep
    /\ UNCHANGED based

(* The calibration goes on, or is complete.                                 *)
Calibrates(e, good, clean, done) ==
    /\ Follows(e, good, clean)
    /\ ~tracking /\ tracking' = done
    /\ Unrecorded(e)

(* The filter is propagated; record_position takes the frame's mapped time. *)
Records(e, good, clean) ==
    /\ Follows(e, good, clean)
    /\ tracking /\ UNCHANGED tracking
    /\ raised' = (since + e <= delay' - offset')
    /\ since' = IF raised' THEN Aged(e) ELSE delay' - offset'

(* clear_data takes a new state machine and drops the filter.               *)
Clear ==
    /\ Reset
    /\ based' = FALSE /\ tracking' = FALSE /\ since' = Memory
    /\ UNCHANGED raised

Breaks(e, good, clean) ==
    /\ TrajectoryValid(good, clean)
    /\ based /\ Dt(e) > MaxStep
    /\ Clear

(* The clear button.                                                        *)
ClearClicked ==
    /\ ~raised
    /\ Clear
    /\ UNCHANGED clockVars

(* A new connection: clear_data, and a new monitor.                         *)
NewSession ==
    /\ ~raised
    /\ Clear
    /\ offset' = NoOffset /\ delay' \in Delays
    /\ in_step' = TRUE /\ read' = 0 /\ passed' = FALSE /\ icm_known' = FALSE /\ age' = 0

(* One frame through monitor and window.                                    *)
Accept(e, band, good, clean) ==
    /\ icm_known'
    /\ \/ Breaks(e, good, clean)
       \/ /\ Update(band, IcmValid(good))
          /\ \/ Rejected(e, good, clean)
             \/ Rebases(e, good, clean)
             \/ Records(e, good, clean)
             \/ \E done \in BOOLEAN : Calibrates(e, good, clean, done)

Frame ==
    /\ ~raised
    /\ \E k \in 1..(MaxLost + 1), d \in Delays, r \in Reads, ok \in BOOLEAN :
        /\ Pass(k, d, r, ok)
        /\ \/ Unparsed(Elapsed(k, d))
           \/ \E band \in Band, good \in BOOLEAN : \E clean \in {FALSE, good} :
                Accept(Elapsed(k, d), band, good, clean)

FrameNext == Frame \/ ClearClicked \/ NewSession

FrameSpec == FrameInit /\ [][FrameNext]_frameVars

(* The firmware goes on sending frames and the monitor printing them.       *)
FairFrameSpec == FrameSpec /\ WF_frameVars(Frame)
-----------------------------------------------------------------------------
(* Properties.                                                              *)

ClockTypeOK ==
    /\ offset # NoOffset =>
        offset \in Int /\ \E lo, hi \in Delays : lo <= offset /\ offset <= hi
    /\ delay \in Delays
    /\ read \in Reads \cup {0} /\ age \in Int
    /\ in_step \in BOOLEAN /\ passed \in BOOLEAN /\ icm_known \in BOOLEAN
    /\ based \in BOOLEAN /\ tracking \in BOOLEAN /\ raised \in BOOLEAN
    /\ since \in -SyncJump..Memory

(* The variables keep to their domains; the filtered offset stays between   *)
(* delays that frames may have, whatever it has followed, and the debounce  *)
(* counters never pass their limits.                                        *)
FrameTypeOK == TypeOK /\ ClockTypeOK

(* The mapped times given to record_position increase, so that it never     *)
(* raises in the window's slot: over jumps of the offset in both            *)
(* directions, frames that queue up and then arrive in a burst, and         *)
(* rejected frames in between (tools/eskf.py:143).                          *)
RecordsIncrease == ~raised

(* An ICM acceleration is blended in or put in the place of MPU Y only if   *)
(* the buffer it comes from was not zero after the read for this frame, and *)
(* that read was within AgeLimit of the frame, before or after, although    *)
(* FusionStateMachine checks the upper bound only (tools/fusion_state.py:107). *)
FallbackIsTimely ==
    state \in {"BLENDED", "ICM_FALLBACK"} => icm_known /\ passed /\ age \in -AgeLimit..AgeLimit

(* When frames are again hardly delayed, the clocks come back in step and   *)
(* stay so, whatever the offset had become: the window does not reject the  *)
(* ICM for good.                                                            *)
BackInStep == <>[](delay <= SyncJump \div 2) => <>[]in_step
=============================================================================
