----------------------------- MODULE Trajectory -----------------------------
(***************************************************************************)
(* How gui/app.py turns the frames of tools/monitor_dual_imu.py into a     *)
(* trajectory: MainWindow.accept_sample with clear_data, the error         *)
(* counters of the monitor that tell the window of a bad ICM reading, and  *)
(* the buffer that the monitor reads the ICM into.                         *)
(*                                                                         *)
(* Frames are numbered as they are delivered.  Of a frame the model keeps  *)
(* where its ICM values come from, whether the clocks were in step,        *)
(* whether it passes the other validity checks, and whether its time       *)
(* follows the previous frame's by 0 < dt <= 0.1 s.  What the estimators   *)
(* hold is modelled by the frames they were fed.                           *)
(***************************************************************************)
EXTENDS Naturals, Sequences

CONSTANTS
    CalSamples,     \* attitude_samples needed for calibration (100)
    WindowSamples,  \* stationary_samples needed for a static verdict (20)
    UpdateEvery,    \* static frames per gravity update (5)
    MaxFrame,       \* bound: frames delivered
    NoFrame         \* None

ASSUME SizeAssumption ==
    /\ CalSamples \in Nat \ {0} /\ WindowSamples \in Nat \ {0}
    /\ UpdateEvery \in Nat \ {0} /\ MaxFrame \in Nat

VARIABLES
    \* the monitor
    n, spi_errors, sync_errors,
    icm_known,       \* icm_values is not None
    reading,         \* frame for which IcmReader.buffer got its values, 0: it is zero
    \* the window
    calibration_loaded, zupt,
    last_spi_errors, last_sync_errors,
    attitude_samples, attitude_ready,
    stationary_samples, static_counter, is_static,
    last_timestamp,  \* the frame it was taken from, or NoFrame
    \* history
    erred,           \* the last frame with an spi error, or the start of the monitor
    step,            \* the last propagation: from which frame to which
    broken,          \* the last frame at which the time base broke
    born,            \* the frame that completed the calibration in force
    gravity_update   \* the last frame that updated with gravity, or 0

monitor   == <<n, spi_errors, sync_errors, icm_known, reading, erred>>
settings  == <<calibration_loaded, zupt>>
seen      == <<last_spi_errors, last_sync_errors>>
attitude  == <<attitude_samples, attitude_ready>>
rest      == <<stationary_samples, static_counter, is_static>>
history   == <<step, broken, born, gravity_update>>
vars == <<monitor, settings, seen, attitude, rest, last_timestamp, history>>

Frame == [n : Nat, reading : Nat, erred : Nat]

(* What libc.read does, the result of which is not looked at: it fills the  *)
(* buffer with values or with zeros, or fails and leaves it as it was.      *)
Outcome == {"values", "zeros", "failed"}

ASSUME NoFrameAssumption == NoFrame \notin Frame

(* Fault: the deque has no maxlen. *)
PushUnbounded(s, f, k) == Append(s, f)

(* deque(maxlen = k)                                                        *)
Push(s, f, k) == IF Len(s) < k THEN Append(s, f) ELSE Append(Tail(s), f)

Init ==
    /\ n = 0 /\ spi_errors = 0 /\ sync_errors = 0 /\ icm_known = FALSE
    /\ reading = 0 /\ erred = 0
    /\ calibration_loaded \in BOOLEAN /\ zupt = TRUE
    /\ last_spi_errors = 0 /\ last_sync_errors = 0
    /\ attitude_samples = <<>> /\ attitude_ready = FALSE
    /\ stationary_samples = <<>> /\ static_counter = 0 /\ is_static = FALSE
    /\ last_timestamp = NoFrame
    /\ step = NoFrame /\ broken = 0 /\ born = 0 /\ gravity_update = 0

-----------------------------------------------------------------------------
(* A frame leaves the monitor and is compared with the last one seen.       *)

Count(counter, ok) == IF ok THEN counter ELSE counter + 1

(* A reading is valid if the buffer is not all zero, whatever read returned. *)
Measure(icm, in_step) ==
    /\ n < MaxFrame
    /\ n' = n + 1
    /\ reading' = [values |-> n + 1, zeros |-> 0, failed |-> reading][icm]
    /\ spi_errors' = Count(spi_errors, reading' # 0)
    /\ erred' = IF reading' # 0 THEN erred ELSE n + 1
    /\ sync_errors' = Count(sync_errors, in_step)
    /\ icm_known' = (icm_known \/ reading' # 0)

(* The printed line is parsed and becomes a sample.                         *)
Arrive(icm, in_step) ==
    /\ Measure(icm, in_step)
    /\ icm_known'

See ==
    /\ last_spi_errors' = spi_errors'
    /\ last_sync_errors' = sync_errors'

(* Fault: the counters are stored before they are compared. *)
ValidStored(good) == calibration_loaded /\ good

(* trajectory_valid: spi_ok, sync_ok, the calibration and the other gates.  *)
Valid(good) ==
    /\ spi_errors' = last_spi_errors
    /\ sync_errors' = last_sync_errors
    /\ calibration_loaded /\ good

This == [n |-> n + 1, reading |-> reading', erred |-> erred']

(* Fault: the stationary window survives a bad frame. *)
InvalidKeepsWindow ==
    /\ static_counter' = 0 /\ is_static' = FALSE
    /\ attitude_samples' = <<>>
    /\ last_timestamp' = NoFrame
    /\ UNCHANGED <<stationary_samples, attitude_ready, history>>

(* Fault: the time base survives a bad frame. *)
InvalidKeepsBase ==
    /\ stationary_samples' = <<>> /\ static_counter' = 0 /\ is_static' = FALSE
    /\ attitude_samples' = <<>>
    /\ UNCHANGED <<last_timestamp, attitude_ready, history>>

(* An invalid frame interrupts calibration, rest detection and the time     *)
(* base; the filter and its calibration are kept.                           *)
Interrupt ==
    /\ stationary_samples' = <<>> /\ static_counter' = 0 /\ is_static' = FALSE
    /\ attitude_samples' = <<>>
    /\ last_timestamp' = NoFrame
    /\ UNCHANGED <<attitude_ready, history>>

(* clear_data: also forgets the error counters, which the monitor keeps.    *)
Clear ==
    /\ last_spi_errors' = 0 /\ last_sync_errors' = 0
    /\ attitude_samples' = <<>> /\ attitude_ready' = FALSE
    /\ stationary_samples' = <<>> /\ static_counter' = 0 /\ is_static' = FALSE
    /\ last_timestamp' = NoFrame

(* attitude_samples is full and the board was still: the filter is created. *)
Calibrate(f, still) ==
    /\ attitude_samples' = Push(attitude_samples, f, CalSamples)
    /\ attitude_ready' = (Len(attitude_samples') >= CalSamples /\ still)
    /\ born' = IF attitude_ready' THEN f.n ELSE born
    /\ UNCHANGED <<rest, step, broken, gravity_update>>

(* Fault: every static frame is used for a gravity update. *)
GravityAlways == zupt /\ is_static'

GravityDue == zupt /\ is_static' /\ static_counter' % UpdateEvery = 0

(* predict from the last frame to this one, then the rest detector.         *)
Propagate(f, still) ==
    /\ step' = <<last_timestamp, f>>
    /\ stationary_samples' = Push(stationary_samples, f, WindowSamples)
    /\ is_static' = (Len(stationary_samples') >= WindowSamples /\ still)
    /\ static_counter' = IF is_static' THEN static_counter + 1 ELSE 0
    /\ gravity_update' = IF GravityDue THEN f.n ELSE gravity_update
    /\ UNCHANGED <<attitude, broken, born>>

-----------------------------------------------------------------------------
(* accept_sample, by the return it leaves through.                          *)

(* Until the first ICM reading the monitor prints icm_t=nan, which          *)
(* parse_sample does not accept: the line goes to the log.                  *)
LineUnparsed(icm, in_step) ==
    /\ Measure(icm, in_step)
    /\ ~icm_known'
    /\ UNCHANGED <<settings, seen, attitude, rest, last_timestamp, history>>

FrameInvalid(icm, in_step, good) ==
    /\ Arrive(icm, in_step)
    /\ ~Valid(good)
    /\ See
    /\ Interrupt
    /\ UNCHANGED settings

FrameRebases(icm, in_step, good) ==
    /\ Arrive(icm, in_step)
    /\ Valid(good)
    /\ last_timestamp = NoFrame
    /\ See
    /\ last_timestamp' = This
    /\ UNCHANGED <<settings, attitude, rest, history>>

(* Fault: a break in time only moves the time base. *)
BreakRebases(icm, in_step, good) ==
    /\ Arrive(icm, in_step)
    /\ Valid(good)
    /\ last_timestamp # NoFrame
    /\ See
    /\ last_timestamp' = This
    /\ broken' = n + 1
    /\ UNCHANGED <<settings, attitude, rest, step, born, gravity_update>>

(* Time went backwards, or more than 0.1 s is missing.                      *)
FrameBreaks(icm, in_step, good) ==
    /\ Arrive(icm, in_step)
    /\ Valid(good)
    /\ last_timestamp # NoFrame
    /\ Clear
    /\ broken' = n + 1
    /\ UNCHANGED <<settings, step, born, gravity_update>>

FrameFollows(icm, in_step, good, still) ==
    /\ Arrive(icm, in_step)
    /\ Valid(good)
    /\ last_timestamp # NoFrame
    /\ See
    /\ last_timestamp' = This
    /\ IF attitude_ready THEN Propagate(This, still) ELSE Calibrate(This, still)
    /\ UNCHANGED settings

(* The clear button, and the ZUPT box, which nothing else reacts to.        *)
ClearClicked ==
    /\ Clear
    /\ UNCHANGED <<monitor, settings, history>>

ZuptToggled ==
    /\ zupt' = ~zupt
    /\ UNCHANGED <<monitor, calibration_loaded, seen, attitude, rest, last_timestamp, history>>

(* _begin_stream: the data are cleared and a new monitor counts from zero.  *)
(* One frame number is skipped: what follows does not continue what was.    *)
NewSession ==
    /\ n < MaxFrame
    /\ Clear
    /\ n' = n + 1 /\ spi_errors' = 0 /\ sync_errors' = 0 /\ icm_known' = FALSE
    /\ reading' = 0 /\ erred' = n + 1
    /\ UNCHANGED <<settings, history>>

Next ==
    \/ \E icm \in Outcome, in_step, good \in BOOLEAN :
        \/ LineUnparsed(icm, in_step)
        \/ FrameInvalid(icm, in_step, good)
        \/ FrameRebases(icm, in_step, good)
        \/ FrameBreaks(icm, in_step, good)
        \/ \E still \in BOOLEAN : FrameFollows(icm, in_step, good, still)
    \/ ClearClicked \/ ZuptToggled \/ NewSession

Spec == Init /\ [][Next]_vars

-----------------------------------------------------------------------------
(* Properties.                                                              *)

(* Every variable keeps to its domain, and the deques to their lengths.     *)
TypeOK ==
    /\ n \in 0..MaxFrame /\ spi_errors \in Nat /\ sync_errors \in Nat
    /\ icm_known \in BOOLEAN /\ reading \in 0..MaxFrame /\ erred \in 0..MaxFrame
    /\ calibration_loaded \in BOOLEAN /\ zupt \in BOOLEAN
    /\ last_spi_errors \in Nat /\ last_sync_errors \in Nat
    /\ attitude_samples \in Seq(Frame) /\ Len(attitude_samples) <= CalSamples
    /\ attitude_ready \in BOOLEAN
    /\ stationary_samples \in Seq(Frame) /\ Len(stationary_samples) <= WindowSamples
    /\ static_counter \in Nat /\ is_static \in BOOLEAN
    /\ last_timestamp \in Frame \cup {NoFrame}
    /\ step \in (Frame \X Frame) \cup {NoFrame}
    /\ broken \in 0..MaxFrame /\ born \in 0..MaxFrame /\ gravity_update \in 0..MaxFrame

(* The frames of s are the last Len(s) frames delivered, one by one.        *)
Latest(s) == \A i \in 1..Len(s) : s[i].n + Len(s) = n + i

(* The calibration averages an unbroken run of frames that ends now: an     *)
(* invalid frame, a break in time or a new connection starts it afresh.     *)
CalibrationUnbroken == ~attitude_ready => Latest(attitude_samples)

(* The window the rest detector judges is an unbroken run of frames, so     *)
(* that its verdict is about the present.                                   *)
WindowUnbroken == Latest(stationary_samples)

(* Neither deque spans a gap.                                               *)
BuffersUnbroken == CalibrationUnbroken /\ WindowUnbroken

(* The filter is propagated from one frame to the very next: no time is     *)
(* integrated over a frame that was not used (gui/README.md:48).            *)
NothingSkipped == step # NoFrame => step[2].n = step[1].n + 1

(* The window's comparison of error counts keeps every reading that the     *)
(* monitor counted as an error from being propagated, calibrated with or    *)
(* judged, also after the window's counters were cleared and the monitor's  *)
(* were not.  What is fed was read in this connection, for this frame or,   *)
(* when read failed and the buffer still held values, for an earlier one -  *)
(* but never for one before an error.                                       *)
ReadSinceError ==
    LET sound(f) == f.erred < f.reading /\ f.reading <= f.n
    IN  /\ step # NoFrame => sound(step[1]) /\ sound(step[2])
        /\ \A i \in 1..Len(attitude_samples) : sound(attitude_samples[i])
        /\ \A i \in 1..Len(stationary_samples) : sound(stationary_samples[i])

(* No calibration outlives a break of the time base (gui/README.md:48).     *)
CalibratedSinceBreak == attitude_ready => born > broken

(* "Call at <=10 Hz with window means" (tools/eskf.py:94): two gravity      *)
(* updates are at least UpdateEvery frames apart, also when the ZUPT box is *)
(* toggled or the window cleared in between.                                *)
GravitySpaced ==
    [][gravity_update' # gravity_update /\ gravity_update # 0
           => gravity_update' >= gravity_update + UpdateEvery]_vars
=============================================================================
