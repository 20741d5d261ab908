---------------------------- MODULE Calibration ----------------------------
(***************************************************************************)
(* The calibration tool (tools/calibrate_dual_imu.py) and the window that  *)
(* loads its result (_load_calibration of gui/app.py).                     *)
(*                                                                         *)
(* The tool goes through its stages: time alignment, frame rotation,       *)
(* accelerometer fit.  Each may fail on its data, and each of the last two *)
(* writes a JSON file before the verdict is known.  Only the file that the *)
(* window loads is followed; the user may name it for either of the two    *)
(* outputs, or for both.  What the numeric fits return is a choice.        *)
(***************************************************************************)
EXTENDS StaticPoses, FiniteSets

CONSTANTS
    MinPoses,       \* poses the accelerometer fit asks for
    MaxRuns,        \* bound: runs of the tool
    Nil             \* a key that is not in the file

ASSUME ToolAssumption == MinPoses \in Nat \ {0} /\ MaxRuns \in Nat /\ Nil \notin Nat

Version == 0..(2 * MaxRuns)    \* one for each time the file is written
Keys == {"rotation", "icm_bias", "mpu_bias"}
Options == {"static", "frame_json", "accel_static", "accel_json"}

(* What the two kinds of file hold.  The lines of JSON are in this order;   *)
(* mpu_bias is inside "metrics".                                            *)
FramePayload == <<"rotation">>
AccelPayload == <<"icm_bias", "rotation", "mpu_bias">>

VARIABLES
    pc,          \* where the tool is; "idle" when it does not run
    run,         \* its runs so far
    options,     \* what it was asked for
    passed,      \* time_pass and frame_pass and accel_pass, as far as known
    exit,        \* how the last run ended: "none", "pass", "fail"
    payload,     \* what json.dump has still to write
    file,        \* the version each key in the file comes from
    closed,      \* the file ends with the closing brace
    version,     \* history: how often the file was opened to be written
    kind,        \* history: "frame" or "accel", what each version is
    window       \* the window's calibration: loaded, and the version of each value

toolVars == <<run, options, passed, exit, payload>>
fileVars == <<file, closed, version, kind>>
vars == <<posesVars, pc, toolVars, fileVars, window>>

Init ==
    /\ PosesInit
    /\ pc = "idle" /\ run = 0
    /\ options = {} /\ passed = FALSE /\ exit = "none" /\ payload = <<>>
    /\ file = [k \in Keys |-> 0] /\ closed = TRUE
    /\ version = 0 /\ kind = [v \in Version |-> "accel"]
    /\ window = [loaded |-> FALSE, from |-> [k \in Keys |-> Nil]]

-----------------------------------------------------------------------------
(* The tool.                                                                *)

Go(from, to) == pc = from /\ pc' = to

Start ==
    /\ run < MaxRuns
    /\ Go("idle", "time")
    /\ run' = run + 1
    /\ options' \in SUBSET Options
    /\ passed' = FALSE /\ exit' = "none" /\ payload' = <<>>
    /\ UNCHANGED <<posesVars, fileVars, window>>

(* SystemExit (no frames in a log, too few poses, --accel-static without    *)
(* --static), a log that cannot be opened, Ctrl+C: at any step.             *)
Ends ==
    /\ pc # "idle" /\ pc' = "idle"
    /\ exit' = "fail"
    /\ Load(<<>>)
    /\ UNCHANGED <<run, options, passed, payload, fileVars, window>>

(* The delay of the clocks, over the whole log and window by window.        *)
TimeStage ==
    /\ Go("time", IF "static" \in options THEN "frame" ELSE "accel")
    /\ passed' \in BOOLEAN
    /\ UNCHANGED <<posesVars, run, options, exit, payload, fileVars, window>>

FrameStage ==
    /\ Go("frame", IF "frame_json" \in options THEN "open_frame" ELSE "accel")
    /\ passed' \in {FALSE, passed}
    /\ UNCHANGED <<posesVars, run, options, exit, payload, fileVars, window>>

(* Fault: the file is not truncated. *)
TruncateNot == UNCHANGED <<file, closed>>

(* open(path, "w").                                                         *)
Truncate ==
    /\ file' = [k \in Keys |-> Nil]
    /\ closed' = FALSE

Open(from, to, keys, what) ==
    /\ Go(from, to)
    /\ Truncate
    /\ payload' = keys
    /\ version' = version + 1
    /\ kind' = [kind EXCEPT ![version + 1] = what]
    /\ UNCHANGED <<posesVars, run, options, passed, exit, window>>

OpenFrame == Open("open_frame", "dump_frame", FramePayload, "frame")
OpenAccel == Open("open_accel", "dump_accel", AccelPayload, "accel")

(* What json.dump has written may reach the file at any time.               *)
Dump ==
    /\ pc \in {"dump_frame", "dump_accel"} /\ payload # <<>>
    /\ file' = [file EXCEPT ![Head(payload)] = version]
    /\ payload' = Tail(payload)
    /\ UNCHANGED <<posesVars, pc, run, options, passed, exit, closed, version, kind, window>>

CloseFile ==
    /\ payload = <<>>
    /\ \/ Go("dump_frame", "accel")
       \/ Go("dump_accel", "result")
    /\ closed' = TRUE
    /\ UNCHANGED <<posesVars, toolVars, file, version, kind, window>>

(* rotation is not None once the frame stage has run.                       *)
AccelStage ==
    /\ \/ /\ "accel_static" \notin options
          /\ Go("accel", "result")
          /\ UNCHANGED posesVars
       \/ /\ {"static", "accel_static"} \subseteq options
          /\ Go("accel", "scan")
          /\ \E n \in 1..Length : \E log \in [1..n -> BOOLEAN] : Load(log)
    /\ UNCHANGED <<toolVars, fileVars, window>>

ScanFrame   == pc = "scan" /\ Scan /\ UNCHANGED <<pc, toolVars, fileVars, window>>
ScanDone    == Go("scan", "poses") /\ ScanEnds /\ UNCHANGED <<toolVars, fileVars, window>>
ExaminePose ==
    /\ pc = "poses" /\ \E d \in Directions \cup {Weightless} : Examine(d)
    /\ UNCHANGED <<pc, toolVars, fileVars, window>>

Fit ==
    /\ index = Len(runs) + 1 /\ Len(poses) >= MinPoses
    /\ Go("poses", IF "accel_json" \in options THEN "open_accel" ELSE "result")
    /\ passed' \in {FALSE, passed}
    /\ UNCHANGED <<posesVars, run, options, exit, payload, fileVars, window>>

(* RESULT: and the exit code.                                               *)
Verdict ==
    /\ Go("result", "idle")
    /\ exit' = IF passed THEN "pass" ELSE "fail"
    /\ Load(<<>>)
    /\ UNCHANGED <<run, options, passed, payload, fileVars, window>>

Tool ==
    \/ Start \/ Ends \/ TimeStage \/ FrameStage \/ OpenFrame \/ OpenAccel \/ Dump \/ CloseFile
    \/ AccelStage \/ ScanFrame \/ ScanDone \/ ExaminePose \/ Fit \/ Verdict

-----------------------------------------------------------------------------
(* The window.                                                              *)

(* json.loads, and data["rotation_icm_to_mpu"], raise no exception.         *)
Parses == closed /\ file["rotation"] # Nil

(* Made once per window.  The biases have defaults of 0, the rotation has   *)
(* none; after an exception the window has no calibration.                  *)
LoadCalibration ==
    /\ window' = [loaded |-> Parses,
                  from   |-> IF Parses THEN file ELSE [k \in Keys |-> Nil]]
    /\ UNCHANGED <<posesVars, pc, toolVars, fileVars>>

Next == Tool \/ LoadCalibration

Spec == Init /\ [][Next]_vars
-----------------------------------------------------------------------------
(* Properties.                                                              *)

(* The poses the accelerometer is fitted on are the rests of the log that   *)
(* are long enough, also one at either end of it, less those that are near  *)
(* the last pose taken; a slow tilt over many rests is noticed              *)
(* (tools/calibrate_dual_imu.py:116).                                       *)
PosesExact ==
    /\ pc = "poses" => RunsExact
    /\ pc = "poses" => PosesFollow

(* The window's rotation and biases are of one version, and a default      *)
(* stands in only for what that version does not hold: a window that is     *)
(* opened while the tool writes, or after it was interrupted, has no        *)
(* calibration rather than part of one (gui/app.py:623).                    *)
WindowWhole ==
    window.loaded =>
        LET v == window.from["rotation"] IN
        \A k \in Keys : window.from[k] = IF k = "rotation" \/ kind[v] = "accel" THEN v ELSE Nil

(* A run that was asked to write the file and passed has left it whole.     *)
PassLoadable ==
    /\ exit = "pass" /\ {"static", "frame_json"} \subseteq options => Parses
    /\ exit = "pass" /\ {"static", "accel_static", "accel_json"} \subseteq options =>
        Parses /\ kind[file["rotation"]] = "accel"

OneCalibration == WindowWhole /\ PassLoadable
=============================================================================
