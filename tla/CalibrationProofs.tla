-------------------------- MODULE CalibrationProofs --------------------------
(***************************************************************************)
(* Proofs about Calibration, for any logs, any number of runs of the tool  *)
(* and any moment at which a window is opened: a window has all of one     *)
(* version of the file or nothing, and the poses fitted are the rests that *)
(* should count.                                                           *)
(***************************************************************************)
EXTENDS Calibration, TLAPS

Stage == {"idle", "time", "frame", "open_frame", "dump_frame", "accel", "scan", "poses",
          "open_accel", "dump_accel", "result"}

Written == Version \cup {Nil}

TypeInv ==
    /\ pc \in Stage /\ run \in 0..MaxRuns /\ exit \in {"none", "pass", "fail"}
    /\ version \in Nat /\ kind \in [Version -> {"frame", "accel"}]
    /\ file \in [Keys -> Written]
    /\ window.from \in [Keys -> Written]

(* Each run opens the file at most twice.                                   *)
VersionInv ==
    /\ pc \in {"time", "frame", "open_frame"} => version <= 2 * run - 2
    /\ pc \in {"dump_frame", "accel", "scan", "poses", "open_accel"} => version <= 2 * run - 1
    /\ version <= 2 * run
    /\ \A k \in Keys : file[k] # Nil => file[k] <= version
    /\ \A k \in Keys : window.from[k] # Nil => window.from[k] <= version

(* Values of one version, all that this kind of file holds.                 *)
Whole(from) ==
    /\ from["rotation"] # Nil
    /\ \A k \in Keys :
        from[k] = IF k = "rotation" \/ kind[from["rotation"]] = "accel"
                  THEN from["rotation"] ELSE Nil

(* The keys in S have been written since the file was opened, these only.   *)
Holds(S) == file = [k \in Keys |-> IF k \in S THEN version ELSE Nil]

(* While the file is written it is not closed, and an interrupted tool      *)
(* leaves it so: that is all that protects a window from half a file.       *)
FileInv ==
    /\ closed => Whole(file)
    /\ pc = "dump_frame" =>
        /\ ~closed /\ kind[version] = "frame"
        /\ \/ payload = FramePayload /\ Holds({})
           \/ payload = <<>> /\ Holds({"rotation"})
    /\ pc = "dump_accel" =>
        /\ ~closed /\ kind[version] = "accel"
        /\ \/ payload = AccelPayload /\ Holds({})
           \/ payload = <<"rotation", "mpu_bias">> /\ Holds({"icm_bias"})
           \/ payload = <<"mpu_bias">> /\ Holds({"icm_bias", "rotation"})
           \/ payload = <<>> /\ Holds(Keys)

WindowInv == window.loaded => Whole(window.from)

(* What a run that is still to pass has written so far.                     *)
ResultInv ==
    /\ pc \in {"accel", "scan", "poses", "open_accel", "result"}
         /\ {"static", "frame_json"} \subseteq options => closed
    /\ pc = "result" /\ {"static", "accel_static", "accel_json"} \subseteq options =>
         closed /\ kind[file["rotation"]] = "accel"
    /\ exit = "pass" => pc = "idle" /\ PassLoadable

CalibrationInv == TypeInv /\ VersionInv /\ FileInv /\ WindowInv /\ ResultInv

LEMMA Bounds ==
    /\ MaxRuns \in Nat /\ Version = 0..(2 * MaxRuns) /\ Version \subseteq Nat
    /\ 0 \in Version /\ Nil \notin Nat /\ Nil \notin Version
BY ToolAssumption DEF Version

LEMMA CalibrationInit == Init => CalibrationInv
<1> SUFFICES ASSUME Init PROVE CalibrationInv
  OBVIOUS
<1>1. TypeInv
  BY Bounds DEF Init, TypeInv, Stage, Written
<1>2. VersionInv
  BY Bounds DEF Init, VersionInv
<1>3. FileInv
  BY Bounds DEF Init, FileInv, Whole, Keys
<1>4. WindowInv /\ ResultInv
  BY DEF Init, WindowInv, ResultInv
<1>5. QED
  BY <1>1, <1>2, <1>3, <1>4 DEF CalibrationInv

-----------------------------------------------------------------------------
(* The steps of the tool that leave the file alone.                         *)
Computes == UNCHANGED <<file, closed, version, kind, window>>

LEMMA ComputeStep ==
    ASSUME CalibrationInv,
           \/ Start \/ Ends \/ TimeStage \/ FrameStage \/ AccelStage
           \/ ScanFrame \/ ScanDone \/ ExaminePose \/ Fit \/ Verdict
    PROVE  CalibrationInv'
<1> USE DEF toolVars, fileVars, Go
<1>0. TypeInv /\ VersionInv /\ FileInv /\ WindowInv /\ ResultInv
  BY DEF CalibrationInv
<1>1. /\ Computes
      /\ pc \notin {"dump_frame", "dump_accel"} \/ Ends
      /\ pc' \in Stage \ {"dump_frame", "dump_accel"}
      /\ run' = run \/ Start
      /\ exit' = exit \/ exit' \in {"none", "pass", "fail"}
  <2> USE DEF Computes, Stage
  <2>1. CASE Start \/ Ends
    BY <2>1 DEF Start, Ends
  <2>2. CASE TimeStage \/ FrameStage \/ AccelStage
    BY <2>2 DEF TimeStage, FrameStage, AccelStage
  <2>3. CASE ScanFrame \/ ScanDone \/ ExaminePose
    BY <2>3 DEF ScanFrame, ScanDone, ExaminePose
  <2>4. CASE Fit \/ Verdict
    BY <2>4 DEF Fit, Verdict
  <2>5. QED
    BY <2>1, <2>2, <2>3, <2>4
<1>2. run' \in 0..MaxRuns /\ exit' \in {"none", "pass", "fail"}
  <2>1. exit \in {"none", "pass", "fail"} /\ run \in 0..MaxRuns
    BY <1>0 DEF TypeInv
  <2>2. Start => run' \in 0..MaxRuns
    BY <2>1, Bounds DEF Start
  <2>3. QED
    BY <1>1, <2>1, <2>2
<1>3. TypeInv'
  BY <1>0, <1>1, <1>2 DEF TypeInv, Computes
<1>4. VersionInv'
  <2>1. CASE Start
    <3>1. run' = run + 1 /\ pc' = "time" /\ run \in Nat /\ version \in Nat
      BY <1>0, <2>1, Bounds DEF Start, TypeInv
    <3>2. QED
      BY <1>0, <1>1, <3>1 DEF VersionInv, Computes
  <2>2. CASE ~Start
    <3>1. run' = run /\ run \in Nat /\ version \in Nat
      BY <1>0, <1>1, <2>2, Bounds DEF TypeInv
    <3>2. pc' \in {"time", "frame", "open_frame"} => pc \in {"time", "frame", "open_frame"}
      BY <2>2 DEF Ends, TimeStage, FrameStage, AccelStage, ScanFrame, ScanDone,
             ExaminePose, Fit, Verdict
    <3>3. pc' \in {"dump_frame", "accel", "scan", "poses", "open_accel"} =>
            pc \in {"time", "frame", "open_frame", "dump_frame", "accel", "scan", "poses", "open_accel"}
      BY <2>2 DEF Ends, TimeStage, FrameStage, AccelStage, ScanFrame, ScanDone,
             ExaminePose, Fit, Verdict
    <3>4. QED
      BY <1>0, <1>1, <3>1, <3>2, <3>3 DEF VersionInv, Computes
  <2>3. QED
    BY <2>1, <2>2
<1>5. FileInv' /\ WindowInv'
  BY <1>0, <1>1 DEF FileInv, WindowInv, Whole, Computes
<1>6. ResultInv'
  <2>1. CASE Start
    BY <2>1 DEF Start, ResultInv
  <2>2. CASE Ends
    BY <2>2 DEF Ends, ResultInv
  <2>3. CASE TimeStage \/ FrameStage \/ AccelStage \/ ScanFrame \/ ScanDone \/ ExaminePose \/ Fit
    <3>1. options' = options /\ exit' = exit /\ closed' = closed /\ pc # "idle"
      BY <1>1, <2>3 DEF Computes, TimeStage, FrameStage, AccelStage, ScanFrame, ScanDone, ExaminePose, Fit
    <3>2. exit' # "pass"
      BY <1>0, <3>1 DEF ResultInv
    <3>3. pc' \in {"accel", "scan", "poses", "open_accel", "result"}
            /\ {"static", "frame_json"} \subseteq options =>
              pc \in {"accel", "scan", "poses", "open_accel", "result"}
      BY <2>3 DEF TimeStage, FrameStage, AccelStage, ScanFrame, ScanDone, ExaminePose, Fit
    <3>4. ~(pc' = "result" /\ {"static", "accel_static", "accel_json"} \subseteq options)
      BY <2>3 DEF TimeStage, FrameStage, AccelStage, ScanFrame, ScanDone, ExaminePose, Fit
    <3>5. QED
      BY <1>0, <3>1, <3>2, <3>3, <3>4 DEF ResultInv
  <2>4. CASE Verdict
    <3>1. pc = "result" /\ pc' = "idle" /\ options' = options
      BY <2>4 DEF Verdict
    <3>2. {"static", "frame_json"} \subseteq options => closed
      BY <1>0, <3>1 DEF ResultInv
    <3>3. {"static", "accel_static", "accel_json"} \subseteq options =>
            closed /\ kind[file["rotation"]] = "accel"
      BY <1>0, <3>1 DEF ResultInv
    <3>4. closed => Parses
      BY <1>0 DEF FileInv, Whole, Parses
    <3>5. Parses' = Parses /\ UNCHANGED <<closed, kind, file>>
      BY <1>1 DEF Parses, Computes
    <3>6. PassLoadable'
      BY <3>1, <3>2, <3>3, <3>4, <3>5 DEF PassLoadable
    <3>7. QED
      BY <3>1, <3>6 DEF ResultInv
  <2>5. QED
    BY <2>1, <2>2, <2>3, <2>4
<1>7. QED
  BY <1>3, <1>4, <1>5, <1>6 DEF CalibrationInv

(* open(path, "w") for either kind of file.                                 *)
LEMMA OpenStep == ASSUME CalibrationInv, OpenFrame \/ OpenAccel PROVE CalibrationInv'
<1>0. TypeInv /\ VersionInv /\ FileInv /\ WindowInv /\ ResultInv
  BY DEF CalibrationInv
<1>1. PICK what \in {"frame", "accel"} :
        /\ version' = version + 1 /\ kind' = [kind EXCEPT ![version + 1] = what]
        /\ file' = [k \in Keys |-> Nil] /\ closed' = FALSE
        /\ UNCHANGED <<run, options, exit, window>>
        /\ \/ /\ what = "frame" /\ payload' = FramePayload
              /\ pc = "open_frame" /\ pc' = "dump_frame"
           \/ /\ what = "accel" /\ payload' = AccelPayload
              /\ pc = "open_accel" /\ pc' = "dump_accel"
  BY DEF OpenFrame, OpenAccel, Open, Go, Truncate
<1>2. /\ version \in Nat /\ run \in 0..MaxRuns /\ MaxRuns \in Nat
      /\ pc' = "dump_frame" => version + 1 <= 2 * run - 1
      /\ version + 1 <= 2 * run
  BY <1>0, <1>1, Bounds DEF TypeInv, VersionInv
<1>3. version + 1 \in Version /\ kind \in [Version -> {"frame", "accel"}]
  BY <1>0, <1>2, Bounds DEF TypeInv
<1>4. kind'[version'] = what /\ \A v \in Version : v <= version => kind'[v] = kind[v]
  BY <1>1, <1>2, <1>3, Bounds
<1>5. TypeInv'
  <2>1. kind' \in [Version -> {"frame", "accel"}]
    BY <1>1, <1>3
  <2>2. file' \in [Keys -> Written]
    BY <1>1 DEF Written
  <2>3. pc' \in Stage
    BY <1>1 DEF Stage
  <2>4. QED
    BY <1>0, <1>1, <1>2, <2>1, <2>2, <2>3 DEF TypeInv
<1>6. \A k \in Keys : window.from[k] # Nil => window.from[k] \in Version /\ window.from[k] <= version
  BY <1>0 DEF TypeInv, Written, VersionInv
<1>7. VersionInv'
  <2>1. \A k \in Keys : file'[k] = Nil
    BY <1>1
  <2>2. \A k \in Keys : window'.from[k] # Nil => window'.from[k] <= version'
    BY <1>1, <1>2, <1>6, Bounds
  <2>3. QED
    BY <1>1, <1>2, <2>1, <2>2 DEF VersionInv
<1>8. FileInv'
  <2>1. Holds({})'
    BY <1>1 DEF Holds
  <2>2. QED
    BY <1>1, <1>4, <2>1 DEF FileInv
<1>9. WindowInv'
  <2>1. ASSUME Whole(window.from) PROVE Whole(window.from)'
    <3>1. window.from["rotation"] # Nil /\ window' = window
      BY <1>1, <2>1 DEF Whole
    <3>2. kind'[window.from["rotation"]] = kind[window.from["rotation"]]
      BY <1>4, <1>6, <3>1 DEF Keys
    <3>3. QED
      BY <2>1, <3>1, <3>2 DEF Whole
  <2>2. QED
    BY <1>0, <1>1, <2>1 DEF WindowInv
<1>10. ResultInv'
  BY <1>0, <1>1 DEF ResultInv
<1>11. QED
  BY <1>5, <1>7, <1>8, <1>9, <1>10 DEF CalibrationInv

(* One value more is in the file.                                           *)
LEMMA DumpStep == ASSUME CalibrationInv, Dump PROVE CalibrationInv'
<1>0. TypeInv /\ VersionInv /\ FileInv /\ WindowInv /\ ResultInv
  BY DEF CalibrationInv
<1>1. /\ pc \in {"dump_frame", "dump_accel"} /\ payload # <<>>
      /\ file' = [file EXCEPT ![Head(payload)] = version]
      /\ payload' = Tail(payload)
      /\ UNCHANGED <<pc, run, options, exit, closed, version, kind, window>>
  BY DEF Dump
<1>2. ~closed
  BY <1>0, <1>1 DEF FileInv
<1>3. file \in [Keys -> Written] /\ version \in Version /\ version \in Nat
  BY <1>0, Bounds DEF TypeInv, VersionInv
<1>4. Head(payload) \in Keys
  BY <1>0, <1>1 DEF FileInv, FramePayload, AccelPayload, Keys
<1>5. \A k \in Keys : file'[k] = IF k = Head(payload) THEN version ELSE file[k]
  BY <1>1, <1>3, <1>4
<1>6. ASSUME NEW S \in SUBSET Keys, NEW T \in SUBSET Keys, T = S \cup {Head(payload)}, Holds(S)
      PROVE  Holds(T)'
  <2>1. file' \in [Keys -> Written] /\ DOMAIN file' = Keys
    BY <1>1, <1>3, <1>4 DEF Written
  <2>2. \A k \in Keys : file'[k] = IF k \in T THEN version' ELSE Nil
    BY <1>1, <1>5, <1>6 DEF Holds
  <2>3. QED
    BY <2>1, <2>2 DEF Holds
<1>7. FileInv'
  <2>1. CASE pc = "dump_frame"
    <3>1. payload = FramePayload /\ Holds({}) /\ kind[version] = "frame"
      BY <1>0, <1>1, <2>1 DEF FileInv
    <3>2. Head(payload) = "rotation" /\ payload' = <<>>
      BY <1>1, <3>1 DEF FramePayload
    <3>3. {"rotation"} = {} \cup {Head(payload)} /\ {"rotation"} \in SUBSET Keys
      BY <3>2 DEF Keys
    <3>4. Holds({"rotation"})'
      BY <1>6, <3>1, <3>3
    <3>5. QED
      BY <1>1, <1>2, <2>1, <3>1, <3>2, <3>4 DEF FileInv
  <2>2. CASE pc = "dump_accel"
    <3>0. kind[version] = "accel"
      BY <1>0, <2>2 DEF FileInv
    <3>1. CASE payload = AccelPayload /\ Holds({})
      <4>1. Head(payload) = "icm_bias" /\ payload' = <<"rotation", "mpu_bias">>
        BY <1>1, <3>1 DEF AccelPayload
      <4>2. {"icm_bias"} = {} \cup {Head(payload)} /\ {"icm_bias"} \in SUBSET Keys
        BY <4>1 DEF Keys
      <4>3. Holds({"icm_bias"})'
        BY <1>6, <3>1, <4>2
      <4>4. QED
        BY <1>1, <1>2, <2>2, <3>0, <4>1, <4>3 DEF FileInv
    <3>2. CASE payload = <<"rotation", "mpu_bias">> /\ Holds({"icm_bias"})
      <4>1. Head(payload) = "rotation" /\ payload' = <<"mpu_bias">>
        BY <1>1, <3>2
      <4>2. /\ {"icm_bias", "rotation"} = {"icm_bias"} \cup {Head(payload)}
            /\ {"icm_bias", "rotation"} \in SUBSET Keys /\ {"icm_bias"} \in SUBSET Keys
        BY <4>1 DEF Keys
      <4>3. Holds({"icm_bias", "rotation"})'
        BY <1>6, <3>2, <4>2
      <4>4. QED
        BY <1>1, <1>2, <2>2, <3>0, <4>1, <4>3 DEF FileInv
    <3>3. CASE payload = <<"mpu_bias">> /\ Holds({"icm_bias", "rotation"})
      <4>1. Head(payload) = "mpu_bias" /\ payload' = <<>>
        BY <1>1, <3>3
      <4>2. Keys = {"icm_bias", "rotation"} \cup {Head(payload)}
        BY <4>1 DEF Keys
      <4>3. Holds(Keys)'
        BY <1>6, <3>3, <4>2
      <4>4. QED
        BY <1>1, <1>2, <2>2, <3>0, <4>1, <4>3 DEF FileInv
    <3>4. QED
      BY <1>0, <1>1, <2>2, <3>1, <3>2, <3>3 DEF FileInv
  <2>3. QED
    BY <1>1, <2>1, <2>2
<1>8. TypeInv'
  <2>1. file' \in [Keys -> Written]
    BY <1>1, <1>3, <1>4 DEF Written
  <2>2. QED
    BY <1>0, <1>1, <2>1 DEF TypeInv
<1>9. VersionInv'
  BY <1>0, <1>1, <1>3, <1>5 DEF VersionInv
<1>10. WindowInv'
  BY <1>0, <1>1 DEF WindowInv, Whole
<1>11. ResultInv'
  BY <1>0, <1>1 DEF ResultInv
<1>12. QED
  BY <1>7, <1>8, <1>9, <1>10, <1>11 DEF CalibrationInv

(* The file is whole when it is closed.                                     *)
LEMMA CloseStep == ASSUME CalibrationInv, CloseFile PROVE CalibrationInv'
<1>0. TypeInv /\ VersionInv /\ FileInv /\ WindowInv /\ ResultInv
  BY DEF CalibrationInv
<1>1. /\ payload = <<>>
      /\ \/ pc = "dump_frame" /\ pc' = "accel"
         \/ pc = "dump_accel" /\ pc' = "result"
      /\ closed' = TRUE
      /\ UNCHANGED <<run, options, exit, payload, file, version, kind, window>>
  BY DEF CloseFile, Go, toolVars
<1>2. version \in Nat /\ version # Nil
  BY <1>0, Bounds DEF TypeInv
<1>3. /\ pc = "dump_frame" => Holds({"rotation"}) /\ kind[version] = "frame"
      /\ pc = "dump_accel" => Holds(Keys) /\ kind[version] = "accel"
  BY <1>0, <1>1 DEF FileInv, FramePayload, AccelPayload
<1>4. Whole(file) /\ (pc = "dump_accel" => kind[file["rotation"]] = "accel")
  <2>1. "rotation" \in Keys
    BY DEF Keys
  <2>2. file["rotation"] = version
    BY <1>1, <1>3, <2>1 DEF Holds
  <2>3. \A k \in Keys : file[k] = IF k = "rotation" \/ kind[version] = "accel" THEN version ELSE Nil
    BY <1>1, <1>3 DEF Holds
  <2>4. QED
    BY <1>2, <1>3, <2>2, <2>3 DEF Whole
<1>5. TypeInv' /\ VersionInv'
  BY <1>0, <1>1 DEF TypeInv, VersionInv, Stage
<1>6. FileInv' /\ WindowInv'
  BY <1>0, <1>1, <1>4 DEF FileInv, WindowInv, Whole
<1>7. ResultInv'
  BY <1>0, <1>1, <1>4 DEF ResultInv
<1>8. QED
  BY <1>5, <1>6, <1>7 DEF CalibrationInv

(* A window is opened, at any time.                                         *)
LEMMA LoadStep == ASSUME CalibrationInv, LoadCalibration PROVE CalibrationInv'
<1>0. TypeInv /\ VersionInv /\ FileInv /\ WindowInv /\ ResultInv
  BY DEF CalibrationInv
<1>1. /\ window' = [loaded |-> Parses,
                    from   |-> IF Parses THEN file ELSE [k \in Keys |-> Nil]]
      /\ UNCHANGED <<pc, run, options, exit, payload, file, closed, version, kind>>
  BY DEF LoadCalibration, toolVars, fileVars
<1>2. /\ window'.loaded = Parses
      /\ window'.from = IF Parses THEN file ELSE [k \in Keys |-> Nil]
  BY <1>1
<1>3. window'.from \in [Keys -> Written]
  BY <1>0, <1>2 DEF TypeInv, Written
<1>4. \A k \in Keys : window'.from[k] # Nil => window'.from[k] <= version
  BY <1>0, <1>2 DEF VersionInv
<1>5. WindowInv'
  BY <1>0, <1>1, <1>2 DEF WindowInv, FileInv, Parses, Whole
<1>6. TypeInv' /\ VersionInv'
  BY <1>0, <1>1, <1>3, <1>4 DEF TypeInv, VersionInv
<1>7. FileInv' /\ ResultInv'
  BY <1>0, <1>1 DEF FileInv, ResultInv, Whole, Holds, PassLoadable, Parses
<1>8. QED
  BY <1>5, <1>6, <1>7 DEF CalibrationInv

LEMMA CalibrationStep == CalibrationInv /\ [Next]_vars => CalibrationInv'
<1> SUFFICES ASSUME CalibrationInv, [Next]_vars PROVE CalibrationInv'
  OBVIOUS
<1>1. CASE Tool
  BY <1>1, ComputeStep, OpenStep, DumpStep, CloseStep DEF Tool
<1>2. CASE LoadCalibration
  BY <1>2, LoadStep
<1>3. CASE UNCHANGED vars
  BY <1>3 DEF vars, toolVars, fileVars, CalibrationInv, TypeInv, VersionInv, FileInv, WindowInv,
              ResultInv, Whole, Holds, PassLoadable, Parses
<1>4. QED
  BY <1>1, <1>2, <1>3 DEF Next

-----------------------------------------------------------------------------
(* json.dump into a file that is open, an interruption at any step and a    *)
(* window opened at any moment never combine into a rotation and biases of  *)
(* two versions; and what a passing run says it wrote can be loaded.        *)
THEOREM OneCalibrationProved == Spec => []OneCalibration
<1>1. Init => CalibrationInv
  BY CalibrationInit
<1>2. CalibrationInv /\ [Next]_vars => CalibrationInv'
  BY CalibrationStep
<1>3. CalibrationInv => OneCalibration
  <2>1. ASSUME CalibrationInv PROVE WindowWhole
    BY <2>1 DEF CalibrationInv, WindowInv, Whole, WindowWhole
  <2>2. ASSUME CalibrationInv PROVE PassLoadable
    <3>1. CASE exit = "pass"
      BY <2>2, <3>1 DEF CalibrationInv, ResultInv
    <3>2. CASE exit # "pass"
      BY <3>2 DEF PassLoadable
    <3>3. QED
      BY <3>1, <3>2
  <2>3. QED
    BY <2>1, <2>2 DEF OneCalibration
<1>4. QED
  BY <1>1, <1>2, <1>3, PTL DEF Spec

-----------------------------------------------------------------------------
(* The poses.                                                               *)

(* The runs are the long rests that end before frame k, in order.           *)
RunsUpTo(k) ==
    /\ runs \in Seq(Nat \X Nat)
    /\ \A n \in 1..Len(runs) : runs[n] \in LongRests /\ runs[n][2] < k
    /\ \A r \in LongRests : r[2] < k => \E n \in 1..Len(runs) : runs[n] = r
    /\ \A i, j \in 1..Len(runs) : i < j => runs[i][2] < runs[j][1]

(* The rest that the first loop is in began at start.                       *)
RestSince ==
    /\ still \in Seq(BOOLEAN) /\ index \in 1..(Len(still) + 1) /\ start \in 0..(index - 1)
    /\ start = 0 => index = 1 \/ ~still[index - 1]
    /\ start # 0 => /\ \A i \in start..(index - 1) : still[i]
                    /\ start = 1 \/ ~still[start - 1]

(* The first loop, before the frame it is at.                               *)
ScanningInv == RestSince /\ RunsUpTo(index) /\ means = <<>> /\ poses = <<>>

(* The second loop: the runs before the one it is at have a direction.      *)
ExaminingInv ==
    /\ runs \in Seq(Nat \X Nat) /\ index \in 1..(Len(runs) + 1)
    /\ means \in Seq(Nat \cup {Weightless}) /\ Len(means) = index - 1
    /\ poses \in Seq(Nat) /\ \A i \in 1..Len(poses) : poses[i] \in 1..Len(means)
    /\ PosesFollow

PosesInv ==
    /\ pc = "scan" => ScanningInv
    /\ pc = "poses" => RunsExact /\ ExaminingInv

LEMMA LongRestsOf ==
    ASSUME still \in Seq(BOOLEAN), NEW r
    PROVE  r \in LongRests <=>
             /\ r = <<r[1], r[2]>>
             /\ r[1] \in 1..Len(still) /\ r[2] \in 2..(Len(still) + 1)
             /\ Rest(r[1], r[2]) /\ r[2] - r[1] >= MinSamples
BY DEF LongRests

(* Where no rest ends, no long rest ends.                                   *)
LEMMA NoneEnds ==
    ASSUME RestSince,
           start = 0 \/ (index <= Len(still) /\ still[index]),
           NEW r \in LongRests, r[2] = index
    PROVE  FALSE
<1>1. /\ r[1] \in 1..Len(still) /\ r[2] \in 2..(Len(still) + 1)
      /\ Rest(r[1], r[2]) /\ r[2] - r[1] >= MinSamples
      /\ MinSamples \in Nat \ {0} /\ Len(still) \in Nat
  BY PosesAssumption, LongRestsOf DEF RestSince
<1>2. still[index - 1]
  <2>1. index - 1 \in r[1]..(r[2] - 1)
    BY <1>1
  <2>2. QED
    BY <1>1, <2>1 DEF Rest
<1>3. index # 1
  BY <1>1
<1>4. CASE start = 0
  BY <1>2, <1>3, <1>4 DEF RestSince
<1>5. CASE index <= Len(still) /\ still[index]
  <2>1. index # Len(still) + 1
    BY <1>1, <1>5
  <2>2. QED
    BY <1>1, <1>5, <2>1 DEF Rest
<1>6. QED
  BY <1>4, <1>5

(* The only rest that ends here is the one that began at start.             *)
LEMMA OneEnds ==
    ASSUME RestSince, start # 0, index = Len(still) + 1 \/ ~still[index]
    PROVE  /\ index - start >= MinSamples => <<start, index>> \in LongRests
           /\ \A r \in LongRests :
                r[2] = index => r = <<start, index>> /\ index - start >= MinSamples
<1>1. /\ Len(still) \in Nat /\ index \in 1..(Len(still) + 1) /\ start \in 1..(index - 1)
      /\ still \in Seq(BOOLEAN)
      /\ \A i \in start..(index - 1) : still[i]
      /\ start = 1 \/ ~still[start - 1]
  BY DEF RestSince
<1>2. Rest(start, index)
  BY <1>1 DEF Rest
<1>3. ASSUME index - start >= MinSamples PROVE <<start, index>> \in LongRests
  <2>1. start \in 1..Len(still) /\ index \in 2..(Len(still) + 1)
    BY <1>1
  <2>2. QED
    BY <1>2, <1>3, <2>1 DEF LongRests
<1>4. ASSUME NEW r \in LongRests, r[2] = index
      PROVE  r = <<start, index>> /\ index - start >= MinSamples
  <2>1. /\ r = <<r[1], r[2]>> /\ r[1] \in 1..Len(still) /\ r[2] - r[1] >= MinSamples
        /\ MinSamples \in Nat \ {0}
        /\ \A i \in r[1]..(index - 1) : still[i]
        /\ r[1] = 1 \/ ~still[r[1] - 1]
    BY <1>1, <1>4, PosesAssumption, LongRestsOf DEF Rest
  <2>2. ~(r[1] > start)
    <3> SUFFICES ASSUME r[1] > start PROVE FALSE
      OBVIOUS
    <3>1. r[1] - 1 \in start..(index - 1) /\ r[1] # 1
      BY <1>1, <1>4, <2>1
    <3>2. QED
      BY <1>1, <2>1, <3>1
  <2>3. ~(r[1] < start)
    <3> SUFFICES ASSUME r[1] < start PROVE FALSE
      OBVIOUS
    <3>1. start - 1 \in r[1]..(index - 1) /\ start # 1
      BY <1>1, <1>4, <2>1
    <3>2. QED
      BY <1>1, <2>1, <3>1
  <2>4. r[1] = start
    BY <1>1, <2>1, <2>2, <2>3
  <2>5. QED
    BY <1>4, <2>1, <2>4
<1>5. QED
  BY <1>3, <1>4

(* Close adds the rest that ends here, if it is long, and no other.         *)
LEMMA CloseAdds ==
    ASSUME RestSince, NEW k, k = index, RunsUpTo(k), start # 0,
           k = Len(still) + 1 \/ ~still[k],
           Close(k), still' = still
    PROVE  RunsUpTo(k + 1)'
<1>1. LongRests' = LongRests
  BY DEF LongRests, Rest
<1>2. /\ k \in Nat /\ start \in Nat /\ start < k /\ Len(still) \in Nat
      /\ runs \in Seq(Nat \X Nat) /\ Len(runs) \in Nat
      /\ MinSamples \in Nat
  BY PosesAssumption DEF RestSince, RunsUpTo
<1>3. ASSUME NEW r \in LongRests PROVE r[2] \in Nat /\ r[1] \in Nat
  <2>1. still \in Seq(BOOLEAN)
    BY DEF RestSince
  <2>2. QED
    BY <1>3, <2>1, LongRestsOf
<1>4. CASE k - start >= MinSamples
  <2>1. runs' = Append(runs, <<start, k>>)
    BY <1>4 DEF Close
  <2>2. <<start, k>> \in LongRests
    BY <1>4, OneEnds
  <2>3. /\ runs' \in Seq(Nat \X Nat) /\ Len(runs') = Len(runs) + 1
        /\ \A n \in 1..Len(runs) : runs'[n] = runs[n]
        /\ runs'[Len(runs) + 1] = <<start, k>>
    BY <1>2, <2>1
  <2> DEFINE m == Len(runs)
  <2>a. m \in Nat /\ Len(runs') = m + 1
    BY <1>2, <2>3
  <2>b. \A n \in 1..m : n \in 1..(m + 1) /\ runs'[n] = runs[n]
    <3>1. \A n \in 1..m : runs'[n] = runs[n]
      BY <2>3
    <3> HIDE DEF m
    <3>2. QED
      BY <2>a, <3>1
  <2>c. m + 1 \in 1..(m + 1) /\ runs'[m + 1] = <<start, k>>
    <3>1. runs'[m + 1] = <<start, k>>
      BY <2>3
    <3> HIDE DEF m
    <3>2. QED
      BY <2>a, <3>1
  <2>d. \A n \in 1..(m + 1) : n \in 1..m \/ n = m + 1
    <3> HIDE DEF m
    <3>1. QED
      BY <2>a
  <2> HIDE DEF m
  <2>e. RunsUpTo(k) <=>
          /\ runs \in Seq(Nat \X Nat)
          /\ \A n \in 1..m : runs[n] \in LongRests /\ runs[n][2] < k
          /\ \A r \in LongRests : r[2] < k => \E n \in 1..m : runs[n] = r
          /\ \A i, j \in 1..m : i < j => runs[i][2] < runs[j][1]
    BY DEF m, RunsUpTo
  <2>4. ASSUME NEW n \in 1..(m + 1) PROVE runs'[n] \in LongRests /\ runs'[n][2] < k + 1
    <3>1. CASE n \in 1..m
      <4>1. runs'[n] = runs[n] /\ runs[n] \in LongRests /\ runs[n][2] < k
        BY <2>b, <2>e, <3>1
      <4>2. QED
        BY <1>2, <1>3, <4>1
    <3>2. CASE n = m + 1
      <4>1. runs'[n] = <<start, k>>
        BY <2>c, <3>2
      <4>2. QED
        BY <1>2, <2>2, <4>1
    <3>3. QED
      BY <2>d, <3>1, <3>2
  <2>5. ASSUME NEW r \in LongRests, r[2] < k + 1 PROVE \E n \in 1..(m + 1) : runs'[n] = r
    <3>1. CASE r[2] < k
      BY <2>b, <2>e, <3>1
    <3>2. CASE r[2] = k
      <4>1. r = <<start, k>>
        BY <3>2, OneEnds
      <4>2. QED
        BY <2>c, <4>1
    <3>3. QED
      BY <1>2, <1>3, <2>5, <3>1, <3>2
  <2>6. ASSUME NEW n \in 1..m PROVE runs[n][2] < start
    <3>1. runs[n] \in LongRests /\ runs[n][2] < k
      BY <2>e
    <3>2. still \in Seq(BOOLEAN)
      BY DEF RestSince
    <3>3. Rest(runs[n][1], runs[n][2]) /\ runs[n][2] \in Nat
      BY <3>1, <3>2, LongRestsOf
    <3>4. runs[n][2] # Len(still) + 1
      BY <1>2, <3>1, <3>3 DEF RestSince
    <3>5. ~still[runs[n][2]]
      BY <3>3, <3>4 DEF Rest
    <3>6. runs[n][2] \notin start..(k - 1)
      BY <3>5 DEF RestSince
    <3>7. QED
      BY <1>2, <3>1, <3>3, <3>6
  <2>7. ASSUME NEW i \in 1..(m + 1), NEW j \in 1..(m + 1), i < j
        PROVE  runs'[i][2] < runs'[j][1]
    <3>1. i \in 1..m
      BY <2>a, <2>7
    <3>2. CASE j \in 1..m
      BY <2>b, <2>e, <2>7, <3>1, <3>2
    <3>3. CASE j = m + 1
      <4>1. runs'[i][2] < start
        BY <2>b, <2>6, <3>1
      <4>2. runs'[j][1] = start
        BY <2>c, <3>3
      <4>3. QED
        BY <4>1, <4>2
    <3>4. QED
      BY <2>d, <3>2, <3>3
  <2>8. QED
    BY <1>1, <2>3, <2>a, <2>4, <2>5, <2>7 DEF RunsUpTo
<1>5. CASE ~(k - start >= MinSamples)
  <2>1. runs' = runs
    BY <1>5 DEF Close
  <2>2. \A r \in LongRests : r[2] # k
    BY <1>5, OneEnds
  <2>3. \A r \in LongRests : r[2] < k + 1 <=> r[2] < k
    BY <1>2, <1>3, <2>2
  <2>4. QED
    BY <1>1, <2>1, <2>3 DEF RunsUpTo
<1>6. QED
  BY <1>4, <1>5

(* Where no rest ends, the runs stay.                                       *)
LEMMA RunsStay ==
    ASSUME RestSince, NEW k, k = index, RunsUpTo(k),
           start = 0 \/ (k <= Len(still) /\ still[k]),
           runs' = runs, still' = still
    PROVE  RunsUpTo(k + 1)'
<1>1. LongRests' = LongRests
  BY DEF LongRests, Rest
<1>2. \A r \in LongRests : r[2] # k
  BY NoneEnds
<1>3. still \in Seq(BOOLEAN) /\ k \in Nat
  BY DEF RestSince
<1>4. \A r \in LongRests : r[2] < k + 1 <=> r[2] < k
  BY <1>2, <1>3, LongRestsOf
<1>5. QED
  BY <1>1, <1>4 DEF RunsUpTo

(* One frame of the first loop.                                             *)
LEMMA ScanOneFrame == ASSUME ScanningInv, Scan PROVE ScanningInv'
<1>0. PICK k : k = index
  OBVIOUS
<1>1. /\ RestSince /\ RunsUpTo(k) /\ means' = <<>> /\ poses' = <<>>
      /\ still' = still /\ index' = k + 1
      /\ k \in 1..Len(still) /\ Len(still) \in Nat /\ start \in 0..(k - 1)
      /\ still \in Seq(BOOLEAN)
  BY <1>0 DEF ScanningInv, RestSince, Scan
<1>2. CASE start # 0 /\ ~still[k]
  <2>1. Close(k)
    BY <1>0, <1>2 DEF Scan
  <2>2. RunsUpTo(k + 1)'
    BY <1>0, <1>1, <1>2, <2>1, CloseAdds
  <2>3. start' = 0
    BY <2>1 DEF Close
  <2>4. RestSince'
    BY <1>1, <1>2, <2>3 DEF RestSince
  <2>5. QED
    BY <1>1, <2>2, <2>4 DEF ScanningInv, RunsUpTo
<1>3. CASE ~(start # 0 /\ ~still[k])
  <2>1. runs' = runs /\ start' = IF start = 0 /\ still[k] THEN k ELSE start
    BY <1>0, <1>3 DEF Scan
  <2>2. RunsUpTo(k + 1)'
    BY <1>0, <1>1, <1>3, <2>1, RunsStay
  <2>3. /\ start = 0 => k = 1 \/ ~still[k - 1]
        /\ start # 0 => /\ \A i \in start..(k - 1) : still[i]
                        /\ start = 1 \/ ~still[start - 1]
    BY <1>0, <1>1 DEF RestSince
  <2>4. ASSUME start = 0, still[k] PROVE RestSince'
    BY <1>1, <2>1, <2>3, <2>4 DEF RestSince
  <2>5. ASSUME start = 0, ~still[k] PROVE RestSince'
    BY <1>1, <2>1, <2>5 DEF RestSince
  <2>6. ASSUME start # 0, still[k] PROVE RestSince'
    <3>1. \A i \in start..k : still[i]
      BY <1>1, <2>3, <2>6
    <3>2. QED
      BY <1>1, <2>1, <2>3, <2>6, <3>1 DEF RestSince
  <2>7. RestSince'
    BY <1>3, <2>4, <2>5, <2>6
  <2>8. QED
    BY <1>1, <2>2, <2>7 DEF ScanningInv, RunsUpTo
<1>4. QED
  BY <1>2, <1>3

(* After the last frame the runs are the long rests of the whole log.       *)
LEMMA ScanLastFrame == ASSUME ScanningInv, ScanEnds PROVE (RunsExact /\ ExaminingInv)'
<1>0. PICK k : k = Len(still) + 1
  OBVIOUS
<1>1. /\ RestSince /\ RunsUpTo(k) /\ k = index /\ means' = <<>> /\ poses' = <<>>
      /\ still' = still /\ index' = 1 /\ Len(still) \in Nat /\ still \in Seq(BOOLEAN)
  BY <1>0 DEF ScanningInv, RestSince, ScanEnds
<1>2. RunsUpTo(k + 1)'
  <2>1. CASE start # 0
    BY <1>0, <1>1, <2>1, CloseAdds DEF ScanEnds
  <2>2. CASE start = 0
    BY <1>0, <1>1, <2>2, RunsStay DEF ScanEnds
  <2>3. QED
    BY <2>1, <2>2
<1>3. LongRests' = LongRests
  BY <1>1 DEF LongRests, Rest
<1>4. \A r \in LongRests : r[2] < k + 1
  BY <1>0, <1>1, LongRestsOf
<1>5. /\ runs' \in Seq(Nat \X Nat)
      /\ \A n \in 1..Len(runs') : runs'[n] \in LongRests
      /\ \A r \in LongRests : \E n \in 1..Len(runs') : runs'[n] = r
      /\ \A i, j \in 1..Len(runs') : i < j => runs'[i][2] < runs'[j][1]
  BY <1>2, <1>3, <1>4 DEF RunsUpTo
<1>6. {runs'[n] : n \in 1..Len(runs')} = LongRests
  BY <1>5
<1>7. RunsExact'
  BY <1>3, <1>5, <1>6 DEF RunsExact
<1>8. ExaminingInv'
  <2>1. Len(means') = 0 /\ Len(poses') = 0 /\ Len(runs') \in Nat
    BY <1>1, <1>5
  <2>2. PosesFollow'
    BY <2>1 DEF PosesFollow
  <2>3. QED
    BY <1>1, <1>5, <2>1, <2>2 DEF ExaminingInv
<1>9. QED
  BY <1>7, <1>8

(* What Append does, with the length named.                                 *)
LEMMA Appended ==
    ASSUME NEW S, NEW s \in Seq(S), NEW e \in S, NEW t, t = Append(s, e), NEW m, m = Len(s)
    PROVE  /\ m \in Nat /\ t \in Seq(S) /\ Len(t) = m + 1
           /\ \A i \in 1..m : i \in 1..(m + 1) /\ t[i] = s[i]
           /\ m + 1 \in 1..(m + 1) /\ t[m + 1] = e
           /\ \A i \in 1..(m + 1) : i \in 1..m \/ i = m + 1
<1>1. m \in Nat /\ t \in Seq(S) /\ Len(t) = m + 1 /\ t[m + 1] = e
  OBVIOUS
<1>2. \A i \in 1..m : t[i] = s[i]
  OBVIOUS
<1>3. /\ \A i \in 1..m : i \in 1..(m + 1)
      /\ m + 1 \in 1..(m + 1)
      /\ \A i \in 1..(m + 1) : i \in 1..m \/ i = m + 1
  BY <1>1
<1>4. QED
  BY <1>1, <1>2, <1>3

(* One of the runs: it is taken for a pose, or there is a reason not to.    *)
LEMMA ExamineOne ==
    ASSUME ExaminingInv, RunsExact, NEW d \in Nat \cup {Weightless}, Examine(d)
    PROVE  (RunsExact /\ ExaminingInv)'
<1> DEFINE n == Len(means)
           p == Len(poses)
<1>1. /\ runs \in Seq(Nat \X Nat) /\ index = n + 1 /\ index \in 1..Len(runs) /\ Len(runs) \in Nat
      /\ means \in Seq(Nat \cup {Weightless}) /\ n \in Nat
      /\ poses \in Seq(Nat) /\ p \in Nat /\ \A i \in 1..p : poses[i] \in 1..n
      /\ index' = index + 1 /\ means' = Append(means, d) /\ UNCHANGED <<still, start, runs>>
  BY DEF ExaminingInv, Examine
<1>2. RunsExact'
  <2>1. UNCHANGED <<still, runs>>
    BY <1>1
  <2>2. UNCHANGED RunsExact
    BY <2>1 DEF RunsExact, LongRests, Rest
  <2>3. QED
    BY <2>2
<1>3. /\ means' \in Seq(Nat \cup {Weightless}) /\ Len(means') = n + 1
      /\ \A i \in 1..n : means'[i] = means[i]
      /\ means'[n + 1] = d
  BY <1>1
<1>4. /\ \A i, j \in 1..p : i < j => poses[i] < poses[j]
      /\ \A i \in 1..(p - 1) : ~Near(means[poses[i]], means[poses[i + 1]])
      /\ \A l \in 1..n :
          \/ \E i \in 1..p : poses[i] = l
          \/ means[l] = Weightless
          \/ \E i \in 1..p :
              /\ poses[i] < l /\ Near(means[poses[i]], means[l])
              /\ \A j \in 1..p : poses[j] < l => j <= i
  BY DEF ExaminingInv, PosesFollow
<1>5. CASE IsPose(d)
  <2>1. /\ poses' = Append(poses, n + 1)
        /\ p # 0 => ~Near(means[poses[p]], d)
    <3>1. p # 0 => poses # <<>>
      BY <1>1
    <3>2. QED
      BY <1>1, <1>5, <3>1 DEF Examine, IsPose
  <2>2. /\ poses' \in Seq(Nat) /\ Len(poses') = p + 1
        /\ \A i \in 1..p : i \in 1..(p + 1) /\ poses'[i] = poses[i]
        /\ p + 1 \in 1..(p + 1) /\ poses'[p + 1] = n + 1
        /\ \A i \in 1..(p + 1) : i \in 1..p \/ i = p + 1
    <3>1. poses \in Seq(Nat) /\ n \in Nat /\ p = Len(poses) /\ poses' = Append(poses, n + 1)
      BY <1>1, <2>1
    <3> HIDE DEF n, p
    <3>2. n + 1 \in Nat
      BY <3>1
    <3>3. QED
      BY <3>1, <3>2, Appended
  <2>a. /\ n \in Nat /\ p \in Nat /\ n + 1 \in 1..(n + 1) /\ 1..n \subseteq Nat
        /\ \A l \in 1..n : l \in 1..(n + 1) /\ l < n + 1
    <3>1. n \in Nat /\ p \in Nat
      BY <1>1
    <3> HIDE DEF n, p
    <3>2. QED
      BY <3>1
  <2> HIDE DEF n, p
  <2>3. \A i \in 1..(p + 1) : poses'[i] \in 1..(n + 1)
    BY <1>1, <2>2, <2>a
  <2>4. ASSUME NEW i \in 1..(p + 1), NEW j \in 1..(p + 1), i < j PROVE poses'[i] < poses'[j]
    <3>1. i \in 1..p /\ poses'[i] = poses[i] /\ poses[i] \in 1..n
      BY <1>1, <2>2, <2>4
    <3>2. CASE j \in 1..p
      BY <1>4, <2>2, <2>4, <3>1, <3>2
    <3>3. CASE j = p + 1
      BY <2>2, <2>a, <3>1, <3>3
    <3>4. QED
      BY <2>2, <3>2, <3>3
  <2>5. ASSUME NEW i \in 1..p PROVE ~Near(means'[poses'[i]], means'[poses'[i + 1]])
    <3>1. means'[poses'[i]] = means[poses[i]]
      BY <1>1, <1>3, <2>2
    <3>2. CASE i = p
      <4>1. means'[poses'[i + 1]] = d /\ p # 0
        BY <1>1, <1>3, <2>2, <3>2
      <4>2. QED
        BY <2>1, <3>1, <3>2, <4>1
    <3>3. CASE i # p
      <4>1. i \in 1..(p - 1) /\ i + 1 \in 1..p
        BY <1>1, <3>3
      <4>2. means'[poses'[i + 1]] = means[poses[i + 1]]
        BY <1>1, <1>3, <2>2, <4>1
      <4>3. QED
        BY <1>4, <3>1, <4>1, <4>2
    <3>4. QED
      BY <3>2, <3>3
  <2>6. ASSUME NEW l \in 1..(n + 1)
        PROVE  \/ \E i \in 1..(p + 1) : poses'[i] = l
               \/ means'[l] = Weightless
               \/ \E i \in 1..(p + 1) :
                    /\ poses'[i] < l /\ Near(means'[poses'[i]], means'[l])
                    /\ \A j \in 1..(p + 1) : poses'[j] < l => j <= i
    <3>1. CASE l = n + 1
      <4>1. p + 1 \in 1..(p + 1)
        BY <1>1
      <4>2. QED
        BY <2>2, <3>1, <4>1
    <3>2. CASE l # n + 1
      <4>1. l \in 1..n /\ means'[l] = means[l]
        BY <1>1, <1>3, <3>2
      <4>2. CASE \E i \in 1..p : poses[i] = l
        <5>1. PICK i \in 1..p : poses[i] = l
          BY <4>2
        <5>2. i \in 1..(p + 1) /\ poses'[i] = l
          BY <1>1, <2>2, <5>1
        <5>3. QED
          BY <5>2
      <4>3. CASE means[l] = Weightless
        BY <4>1, <4>3
      <4>4. CASE \E i \in 1..p : /\ poses[i] < l /\ Near(means[poses[i]], means[l])
                                 /\ \A j \in 1..p : poses[j] < l => j <= i
        <5>1. PICK i \in 1..p : /\ poses[i] < l /\ Near(means[poses[i]], means[l])
                                /\ \A j \in 1..p : poses[j] < l => j <= i
          BY <4>4
        <5>2. i \in 1..(p + 1) /\ poses'[i] < l
          BY <2>2, <5>1
        <5>3. means'[poses'[i]] = means[poses[i]]
          BY <1>1, <1>3, <2>2
        <5>4. ASSUME NEW j \in 1..(p + 1), poses'[j] < l PROVE j <= i
          <6>1. j # p + 1
            BY <2>2, <2>a, <4>1, <5>4
          <6>2. QED
            BY <2>2, <5>1, <5>4, <6>1
        <5>5. Near(means'[poses'[i]], means'[l])
          BY <4>1, <5>1, <5>3
        <5>6. QED
          BY <5>2, <5>4, <5>5
      <4>5. QED
        BY <1>4, <4>1, <4>2, <4>3, <4>4
    <3>3. QED
      BY <3>1, <3>2
  <2>7. (p + 1) - 1 = p
    BY <1>1
  <2>8. PosesFollow'
    BY <1>3, <2>2, <2>4, <2>5, <2>6, <2>7 DEF PosesFollow
  <2>9. Len(means') = index' - 1 /\ index' \in 1..(Len(runs') + 1)
    BY <1>1, <1>3
  <2>10. QED
    BY <1>1, <1>2, <1>3, <2>2, <2>3, <2>8, <2>9 DEF ExaminingInv
<1>6. CASE ~IsPose(d)
  <2>1. /\ poses' = poses
        /\ d = Weightless \/ (p # 0 /\ Near(means[poses[p]], d))
    <3>1. poses # <<>> => p # 0
      BY <1>1
    <3>2. QED
      BY <1>6, <3>1 DEF Examine, IsPose
  <2>a. \A l \in 1..n : l \in 1..(n + 1)
    BY <1>1
  <2> HIDE DEF n, p
  <2>2. \A i \in 1..p : poses[i] \in 1..(n + 1) /\ means'[poses[i]] = means[poses[i]]
    BY <1>1, <1>3, <2>a
  <2>3. ASSUME NEW i \in 1..(p - 1) PROVE ~Near(means'[poses[i]], means'[poses[i + 1]])
    <3>1. i \in 1..p /\ i + 1 \in 1..p
      BY <1>1
    <3>2. QED
      BY <1>4, <2>2, <3>1
  <2>4. ASSUME NEW l \in 1..(n + 1)
        PROVE  \/ \E i \in 1..p : poses[i] = l
               \/ means'[l] = Weightless
               \/ \E i \in 1..p :
                    /\ poses[i] < l /\ Near(means'[poses[i]], means'[l])
                    /\ \A j \in 1..p : poses[j] < l => j <= i
    <3>1. CASE l = n + 1
      <4>1. CASE d = Weightless
        BY <1>3, <3>1, <4>1
      <4>2. CASE p # 0 /\ Near(means[poses[p]], d)
        <5>1. p \in 1..p /\ poses[p] < l /\ \A j \in 1..p : j <= p
          BY <1>1, <3>1, <4>2
        <5>2. Near(means'[poses[p]], means'[l])
          BY <1>3, <2>2, <3>1, <4>2, <5>1
        <5>3. QED
          BY <5>1, <5>2
      <4>3. QED
        BY <2>1, <4>1, <4>2
    <3>2. CASE l # n + 1
      <4>1. l \in 1..n /\ means'[l] = means[l]
        BY <1>1, <1>3, <3>2
      <4>2. QED
        BY <1>4, <2>2, <4>1
    <3>3. QED
      BY <3>1, <3>2
  <2>5. Len(poses) = p
    BY DEF p
  <2>6. PosesFollow'
    BY <1>3, <1>4, <2>1, <2>3, <2>4, <2>5 DEF PosesFollow
  <2>7. Len(means') = index' - 1 /\ index' \in 1..(Len(runs') + 1)
    BY <1>1, <1>3
  <2>8. QED
    BY <1>1, <1>2, <1>3, <2>1, <2>2, <2>5, <2>6, <2>7 DEF ExaminingInv
<1>7. QED
  BY <1>5, <1>6

(* A log is opened.                                                         *)
LEMMA LogOpens ==
    ASSUME NEW m \in Nat, NEW log \in [1..m -> BOOLEAN], Load(log)
    PROVE  ScanningInv'
<1>1. /\ still' = log /\ index' = 1 /\ start' = 0
      /\ runs' = <<>> /\ means' = <<>> /\ poses' = <<>>
  BY DEF Load
<1>2. log \in Seq(BOOLEAN) /\ Len(log) \in Nat
  OBVIOUS
<1>3. RestSince'
  BY <1>1, <1>2 DEF RestSince
<1>4. \A r \in LongRests' : ~(r[2] < 1)
  <2>1. \A r \in LongRests' : r[2] \in 2..(Len(still') + 1)
    BY DEF LongRests
  <2>2. QED
    BY <1>1, <1>2, <2>1
<1>5. RunsUpTo(1)'
  <2>1. runs' \in Seq(Nat \X Nat) /\ 1..Len(runs') = {}
    BY <1>1
  <2>2. QED
    BY <1>4, <2>1 DEF RunsUpTo
<1>6. QED
  BY <1>1, <1>3, <1>5 DEF ScanningInv, RunsUpTo

LEMMA PosesStep == PosesInv /\ [Next]_vars => PosesInv'
<1> SUFFICES ASSUME PosesInv, [Next]_vars PROVE PosesInv'
  OBVIOUS
<1> USE DEF PosesInv, Go
<1>1. CASE AccelStage
  <2>1. pc' \in {"result", "scan"}
    BY <1>1 DEF AccelStage
  <2>2. CASE pc' = "scan"
    <3>1. PICK m \in 1..Length : \E log \in [1..m -> BOOLEAN] : Load(log)
      BY <1>1, <2>2 DEF AccelStage
    <3>2. m \in Nat
      BY <3>1, PosesAssumption
    <3>3. ScanningInv'
      BY <3>1, <3>2, LogOpens
    <3>4. QED
      BY <2>2, <3>3
  <2>3. QED
    BY <2>1, <2>2
<1>2. CASE ScanFrame
  BY <1>2, ScanOneFrame DEF ScanFrame
<1>3. CASE ScanDone
  BY <1>3, ScanLastFrame DEF ScanDone
<1>4. CASE ExaminePose
  <2>1. PICK d \in Directions \cup {Weightless} : Examine(d)
    BY <1>4 DEF ExaminePose
  <2>2. d \in Nat \cup {Weightless}
    BY <2>1, PosesAssumption
  <2>3. pc = "poses" /\ pc' = "poses"
    BY <1>4 DEF ExaminePose
  <2>4. QED
    BY <2>1, <2>2, <2>3, ExamineOne
<1>5. CASE \/ Start \/ Ends \/ TimeStage \/ FrameStage \/ OpenFrame \/ OpenAccel
           \/ Dump \/ CloseFile \/ Fit \/ Verdict
  <2>1. pc' \notin {"scan", "poses"}
    BY <1>5 DEF Start, Ends, TimeStage, FrameStage, OpenFrame, OpenAccel, Open,
                Dump, CloseFile, Fit, Verdict
  <2>2. QED
    BY <2>1
<1>6. CASE LoadCalibration \/ UNCHANGED vars
  <2>1. UNCHANGED <<posesVars, pc>>
    BY <1>6 DEF LoadCalibration, vars
  <2>2. /\ UNCHANGED <<ScanningInv, RunsExact, ExaminingInv>>
    BY <2>1 DEF posesVars, ScanningInv, RestSince, RunsUpTo, ExaminingInv, RunsExact, PosesFollow,
                LongRests, Rest
  <2>3. QED
    BY <2>1, <2>2
<1>7. QED
  BY <1>1, <1>2, <1>3, <1>4, <1>5, <1>6 DEF Next, Tool

(* For a log of any length the two loops of segment_static_poses find what  *)
(* the definition without a loop says: every long rest, once, in order, and *)
(* of these each one that is apart from the last pose taken.                *)
THEOREM PosesExactProved == Spec => []PosesExact
<1>1. Init => PosesInv
  BY DEF Init, PosesInv
<1>2. PosesInv /\ [Next]_vars => PosesInv'
  BY PosesStep
<1>3. PosesInv => PosesExact
  BY DEF PosesInv, PosesExact, ExaminingInv
<1>4. QED
  BY <1>1, <1>2, <1>3, PTL DEF Spec
=============================================================================
