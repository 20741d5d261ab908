--------------------------- MODULE TrajectoryProofs ---------------------------
(***************************************************************************)
(* Proofs about Trajectory: what reaches the estimators, for windows of    *)
(* any length and any history of frames, clicks and connections.           *)
(***************************************************************************)
EXTENDS Trajectory, Integers, TLAPS

-----------------------------------------------------------------------------
(* The deques.                                                              *)

(* A full deque drops its oldest element.                                   *)
LEMMA PushType ==
    ASSUME NEW S, NEW s \in Seq(S), NEW f \in S, NEW k \in Nat \ {0}, Len(s) <= k
    PROVE  Push(s, f, k) \in Seq(S) /\ Len(Push(s, f, k)) <= k
  BY DEF Push

(* Its elements were there before, but for the new one.                     *)
LEMMA PushElements ==
    ASSUME NEW S, NEW s \in Seq(S), NEW f \in S, NEW k \in Nat \ {0}
    PROVE  LET t == Push(s, f, k)
           IN  \A i \in 1..Len(t) :
                 IF i = Len(t) THEN t[i] = f
                 ELSE \E j \in 1..Len(s) : t[i] = s[j] /\ i - Len(t) = j - Len(s) - 1
<1>1. CASE Len(s) < k
  <2>1. Push(s, f, k) = Append(s, f)
    BY <1>1 DEF Push
  <2>2. QED
    BY <2>1
<1>2. CASE ~(Len(s) < k)
  <2>1. Push(s, f, k) = Append(Tail(s), f) /\ s # <<>> /\ Len(s) \in Nat \ {0}
    BY <1>2 DEF Push
  <2>2. /\ Tail(s) \in Seq(S) /\ Len(Tail(s)) = Len(s) - 1
        /\ \A i \in 1..Len(Tail(s)) : Tail(s)[i] = s[i + 1]
    BY <2>1
  <2> DEFINE u == Tail(s)
             t == Append(u, f)
  <2>3. /\ Len(t) = Len(s) /\ t[Len(s)] = f
        /\ \A i \in 1..(Len(s) - 1) : t[i] = u[i]
    BY <2>1, <2>2
  <2> HIDE DEF u, t
  <2>4. QED
    BY <2>1, <2>2, <2>3 DEF u, t
<1>3. QED
  BY <1>1, <1>2

-----------------------------------------------------------------------------
(* Types.                                                                   *)

(* Initially every variable has a value of its domain.                      *)
LEMMA TypeInit == Init => TypeOK
<1> SUFFICES ASSUME Init PROVE TypeOK
  OBVIOUS
<1>1. /\ icm_known \in BOOLEAN /\ calibration_loaded \in BOOLEAN /\ zupt \in BOOLEAN
      /\ attitude_ready \in BOOLEAN /\ is_static \in BOOLEAN
  BY DEF Init
<1>2. QED
  BY <1>1, SizeAssumption DEF Init, TypeOK

(* What a frame does to the monitor's variables and to its own record.      *)
LEMMA MeasureType ==
    ASSUME TypeOK, NEW icm \in Outcome, NEW in_step \in BOOLEAN, Measure(icm, in_step)
    PROVE  /\ n' = n + 1 /\ n' \in 0..MaxFrame
           /\ spi_errors' \in Nat /\ sync_errors' \in Nat
           /\ icm_known' \in BOOLEAN
           /\ reading' \in 0..MaxFrame /\ erred' \in 0..MaxFrame
           /\ This \in Frame
<1>1. n' = n + 1 /\ n' \in 0..MaxFrame
  BY SizeAssumption DEF TypeOK, Measure
<1>4. reading' \in {0, n + 1, reading} /\ erred' \in {erred, n + 1}
  BY DEF Measure, Outcome
<1>5. reading' \in 0..MaxFrame /\ erred' \in 0..MaxFrame
  BY <1>1, <1>4, SizeAssumption DEF TypeOK
<1>6. This \in Frame
  BY <1>1, <1>5, SizeAssumption DEF This, Frame, TypeOK
<1>2. spi_errors' \in Nat /\ sync_errors' \in Nat
  BY DEF TypeOK, Measure, Count
<1>3. icm_known' \in BOOLEAN
  BY DEF TypeOK, Measure
<1>7. QED
  BY <1>1, <1>2, <1>3, <1>5, <1>6

(* Forgetting everything leaves every variable in its domain.               *)
LEMMA ClearType ==
    ASSUME Clear
    PROVE  /\ last_spi_errors' \in Nat /\ last_sync_errors' \in Nat
           /\ attitude_samples' \in Seq(Frame) /\ Len(attitude_samples') <= CalSamples
           /\ attitude_ready' \in BOOLEAN
           /\ stationary_samples' \in Seq(Frame) /\ Len(stationary_samples') <= WindowSamples
           /\ static_counter' \in Nat /\ is_static' \in BOOLEAN
           /\ last_timestamp' = NoFrame
<1>1. attitude_ready' \in BOOLEAN /\ is_static' \in BOOLEAN
  BY DEF Clear
<1>2. QED
  BY <1>1, SizeAssumption DEF Clear

(* So does calibrating with a frame.                                        *)
LEMMA CalibrateType ==
    ASSUME TypeOK, NEW f \in Frame, NEW still \in BOOLEAN, Calibrate(f, still)
    PROVE  /\ attitude_samples' \in Seq(Frame) /\ Len(attitude_samples') <= CalSamples
           /\ attitude_ready' \in BOOLEAN
           /\ born' = f.n \/ born' = born
           /\ UNCHANGED <<rest, step, broken, gravity_update>>
<1>1. attitude_samples' \in Seq(Frame) /\ Len(attitude_samples') <= CalSamples
  BY PushType, SizeAssumption DEF TypeOK, Calibrate
<1>2. attitude_ready' \in BOOLEAN
  BY Zenon DEF Calibrate
<1>3. QED
  BY <1>1, <1>2 DEF Calibrate

(* So does propagating to it.                                               *)
LEMMA PropagateType ==
    ASSUME TypeOK, NEW f \in Frame, NEW still \in BOOLEAN, Propagate(f, still),
           last_timestamp \in Frame
    PROVE  /\ step' \in Frame \X Frame
           /\ stationary_samples' \in Seq(Frame) /\ Len(stationary_samples') <= WindowSamples
           /\ static_counter' \in Nat /\ is_static' \in BOOLEAN
           /\ gravity_update' = f.n \/ gravity_update' = gravity_update
           /\ UNCHANGED <<attitude, broken, born>>
<1>1. stationary_samples' \in Seq(Frame) /\ Len(stationary_samples') <= WindowSamples
  BY PushType, SizeAssumption DEF TypeOK, Propagate
<1>2. is_static' \in BOOLEAN
  BY Zenon DEF Propagate
<1>3. static_counter' \in Nat
  BY DEF Propagate, TypeOK
<1>4. step' \in Frame \X Frame
  BY DEF Propagate
<1>5. QED
  BY <1>1, <1>2, <1>3, <1>4 DEF Propagate

(* Every step leaves every variable in its domain.                          *)
LEMMA TypeStep == TypeOK /\ [Next]_vars => TypeOK'
<1> SUFFICES ASSUME TypeOK, [Next]_vars PROVE TypeOK'
  OBVIOUS
<1> USE SizeAssumption
<1>1. CASE UNCHANGED vars
  BY <1>1 DEF TypeOK, vars, monitor, settings, seen, attitude, rest, history
<1>2. ASSUME NEW icm \in Outcome, NEW in_step \in BOOLEAN, NEW good \in BOOLEAN,
             NEW still \in BOOLEAN
      PROVE  /\ LineUnparsed(icm, in_step) => TypeOK'
             /\ FrameInvalid(icm, in_step, good) => TypeOK'
             /\ FrameRebases(icm, in_step, good) => TypeOK'
             /\ FrameBreaks(icm, in_step, good) => TypeOK'
             /\ FrameFollows(icm, in_step, good, still) => TypeOK'
  <2>1. CASE LineUnparsed(icm, in_step)
    BY <2>1, MeasureType DEF LineUnparsed, TypeOK, settings, seen, attitude, rest, history
  <2>2. ASSUME Arrive(icm, in_step)
        PROVE  /\ n' = n + 1 /\ n' \in 0..MaxFrame
               /\ spi_errors' \in Nat /\ sync_errors' \in Nat /\ icm_known' \in BOOLEAN
               /\ reading' \in 0..MaxFrame /\ erred' \in 0..MaxFrame
               /\ This \in Frame /\ This.n = n'
    BY <2>2, MeasureType DEF Arrive, This, Measure
  <2>3. CASE FrameInvalid(icm, in_step, good)
    <3>1. is_static' \in BOOLEAN
      BY <2>3 DEF FrameInvalid, Interrupt
    <3>2. QED
      BY <2>2, <2>3, <3>1 DEF FrameInvalid, Interrupt, See, TypeOK, settings, history
  <2>4. CASE FrameRebases(icm, in_step, good)
    BY <2>2, <2>4 DEF FrameRebases, See, TypeOK, settings, attitude, rest, history
  <2>5. CASE FrameBreaks(icm, in_step, good)
    BY <2>2, <2>5, ClearType DEF FrameBreaks, TypeOK, settings
  <2>6. CASE FrameFollows(icm, in_step, good, still)
    <3>1. CASE attitude_ready
      BY <2>2, <2>6, <3>1, PropagateType
         DEF FrameFollows, See, TypeOK, settings, attitude
    <3>2. CASE ~attitude_ready
      BY <2>2, <2>6, <3>2, CalibrateType
         DEF FrameFollows, See, TypeOK, settings, rest
    <3>3. QED
      BY <3>1, <3>2
  <2>7. QED
    BY <2>1, <2>3, <2>4, <2>5, <2>6
<1>3. CASE ClearClicked
  BY <1>3, ClearType DEF ClearClicked, TypeOK, monitor, settings, history
<1>4. CASE ZuptToggled
  <2>1. zupt' \in BOOLEAN
    BY <1>4 DEF ZuptToggled, TypeOK
  <2>2. QED
    BY <1>4, <2>1 DEF ZuptToggled, TypeOK, monitor, seen, attitude, rest, history
<1>5. CASE NewSession
  <2>1. icm_known' \in BOOLEAN
    BY <1>5 DEF NewSession
  <2>2. QED
    BY <1>5, <2>1, ClearType DEF NewSession, TypeOK, settings, history
<1>6. QED
  BY <1>1, <1>2, <1>3, <1>4, <1>5 DEF Next

(* Every variable keeps to its domain, and the deques to their lengths.     *)
THEOREM TypeCorrect == Spec => []TypeOK
  BY TypeInit, TypeStep, PTL DEF Spec

-----------------------------------------------------------------------------
(* The time base.                                                           *)

(* The frame's values came from the driver in this connection, and no error *)
(* was counted since.                                                       *)
Sound(f) == f.erred < f.reading /\ f.reading <= f.n

(* The time base is the frame just delivered and a sound one, or there is   *)
(* none and nothing is being collected; a buffer that is not zero was       *)
(* filled after the last error; and the window's error counters never run   *)
(* ahead of the monitor's, which is what makes "unchanged" mean "no error". *)
BaseInv ==
    /\ erred <= n /\ reading <= n
    /\ reading # 0 => erred < reading
    /\ last_spi_errors <= spi_errors
    /\ last_timestamp # NoFrame => icm_known /\ last_timestamp.n = n /\ Sound(last_timestamp)
    /\ last_timestamp = NoFrame => attitude_samples = <<>> /\ stationary_samples = <<>>
    /\ ~attitude_ready => stationary_samples = <<>>
    /\ broken <= n

(* Initially there is no time base.                                         *)
LEMMA BaseInit == Init => BaseInv
  BY DEF Init, BaseInv

(* The counters as they are after a frame, seen or not, and the buffer.     *)
LEMMA CountersKept ==
    ASSUME TypeOK, BaseInv, NEW icm \in Outcome, NEW in_step \in BOOLEAN,
           Measure(icm, in_step)
    PROVE  /\ spi_errors <= spi_errors' /\ spi_errors' \in Nat /\ n' = n + 1 /\ n \in Nat
           /\ spi_errors' = spi_errors => reading' # 0
           /\ erred' <= n' /\ reading' <= n'
           /\ reading' # 0 => erred' < reading'
<1>1. n \in Nat /\ n' = n + 1 /\ reading \in Nat /\ erred \in Nat
  BY DEF TypeOK, Measure
<1>2. spi_errors \in Nat /\ spi_errors' = IF reading' # 0 THEN spi_errors ELSE spi_errors + 1
  BY DEF TypeOK, Measure, Count
<1>3. reading' \in {0, n + 1, reading} /\ erred' = IF reading' # 0 THEN erred ELSE n + 1
  BY DEF Measure, Outcome
<1>4. QED
  BY <1>1, <1>2, <1>3 DEF BaseInv

(* A valid frame is sound.                                                  *)
LEMMA ValidIsSound ==
    ASSUME TypeOK, BaseInv, NEW icm \in Outcome, NEW in_step \in BOOLEAN,
           NEW good \in BOOLEAN, Measure(icm, in_step), Valid(good)
    PROVE  Sound(This)
<1>1. spi_errors' = spi_errors
  BY CountersKept DEF TypeOK, BaseInv, Valid
<1>2. QED
  BY <1>1, CountersKept DEF Sound, This

(* Every step keeps BaseInv.                                                *)
LEMMA BaseStep == TypeOK /\ BaseInv /\ [Next]_vars => BaseInv'
<1> SUFFICES ASSUME TypeOK, BaseInv, [Next]_vars PROVE BaseInv'
  OBVIOUS
<1>1. CASE UNCHANGED vars
  BY <1>1 DEF BaseInv, vars, monitor, settings, seen, attitude, rest, history
<1>2. ASSUME NEW icm \in Outcome, NEW in_step \in BOOLEAN, NEW good \in BOOLEAN,
             NEW still \in BOOLEAN
      PROVE  /\ LineUnparsed(icm, in_step) => BaseInv'
             /\ FrameInvalid(icm, in_step, good) => BaseInv'
             /\ FrameRebases(icm, in_step, good) => BaseInv'
             /\ FrameBreaks(icm, in_step, good) => BaseInv'
             /\ FrameFollows(icm, in_step, good, still) => BaseInv'
  <2>1. CASE LineUnparsed(icm, in_step)
    <3>1. ~icm_known
      BY <2>1 DEF LineUnparsed, Measure
    <3>2. last_timestamp = NoFrame
      BY <3>1 DEF BaseInv
    <3>3. QED
      BY <2>1, <3>2, CountersKept
         DEF LineUnparsed, BaseInv, TypeOK, settings, seen, attitude, rest, history
  <2>2. CASE FrameInvalid(icm, in_step, good)
    BY <2>2, CountersKept
       DEF FrameInvalid, Arrive, Interrupt, See, BaseInv, TypeOK, settings, history
  <2>3. ASSUME Arrive(icm, in_step), Valid(good)
        PROVE  /\ icm_known' /\ This.n = n' /\ Sound(This)
               /\ This # NoFrame
    BY <2>3, ValidIsSound, NoFrameAssumption, MeasureType DEF Arrive, Measure, This
  <2>4. CASE FrameRebases(icm, in_step, good)
    BY <2>3, <2>4, CountersKept
       DEF FrameRebases, Arrive, See, BaseInv, TypeOK, settings, attitude, rest, history
  <2>5. CASE FrameBreaks(icm, in_step, good)
    BY <2>5, CountersKept DEF FrameBreaks, Arrive, Clear, BaseInv, TypeOK, settings
  <2>6. CASE FrameFollows(icm, in_step, good, still)
    <3>1. CASE attitude_ready
      BY <2>3, <2>6, <3>1, CountersKept
         DEF FrameFollows, Arrive, See, Propagate, BaseInv, TypeOK, settings, attitude
    <3>2. CASE ~attitude_ready
      BY <2>3, <2>6, <3>2, CountersKept
         DEF FrameFollows, Arrive, See, Calibrate, BaseInv, TypeOK, settings, rest
    <3>3. QED
      BY <3>1, <3>2
  <2>7. QED
    BY <2>1, <2>2, <2>4, <2>5, <2>6
<1>3. CASE ClearClicked
  BY <1>3 DEF ClearClicked, Clear, BaseInv, TypeOK, monitor, settings, history
<1>4. CASE ZuptToggled
  BY <1>4 DEF ZuptToggled, BaseInv, monitor, seen, attitude, rest, history
<1>5. CASE NewSession
  BY <1>5 DEF NewSession, Clear, BaseInv, TypeOK, settings, history
<1>6. QED
  BY <1>1, <1>2, <1>3, <1>4, <1>5 DEF Next

-----------------------------------------------------------------------------
(* What the estimators were fed.                                            *)

AllSound(s) == \A i \in 1..Len(s) : Sound(s[i])

(* Pushing the frame that was just delivered keeps a run of sound frames    *)
(* that ends with the last one delivered such a run.                        *)
LEMMA PushKeepsRun ==
    ASSUME NEW s \in Seq(Frame), NEW f \in Frame, NEW k \in Nat \ {0},
           n \in Nat, n' = n + 1, f.n = n', Latest(s), AllSound(s), Sound(f)
    PROVE  /\ AllSound(Push(s, f, k))
           /\ \A i \in 1..Len(Push(s, f, k)) :
                Push(s, f, k)[i].n + Len(Push(s, f, k)) = n' + i
<1> DEFINE t == Push(s, f, k)
<1>1. Len(t) \in Nat /\ Len(s) \in Nat
  BY DEF Push
<1>2. ASSUME NEW i \in 1..Len(t)
      PROVE  Sound(t[i]) /\ t[i].n + Len(t) = n' + i
  <2>1. CASE i = Len(t)
    <3>1. t[i] = f
      BY <2>1, PushElements
    <3> HIDE DEF t
    <3>2. QED
      BY <1>1, <2>1, <3>1 DEF Frame
  <2>2. CASE i # Len(t)
    <3>1. PICK j \in 1..Len(s) : t[i] = s[j] /\ i - Len(t) = j - Len(s) - 1
      BY <2>2, PushElements
    <3>2. Sound(s[j]) /\ s[j].n + Len(s) = n + j
      BY DEF AllSound, Latest
    <3>3. s[j].n \in Nat
      <4>1. s[j] \in Frame
        OBVIOUS
      <4>2. QED
        BY <4>1 DEF Frame
    <3> HIDE DEF t
    <3>4. t[i].n = s[j].n /\ Sound(t[i])
      BY <3>1, <3>2
    <3> DEFINE a == s[j].n
               b == t[i].n
    <3>5. b + Len(t) = n' + i
      <4>1. /\ a \in Nat /\ a = b /\ a + Len(s) = n + j
            /\ i - Len(t) = j - Len(s) - 1
        BY <3>1, <3>2, <3>3, <3>4
      <4> HIDE DEF a, b
      <4>2. QED
        BY <1>1, <4>1
    <3>6. QED
      BY <3>4, <3>5
  <2>3. QED
    BY <2>1, <2>2
<1>3. QED
  BY <1>2 DEF AllSound

(* What the runs check of the deques, the last propagation and the          *)
(* calibration; inductive together with TypeOK and BaseInv.                 *)
FedInv ==
    /\ CalibrationUnbroken
    /\ WindowUnbroken
    /\ NothingSkipped
    /\ ReadSinceError
    /\ CalibratedSinceBreak

(* Initially nothing was fed.                                               *)
LEMMA FedInit == Init => FedInv
  BY DEF Init, FedInv, CalibrationUnbroken, WindowUnbroken, NothingSkipped, ReadSinceError,
         CalibratedSinceBreak, Latest

(* Empty deques and a calibration that is gone are in order.                *)
LEMMA ClearedFed ==
    ASSUME FedInv, Clear, UNCHANGED step PROVE FedInv'
  BY DEF Clear, FedInv, CalibrationUnbroken, WindowUnbroken, NothingSkipped, ReadSinceError,
         CalibratedSinceBreak, Latest

(* So are empty deques under a calibration that stays.                      *)
LEMMA EmptiedFed ==
    ASSUME FedInv, attitude_samples' = <<>>, stationary_samples' = <<>>,
           UNCHANGED <<attitude_ready, step, broken, born>>
    PROVE  FedInv'
  BY DEF FedInv, CalibrationUnbroken, WindowUnbroken, NothingSkipped, ReadSinceError,
         CalibratedSinceBreak, Latest

(* Every step keeps FedInv.                                                 *)
LEMMA FedStep == TypeOK /\ BaseInv /\ FedInv /\ [Next]_vars => FedInv'
<1> SUFFICES ASSUME TypeOK, BaseInv, FedInv, [Next]_vars PROVE FedInv'
  OBVIOUS
<1>1. CASE UNCHANGED vars
  BY <1>1 DEF FedInv, CalibrationUnbroken, WindowUnbroken, NothingSkipped, ReadSinceError,
       CalibratedSinceBreak, Latest, vars, monitor, attitude, rest, history
<1>2. ASSUME NEW icm \in Outcome, NEW in_step \in BOOLEAN, NEW good \in BOOLEAN,
             NEW still \in BOOLEAN
      PROVE  /\ LineUnparsed(icm, in_step) => FedInv'
             /\ FrameInvalid(icm, in_step, good) => FedInv'
             /\ FrameRebases(icm, in_step, good) => FedInv'
             /\ FrameBreaks(icm, in_step, good) => FedInv'
             /\ FrameFollows(icm, in_step, good, still) => FedInv'
  <2>1. CASE LineUnparsed(icm, in_step)
    <3>1. last_timestamp = NoFrame
      BY <2>1 DEF LineUnparsed, Measure, BaseInv
    <3>2. QED
      BY <2>1, <3>1, EmptiedFed DEF LineUnparsed, BaseInv, attitude, rest, history
  <2>2. CASE FrameInvalid(icm, in_step, good)
    BY <2>2, EmptiedFed DEF FrameInvalid, Interrupt, history
  <2>3. CASE FrameRebases(icm, in_step, good)
    BY <2>3, EmptiedFed DEF FrameRebases, BaseInv, attitude, rest, history
  <2>4. CASE FrameBreaks(icm, in_step, good)
    BY <2>4, ClearedFed DEF FrameBreaks
  <2>5. CASE FrameFollows(icm, in_step, good, still)
    <3> DEFINE f == This
    <3>1. /\ n \in Nat /\ n' = n + 1 /\ f \in Frame /\ f.n = n' /\ Sound(f)
      <4>1. Measure(icm, in_step) /\ Valid(good)
        BY <2>5 DEF FrameFollows, Arrive
      <4>2. Sound(This)
        BY <4>1, ValidIsSound
      <4>3. n \in Nat /\ n' = n + 1 /\ f \in Frame
        BY <4>1, MeasureType DEF TypeOK
      <4>4. QED
        BY <4>2, <4>3 DEF This
    <3>2. last_timestamp \in Frame /\ last_timestamp.n = n /\ Sound(last_timestamp)
      BY <2>5 DEF FrameFollows, TypeOK, BaseInv
    <3>3. AllSound(attitude_samples) /\ AllSound(stationary_samples)
      BY DEF FedInv, ReadSinceError, AllSound, Sound
    <3> HIDE DEF f
    <3>4. CASE attitude_ready
      <4>1. Propagate(f, still)
        BY <2>5, <3>4 DEF FrameFollows, f
      <4>2. Latest(stationary_samples)
        BY DEF FedInv, WindowUnbroken
      <4>3. AllSound(stationary_samples)' /\ Latest(stationary_samples)'
        <5> DEFINE t == Push(stationary_samples, f, WindowSamples)
        <5>1. stationary_samples \in Seq(Frame) /\ WindowSamples \in Nat \ {0} /\ stationary_samples' = t
          BY <4>1, SizeAssumption DEF Propagate, TypeOK
        <5>2. AllSound(t) /\ \A i \in 1..Len(t) : t[i].n + Len(t) = n' + i
          BY <3>1, <3>3, <4>2, <5>1, PushKeepsRun
        <5> HIDE DEF t
        <5>3. QED
          BY <5>1, <5>2 DEF AllSound, Latest
      <4>4. step'[1] = last_timestamp /\ step'[2] = f
        BY <4>1 DEF Propagate
      <4>5. QED
        BY <3>1, <3>2, <3>4, <4>1, <4>3, <4>4
           DEF Propagate, FedInv, CalibrationUnbroken, WindowUnbroken, NothingSkipped,
               ReadSinceError, Sound, CalibratedSinceBreak, AllSound, attitude
    <3>5. CASE ~attitude_ready
      <4>1. Calibrate(f, still)
        BY <2>5, <3>5 DEF FrameFollows, f
      <4>2. Latest(attitude_samples) /\ stationary_samples = <<>>
        BY <3>5 DEF FedInv, CalibrationUnbroken, BaseInv
      <4>3. AllSound(attitude_samples)' /\ Latest(attitude_samples)'
        <5> DEFINE t == Push(attitude_samples, f, CalSamples)
        <5>1. attitude_samples \in Seq(Frame) /\ CalSamples \in Nat \ {0} /\ attitude_samples' = t
          BY <4>1, SizeAssumption DEF Calibrate, TypeOK
        <5>2. AllSound(t) /\ \A i \in 1..Len(t) : t[i].n + Len(t) = n' + i
          BY <3>1, <3>3, <4>2, <5>1, PushKeepsRun
        <5> HIDE DEF t
        <5>3. QED
          BY <5>1, <5>2 DEF AllSound, Latest
      <4>4. Latest(stationary_samples)' /\ AllSound(stationary_samples)'
        BY <4>1, <4>2 DEF Calibrate, rest, Latest, AllSound
      <4>5. CalibratedSinceBreak'
        BY <3>1, <4>1 DEF Calibrate, CalibratedSinceBreak, BaseInv, TypeOK
      <4>6. NothingSkipped' /\ (step' # NoFrame => Sound(step'[1]) /\ Sound(step'[2]))
        BY <4>1 DEF Calibrate, FedInv, NothingSkipped, ReadSinceError, Sound
      <4>7. QED
        BY <4>3, <4>4, <4>5, <4>6
           DEF FedInv, CalibrationUnbroken, WindowUnbroken, ReadSinceError, AllSound, Sound
    <3>6. QED
      BY <3>4, <3>5
  <2>6. QED
    BY <2>1, <2>2, <2>3, <2>4, <2>5
<1>3. CASE ClearClicked
  BY <1>3, ClearedFed DEF ClearClicked, history
<1>4. CASE ZuptToggled
  BY <1>4 DEF ZuptToggled, FedInv, CalibrationUnbroken, WindowUnbroken, NothingSkipped,
              ReadSinceError, CalibratedSinceBreak, Latest, monitor, attitude, rest, history
<1>5. CASE NewSession
  BY <1>5, ClearedFed DEF NewSession, history
<1>6. QED
  BY <1>1, <1>2, <1>3, <1>4, <1>5 DEF Next

(* All of it holds for ever.                                                *)
LEMMA FedAlways == Spec => []FedInv
  BY TypeInit, TypeStep, BaseInit, BaseStep, FedInit, FedStep, PTL DEF Spec

(* The attitude calibration and the rest detector work on unbroken runs of   *)
(* frames.                                                                   *)
THEOREM BuffersProved == Spec => []BuffersUnbroken
<1>1. FedInv => BuffersUnbroken
  BY DEF FedInv, BuffersUnbroken
<1>2. QED
  BY <1>1, FedAlways, PTL

(* No time is integrated over a frame that was not used.                    *)
THEOREM NothingSkippedProved == Spec => []NothingSkipped
  BY FedAlways, PTL DEF FedInv

(* Comparing error counts is enough, over lost lines, cleared counters and  *)
(* new connections: a reading from before an error, or none at all, reaches *)
(* no estimator.                                                            *)
THEOREM ReadSinceErrorProved == Spec => []ReadSinceError
  BY FedAlways, PTL DEF FedInv

(* A calibration in force is younger than the last break of the time base.  *)
THEOREM CalibratedProved == Spec => []CalibratedSinceBreak
  BY FedAlways, PTL DEF FedInv

-----------------------------------------------------------------------------
(* The gravity updates.                                                     *)

(* Division by the same number, of two numbers in a row.                    *)
LEMMA Quotients ==
    ASSUME NEW U \in Nat \ {0}, NEW q \in Int, NEW p \in Int, NEW r \in 0..(U - 1),
           NEW s \in 0..(U - 1), U * q + r + 1 = U * p + s
    PROVE  s = IF r = U - 1 THEN 0 ELSE r + 1
<1>1. PICK e \in Int : p = q + e
  <2>1. p - q \in Int /\ p = q + (p - q)
    OBVIOUS
  <2>2. QED
    BY <2>1
<1>2. U * p = U * q + U * e
  BY <1>1
<1>3. U * q \in Int /\ U * e \in Int
  OBVIOUS
<1>4. U * e = r + 1 - s
  BY <1>2, <1>3
<1>5. e >= 0
  <2>1. CASE e <= -1
    <3>1. U * e <= -U
      BY <2>1
    <3>2. QED
      BY <1>4, <3>1
  <2>2. QED
    BY <2>1
<1>6. e <= 1
  <2>1. CASE e >= 2
    <3>1. U * e >= 2 * U
      BY <2>1
    <3>2. QED
      BY <1>4, <3>1
  <2>2. QED
    BY <2>1
<1>7. CASE e = 0
  <2>1. U * e = 0
    BY <1>7
  <2>2. QED
    BY <1>4, <2>1
<1>8. CASE e = 1
  <2>1. U * e = U
    BY <1>8
  <2>2. QED
    BY <1>4, <2>1
<1>9. QED
  BY <1>5, <1>6, <1>7, <1>8

LEMMA ModNext ==
    ASSUME NEW U \in Nat \ {0}, NEW c \in Nat
    PROVE  /\ c % U \in 0..(U - 1)
           /\ (c + 1) % U = IF c % U = U - 1 THEN 0 ELSE (c % U) + 1
<1>1. \A x \in Nat : x % U \in 0..(U - 1) /\ x \div U \in Int
  OBVIOUS
<1>2. \A x \in Nat : x = U * (x \div U) + (x % U)
  OBVIOUS
<1>3. c + 1 \in Nat
  OBVIOUS
<1>4. ASSUME NEW q \in Int, NEW p \in Int, NEW r \in 0..(U - 1), NEW s \in 0..(U - 1),
             c = U * q + r, c + 1 = U * p + s
      PROVE  s = IF r = U - 1 THEN 0 ELSE r + 1
  BY <1>4, Quotients
<1>5. PICK q \in Int, r \in 0..(U - 1) : c = U * q + r /\ r = c % U
  BY <1>1, <1>2, Zenon
<1>6. PICK p \in Int, s \in 0..(U - 1) : c + 1 = U * p + s /\ s = (c + 1) % U
  BY <1>1, <1>2, <1>3, Zenon
<1>7. s = IF r = U - 1 THEN 0 ELSE r + 1
  BY <1>4, <1>5, <1>6, Zenon
<1>8. QED
  BY <1>5, <1>6, <1>7, Zenon

(* Since the last update with gravity at least as many frames have come as  *)
(* the counter has run past the last multiple of UpdateEvery.               *)
GravityInv == gravity_update + (static_counter % UpdateEvery) <= n

LEMMA GravityNext ==
    ASSUME NEW r, r = static_counter' % UpdateEvery, gravity_update' + r <= n'
    PROVE  GravityInv'
BY DEF GravityInv

LEMMA GravityInit == Init => GravityInv
<1>1. 0 % UpdateEvery = 0
  BY SizeAssumption
<1>2. ASSUME Init PROVE gravity_update + 0 <= n /\ static_counter = 0
  BY <1>2 DEF Init
<1>3. QED
  BY <1>1, <1>2 DEF GravityInv

(* A frame that updates with gravity is UpdateEvery after the one before.   *)
LEMMA GravityPropagates ==
    ASSUME TypeOK, GravityInv, NEW f, f.n = n + 1, n' = n + 1, NEW still, Propagate(f, still)
    PROVE  /\ GravityInv'
           /\ gravity_update' # gravity_update => gravity_update' >= gravity_update + UpdateEvery
<1> DEFINE r == static_counter % UpdateEvery
<1>1. /\ UpdateEvery \in Nat \ {0} /\ n \in Nat /\ gravity_update \in Nat /\ static_counter \in Nat
      /\ gravity_update + r <= n
  BY SizeAssumption DEF TypeOK, GravityInv
<1>2. /\ r \in 0..(UpdateEvery - 1)
      /\ (static_counter + 1) % UpdateEvery = IF r = UpdateEvery - 1 THEN 0 ELSE r + 1
  BY <1>1, ModNext
<1>3. 0 % UpdateEvery = 0
  BY <1>1
<1>4. /\ static_counter' = IF is_static' THEN static_counter + 1 ELSE 0
      /\ gravity_update' = IF GravityDue THEN n + 1 ELSE gravity_update
      /\ GravityDue => is_static' /\ static_counter' % UpdateEvery = 0
  BY DEF Propagate, GravityDue
<1> HIDE DEF r
<1>5. CASE is_static'
  <2>1. static_counter' % UpdateEvery = IF r = UpdateEvery - 1 THEN 0 ELSE r + 1
    BY <1>2, <1>4, <1>5
  <2>2. CASE GravityDue
    <3>1. r = UpdateEvery - 1 /\ static_counter' % UpdateEvery = 0 /\ gravity_update' = n + 1
      BY <1>1, <1>2, <1>4, <2>1, <2>2
    <3>2. QED
      BY <1>1, <3>1 DEF GravityInv
  <2>3. CASE ~GravityDue
    BY <1>1, <1>2, <1>4, <2>1, <2>3 DEF GravityInv
  <2>4. QED
    BY <2>2, <2>3
<1>6. CASE ~is_static'
  <2>1. static_counter' % UpdateEvery = 0 /\ gravity_update' = gravity_update
    BY <1>3, <1>4, <1>6
  <2>2. QED
    BY <1>1, <1>2, <2>1 DEF GravityInv
<1>7. QED
  BY <1>5, <1>6

(* Any other step leaves the update alone and the counter, or sets it to 0. *)
LEMMA GravityKept ==
    ASSUME TypeOK, GravityInv, n' \in {n, n + 1}, gravity_update' = gravity_update,
           static_counter' \in {0, static_counter}
    PROVE  GravityInv'
<1>1. /\ UpdateEvery \in Nat \ {0} /\ n \in Nat /\ gravity_update \in Nat /\ static_counter \in Nat
  BY SizeAssumption DEF TypeOK
<1>2. static_counter % UpdateEvery \in Nat /\ 0 % UpdateEvery = 0
  BY <1>1
<1>3. PICK r : r = static_counter % UpdateEvery
  OBVIOUS
<1>4. r \in Nat /\ gravity_update + r <= n
  BY <1>2, <1>3 DEF GravityInv
<1>5. gravity_update' + r <= n' /\ gravity_update' + 0 <= n'
  BY <1>1, <1>4
<1>6. static_counter' % UpdateEvery \in {0, r}
  BY <1>2, <1>3
<1>7. QED
  BY <1>5, <1>6, GravityNext

LEMMA GravityStep ==
    TypeOK /\ GravityInv /\ [Next]_vars =>
        /\ GravityInv'
        /\ gravity_update' # gravity_update => gravity_update' >= gravity_update + UpdateEvery
<1> SUFFICES ASSUME TypeOK, GravityInv, [Next]_vars
             PROVE  /\ GravityInv'
                    /\ gravity_update' # gravity_update =>
                         gravity_update' >= gravity_update + UpdateEvery
  OBVIOUS
<1>1. CASE \E icm \in Outcome, in_step, good, still \in BOOLEAN :
             attitude_ready /\ FrameFollows(icm, in_step, good, still)
  <2>1. PICK icm \in Outcome, in_step, good, still \in BOOLEAN :
          attitude_ready /\ FrameFollows(icm, in_step, good, still)
    BY <1>1
  <2>2. /\ n' = n + 1 /\ Propagate(This, still) /\ This.n = n + 1
    BY <2>1 DEF FrameFollows, Arrive, Measure, This
  <2>3. QED
    BY <2>2, GravityPropagates
<1>2. CASE ~\E icm \in Outcome, in_step, good, still \in BOOLEAN :
             attitude_ready /\ FrameFollows(icm, in_step, good, still)
  <2>1. ASSUME NEW icm \in Outcome, NEW in_step \in BOOLEAN, NEW good \in BOOLEAN,
               \/ LineUnparsed(icm, in_step) \/ FrameInvalid(icm, in_step, good)
               \/ FrameRebases(icm, in_step, good) \/ FrameBreaks(icm, in_step, good)
               \/ \E still \in BOOLEAN : FrameFollows(icm, in_step, good, still)
        PROVE  /\ n' = n + 1 /\ gravity_update' = gravity_update
               /\ static_counter' \in {0, static_counter}
    <3>1. CASE LineUnparsed(icm, in_step)
      BY <3>1 DEF LineUnparsed, Measure, rest, history
    <3>2. CASE FrameInvalid(icm, in_step, good)
      BY <3>2 DEF FrameInvalid, Arrive, Measure, Interrupt, history
    <3>3. CASE FrameRebases(icm, in_step, good)
      BY <3>3 DEF FrameRebases, Arrive, Measure, rest, history
    <3>4. CASE FrameBreaks(icm, in_step, good)
      BY <3>4 DEF FrameBreaks, Arrive, Measure, Clear
    <3>5. ASSUME NEW still \in BOOLEAN, FrameFollows(icm, in_step, good, still)
          PROVE  /\ n' = n + 1 /\ gravity_update' = gravity_update
                 /\ static_counter' \in {0, static_counter}
      <4>1. ~attitude_ready
        BY <1>2, <3>5
      <4>2. QED
        BY <3>5, <4>1 DEF FrameFollows, Arrive, Measure, Calibrate, rest
    <3>6. QED
      BY <2>1, <3>1, <3>2, <3>3, <3>4, <3>5
  <2>2. CASE ClearClicked \/ ZuptToggled \/ NewSession \/ UNCHANGED vars
    <3>1. /\ n' \in {n, n + 1} /\ gravity_update' = gravity_update
          /\ static_counter' \in {0, static_counter}
      BY <2>2 DEF ClearClicked, ZuptToggled, NewSession, Clear, vars, monitor, rest, history
    <3>2. QED
      BY <3>1, GravityKept
  <2>3. QED
    BY <2>1, <2>2, GravityKept DEF Next
<1>3. QED
  BY <1>1, <1>2

(* static_counter is set to 0 whenever rest is interrupted, and is not      *)
(* touched by the ZUPT box: update_gravity is called at most once in        *)
(* UpdateEvery frames, for any history of frames, clicks and connections.   *)
THEOREM GravityProved == Spec => GravitySpaced
<1>1. Spec => [](TypeOK /\ GravityInv)
  BY TypeInit, TypeStep, GravityInit, GravityStep, PTL DEF Spec
<1>2. TypeOK /\ GravityInv /\ [Next]_vars =>
        [gravity_update' # gravity_update /\ gravity_update # 0
            => gravity_update' >= gravity_update + UpdateEvery]_vars
  BY GravityStep
<1>3. QED
  BY <1>1, <1>2, PTL DEF Spec, GravitySpaced
=============================================================================
