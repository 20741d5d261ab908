-------------------------- MODULE FusedFrameProofs --------------------------
(***************************************************************************)
(* Proofs about Fusion and FusedFrame.                                     *)
(*                                                                         *)
(* The state machine by itself implements Hysteresis and trusts the MPU    *)
(* only when it earned it, for any two sample counts.                      *)
(*                                                                         *)
(* Behind the monitor and in the window, for any delays, reading times and *)
(* losses, the times given to record_position increase, and the ICM is     *)
(* used only with a reading of the frame at hand.                          *)
(***************************************************************************)
EXTENDS FusedFrame, TLAPS

(* In each regime the counter in use is the length of the run, and the run  *)
(* is too short to leave the regime; the state follows from the flag and    *)
(* the frame.  The counter that is not in use says nothing.                 *)
IInv ==
    /\ TypeOK
    /\ ~mpu_y_saturated => enter_count = above /\ above < EnterSamples
    /\ mpu_y_saturated  => exit_count = below /\ below < ExitSamples
    /\ state = Choose(mpu_y_saturated, y, icm)

(* Initially MPU Y is in use.                                               *)
LEMMA InvInit == Init => IInv
<1> SUFFICES ASSUME Init PROVE IInv
  OBVIOUS
<1>1. mpu_y_saturated \in BOOLEAN /\ icm \in BOOLEAN /\ ~mpu_y_saturated /\ ~icm
  BY DEF Init
<1>2. QED
  BY <1>1, SamplesAssumption DEF Init, IInv, TypeOK, Band, Choose, Usable

(* A frame that is not high is needed to be low.                            *)
LEMMA BandsApart == \A band \in Band : ~(Enters(band) /\ Exits(band))
  BY DEF Band, Enters, Exits

(* The detector, frame by frame: the flag and both counters.                *)
LEMMA DetectStep ==
    ASSUME IInv, NEW band \in Band, NEW valid \in BOOLEAN, Update(band, valid)
    PROVE  /\ enter_count' \in 0..EnterSamples /\ exit_count' \in 0..ExitSamples
           /\ above' \in 0..EnterSamples /\ below' \in 0..ExitSamples
           /\ mpu_y_saturated' <=>
                above' = EnterSamples \/ (mpu_y_saturated /\ below' # ExitSamples)
           /\ ~mpu_y_saturated' => enter_count' = above' /\ above' < EnterSamples
           /\ mpu_y_saturated'  => exit_count' = below' /\ below' < ExitSamples
<1> USE SamplesAssumption
<1>1. /\ enter_count \in 0..EnterSamples /\ exit_count \in 0..ExitSamples
      /\ above \in 0..EnterSamples /\ below \in 0..ExitSamples
  BY DEF IInv, TypeOK
<1>2. /\ above' = IF Enters(band) THEN Longer(above, EnterSamples) ELSE 0
      /\ below' = IF Exits(band) THEN Longer(below, ExitSamples) ELSE 0
      /\ ~(Enters(band) /\ Exits(band))
  BY BandsApart DEF Update
<1>3. CASE ~mpu_y_saturated
  <2>1. /\ enter_count' = IF Enters(band) THEN enter_count + 1 ELSE 0
        /\ mpu_y_saturated' <=> enter_count' >= EnterSamples
        /\ exit_count' = IF mpu_y_saturated' THEN 0 ELSE exit_count
    BY <1>3, Zenon DEF Update, Detect
  <2>2. enter_count = above /\ above < EnterSamples
    BY <1>3 DEF IInv
  <2>3. QED
    BY <1>1, <1>2, <1>3, <2>1, <2>2 DEF Longer
<1>4. CASE mpu_y_saturated
  <2>1. /\ exit_count' = IF Exits(band) THEN exit_count + 1 ELSE 0
        /\ mpu_y_saturated' <=> exit_count' < ExitSamples
        /\ enter_count' = IF mpu_y_saturated' THEN enter_count ELSE 0
    BY <1>4, Zenon DEF Update, Detect
  <2>2. exit_count = below /\ below < ExitSamples
    BY <1>4 DEF IInv
  <2>3. QED
    BY <1>1, <1>2, <1>4, <2>1, <2>2 DEF Longer
<1>5. QED
  BY <1>3, <1>4

(* The flag stays a Boolean.                                                *)
LEMMA FlagBoolean ==
    ASSUME NEW band, Detect(band) PROVE mpu_y_saturated' \in BOOLEAN
<1>1. CASE ~mpu_y_saturated
  <2>1. mpu_y_saturated' = (enter_count' >= EnterSamples)
    BY <1>1, Zenon DEF Detect
  <2>2. QED
    BY <2>1, SMT
<1>2. CASE mpu_y_saturated
  <2>1. mpu_y_saturated' = (exit_count' < ExitSamples)
    BY <1>2, Zenon DEF Detect
  <2>2. QED
    BY <2>1, SMT
<1>3. QED
  BY <1>1, <1>2

(* Every frame keeps IInv.                                                  *)
LEMMA InvStep == IInv /\ [Next]_vars => IInv'
<1> SUFFICES ASSUME IInv, [Next]_vars PROVE IInv'
  OBVIOUS
<1>1. CASE UNCHANGED vars
  BY <1>1 DEF IInv, TypeOK, Choose, Usable, vars, machine
<1>2. ASSUME NEW band \in Band, NEW valid \in BOOLEAN, Update(band, valid)
      PROVE  IInv'
  <2>1. y' = band /\ icm' = valid /\ state' = Choose(mpu_y_saturated, y, icm)'
    BY <1>2 DEF Update, Choose, Usable
  <2>2. state' \in {"MPU_PRIMARY", "BLENDED", "ICM_FALLBACK", "INVALID"}
    BY <2>1 DEF Choose
  <2>3. QED
    BY <1>2, <2>1, <2>2, DetectStep, FlagBoolean DEF IInv, TypeOK, Update
<1>3. CASE Reset
  <2>1. mpu_y_saturated' = FALSE /\ icm' = FALSE /\ y' = "low" /\ state' = "MPU_PRIMARY"
    BY <1>3 DEF Reset
  <2>2. state' = Choose(mpu_y_saturated, y, icm)'
    BY <2>1, Zenon DEF Choose, Usable
  <2>3. mpu_y_saturated' \in BOOLEAN /\ icm' \in BOOLEAN /\ ~mpu_y_saturated'
    BY <2>1, Zenon
  <2>4. TypeOK' /\ enter_count' = above' /\ above' < EnterSamples
    BY <1>3, <2>1, <2>3, SamplesAssumption DEF Reset, TypeOK, Band
  <2>5. QED
    BY <2>2, <2>3, <2>4, Zenon DEF IInv
<1>4. QED
  BY <1>1, <1>2, <1>3 DEF Next

(* The counters never pass the number of samples they are compared with.    *)
THEOREM TypeCorrect == Spec => []TypeOK
<1>1. IInv => TypeOK
  BY DEF IInv
<1>2. QED
  BY <1>1, InvInit, InvStep, PTL DEF Spec

(* MPU Y is used exactly when it may be, up to what hysteresis delays.      *)
THEOREM TrustProved == Spec => []TrustIsEarned
<1>1. IInv => TrustIsEarned
  BY DEF IInv, TypeOK, TrustIsEarned, MpuTrusted, Choose, Usable
<1>2. QED
  BY <1>1, InvInit, InvStep, PTL DEF Spec

(* The two counters with their partial resets implement runs that are       *)
(* counted from the frames alone.                                           *)
THEOREM Refinement == Spec => Debounced
<1>1. Init => H!Init
  BY DEF Init, H!Init
<1>2. IInv /\ [Next]_vars => [H!Next]_(H!vars)
  <2> SUFFICES ASSUME IInv, [Next]_vars PROVE [H!Next]_(H!vars)
    OBVIOUS
  <2>1. CASE UNCHANGED vars
    BY <2>1 DEF vars, machine, H!vars
  <2>2. ASSUME NEW band \in Band, NEW valid \in BOOLEAN, Update(band, valid)
        PROVE  H!Frame
    <3>1. H!High \/ H!Low \/ H!Between
      BY <2>2, BandsApart DEF Update, Longer, H!High, H!Low, H!Between, H!Longer
    <3>2. mpu_y_saturated' = IF above' = EnterSamples THEN TRUE
                             ELSE IF below' = ExitSamples THEN FALSE
                             ELSE mpu_y_saturated
      <4>1. mpu_y_saturated \in BOOLEAN /\ mpu_y_saturated' \in BOOLEAN
        BY <2>2, FlagBoolean DEF IInv, TypeOK, Update
      <4>2. mpu_y_saturated' <=>
              above' = EnterSamples \/ (mpu_y_saturated /\ below' # ExitSamples)
        BY <2>2, DetectStep
      <4>3. CASE above' = EnterSamples
        BY <4>1, <4>2, <4>3, Zenon
      <4>4. CASE above' # EnterSamples /\ below' = ExitSamples
        BY <4>1, <4>2, <4>4, Zenon
      <4>5. CASE above' # EnterSamples /\ below' # ExitSamples
        BY <4>1, <4>2, <4>5, Zenon
      <4>6. QED
        BY <4>3, <4>4, <4>5, Zenon
    <3>3. QED
      BY <3>1, <3>2 DEF H!Frame
  <2>3. CASE Reset
    BY <2>3 DEF Reset, H!Next, H!Forget
  <2>4. QED
    BY <2>1, <2>2, <2>3 DEF Next, H!Next
<1>3. QED
  BY <1>1, <1>2, InvInit, InvStep, PTL DEF Spec, Debounced, H!Spec

-----------------------------------------------------------------------------
(* The monitor and the window.                                              *)

(* The quotient the filter adds, rounded down, lies between 0 and a.        *)
LEMMA Quotient ==
    ASSUME NEW a \in Int
    PROVE  LET q == a \div Inertia IN
           /\ q \in Int
           /\ Inertia * q <= a /\ a < Inertia * q + Inertia
           /\ a >= 0 => 0 <= q /\ q <= a
           /\ a < 0 => a <= q /\ q < 0
<1> DEFINE q == a \div Inertia
<1>1. Inertia \in Nat /\ Inertia >= 2
  BY ClockAssumption
<1>2. q \in Int /\ Inertia * q <= a /\ a < Inertia * q + Inertia
  BY <1>1, SMT
<1> HIDE DEF q
<1>3. a >= 0 => 0 <= q /\ q <= a
  BY <1>1, <1>2, SMT
<1>4. a < 0 => a <= q /\ q < 0
  BY <1>1, <1>2, SMT
<1>5. QED
  BY <1>2, <1>3, <1>4 DEF q

(* The arithmetic of one step of the filter: if the mapped time of the last *)
(* frame was not before a recorded time (lead), and that time not more than *)
(* SyncJump after the last arrival (since), the mapped time of the next     *)
(* frame, k periods of the M4 and e of local time later, is after it.       *)
LEMMA MappedTimeGrows ==
    ASSUME NEW lead \in Nat, NEW ago \in Int, ago >= -SyncJump,
           NEW k \in Nat, k >= 1, NEW e \in Nat
    PROVE  lead + k * Period + ((ago + e - lead - k * Period) \div Inertia) > 0
<1> DEFINE x == lead + k * Period
           q == (ago + e - lead - k * Period) \div Inertia
<1>1. /\ Inertia \in Nat /\ Inertia >= 2 /\ SyncJump \in Nat
      /\ Period \in Nat /\ (Inertia - 1) * Period > SyncJump + Inertia - 1
  BY ClockAssumption, RateAssumption
<1>2. x \in Nat /\ x >= Period /\ ago + e - lead - k * Period = ago + e - x
  <2>1. k * Period \in Nat /\ k * Period >= Period
    BY <1>1, SMT
  <2>2. QED
    BY <2>1, <1>1
<1>3. q \in Int /\ ago + e - x < Inertia * q + Inertia
  BY <1>2, Quotient
<1> HIDE DEF x, q
<1>4. (Inertia - 1) * x >= (Inertia - 1) * Period
  BY <1>1, <1>2, SMT
<1>5. Inertia * q >= -SyncJump - x - Inertia + 1
  BY <1>1, <1>2, <1>3, SMT
<1>6. Inertia * (x + q) > 0
  BY <1>1, <1>2, <1>3, <1>4, <1>5, SMT
<1>7. x + q > 0
  BY <1>1, <1>2, <1>3, <1>6, SMT
<1>8. QED
  BY <1>7 DEF x, q

(* What is recorded is never ahead of the mapped time of the frame, nor     *)
(* more than SyncJump ahead of its arrival.                                 *)
RecordInv ==
    /\ ClockTypeOK
    /\ offset = NoOffset => since = Memory
    /\ offset # NoOffset /\ since < Memory => offset - delay + since >= 0
    /\ ~raised
    /\ FallbackIsTimely

(* A frame through the monitor: time passes, the offset stays within the    *)
(* delays, in step means near, and the mapped time passes what is recorded. *)
LEMMA PassStep ==
    ASSUME RecordInv, NEW k \in 1..(MaxLost + 1), NEW d \in Delays,
           NEW r \in Reads, NEW ok \in BOOLEAN, Pass(k, d, r, ok)
    PROVE  /\ Elapsed(k, d) \in Nat
           /\ offset' \in Int /\ offset' # NoOffset
           /\ \E lo, hi \in Delays : lo <= offset' /\ offset' <= hi
           /\ delay' \in Delays /\ delay' \in Int /\ read' \in Reads
           /\ age' \in Int /\ age' = delay' + read' - offset'
           /\ in_step' \in BOOLEAN /\ passed' \in BOOLEAN /\ icm_known' \in BOOLEAN
           /\ passed' => icm_known'
           /\ in_step' => delay' - offset' \in -SyncJump..SyncJump
           /\ since < Memory => offset' - delay' + since + Elapsed(k, d) > 0
<1>1. /\ Delays \subseteq Nat /\ Reads \subseteq Nat /\ Period \in Nat /\ MaxLost \in Nat
      /\ SyncJump \in Nat /\ NoOffset \notin Int
  BY ClockAssumption
<1>2. /\ d \in Nat /\ r \in Nat /\ delay \in Nat /\ read \in Nat /\ k \in Nat /\ k >= 1
      /\ k * Period \in Int
  BY <1>1 DEF RecordInv, ClockTypeOK
<1>3. /\ delay' = d /\ read' = r /\ age' = d + r - offset' /\ Filter(d)
      /\ Elapsed(k, d) >= read
  BY DEF Pass
<1>4. Elapsed(k, d) \in Nat
  BY <1>1, <1>2, <1>3 DEF Elapsed
<1>5. passed' \in BOOLEAN /\ icm_known' \in BOOLEAN /\ (passed' => icm_known')
  BY Zenon DEF Pass, RecordInv, ClockTypeOK
<1>6. ASSUME offset = NoOffset
      PROVE  /\ offset' \in Int /\ offset' # NoOffset
             /\ \E lo, hi \in Delays : lo <= offset' /\ offset' <= hi
             /\ in_step' \in BOOLEAN
             /\ in_step' => delay' - offset' \in -SyncJump..SyncJump
             /\ since < Memory => offset' - delay' + since + Elapsed(k, d) > 0
  <2>1. offset' = d /\ in_step' = TRUE
    BY <1>3, <1>6 DEF Filter
  <2>2. since = Memory /\ Memory \in Nat
    BY <1>6, GateAssumption DEF RecordInv
  <2>3. /\ offset' \in Int /\ offset' # NoOffset
        /\ \E lo, hi \in Delays : lo <= offset' /\ offset' <= hi
        /\ delay' - offset' \in -SyncJump..SyncJump
    BY <1>1, <1>2, <1>3, <2>1
  <2>4. ~(since < Memory)
    BY <2>2
  <2>5. in_step' \in BOOLEAN
    BY <2>1, Zenon
  <2>6. QED
    BY <2>3, <2>4, <2>5, Zenon
<1>7. ASSUME offset # NoOffset
      PROVE  /\ offset' \in Int /\ offset' # NoOffset
             /\ \E lo, hi \in Delays : lo <= offset' /\ offset' <= hi
             /\ in_step' \in BOOLEAN
             /\ in_step' => delay' - offset' \in -SyncJump..SyncJump
             /\ since < Memory => offset' - delay' + since + Elapsed(k, d) > 0
  <2>1. /\ in_step' = (d - offset \in -SyncJump..SyncJump)
        /\ offset' = offset + (d - offset) \div Inertia
    BY <1>3, <1>7 DEF Filter
  <2>2. PICK lo, hi \in Delays : lo <= offset /\ offset <= hi
    BY <1>7 DEF RecordInv, ClockTypeOK
  <2>3. offset \in Int /\ d - offset \in Int /\ lo \in Nat /\ hi \in Nat
    BY <1>1, <1>2, <1>7 DEF RecordInv, ClockTypeOK
  <2>4. /\ offset' \in Int
        /\ d - offset >= 0 => offset <= offset' /\ offset' <= d
        /\ d - offset < 0 => d <= offset' /\ offset' < offset
    BY <2>1, <2>3, <1>2, Quotient
  <2>5. \E l, h \in Delays : l <= offset' /\ offset' <= h
    <3>1. CASE d - offset >= 0
      BY <3>1, <2>2, <2>3, <2>4, <1>2
    <3>2. CASE d - offset < 0
      BY <3>2, <2>2, <2>3, <2>4, <1>2
    <3>3. QED
      BY <3>1, <3>2, <2>3
  <2>6. in_step' \in BOOLEAN
    BY <2>1
  <2>7. ASSUME in_step' PROVE delay' - offset' \in -SyncJump..SyncJump
    <3>1. d - offset \in -SyncJump..SyncJump
      BY <2>1, <2>7, Zenon
    <3>2. QED
      <4>1. delay' = d /\ d \in Int /\ SyncJump \in Nat
        BY <1>1, <1>2, <1>3
      <4>2. -SyncJump <= d - offset /\ d - offset <= SyncJump
        BY <4>1, <3>1, <2>3
      <4>3. PICK p \in Int : p = offset'
        BY <2>4
      <4>4. /\ d - offset >= 0 => offset <= p /\ p <= d
            /\ d - offset < 0 => d <= p /\ p < offset
        BY <4>3, <2>4
      <4>5. d - p \in -SyncJump..SyncJump
        BY <4>1, <4>2, <4>4, <2>3
      <4>6. QED
        BY <4>1, <4>3, <4>5
  <2>8. ASSUME since < Memory
        PROVE  offset' - delay' + since + Elapsed(k, d) > 0
    <3> DEFINE lead == offset - delay + since
               e == Elapsed(k, d)
    <3>1. since \in Int /\ since >= -SyncJump
      BY <1>1, GateAssumption DEF RecordInv, ClockTypeOK
    <3>2. lead \in Nat
      BY <2>8, <1>7, <2>3, <1>2, <3>1 DEF RecordInv
    <3>3. lead + k * Period + ((since + e - lead - k * Period) \div Inertia) > 0
      BY <3>1, <3>2, <1>2, <1>4, MappedTimeGrows
    <3>4. since + e - lead - k * Period = d - offset
      BY <1>2, <2>3, <3>1 DEF Elapsed
    <3>5. (d - offset) \div Inertia = offset' - offset
      BY <2>1, <2>3, <2>4, Quotient
    <3>6. QED
      BY <3>1, <3>3, <3>4, <3>5, <1>2, <1>3, <2>3, <2>4 DEF Elapsed
  <2>9. offset' # NoOffset
    BY <1>1, <2>4
  <2>10. QED
    BY <2>4, <2>5, <2>6, <2>7, <2>8, <2>9, Zenon
<1>8. /\ offset' \in Int /\ offset' # NoOffset
      /\ \E lo, hi \in Delays : lo <= offset' /\ offset' <= hi
      /\ in_step' \in BOOLEAN
      /\ in_step' => delay' - offset' \in -SyncJump..SyncJump
      /\ since < Memory => offset' - delay' + since + Elapsed(k, d) > 0
  BY <1>6, <1>7, Zenon
<1>9. /\ delay' \in Delays /\ delay' \in Int /\ read' \in Reads
      /\ age' \in Int /\ age' = delay' + read' - offset'
  <2>1. d + r - offset' \in Int
    BY <1>2, <1>8
  <2>2. QED
    BY <1>2, <1>3, <2>1
<1>10. QED
  BY <1>4, <1>5, <1>8, <1>9, Zenon

(* Initially nothing is recorded.                                           *)
LEMMA RecordInit == FrameInit => RecordInv
<1> SUFFICES ASSUME FrameInit PROVE RecordInv
  OBVIOUS
<1>1. ClockTypeOK
  <2>1. Memory \in Nat /\ SyncJump \in Nat
    BY GateAssumption, ClockAssumption
  <2>2. since \in -SyncJump..Memory
    BY <2>1 DEF FrameInit
  <2>3. /\ in_step \in BOOLEAN /\ passed \in BOOLEAN /\ icm_known \in BOOLEAN
        /\ based \in BOOLEAN /\ tracking \in BOOLEAN /\ raised \in BOOLEAN
    BY Zenon DEF FrameInit, ClockInit
  <2>4. offset = NoOffset /\ delay \in Delays /\ read \in Reads \cup {0} /\ age \in Int
    BY DEF FrameInit, ClockInit
  <2>5. QED
    BY <2>2, <2>3, <2>4, Zenon DEF ClockTypeOK
<1>2. QED
  BY <1>1 DEF FrameInit, ClockInit, Init, RecordInv, FallbackIsTimely

(* What an action has to establish beside the clock's part of the invariant.*)
Recorded ==
    /\ since' \in -SyncJump..Memory
    /\ offset' # NoOffset /\ since' < Memory => offset' - delay' + since' >= 0
    /\ raised' = FALSE

(* Time passes, nothing is recorded.                                        *)
LEMMA UnrecordedStep ==
    ASSUME RecordInv, NEW k \in 1..(MaxLost + 1), NEW d \in Delays,
           NEW r \in Reads, NEW ok \in BOOLEAN, Pass(k, d, r, ok),
           Unrecorded(Elapsed(k, d))
    PROVE  Recorded
<1>1. /\ Elapsed(k, d) \in Nat /\ offset' \in Int /\ delay' \in Int
      /\ since < Memory => offset' - delay' + since + Elapsed(k, d) > 0
  BY PassStep
<1>2. since \in -SyncJump..Memory /\ Memory \in Nat /\ SyncJump \in Nat
  BY GateAssumption, ClockAssumption DEF RecordInv, ClockTypeOK
<1>3. PICK o \in Int, w \in Int : o = offset' /\ w = delay'
  BY <1>1
<1>4. PICK e \in Nat : e = Elapsed(k, d)
  BY <1>1
<1>5. since < Memory => o - w + since + e > 0
  BY <1>1, <1>3, <1>4
<1>6. since' = (IF since + e < Memory THEN since + e ELSE Memory) /\ raised' = FALSE
  <2>1. raised = FALSE
    BY Zenon DEF RecordInv, ClockTypeOK
  <2>2. QED
    BY <1>4, <2>1 DEF Unrecorded, Aged
<1>7. CASE since + e < Memory
  <2>1. since + e \in -SyncJump..Memory /\ o - w + (since + e) >= 0
    BY <1>2, <1>5, <1>7
  <2>2. QED
    BY <2>1, <1>3, <1>6, <1>7 DEF Recorded
<1>8. CASE ~(since + e < Memory)
  <2>1. Memory \in -SyncJump..Memory /\ ~(Memory < Memory)
    BY <1>2
  <2>2. QED
    BY <2>1, <1>6, <1>8 DEF Recorded
<1>9. QED
  BY <1>7, <1>8

(* A frame whose position is recorded: the times increase.                  *)
LEMMA RecordsStep ==
    ASSUME RecordInv, NEW k \in 1..(MaxLost + 1), NEW d \in Delays,
           NEW r \in Reads, NEW ok \in BOOLEAN, Pass(k, d, r, ok),
           NEW good \in BOOLEAN, NEW clean \in BOOLEAN,
           Records(Elapsed(k, d), good, clean)
    PROVE  Recorded
<1>1. /\ Elapsed(k, d) \in Nat /\ offset' \in Int /\ delay' \in Int
      /\ in_step' => delay' - offset' \in -SyncJump..SyncJump
      /\ since < Memory => offset' - delay' + since + Elapsed(k, d) > 0
  BY PassStep
<1>2. /\ since \in -SyncJump..Memory /\ Memory \in Nat /\ SyncJump \in Nat
      /\ SyncJump < Memory
  BY GateAssumption, ClockAssumption DEF RecordInv, ClockTypeOK
<1>3. in_step'
  BY DEF Records, Follows, TrajectoryValid, IcmValid
<1>4. PICK o \in Int, w \in Int : o = offset' /\ w = delay'
  BY <1>1
<1>5. PICK e \in Nat : e = Elapsed(k, d)
  BY <1>1
<1>6. w - o \in -SyncJump..SyncJump /\ (since < Memory => o - w + since + e > 0)
  BY <1>1, <1>3, <1>4, <1>5
<1>7. ~(since + e <= w - o)
  BY <1>2, <1>6
<1>8. raised' = (since + e <= w - o) /\ since' = (IF raised' THEN Aged(e) ELSE w - o)
  BY <1>4, <1>5 DEF Records
<1>9. raised' = FALSE /\ since' = w - o
  <2>1. ~raised' /\ since' = w - o
    BY <1>7, <1>8, Zenon
  <2>2. raised' \in BOOLEAN
    BY <1>8
  <2>3. QED
    BY <2>1, <2>2, Zenon
<1>10. w - o \in -SyncJump..Memory /\ o - w + (w - o) >= 0
  BY <1>2, <1>6
<1>11. QED
  BY <1>4, <1>9, <1>10 DEF Recorded

(* After a clear nothing is recorded.                                       *)
LEMMA ClearStep == RecordInv /\ Clear => Recorded /\ based' \in BOOLEAN /\ tracking' \in BOOLEAN
<1> SUFFICES ASSUME RecordInv, Clear PROVE Recorded /\ based' \in BOOLEAN /\ tracking' \in BOOLEAN
  OBVIOUS
<1>1. Memory \in -SyncJump..Memory /\ ~(Memory < Memory)
  BY GateAssumption, ClockAssumption
<1>2. since' = Memory /\ based' = FALSE /\ tracking' = FALSE
  BY DEF Clear
<1>3. raised' = FALSE
  BY Zenon DEF Clear, RecordInv, ClockTypeOK
<1>4. QED
  BY <1>1, <1>2, <1>3 DEF Recorded

(* The frame at hand decides on the ICM.                                    *)
LEMMA FreshStep ==
    ASSUME RecordInv, NEW k \in 1..(MaxLost + 1), NEW d \in Delays,
           NEW r \in Reads, NEW ok \in BOOLEAN, Pass(k, d, r, ok),
           NEW band \in Band, NEW good \in BOOLEAN, Update(band, IcmValid(good))
    PROVE  FallbackIsTimely'
<1> SUFFICES ASSUME state' \in {"BLENDED", "ICM_FALLBACK"}
             PROVE  icm_known' /\ passed' /\ age' \in -AgeLimit..AgeLimit
  BY DEF FallbackIsTimely
<1>1. IcmValid(good)
  BY DEF Update, Choose
<1>2. /\ offset' \in Int /\ delay' \in Int /\ read' \in Reads
      /\ age' = delay' + read' - offset'
      /\ passed' => icm_known'
      /\ in_step' => delay' - offset' \in -SyncJump..SyncJump
  BY PassStep
<1>3. /\ SyncJump \in Nat /\ AgeLimit \in Nat /\ SyncJump <= AgeLimit /\ Reads \subseteq Nat
  BY ClockAssumption, GateAssumption DEF GateAssumption
<1>4. PICK o \in Int, w \in Int, n \in Nat : o = offset' /\ w = delay' /\ n = read'
  BY <1>2, <1>3
<1>5. w - o \in -SyncJump..SyncJump
  BY <1>1, <1>2, <1>4 DEF IcmValid
<1>6. age' = w + n - o /\ age' <= AgeLimit
  BY <1>1, <1>2, <1>4 DEF IcmValid
<1>7. w + n - o >= -AgeLimit /\ w + n - o \in Int
  BY <1>3, <1>5
<1>8. age' \in -AgeLimit..AgeLimit
  BY <1>3, <1>6, <1>7
<1>9. QED
  BY <1>1, <1>2, <1>8 DEF IcmValid

(* Every step of monitor and window preserves the invariant.                *)
LEMMA RecordStep == RecordInv /\ [FrameNext]_frameVars => RecordInv'
<1> SUFFICES ASSUME RecordInv, [FrameNext]_frameVars PROVE RecordInv'
  OBVIOUS
<1>1. CASE Frame
  <2>1. PICK k \in 1..(MaxLost + 1), d \in Delays, r \in Reads, ok \in BOOLEAN :
          /\ Pass(k, d, r, ok)
          /\ \/ Unparsed(Elapsed(k, d))
             \/ \E band \in Band, good \in BOOLEAN : \E clean \in {FALSE, good} :
                  Accept(Elapsed(k, d), band, good, clean)
    BY <1>1 DEF Frame
  <2> DEFINE e == Elapsed(k, d)
  <2>2. /\ offset' \in Int /\ offset' # NoOffset
        /\ \E lo, hi \in Delays : lo <= offset' /\ offset' <= hi
        /\ delay' \in Delays /\ read' \in Reads /\ age' \in Int
        /\ in_step' \in BOOLEAN /\ passed' \in BOOLEAN /\ icm_known' \in BOOLEAN
    BY <2>1, PassStep
  <2>3. SUFFICES /\ Recorded /\ FallbackIsTimely'
                 /\ based' \in BOOLEAN /\ tracking' \in BOOLEAN
    <3>1. ASSUME Recorded, FallbackIsTimely', based' \in BOOLEAN, tracking' \in BOOLEAN
          PROVE  RecordInv'
      <4>1. raised' \in BOOLEAN /\ ~raised' /\ read' \in Reads \cup {0}
        BY <2>2, <3>1, Zenon DEF Recorded
      <4>2. QED
        BY <2>2, <3>1, <4>1, Zenon DEF RecordInv, Recorded, ClockTypeOK
    <3>2. QED
      BY <3>1
  <2>4. based \in BOOLEAN /\ tracking \in BOOLEAN
    BY DEF RecordInv, ClockTypeOK
  <2>5. CASE Unparsed(e)
    <3>1. Recorded
      BY <2>1, <2>5, UnrecordedStep DEF Unparsed
    <3>2. FallbackIsTimely'
      BY <2>1, <2>5 DEF RecordInv, FallbackIsTimely, Unparsed, Pass, vars
    <3>3. QED
      BY <2>4, <2>5, <3>1, <3>2, Zenon DEF Unparsed
  <2>6. ASSUME NEW band \in Band, NEW good \in BOOLEAN, NEW clean \in {FALSE, good},
               Accept(e, band, good, clean)
        PROVE  /\ Recorded /\ FallbackIsTimely'
               /\ based' \in BOOLEAN /\ tracking' \in BOOLEAN
    <3> clean \in BOOLEAN
      BY <2>6
    <3>1. CASE Breaks(e, good, clean)
      <4>1. Clear
        BY <3>1 DEF Breaks
      <4>2. FallbackIsTimely'
        BY <4>1 DEF Clear, Reset, FallbackIsTimely
      <4>3. QED
        BY <4>1, <4>2, ClearStep
    <3>2. ASSUME Update(band, IcmValid(good)), Rejected(e, good, clean)
          PROVE  /\ Recorded /\ FallbackIsTimely'
                 /\ based' \in BOOLEAN /\ tracking' \in BOOLEAN
      <4>1. Recorded
        BY <2>1, <3>2, UnrecordedStep DEF Rejected
      <4>2. QED
        BY <2>1, <2>4, <3>2, <4>1, FreshStep, Zenon DEF Rejected
    <3>3. ASSUME Update(band, IcmValid(good)), Rebases(e, good, clean)
          PROVE  /\ Recorded /\ FallbackIsTimely'
                 /\ based' \in BOOLEAN /\ tracking' \in BOOLEAN
      <4>1. Recorded
        BY <2>1, <3>3, UnrecordedStep DEF Rebases
      <4>2. QED
        BY <2>1, <2>4, <3>3, <4>1, FreshStep, Zenon DEF Rebases
    <3>4. ASSUME Update(band, IcmValid(good)), Records(e, good, clean)
          PROVE  /\ Recorded /\ FallbackIsTimely'
                 /\ based' \in BOOLEAN /\ tracking' \in BOOLEAN
      <4>1. Recorded
        BY <2>1, <3>4, RecordsStep
      <4>2. QED
        BY <2>1, <2>4, <3>4, <4>1, FreshStep, Zenon DEF Records, Follows
    <3>5. ASSUME Update(band, IcmValid(good)),
                 NEW done \in BOOLEAN, Calibrates(e, good, clean, done)
          PROVE  /\ Recorded /\ FallbackIsTimely'
                 /\ based' \in BOOLEAN /\ tracking' \in BOOLEAN
      <4>1. Recorded
        BY <2>1, <3>5, UnrecordedStep DEF Calibrates
      <4>2. QED
        BY <2>1, <2>4, <3>5, <4>1, FreshStep, Zenon DEF Calibrates, Follows
    <3>6. QED
      BY <2>6, <3>1, <3>2, <3>3, <3>4, <3>5, Zenon DEF Accept
  <2>7. QED
    BY <2>1, <2>5, <2>6
<1>2. CASE ClearClicked
  <2>1. Clear /\ UNCHANGED clockVars
    BY <1>2 DEF ClearClicked
  <2>2. FallbackIsTimely'
    BY <2>1 DEF Clear, Reset, FallbackIsTimely
  <2>3. ClockTypeOK'
    <3>1. raised' \in BOOLEAN /\ based' \in BOOLEAN /\ tracking' \in BOOLEAN
      BY <2>1, ClearStep, Zenon DEF Recorded
    <3>2. QED
      BY <2>1, <3>1, ClearStep, Zenon DEF RecordInv, Recorded, ClockTypeOK, clockVars
  <2>4. since' = Memory /\ ~(Memory < Memory)
    BY <2>1, GateAssumption DEF Clear
  <2>5. QED
    BY <2>1, <2>2, <2>3, <2>4, ClearStep DEF RecordInv, Recorded
<1>3. CASE NewSession
  <2>1. Clear /\ offset' = NoOffset /\ delay' \in Delays /\ read' = 0 /\ age' = 0
    BY <1>3 DEF NewSession
  <2>2. in_step' \in BOOLEAN /\ passed' \in BOOLEAN /\ icm_known' \in BOOLEAN
    BY <1>3, Zenon DEF NewSession
  <2>3. FallbackIsTimely' /\ since' = Memory
    BY <2>1 DEF Clear, Reset, FallbackIsTimely
  <2>4. ClockTypeOK'
    <3>1. raised' \in BOOLEAN /\ based' \in BOOLEAN /\ tracking' \in BOOLEAN
      BY <2>1, ClearStep, Zenon DEF Recorded
    <3>2. 0 \in Int /\ 0 \in Reads \cup {0}
      OBVIOUS
    <3>3. QED
      BY <2>1, <2>2, <3>1, <3>2, ClearStep, Zenon DEF Recorded, ClockTypeOK
  <2>5. QED
    BY <2>1, <2>3, <2>4, ClearStep DEF RecordInv, Recorded
<1>4. CASE UNCHANGED frameVars
  BY <1>4 DEF frameVars, vars, machine, clockVars, windowVars, RecordInv, ClockTypeOK,
              FallbackIsTimely
<1>5. QED
  BY <1>1, <1>2, <1>3, <1>4 DEF FrameNext

(* record_position is never given a time that is not after the last one, so *)
(* it never raises in the window's slot.                                    *)
THEOREM RecordsProved == FrameSpec => []RecordsIncrease
<1>1. RecordInv => RecordsIncrease
  BY DEF RecordInv, RecordsIncrease
<1>2. QED
  BY <1>1, RecordInit, RecordStep, PTL DEF FrameSpec

(* Whatever is taken from the ICM passed the monitor's test at the frame at *)
(* hand and is stamped within AgeLimit of it.                               *)
THEOREM FallbackProved == FrameSpec => []FallbackIsTimely
<1>1. RecordInv => FallbackIsTimely
  BY DEF RecordInv
<1>2. QED
  BY <1>1, RecordInit, RecordStep, PTL DEF FrameSpec

(* The window takes the state machine of Fusion through its own steps only: *)
(* a frame updates it once, an unparsed one not at all, and clear_data      *)
(* takes a new one.  All that Fusion promises therefore holds here.         *)
THEOREM ImplementsFusion == FrameSpec => Spec
<1>1. FrameInit => Init
  BY DEF FrameInit
<1>2. ASSUME [FrameNext]_frameVars PROVE [Next]_vars
  <2>1. CASE Frame
    <3>1. PICK k \in 1..(MaxLost + 1), d \in Delays :
            \/ Unparsed(Elapsed(k, d))
            \/ \E band \in Band, good \in BOOLEAN : \E clean \in {FALSE, good} :
                 Accept(Elapsed(k, d), band, good, clean)
      BY <2>1 DEF Frame
    <3>2. CASE Unparsed(Elapsed(k, d))
      BY <3>2 DEF Unparsed
    <3>3. ASSUME NEW band \in Band, NEW good \in BOOLEAN, NEW clean \in {FALSE, good},
                 Accept(Elapsed(k, d), band, good, clean)
          PROVE  Next
      <4>1. Reset \/ Update(band, IcmValid(good))
        BY <3>3 DEF Accept, Breaks, Clear
      <4>2. IcmValid(good) \in BOOLEAN
        BY DEF IcmValid
      <4>3. QED
        BY <4>1, <4>2 DEF Next
    <3>4. QED
      BY <3>1, <3>2, <3>3
  <2>2. CASE ClearClicked \/ NewSession
    BY <2>2 DEF ClearClicked, NewSession, Clear, Next
  <2>3. CASE UNCHANGED frameVars
    BY <2>3 DEF frameVars
  <2>4. QED
    BY <1>2, <2>1, <2>2, <2>3 DEF FrameNext
<1>3. QED
  BY <1>1, <1>2, PTL DEF FrameSpec, Spec

(* The offset stays between delays that frames may have, the debounce       *)
(* counters within their limits, and every variable in its domain, whatever *)
(* the delays (MonitorClock, FusedFrame).                                   *)
THEOREM FrameTypeCorrect == FrameSpec => []FrameTypeOK
<1>1. RecordInv /\ TypeOK => FrameTypeOK
  BY DEF RecordInv, FrameTypeOK
<1>2. FrameSpec => []RecordInv
  BY RecordInit, RecordStep, PTL DEF FrameSpec
<1>3. FrameSpec => []TypeOK
  BY ImplementsFusion, TypeCorrect, PTL
<1>4. QED
  BY <1>1, <1>2, <1>3, PTL
=============================================================================
