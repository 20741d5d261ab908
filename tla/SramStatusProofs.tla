-------------------------- MODULE SramStatusProofs --------------------------
(***************************************************************************)
(* Proofs about SramStatus, for any number of samples and of attempts:     *)
(* what a frame holds that the firmware's stores let through, although the *)
(* reader looks at the sequence only before the data, and the times of the *)
(* samples.                                                                *)
(***************************************************************************)
EXTENDS SramStatus, TLAPS

(* What the page holds is never older than its sequence number: the words   *)
(* of a sample are all written before the number.                           *)
PageInv ==
    /\ \A i, j \in Number : i <= j /\ j <= sequence => good[i] <= good[j]
    /\ \A i \in Number : good[i] <= i
    /\ stamp = IF m4pc = "publish" THEN Sample ELSE sequence
    /\ accel >= good[sequence] /\ gyro >= good[sequence]
    /\ m4pc \in {"gyro", "stamp", "publish"} =>
         good[Sample] >= good[sequence] /\ accel >= good[Sample]
    /\ m4pc \in {"stamp", "publish"} => gyro >= good[Sample]

NotOlder ==
    frame.stamp >= frame.seq /\ frame.accel >= good[frame.seq] /\ frame.gyro >= good[frame.seq]

(* So it is of what the reader has copied: each word was read after the     *)
(* number, and the words of the page only get younger.                      *)
ReaderInv ==
    /\ rpc \in {"stamp", "accel", "gyro"} => second.seq <= sequence
    /\ rpc \in {"accel", "gyro"} => second.stamp >= second.seq
    /\ rpc = "gyro" => second.accel >= good[second.seq]
    /\ frame # Nothing => frame.seq <= sequence /\ NotOlder

SramInv == TypeOK /\ PageInv /\ ReaderInv

LEMMA ModRange == \A x \in Int : x % Wrap \in 0..(Wrap - 1)
<1>1. Wrap \in Nat \ {0}
  BY ClockAssumption
<1>2. QED
  BY <1>1

LEMMA SramInit == Init => SramInv
<1> SUFFICES ASSUME Init PROVE SramInv
  OBVIOUS
<1>1. /\ Period \in Nat /\ MaxBusy \in Nat /\ Tries \in Nat \ {0} /\ Observations \in Nat
      /\ MaxSample \in Nat /\ Wrap \in Nat /\ Wrap > 2 * (Period + MaxBusy)
  BY ClockAssumption
<1>2. ClockTypeOK
  <2>1. Period % Wrap \in 0..(Wrap - 1) /\ 0 \in 0..(Wrap - 1)
    BY <1>1, ModRange
  <2>2. QED
    BY <1>1, <2>1 DEF Init, ClockTypeOK
<1>3. PageTypeOK
  BY <1>1 DEF Init, PageTypeOK, Number
<1>4. ReaderTypeOK
  BY <1>1 DEF Init, ReaderTypeOK, Number
<1>5. PageInv /\ ReaderInv
  BY <1>1 DEF Init, PageInv, ReaderInv, Number
<1>6. overlapped \in BOOLEAN
  BY DEF Init
<1>7. QED
  BY <1>2, <1>3, <1>4, <1>5, <1>6 DEF SramInv, TypeOK

LEMMA ClockTyped == ASSUME TypeOK, Next PROVE ClockTypeOK'
<1> USE DEF TypeOK, ClockTypeOK
<1>1. /\ Period \in Nat /\ MaxBusy \in Nat /\ Wrap \in Nat
  BY ClockAssumption
<1>2. CASE Tick
  <2>1. milliseconds' \in 0..(Wrap - 1)
    BY <1>1, <1>2, ModRange DEF Tick
  <2>2. QED
    BY <1>1, <1>2, <2>1 DEF Tick, times
<1>3. CASE Schedule
  BY <1>1, <1>3 DEF Schedule, times
<1>4. CASE WriteAccel \/ WriteGyro \/ SampleFails
  BY <1>4 DEF WriteAccel, WriteGyro, SampleFails, clock, times
<1>5. CASE WriteStamp
  BY <1>5 DEF WriteStamp, clock
<1>6. CASE Publish
  <2>1. next_sample_ms' \in 0..(Wrap - 1)
    BY <1>1, <1>6, ModRange DEF Publish
  <2>2. QED
    BY <1>6, <2>1 DEF Publish, times
<1>7. CASE ReaderStep
  BY <1>7 DEF ReaderStep, ReadFirst, ReadSequence, ReadStamp, ReadAccel, ReadGyro, ReadNext,
              clock, times
<1>8. QED
  BY <1>2, <1>3, <1>4, <1>5, <1>6, <1>7 DEF Next, M4Step

(* The firmware: the words of the page only get younger.                    *)
LEMMA FirmwareStep ==
    ASSUME PageTypeOK, PageInv, M4Step
    PROVE  /\ PageTypeOK' /\ PageInv' /\ UNCHANGED reader
           /\ sequence <= sequence'
           /\ \A k \in Number : k <= sequence => good'[k] = good[k]
<1>0. MaxSample \in Nat /\ Number = 0..MaxSample
  BY ClockAssumption DEF Number
<1>1. CASE Schedule
  <2>1. /\ m4pc = "wait" /\ m4pc' = "accel" /\ sequence < MaxSample
        /\ UNCHANGED <<sequence, accel, gyro, stamp, good, reader>>
    BY <1>1 DEF Schedule, data, times, history
  <2>2. PageTypeOK'
    BY <2>1 DEF PageTypeOK
  <2>3. PageInv'
    BY <2>1 DEF PageInv
  <2>4. QED
    BY <1>0, <2>1, <2>2, <2>3 DEF PageTypeOK
<1>2. CASE m4pc # "wait"
  <2>1. /\ sequence \in Nat /\ sequence \in Number /\ Sample = sequence + 1
        /\ Sample \in Nat /\ Sample \in Number /\ Sample > sequence
        /\ good \in [Number -> Number] /\ accel \in Nat /\ gyro \in Nat
    BY <1>0, <1>2 DEF PageTypeOK, Sample
  <2>2. \A k \in Number : k \in Nat /\ good[k] \in Nat /\ good[k] <= k
    BY <1>0, <2>1 DEF PageInv
  <2>3. CASE WriteAccel
    <3>1. /\ good' = [good EXCEPT ![Sample] = Sample] /\ accel' = Sample
          /\ m4pc = "accel" /\ m4pc' = "gyro"
          /\ UNCHANGED <<sequence, gyro, stamp, reader>>
      BY <2>3 DEF WriteAccel, times
    <3>2. /\ good'[Sample] = Sample /\ good' \in [Number -> Number]
          /\ \A k \in Number : k <= sequence => good'[k] = good[k]
      BY <2>1, <2>2, <3>1
    <3>3. PageTypeOK'
      BY <2>1, <3>1, <3>2 DEF PageTypeOK
    <3>4. \A k \in Number : good'[k] <= k
      BY <2>1, <2>2, <3>1
    <3>5. \A i, j \in Number : i <= j /\ j <= sequence => good'[i] <= good'[j]
      BY <2>1, <2>2, <3>2 DEF PageInv
    <3>6. Sample' = Sample
      BY <3>1 DEF Sample
    <3>7. Sample >= good[sequence] /\ stamp = sequence /\ gyro >= good[sequence]
      BY <2>1, <2>2, <3>1 DEF PageInv
    <3>8. PageInv'
      BY <2>1, <2>2, <3>1, <3>2, <3>4, <3>5, <3>6, <3>7 DEF PageInv
    <3>9. QED
      BY <2>1, <3>1, <3>2, <3>3, <3>8
  <2>4. CASE SampleFails
    <3>1. /\ good' = [good EXCEPT ![Sample] = good[sequence]]
          /\ m4pc = "accel" /\ m4pc' = "stamp"
          /\ UNCHANGED <<sequence, accel, gyro, stamp, reader>>
      BY <2>4 DEF SampleFails, data, times
    <3>2. /\ good'[Sample] = good[sequence] /\ good' \in [Number -> Number]
          /\ \A k \in Number : k <= sequence => good'[k] = good[k]
      BY <2>1, <2>2, <3>1
    <3>3. PageTypeOK'
      BY <2>1, <3>1, <3>2 DEF PageTypeOK
    <3>4. \A k \in Number : good'[k] <= k
      BY <2>1, <2>2, <3>1
    <3>5. \A i, j \in Number : i <= j /\ j <= sequence => good'[i] <= good'[j]
      BY <2>1, <2>2, <3>2 DEF PageInv
    <3>6. Sample' = Sample
      BY <3>1 DEF Sample
    <3>7. stamp = sequence /\ accel >= good[sequence] /\ gyro >= good[sequence]
      BY <3>1 DEF PageInv
    <3>8. PageInv'
      BY <2>1, <2>2, <3>1, <3>2, <3>4, <3>5, <3>6, <3>7 DEF PageInv
    <3>9. QED
      BY <2>1, <3>1, <3>2, <3>3, <3>8
  <2>5. CASE WriteGyro
    <3>1. /\ gyro' = Sample /\ m4pc = "gyro" /\ m4pc' = "stamp"
          /\ UNCHANGED <<sequence, accel, stamp, good, reader>>
      BY <2>5 DEF WriteGyro, times
    <3>2. PageTypeOK'
      BY <2>1, <3>1 DEF PageTypeOK
    <3>3. Sample' = Sample
      BY <3>1 DEF Sample
    <3>4. PageInv'
      BY <2>1, <2>2, <3>1, <3>3 DEF PageInv
    <3>5. QED
      BY <2>1, <3>1, <3>2, <3>4
  <2>6. CASE WriteStamp
    <3>1. /\ stamp' = Sample /\ m4pc = "stamp" /\ m4pc' = "publish"
          /\ UNCHANGED <<sequence, accel, gyro, good, reader>>
      BY <2>6 DEF WriteStamp, data
    <3>2. PageTypeOK'
      BY <2>1, <3>1 DEF PageTypeOK
    <3>3. Sample' = Sample
      BY <3>1 DEF Sample
    <3>4. PageInv'
      BY <2>1, <2>2, <3>1, <3>3 DEF PageInv
    <3>5. QED
      BY <2>1, <3>1, <3>2, <3>4
  <2>7. CASE Publish
    <3>1. /\ sequence' = Sample /\ m4pc = "publish" /\ m4pc' = "wait"
          /\ UNCHANGED <<accel, gyro, stamp, good, reader>>
      BY <2>1, <2>7 DEF Publish, data, times, history
    <3>2. PageTypeOK'
      BY <2>1, <3>1 DEF PageTypeOK
    <3>3. good[Sample] >= good[sequence] /\ accel >= good[Sample] /\ gyro >= good[Sample]
          /\ stamp = Sample
      BY <3>1 DEF PageInv
    <3>4. ASSUME NEW i \in Number, NEW j \in Number, i <= j, j <= Sample
          PROVE  good[i] <= good[j]
      <4>1. i \in Nat /\ j \in Nat /\ good[i] \in Nat /\ good[j] \in Nat
            /\ good[sequence] \in Nat /\ good[Sample] \in Nat
        BY <2>1, <2>2
      <4>2. CASE j <= sequence
        BY <3>4, <4>2 DEF PageInv
      <4>3. CASE j = Sample /\ i <= sequence
        <5>1. good[i] <= good[sequence]
          BY <2>1, <4>1, <4>3 DEF PageInv
        <5>2. QED
          BY <3>3, <4>1, <4>3, <5>1
      <4>4. CASE i = j
        BY <4>1, <4>4
      <4>5. j <= sequence \/ (j = Sample /\ i <= sequence) \/ i = j
        BY <2>1, <3>4, <4>1
      <4>6. QED
        BY <4>2, <4>3, <4>4, <4>5
    <3>5. PageInv'
      BY <2>1, <2>2, <3>1, <3>3, <3>4 DEF PageInv
    <3>6. QED
      BY <2>1, <3>1, <3>2, <3>5
  <2>8. QED
    BY <1>2, <2>3, <2>4, <2>5, <2>6, <2>7 DEF M4Step, Schedule
<1>3. QED
  BY <1>1, <1>2 DEF M4Step, WriteAccel, WriteGyro, SampleFails, WriteStamp, Publish

(* The reader: each word it copies is at least as young as the number it    *)
(* has copied.                                                              *)
LEMMA ReaderTyped == ASSUME TypeOK, ReaderStep PROVE ReaderTypeOK'
<1>0. /\ MaxSample \in Nat /\ Tries \in Nat \ {0} /\ Observations \in Nat
      /\ sequence \in Number /\ stamp \in Number /\ accel \in Number /\ gyro \in Number
  BY ClockAssumption DEF TypeOK, PageTypeOK
<1> USE DEF TypeOK, ReaderTypeOK
<1>1. CASE ReadFirst
  BY <1>0, <1>1 DEF ReadFirst
<1>2. CASE ReadSequence \/ ReadStamp \/ ReadAccel
  BY <1>0, <1>2 DEF ReadSequence, ReadStamp, ReadAccel
<1>3. CASE ReadGyro
  <2>1. CASE Moved
    BY <1>0, <1>3, <2>1 DEF ReadGyro
  <2>2. CASE ~Moved
    BY <1>0, <1>3, <2>2 DEF ReadGyro
  <2>3. QED
    BY <2>1, <2>2
<1>4. CASE ReadNext
  BY <1>0, <1>4 DEF ReadNext
<1>5. QED
  BY <1>1, <1>2, <1>3, <1>4 DEF ReaderStep

LEMMA ReaderOrdered == ASSUME SramInv, ReaderStep PROVE ReaderInv'
<1>0. MaxSample \in Nat /\ Number = 0..MaxSample
  BY ClockAssumption DEF Number
<1>1. /\ UNCHANGED <<sequence, stamp, accel, gyro, good>>
  BY DEF ReaderStep, ReadFirst, ReadSequence, ReadStamp, ReadAccel, ReadGyro, ReadNext, data, times, history
<1>2. /\ sequence \in Nat /\ sequence \in Number /\ stamp \in Nat /\ accel \in Nat /\ gyro \in Nat
      /\ \A k \in Number : good[k] \in Nat
      /\ second \in [seq : Number, stamp : Number, accel : Number]
  <2>1. /\ sequence \in Number /\ stamp \in Number /\ accel \in Number /\ gyro \in Number
        /\ good \in [Number -> Number]
        /\ second \in [seq : Number, stamp : Number, accel : Number]
    BY DEF SramInv, TypeOK, PageTypeOK, ReaderTypeOK
  <2>2. \A k \in Number : k \in Nat
    BY <1>0
  <2>3. QED
    BY <2>1, <2>2
<1>3. /\ stamp >= sequence /\ accel >= good[sequence] /\ gyro >= good[sequence]
      /\ \A k \in Number : k <= sequence => good[k] <= good[sequence]
  <2>1. stamp >= sequence
    BY <1>2 DEF SramInv, PageInv, Sample
  <2>2. QED
    BY <1>0, <1>2, <2>1 DEF SramInv, PageInv
<1>4. ReaderInv
  BY DEF SramInv
<1>5. CASE frame' = frame
  <2>1. frame' # Nothing => frame'.seq <= sequence' /\ NotOlder'
    BY <1>1, <1>4, <1>5 DEF ReaderInv, NotOlder
  <2>2. CASE ReadSequence
    BY <1>0, <1>1, <1>2, <2>1, <2>2 DEF ReadSequence, ReaderInv
  <2>3. CASE ReadStamp
    <3>1. /\ rpc = "stamp" /\ rpc' = "accel"
          /\ second' = [second EXCEPT !.stamp = stamp]
      BY <2>3 DEF ReadStamp
    <3>2. second'.seq = second.seq /\ second'.stamp = stamp /\ second.seq \in Nat
      BY <1>0, <1>2, <3>1
    <3>3. QED
      BY <1>1, <1>2, <1>3, <1>4, <2>1, <3>1, <3>2 DEF ReaderInv
  <2>4. CASE ReadAccel
    <3>1. /\ rpc = "accel" /\ rpc' = "gyro"
          /\ second' = [second EXCEPT !.accel = accel]
      BY <2>4 DEF ReadAccel
    <3>2. /\ second'.seq = second.seq /\ second'.stamp = second.stamp /\ second'.accel = accel
          /\ second.seq \in Number /\ second.seq <= sequence
      BY <1>2, <1>4, <3>1 DEF ReaderInv
    <3>3. good[second.seq] <= good[sequence] /\ good[second.seq] \in Nat /\ good[sequence] \in Nat
      BY <1>2, <1>3, <3>2
    <3>4. accel >= good[second.seq]
      BY <1>2, <1>3, <3>3
    <3>5. QED
      BY <1>1, <1>4, <2>1, <3>1, <3>2, <3>4 DEF ReaderInv
  <2>5. CASE ReadFirst \/ ReadGyro \/ ReadNext
    <3>1. rpc' \in {"sequence", "first", "failed", "done"}
      BY <2>5 DEF ReadFirst, ReadGyro, ReadNext
    <3>2. QED
      BY <1>1, <2>1, <3>1 DEF ReaderInv
  <2>6. QED
    BY <2>2, <2>3, <2>4, <2>5 DEF ReaderStep
<1>6. CASE frame' # frame
  <2>1. CASE ReadNext
    BY <2>1 DEF ReadNext, ReaderInv
  <2>2. CASE ~ReadNext
    <3>1. /\ rpc = "gyro" /\ rpc' = "done"
          /\ frame' = [seq |-> second.seq, stamp |-> second.stamp,
                       accel |-> second.accel, gyro |-> gyro]
      BY <1>6, <2>2 DEF ReaderStep, ReadFirst, ReadSequence, ReadStamp, ReadAccel, ReadGyro
    <3>2. /\ frame'.seq = second.seq /\ frame'.stamp = second.stamp
          /\ frame'.accel = second.accel /\ frame'.gyro = gyro
      BY <3>1
    <3>3. /\ second.seq <= sequence /\ second.stamp >= second.seq
          /\ second.accel >= good[second.seq] /\ second.seq \in Number
      BY <1>2, <1>4, <3>1 DEF ReaderInv
    <3>4. good[second.seq] <= good[sequence] /\ good[second.seq] \in Nat /\ good[sequence] \in Nat
      BY <1>2, <1>3, <3>3
    <3>5. gyro >= good[second.seq]
      BY <1>2, <1>3, <3>4
    <3>6. QED
      BY <1>1, <3>1, <3>2, <3>3, <3>5 DEF ReaderInv, NotOlder
  <2>3. QED
    BY <2>1, <2>2
<1>7. QED
  BY <1>5, <1>6

LEMMA OverlapTyped == ASSUME TypeOK, [Next]_vars PROVE overlapped' \in BOOLEAN
<1>1. overlapped \in BOOLEAN
  BY DEF TypeOK
<1>2. CASE Tick \/ UNCHANGED vars
  BY <1>1, <1>2 DEF Tick, history, vars
<1>3. CASE M4Step
  <2>1. \/ overlapped' = overlapped
        \/ overlapped' = (overlapped \/ rpc \in {"stamp", "accel", "gyro"})
    BY <1>3 DEF M4Step, Schedule, WriteAccel, WriteGyro, SampleFails, WriteStamp, Publish, Overlap,
                history
  <2>2. QED
    BY <1>1, <2>1
<1>4. CASE ReaderStep
  <2>1. overlapped' = overlapped \/ overlapped' = Partial
    BY <1>4 DEF ReaderStep, ReadFirst, ReadSequence, ReadStamp, ReadAccel, ReadGyro, ReadNext,
                history
  <2>2. Partial = TRUE \/ Partial = FALSE
    BY DEF Partial
  <2>3. QED
    BY <1>1, <2>1, <2>2
<1>5. QED
  BY <1>2, <1>3, <1>4 DEF Next

LEMMA SramStep == SramInv /\ [Next]_vars => SramInv'
<1> SUFFICES ASSUME SramInv, [Next]_vars PROVE SramInv'
  OBVIOUS
<1>0. MaxSample \in Nat /\ Number = 0..MaxSample
  BY ClockAssumption DEF Number
<1>1. CASE M4Step
  <2>1. /\ PageTypeOK' /\ PageInv' /\ UNCHANGED reader
        /\ sequence <= sequence'
        /\ \A k \in Number : k <= sequence => good'[k] = good[k]
    BY <1>1, FirmwareStep DEF SramInv, TypeOK
  <2>2. ReaderTypeOK'
    BY <2>1 DEF reader, SramInv, TypeOK, ReaderTypeOK
  <2>3. ReaderInv'
    <3>1. /\ UNCHANGED <<rpc, second, frame>> /\ ReaderInv
          /\ second.seq \in Number /\ sequence \in Nat /\ sequence' \in Nat
          /\ frame # Nothing => frame.seq \in Number
      BY <1>0, <2>1 DEF reader, SramInv, TypeOK, ReaderTypeOK, PageTypeOK
    <3>2. \A k \in Number : k <= sequence => k <= sequence' /\ good'[k] = good[k]
      BY <1>0, <2>1, <3>1
    <3>3. QED
      BY <3>1, <3>2 DEF ReaderInv, NotOlder
  <2>4. QED
    BY <1>1, <2>1, <2>2, <2>3, ClockTyped, OverlapTyped DEF SramInv, TypeOK, Next
<1>2. CASE ReaderStep
  <2>1. UNCHANGED <<m4pc, sequence, accel, gyro, stamp, good>>
    BY <1>2 DEF ReaderStep, ReadFirst, ReadSequence, ReadStamp, ReadAccel, ReadGyro, ReadNext,
                data, times, history
  <2>2. PageTypeOK' /\ PageInv'
    BY <2>1 DEF SramInv, TypeOK, PageTypeOK, PageInv, Sample
  <2>3. QED
    BY <1>2, <2>2, ReaderTyped, ReaderOrdered, ClockTyped, OverlapTyped DEF SramInv, TypeOK, Next
<1>3. CASE Tick
  <2>1. UNCHANGED <<m4pc, sequence, data, times, reader, history>>
    BY <1>3 DEF Tick
  <2>2. PageTypeOK' /\ PageInv' /\ ReaderTypeOK' /\ ReaderInv'
    BY <2>1 DEF SramInv, TypeOK, PageTypeOK, PageInv, ReaderTypeOK, ReaderInv, NotOlder, Sample,
                data, times, reader, history
  <2>3. QED
    BY <1>3, <2>2, ClockTyped, OverlapTyped DEF SramInv, TypeOK, Next
<1>4. CASE UNCHANGED vars
  BY <1>4 DEF vars, clock, data, times, reader, history, SramInv, TypeOK, ClockTypeOK, PageTypeOK, PageInv,
              ReaderTypeOK, ReaderInv, NotOlder, Sample
<1>5. QED
  BY <1>1, <1>2, <1>3, <1>4 DEF Next

LEMMA SramInductive == Spec => []SramInv
BY SramInit, SramStep, PTL DEF Spec

-----------------------------------------------------------------------------
(* Every variable keeps to its domain, the times to the width of the        *)
(* millisecond counter.                                                     *)
THEOREM TypeCorrect == Spec => []TypeOK
<1>1. SramInv => TypeOK
  BY DEF SramInv
<1>2. QED
  BY <1>1, SramInductive, PTL

(* Between two samples the page is one sample, whole.                       *)
WordsInv ==
    /\ m4pc \in {"wait", "accel"} => accel = good[sequence] /\ gyro = good[sequence]
    /\ m4pc = "gyro" => accel = Sample /\ good[Sample] = Sample
    /\ m4pc \in {"stamp", "publish"} =>
         accel = good[Sample] /\ gyro = good[Sample] /\ good[Sample] \in {Sample, good[sequence]}

(* As long as no word was stored in its pass, the reader has copied, and    *)
(* still sees, the sample whose number it has read.                         *)
WholeInv ==
    /\ frame # Nothing => rpc = "done"
    /\ ~overlapped =>
         /\ rpc \in {"stamp", "accel", "gyro"} =>
              stamp = second.seq /\ accel = good[second.seq] /\ gyro = good[second.seq]
         /\ rpc \in {"accel", "gyro"} => second.stamp = second.seq
         /\ rpc = "gyro" => second.accel = good[second.seq]
         /\ frame # Nothing =>
              /\ frame.stamp = frame.seq
              /\ frame.accel = good[frame.seq] /\ frame.gyro = good[frame.seq]

LEMMA WordsInit == Init => WordsInv /\ WholeInv
BY ClockAssumption DEF Init, WordsInv, WholeInv

LEMMA WordsStep == SramInv /\ WordsInv /\ [Next]_vars => WordsInv'
<1> SUFFICES ASSUME SramInv, WordsInv, [Next]_vars PROVE WordsInv'
  OBVIOUS
<1>1. /\ sequence \in Nat /\ sequence \in Number /\ good \in [Number -> Number]
      /\ m4pc # "wait" => Sample \in Number
      /\ Sample = sequence + 1 /\ Sample # sequence
  BY ClockAssumption DEF SramInv, TypeOK, PageTypeOK, Number, Sample
<1>2. CASE Schedule
  BY <1>2 DEF Schedule, data, times, history, WordsInv
<1>3. CASE WriteAccel
  <2>1. /\ m4pc = "accel" /\ m4pc' = "gyro" /\ accel' = Sample /\ sequence' = sequence
        /\ good' = [good EXCEPT ![Sample] = Sample]
    BY <1>3 DEF WriteAccel
  <2>2. good'[Sample] = Sample /\ Sample' = Sample
    BY <1>1, <2>1 DEF Sample
  <2>3. QED
    BY <2>1, <2>2 DEF WordsInv
<1>4. CASE WriteGyro
  <2>1. /\ m4pc = "gyro" /\ m4pc' = "stamp" /\ gyro' = Sample
        /\ UNCHANGED <<sequence, accel, good>>
    BY <1>4 DEF WriteGyro
  <2>2. accel = Sample /\ good[Sample] = Sample
    BY <2>1 DEF WordsInv
  <2>3. QED
    BY <2>1, <2>2 DEF WordsInv, Sample
<1>5. CASE SampleFails
  <2>1. /\ m4pc = "accel" /\ m4pc' = "stamp" /\ good' = [good EXCEPT ![Sample] = good[sequence]]
        /\ UNCHANGED <<sequence, accel, gyro>>
    BY <1>5 DEF SampleFails, data
  <2>2. good'[Sample] = good[sequence] /\ good'[sequence] = good[sequence] /\ Sample' = Sample
    BY <1>1, <2>1 DEF Sample
  <2>3. QED
    BY <2>1, <2>2 DEF WordsInv
<1>6. CASE WriteStamp
  BY <1>6 DEF WriteStamp, data, WordsInv, Sample
<1>7. CASE Publish
  <2>1. /\ m4pc = "publish" /\ m4pc' = "wait" /\ sequence' = Sample
        /\ UNCHANGED <<accel, gyro, good>>
    BY <1>7 DEF Publish, data, history, Sample
  <2>2. QED
    BY <2>1 DEF WordsInv
<1>8. CASE Tick \/ ReaderStep \/ UNCHANGED vars
  <2>1. UNCHANGED <<m4pc, sequence, accel, gyro, good>>
    BY <1>8 DEF Tick, ReaderStep, ReadFirst, ReadSequence, ReadStamp, ReadAccel, ReadGyro,
                ReadNext, data, history, vars
  <2>2. QED
    BY <2>1 DEF WordsInv, Sample
<1>9. QED
  BY <1>2, <1>3, <1>4, <1>5, <1>6, <1>7, <1>8 DEF Next, M4Step

(* The page is whole when the reader begins its pass and no word of the     *)
(* next sample is there.                                                    *)
LEMMA PageWhole ==
    ASSUME SramInv, WordsInv, ~Partial
    PROVE  stamp = sequence /\ accel = good[sequence] /\ gyro = good[sequence]
<1>1. Sample \notin {accel, gyro, stamp}
  BY DEF Partial
<1>2. stamp = sequence /\ m4pc # "gyro" /\ m4pc # "publish"
  BY <1>1 DEF SramInv, PageInv, WordsInv
<1>3. m4pc \in {"wait", "accel", "stamp"}
  BY <1>2 DEF SramInv, TypeOK, PageTypeOK
<1>4. QED
  BY <1>1, <1>2, <1>3 DEF WordsInv

LEMMA WholeReader == ASSUME SramInv, WordsInv, WholeInv, ReaderStep PROVE WholeInv'
<1>1. UNCHANGED <<sequence, stamp, accel, gyro, good>>
  BY DEF ReaderStep, ReadFirst, ReadSequence, ReadStamp, ReadAccel, ReadGyro, ReadNext,
         data, times, history
<1>2. second \in [seq : Number, stamp : Number, accel : Number]
  BY DEF SramInv, TypeOK, ReaderTypeOK
<1>3. CASE ReadFirst \/ ReadNext
  <2>1. rpc' \in {"first", "sequence"}
    BY <1>3 DEF ReadFirst, ReadNext
  <2>2. frame' = Nothing
    BY <1>3 DEF ReadFirst, ReadNext, WholeInv
  <2>3. QED
    BY <2>1, <2>2 DEF WholeInv
<1>4. CASE ReadSequence
  <2>1. /\ rpc = "sequence" /\ rpc' = "stamp" /\ frame' = frame /\ overlapped' = Partial
        /\ second' = [second EXCEPT !.seq = sequence]
    BY <1>4 DEF ReadSequence
  <2>2. second'.seq = sequence
    BY <1>2, <2>1
  <2>3. frame' = Nothing
    BY <2>1 DEF WholeInv
  <2>4. ~overlapped' =>
          stamp' = second'.seq /\ accel' = good'[second'.seq] /\ gyro' = good'[second'.seq]
    BY <1>1, <2>1, <2>2, PageWhole
  <2>5. QED
    BY <2>1, <2>3, <2>4 DEF WholeInv
<1>5. CASE ReadStamp
  <2>1. /\ rpc = "stamp" /\ rpc' = "accel" /\ frame' = frame /\ overlapped' = overlapped
        /\ second' = [second EXCEPT !.stamp = stamp]
    BY <1>5 DEF ReadStamp, history
  <2>2. second'.seq = second.seq /\ second'.stamp = stamp
    BY <1>2, <2>1
  <2>3. frame = Nothing
    BY <2>1 DEF WholeInv
  <2>4. QED
    BY <1>1, <2>1, <2>2, <2>3 DEF WholeInv
<1>6. CASE ReadAccel
  <2>1. /\ rpc = "accel" /\ rpc' = "gyro" /\ frame' = frame /\ overlapped' = overlapped
        /\ second' = [second EXCEPT !.accel = accel]
    BY <1>6 DEF ReadAccel, history
  <2>2. second'.seq = second.seq /\ second'.stamp = second.stamp /\ second'.accel = accel
    BY <1>2, <2>1
  <2>3. frame = Nothing
    BY <2>1 DEF WholeInv
  <2>4. QED
    BY <1>1, <2>1, <2>2, <2>3 DEF WholeInv
<1>7. CASE ReadGyro
  <2>1. rpc = "gyro" /\ overlapped' = overlapped
    BY <1>7 DEF ReadGyro, history
  <2>2. frame = Nothing
    BY <2>1 DEF WholeInv
  <2>3. CASE Moved
    <3>1. frame' = frame /\ rpc' \in {"first", "failed"}
      BY <1>7, <2>3 DEF ReadGyro
    <3>2. QED
      BY <2>2, <3>1 DEF WholeInv
  <2>4. CASE ~Moved
    <3>1. /\ rpc' = "done"
          /\ frame' = [seq |-> second.seq, stamp |-> second.stamp,
                       accel |-> second.accel, gyro |-> gyro]
      BY <1>7, <2>4 DEF ReadGyro
    <3>2. /\ frame'.seq = second.seq /\ frame'.stamp = second.stamp
          /\ frame'.accel = second.accel /\ frame'.gyro = gyro
      BY <3>1
    <3>3. QED
      BY <1>1, <2>1, <3>1, <3>2 DEF WholeInv
  <2>5. QED
    BY <2>3, <2>4
<1>8. QED
  BY <1>3, <1>4, <1>5, <1>6, <1>7 DEF ReaderStep

(* A store of the firmware ends the claim; nothing else it does touches a   *)
(* word of the page or the sample a number stands for.                      *)
LEMMA WholeFirmware == ASSUME SramInv, WordsInv, WholeInv, M4Step PROVE WholeInv'
<1>1. /\ UNCHANGED <<rpc, second, frame>>
      /\ \A k \in Number : k <= sequence => good'[k] = good[k]
  BY FirmwareStep DEF SramInv, TypeOK, reader
<1>2. /\ rpc \in {"stamp", "accel", "gyro"} => second.seq \in Number /\ second.seq <= sequence
      /\ frame # Nothing => frame.seq \in Number /\ frame.seq <= sequence
  BY DEF SramInv, ReaderInv, TypeOK, ReaderTypeOK
<1>3. \/ UNCHANGED <<accel, gyro, stamp, overlapped>>
      \/ overlapped' = (overlapped \/ rpc \in {"stamp", "accel", "gyro"})
  BY DEF M4Step, Schedule, WriteAccel, WriteGyro, SampleFails, WriteStamp, Publish, Overlap,
         data, times, history
<1>4. /\ rpc \in {"stamp", "accel", "gyro"} => good'[second.seq] = good[second.seq]
      /\ frame # Nothing => good'[frame.seq] = good[frame.seq]
  BY <1>1, <1>2
<1>5. CASE UNCHANGED <<accel, gyro, stamp, overlapped>>
  BY <1>1, <1>4, <1>5 DEF WholeInv
<1>6. CASE overlapped' = (overlapped \/ rpc \in {"stamp", "accel", "gyro"})
  BY <1>1, <1>4, <1>6 DEF WholeInv
<1>7. QED
  BY <1>3, <1>5, <1>6

LEMMA WholeStep == SramInv /\ WordsInv /\ WholeInv /\ [Next]_vars => WholeInv'
<1> SUFFICES ASSUME SramInv, WordsInv, WholeInv, [Next]_vars PROVE WholeInv'
  OBVIOUS
<1>1. CASE M4Step
  BY <1>1, WholeFirmware
<1>2. CASE ReaderStep
  BY <1>2, WholeReader
<1>3. CASE Tick \/ UNCHANGED vars
  <2>1. UNCHANGED <<data, times, reader, history>>
    BY <1>3 DEF Tick, vars
  <2>2. QED
    BY <2>1 DEF data, times, reader, history, WholeInv
<1>4. QED
  BY <1>1, <1>2, <1>3 DEF Next

(* publish_status writes sequence last, after __DMB, and read_consistent    *)
(* reads the words it returns after both numbers: a frame is never older    *)
(* than its number, however the two interleave, and it is the sample of     *)
(* that number unless a store fell into the copying or before it.           *)
THEOREM WholeFrameProved == Spec => []WholeFrame
<1>1. Spec => [](SramInv /\ WordsInv /\ WholeInv)
  <2>1. Init => SramInv /\ WordsInv /\ WholeInv
    BY SramInit, WordsInit
  <2>2. SramInv /\ WordsInv /\ WholeInv /\ [Next]_vars => (SramInv /\ WordsInv /\ WholeInv)'
    BY SramStep, WordsStep, WholeStep
  <2>3. QED
    BY <2>1, <2>2, PTL DEF Spec
<1>2. SramInv /\ WholeInv => WholeFrame
  BY DEF SramInv, ReaderInv, NotOlder, WholeInv, WholeFrame
<1>3. QED
  BY <1>1, <1>2, PTL

-----------------------------------------------------------------------------
(* The times.                                                               *)

(* Time a is d milliseconds after time b.                                   *)
After(a, b, d) == a - b - d \in {-Wrap, 0, Wrap}

(* While it waits the firmware is at most a period early for the next       *)
(* sample, and never later than a sample takes.                             *)
WaitingInv ==
    m4pc = "wait" =>
        /\ \E l \in (-Period)..MaxBusy : After(milliseconds, next_sample_ms, l)
        /\ sequence > 0 =>
            /\ After(next_sample_ms, scheduled_ms, Period)
            /\ \E j \in 0..(Period - 1) : After(timestamp_ms, scheduled_ms, j)

(* A sample was begun in its period, and after the one before it.           *)
SamplingInv ==
    m4pc # "wait" =>
        /\ After(milliseconds, now_ms, busy)
        /\ \E j \in 0..(Period - 1) : After(now_ms, next_sample_ms, j)
        /\ m4pc # "publish" /\ stamp > 0 =>
            \E e \in 1..(Period + MaxBusy) : After(now_ms, timestamp_ms, e)
        /\ m4pc = "publish" => timestamp_ms = now_ms /\ scheduled_ms = next_sample_ms

TimesInv == WaitingInv /\ SamplingInv

LEMMA Timing ==
    /\ Period \in Nat \ {0} /\ MaxBusy \in Nat
    /\ Wrap \in Nat \ {0} /\ Wrap > 2 * (Period + MaxBusy)
    /\ 2 * (Wrap \div 2) = Wrap /\ Wrap \div 2 \in Nat /\ Period + MaxBusy < Wrap \div 2
<1>1. /\ Period \in Nat \ {0} /\ MaxBusy \in Nat
      /\ Wrap \in Nat \ {0} /\ Wrap > 2 * (Period + MaxBusy) /\ Wrap % 2 = 0
  BY ClockAssumption
<1>2. 2 * (Wrap \div 2) = Wrap /\ Wrap \div 2 \in Nat
  BY <1>1
<1>3. QED
  BY <1>1, <1>2

Small == (-(Period + MaxBusy))..(Period + MaxBusy)

(* Where the wrapped counter is, for the values that occur.                 *)
LEMMA WrapNear ==
    /\ \A x \in 0..(2 * Wrap - 1) : x % Wrap = IF x < Wrap THEN x ELSE x - Wrap
    /\ \A x \in (-Wrap)..(Wrap - 1) : x % Wrap = IF x < 0 THEN x + Wrap ELSE x
<1>1. Wrap \in Nat \ {0}
  BY Timing
<1>2. \A x \in 0..(2 * Wrap - 1) : x % Wrap = IF x < Wrap THEN x ELSE x - Wrap
  BY <1>1
<1>3. \A x \in (-Wrap)..(Wrap - 1) : x % Wrap = IF x < 0 THEN x + Wrap ELSE x
  BY <1>1
<1>4. QED
  BY <1>2, <1>3

(* The signed difference tells how far two times are apart.                 *)
LEMMA DiffAfter ==
    ASSUME NEW a \in 0..(Wrap - 1), NEW b \in 0..(Wrap - 1), NEW d \in Small, After(a, b, d)
    PROVE  Diff(a, b) = d
<1>1. a - b \in (-Wrap)..(Wrap - 1)
  BY Timing
<1>2. (a - b) % Wrap = IF a - b < 0 THEN a - b + Wrap ELSE a - b
  BY <1>1, WrapNear
<1>3. d < Wrap \div 2 /\ Wrap + d >= Wrap \div 2 /\ d \in Int
  BY Timing DEF Small
<1>4. QED
  BY <1>2, <1>3, Timing DEF Diff, After

(* Distances add up.                                                        *)
LEMMA AfterAfter ==
    ASSUME NEW a \in 0..(Wrap - 1), NEW b \in 0..(Wrap - 1), NEW c \in 0..(Wrap - 1),
           NEW d \in Small, NEW e \in Small, After(a, b, d), After(b, c, e)
    PROVE  After(a, c, d + e)
BY Timing DEF After, Small

LEMMA AfterBack ==
    ASSUME NEW a \in 0..(Wrap - 1), NEW b \in 0..(Wrap - 1), NEW d \in Small, After(a, b, d)
    PROVE  After(b, a, -d)
BY Timing DEF After, Small

LEMMA AfterSum ==
    ASSUME NEW a \in 0..(Wrap - 1), NEW d \in 0..Period
    PROVE  After((a + d) % Wrap, a, d)
<1>1. a + d \in 0..(2 * Wrap - 1)
  BY Timing
<1>2. QED
  BY <1>1, WrapNear, Timing DEF After

LEMMA TimesInit == Init => TimesInv
<1> SUFFICES ASSUME Init PROVE TimesInv
  OBVIOUS
<1>1. m4pc = "wait" /\ sequence = 0 /\ milliseconds = 0 /\ next_sample_ms = Period
  <2>1. Period % Wrap = Period
    BY Timing, WrapNear
  <2>2. QED
    BY <2>1 DEF Init
<1>2. -Period \in (-Period)..MaxBusy /\ After(0, Period, -Period)
  BY Timing DEF After
<1>3. QED
  BY <1>1, <1>2 DEF TimesInv, WaitingInv, SamplingInv

(* A millisecond passes.                                                    *)
LEMMA TickTimed == ASSUME ClockTypeOK, TimesInv, Tick PROVE TimesInv'
<1>0. /\ milliseconds \in 0..(Wrap - 1) /\ next_sample_ms \in 0..(Wrap - 1)
      /\ now_ms \in 0..(Wrap - 1) /\ milliseconds' \in 0..(Wrap - 1) /\ busy \in 0..MaxBusy
  BY ModRange, Timing DEF ClockTypeOK, Tick
<1>1. /\ UNCHANGED <<next_sample_ms, now_ms, m4pc, sequence, stamp, scheduled_ms, timestamp_ms>>
      /\ busy' = IF m4pc = "wait" THEN 0 ELSE busy + 1
  BY DEF Tick, times
<1>2. After(milliseconds', milliseconds, 1)
  BY <1>0, AfterSum, Timing DEF Tick
<1>3. CASE m4pc = "wait"
  <2>1. PICK l \in (-Period)..MaxBusy : After(milliseconds, next_sample_ms, l)
    BY <1>3 DEF TimesInv, WaitingInv
  <2>2. l \in Small /\ 1 \in Small
    BY Timing DEF Small
  <2>3. l < 0
    BY <1>0, <1>3, <2>1, <2>2, DiffAfter DEF Tick
  <2>4. After(milliseconds', next_sample_ms, 1 + l)
    BY <1>0, <1>2, <2>1, <2>2, AfterAfter
  <2>5. 1 + l \in (-Period)..MaxBusy
    BY <2>3, Timing
  <2>6. QED
    BY <1>1, <1>3, <2>4, <2>5 DEF TimesInv, WaitingInv, SamplingInv, After
<1>4. CASE m4pc # "wait"
  <2>1. After(milliseconds, now_ms, busy) /\ busy' = busy + 1 /\ busy < MaxBusy
    BY <1>1, <1>4 DEF TimesInv, SamplingInv, Tick
  <2>2. busy \in Small /\ 1 \in Small /\ 1 + busy = busy + 1
    BY <1>0, Timing DEF Small
  <2>3. After(milliseconds', now_ms, busy + 1)
    BY <1>0, <1>2, <2>1, <2>2, AfterAfter
  <2>4. After(milliseconds, now_ms, busy)' 
    BY <1>1, <2>1, <2>3 DEF After
  <2>5. QED
    BY <1>1, <1>4, <2>4 DEF TimesInv, WaitingInv, SamplingInv, After
<1>5. QED
  BY <1>3, <1>4

(* A sample begins: in its period, also after an overrun.                   *)
LEMMA ScheduleTimed == ASSUME TypeOK, PageInv, TimesInv, Schedule PROVE TimesInv'
<1>0. /\ milliseconds \in 0..(Wrap - 1) /\ next_sample_ms \in 0..(Wrap - 1)
      /\ scheduled_ms \in 0..(Wrap - 1) /\ timestamp_ms \in 0..(Wrap - 1)
  BY DEF TypeOK, ClockTypeOK
<1>1. /\ m4pc = "wait" /\ m4pc' = "accel" /\ now_ms' = milliseconds /\ busy' = 0
      /\ UNCHANGED <<milliseconds, stamp, scheduled_ms, timestamp_ms>>
      /\ Diff(milliseconds, next_sample_ms) >= 0
      /\ next_sample_ms' = IF Diff(milliseconds, next_sample_ms) >= Period
                           THEN milliseconds ELSE next_sample_ms
  BY DEF Schedule, times
<1>2. PICK l \in (-Period)..MaxBusy : After(milliseconds, next_sample_ms, l)
  BY <1>1 DEF TimesInv, WaitingInv
<1>3. l \in 0..MaxBusy /\ l \in Small /\ Diff(milliseconds, next_sample_ms) = l
  <2>1. l \in Small
    BY Timing DEF Small
  <2>2. Diff(milliseconds, next_sample_ms) = l
    BY <1>0, <1>2, <2>1, DiffAfter
  <2>3. QED
    BY <1>1, <2>1, <2>2, Timing
<1>4. After(milliseconds, milliseconds, 0) /\ 0 \in 0..(Period - 1)
  BY <1>0, Timing DEF After
<1>5. \E j \in 0..(Period - 1) : After(now_ms', next_sample_ms', j)
  <2>1. CASE l >= Period
    BY <1>1, <1>3, <1>4, <2>1
  <2>2. CASE ~(l >= Period)
    <3>1. l \in 0..(Period - 1)
      BY <1>3, <2>2, Timing
    <3>2. QED
      BY <1>1, <1>2, <1>3, <2>2, <3>1
  <2>3. QED
    BY <2>1, <2>2
<1>6. ASSUME stamp > 0 PROVE \E e \in 1..(Period + MaxBusy) : After(now_ms', timestamp_ms, e)
  <2>1. sequence > 0
    BY <1>1, <1>6 DEF PageInv
  <2>2. After(next_sample_ms, scheduled_ms, Period)
    BY <1>1, <2>1 DEF TimesInv, WaitingInv
  <2>3. PICK j \in 0..(Period - 1) : After(timestamp_ms, scheduled_ms, j)
    BY <1>1, <2>1 DEF TimesInv, WaitingInv
  <2>4. Period \in Small /\ j \in Small /\ -j \in Small /\ Period - j \in Small
    BY Timing DEF Small
  <2>5. After(scheduled_ms, timestamp_ms, -j)
    BY <1>0, <2>3, <2>4, AfterBack
  <2>6. After(next_sample_ms, timestamp_ms, Period + (-j))
    BY <1>0, <2>2, <2>4, <2>5, AfterAfter
  <2>7. Period + (-j) = Period - j
    BY Timing
  <2>8. After(milliseconds, timestamp_ms, l + (Period - j))
    BY <1>0, <1>2, <1>3, <2>4, <2>6, <2>7, AfterAfter
  <2>9. l + (Period - j) \in 1..(Period + MaxBusy)
    BY <1>3, Timing
  <2>10. QED
    BY <1>1, <2>8, <2>9
<1>7. After(milliseconds, now_ms, busy)'
  BY <1>1, <1>4 DEF After
<1>8. QED
  BY <1>1, <1>5, <1>6, <1>7 DEF TimesInv, WaitingInv, SamplingInv, After

(* The next sample is due a period after this one was.                      *)
LEMMA PublishTimed == ASSUME TypeOK, PageInv, TimesInv, Publish PROVE TimesInv'
<1>0. /\ milliseconds \in 0..(Wrap - 1) /\ next_sample_ms \in 0..(Wrap - 1)
      /\ now_ms \in 0..(Wrap - 1) /\ next_sample_ms' \in 0..(Wrap - 1) /\ busy \in 0..MaxBusy
      /\ next_sample_ms + Period \in Int
  BY ModRange, Timing DEF TypeOK, ClockTypeOK, Publish
<1>1. /\ m4pc = "publish" /\ m4pc' = "wait"
      /\ next_sample_ms' = (next_sample_ms + Period) % Wrap
      /\ UNCHANGED <<milliseconds, now_ms, busy, stamp, scheduled_ms, timestamp_ms>>
  BY DEF Publish, times
<1>2. PICK j \in 0..(Period - 1) : After(now_ms, next_sample_ms, j)
  BY <1>1 DEF TimesInv, SamplingInv
<1>3. After(milliseconds, now_ms, busy) /\ timestamp_ms = now_ms /\ scheduled_ms = next_sample_ms
  BY <1>1 DEF TimesInv, SamplingInv
<1>4. After(next_sample_ms', next_sample_ms, Period)
  <2>1. Period \in 0..Period
    BY Timing
  <2>2. QED
    BY <1>0, <1>1, <2>1, AfterSum
<1>5. /\ j \in Small /\ busy \in Small /\ Period \in Small /\ -Period \in Small
      /\ j + (-Period) \in Small
      /\ busy + (j + (-Period)) \in (-Period)..MaxBusy
  BY <1>0, Timing DEF Small
<1>6. After(now_ms, next_sample_ms', j + (-Period))
  BY <1>0, <1>2, <1>4, <1>5, AfterAfter, AfterBack
<1>7. After(milliseconds, next_sample_ms', busy + (j + (-Period)))
  BY <1>0, <1>3, <1>5, <1>6, AfterAfter
<1>8. WaitingInv'
  <2>1. \E l \in (-Period)..MaxBusy : After(milliseconds', next_sample_ms', l)
    BY <1>1, <1>5, <1>7
  <2>2. After(next_sample_ms', scheduled_ms', Period)
    BY <1>1, <1>3, <1>4
  <2>3. \E i \in 0..(Period - 1) : After(timestamp_ms', scheduled_ms', i)
    BY <1>1, <1>2, <1>3
  <2>4. QED
    BY <2>1, <2>2, <2>3 DEF WaitingInv, After
<1>9. QED
  BY <1>1, <1>8 DEF TimesInv, SamplingInv

LEMMA TimesStep == ASSUME SramInv, TimesInv, [Next]_vars PROVE TimesInv'
<1>0. TypeOK /\ ClockTypeOK /\ PageInv
  BY DEF SramInv, TypeOK
<1>1. CASE Tick
  BY <1>0, <1>1, TickTimed
<1>2. CASE Schedule
  BY <1>0, <1>2, ScheduleTimed
<1>3. CASE Publish
  BY <1>0, <1>3, PublishTimed
<1>4. CASE WriteStamp
  <2>1. /\ m4pc = "stamp" /\ m4pc' = "publish"
        /\ scheduled_ms' = next_sample_ms /\ timestamp_ms' = now_ms
        /\ UNCHANGED <<milliseconds, next_sample_ms, now_ms, busy>>
    BY <1>4 DEF WriteStamp, clock
  <2>2. QED
    BY <2>1 DEF TimesInv, WaitingInv, SamplingInv, After
<1>5. CASE WriteAccel \/ WriteGyro \/ SampleFails
  <2>1. /\ m4pc \in {"accel", "gyro"} /\ m4pc' \in {"gyro", "stamp"}
        /\ UNCHANGED <<clock, times>>
    BY <1>5 DEF WriteAccel, WriteGyro, SampleFails
  <2>2. QED
    BY <2>1 DEF clock, times, TimesInv, WaitingInv, SamplingInv, After
<1>6. CASE ReaderStep \/ UNCHANGED vars
  <2>1. UNCHANGED <<clock, m4pc, sequence, times>>
    BY <1>6 DEF ReaderStep, ReadFirst, ReadSequence, ReadStamp, ReadAccel, ReadGyro, ReadNext, vars
  <2>2. QED
    BY <2>1 DEF clock, times, TimesInv, WaitingInv, SamplingInv, After
<1>7. QED
  BY <1>1, <1>2, <1>3, <1>4, <1>5, <1>6 DEF Next, M4Step

(* main compares HAL_GetTick with the schedule through a signed difference  *)
(* and moves the schedule to now after an overrun: a sample is taken within *)
(* its period and later than the one before, for any period, any width of   *)
(* the counter that fits them and any number of its wraps.                  *)
THEOREM OnTimeProved == Spec => OnTime
<1>1. Spec => [](SramInv /\ TimesInv)
  <2>1. Init => SramInv /\ TimesInv
    BY SramInit, TimesInit
  <2>2. SramInv /\ TimesInv /\ [Next]_vars => (SramInv /\ TimesInv)'
    BY SramStep, TimesStep
  <2>3. QED
    BY <2>1, <2>2, PTL DEF Spec
<1>2. SramInv /\ TimesInv =>
        (m4pc = "wait" /\ sequence > 0 => Diff(timestamp_ms, scheduled_ms) \in 0..(Period - 1))
  <2> SUFFICES ASSUME SramInv, TimesInv, m4pc = "wait", sequence > 0
               PROVE  Diff(timestamp_ms, scheduled_ms) \in 0..(Period - 1)
    OBVIOUS
  <2>1. timestamp_ms \in 0..(Wrap - 1) /\ scheduled_ms \in 0..(Wrap - 1)
    BY DEF SramInv, TypeOK, ClockTypeOK
  <2>2. PICK j \in 0..(Period - 1) : After(timestamp_ms, scheduled_ms, j)
    BY DEF TimesInv, WaitingInv
  <2>3. j \in Small
    BY Timing DEF Small
  <2>4. QED
    BY <2>1, <2>2, <2>3, DiffAfter
<1>3. SramInv /\ TimesInv /\ [Next]_vars =>
        [stamp' # stamp /\ stamp > 0 => Diff(timestamp_ms', timestamp_ms) > 0]_vars
  <2> SUFFICES ASSUME SramInv, TimesInv, [Next]_vars, stamp' # stamp, stamp > 0
               PROVE  Diff(timestamp_ms', timestamp_ms) > 0
    OBVIOUS
  <2>1. WriteStamp
    BY DEF Next, M4Step, Tick, Schedule, WriteAccel, WriteGyro, SampleFails, Publish,
           ReaderStep, ReadFirst, ReadSequence, ReadStamp, ReadAccel, ReadGyro, ReadNext,
           clock, times, vars
  <2>2. m4pc = "stamp" /\ timestamp_ms' = now_ms
    BY <2>1 DEF WriteStamp
  <2>3. timestamp_ms \in 0..(Wrap - 1) /\ now_ms \in 0..(Wrap - 1)
    BY DEF SramInv, TypeOK, ClockTypeOK
  <2>4. PICK e \in 1..(Period + MaxBusy) : After(now_ms, timestamp_ms, e)
    BY <2>2 DEF TimesInv, SamplingInv
  <2>5. e \in Small /\ e > 0
    BY Timing DEF Small
  <2>6. QED
    BY <2>2, <2>3, <2>4, <2>5, DiffAfter
<1>4. QED
  BY <1>1, <1>2, <1>3, PTL DEF Spec, OnTime
=============================================================================
