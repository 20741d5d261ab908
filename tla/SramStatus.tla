----------------------------- MODULE SramStatus -----------------------------
(***************************************************************************)
(* The SRAM status page: the M4 firmware m4/src/mpu6050.c samples the      *)
(* MPU6050 on a schedule and publishes struct mpu6050_status word by word, *)
(* while tools/validate_m4_sampling.py reads the page through /dev/mem.    *)
(*                                                                         *)
(* A field holds the number of the sample that wrote it.  The millisecond  *)
(* counter has Wrap values, as the 32-bit one has 2^32, and is compared    *)
(* through a signed difference.                                            *)
(***************************************************************************)
EXTENDS Integers, Sequences

CONSTANTS
    Period,     \* SAMPLE_PERIOD_MS
    Wrap,       \* number of values of the millisecond counter
    MaxBusy,    \* the longest a sample takes, in ms: the I2C loops are bounded
    Tries,      \* attempts of read_consistent
    Observations, \* frames main asks read_consistent for
    MaxSample,  \* bound: samples published
    Nothing     \* read_consistent has not returned a frame

ASSUME ClockAssumption ==
    /\ Period \in Nat \ {0} /\ MaxBusy \in Nat /\ Tries \in Nat \ {0}
    /\ Observations \in Nat /\ MaxSample \in Nat
    /\ Wrap \in Nat /\ Wrap % 2 = 0 /\ Wrap > 2 * (Period + MaxBusy)

VARIABLES
    milliseconds,   \* counted by the SysTick interrupt
    \* the firmware
    m4pc, next_sample_ms, now_ms, busy, overruns,
    sequence, accel, gyro, stamp,  \* fields of the page: sample numbers
    scheduled_ms, timestamp_ms,    \* the two times that go with stamp
    \* the reader
    rpc, observed, try, first, second, frame,
    \* history
    good,           \* good[k]: the last sample up to k that was read without error
    overlapped      \* the reader's pass has met a sample that was being stored

clock  == <<milliseconds, next_sample_ms, now_ms, busy, overruns>>
data   == <<accel, gyro>>
times  == <<stamp, scheduled_ms, timestamp_ms>>
reader == <<rpc, observed, try, first, second, frame>>
history == <<good, overlapped>>
vars   == <<clock, m4pc, sequence, data, times, reader, history>>

(* (int32_t)(a - b)                                                         *)
Diff(a, b) ==
    LET d == (a - b) % Wrap IN IF d < Wrap \div 2 THEN d ELSE d - Wrap

Sample == sequence + 1      \* the one being taken

Init ==
    /\ milliseconds = 0 /\ next_sample_ms = Period % Wrap
    /\ now_ms = 0 /\ busy = 0 /\ overruns = 0
    /\ m4pc = "wait"
    /\ sequence = 0 /\ accel = 0 /\ gyro = 0 /\ stamp = 0
    /\ scheduled_ms = 0 /\ timestamp_ms = 0
    /\ rpc = "done" /\ observed = 0 /\ try = 1 /\ first = 0
    /\ second = [seq |-> 0, stamp |-> 0, accel |-> 0]
    /\ frame = Nothing
    /\ good = [k \in 0..MaxSample |-> 0] /\ overlapped = FALSE

-----------------------------------------------------------------------------
(* Time passes; a sample is over within MaxBusy.  Waiting for the next one  *)
(* is over as soon as it is due.                                            *)
Tick ==
    /\ IF m4pc = "wait" THEN Diff(milliseconds, next_sample_ms) < 0 ELSE busy < MaxBusy
    /\ milliseconds' = (milliseconds + 1) % Wrap
    /\ busy' = IF m4pc = "wait" THEN 0 ELSE busy + 1
    /\ UNCHANGED <<next_sample_ms, now_ms, overruns, m4pc, sequence, data, times, reader, history>>

(* Fault: the schedule is not moved after an overrun. *)
ScheduleLate ==
    /\ m4pc = "wait"
    /\ sequence < MaxSample
    /\ Diff(milliseconds, next_sample_ms) >= 0
    /\ now_ms' = milliseconds
    /\ overruns' = IF Diff(milliseconds, next_sample_ms) >= Period THEN overruns + 1 ELSE overruns
    /\ busy' = 0
    /\ m4pc' = "accel"
    /\ UNCHANGED <<milliseconds, next_sample_ms, sequence, data, times, reader, history>>

(* The sample is due: take the time; a whole period late is an overrun,     *)
(* after which the schedule starts again from now.                          *)
Schedule ==
    /\ m4pc = "wait"
    /\ sequence < MaxSample
    /\ Diff(milliseconds, next_sample_ms) >= 0
    /\ now_ms' = milliseconds
    /\ IF Diff(milliseconds, next_sample_ms) >= Period
       THEN overruns' = overruns + 1 /\ next_sample_ms' = milliseconds
       ELSE UNCHANGED <<overruns, next_sample_ms>>
    /\ busy' = 0
    /\ m4pc' = "accel"
    /\ UNCHANGED <<milliseconds, sequence, data, times, reader, history>>

(* A word of the page is stored while the reader copies the page. *)
Overlap == overlapped' = (overlapped \/ rpc \in {"stamp", "accel", "gyro"})

(* The registers were read: the data words are stored one after the other.  *)
WriteAccel ==
    /\ m4pc = "accel"
    /\ accel' = Sample
    /\ good' = [good EXCEPT ![Sample] = Sample] /\ Overlap
    /\ m4pc' = "gyro"
    /\ UNCHANGED <<clock, sequence, gyro, times, reader>>

WriteGyro ==
    /\ m4pc = "gyro"
    /\ gyro' = Sample /\ Overlap
    /\ m4pc' = "stamp"
    /\ UNCHANGED <<clock, sequence, accel, times, reader, good>>

(* Fault: the buffer of a failed read is stored as data. *)
SampleFailsStored ==
    /\ m4pc = "accel"
    /\ good' = [good EXCEPT ![Sample] = good[sequence]]
    /\ accel' = Sample /\ gyro' = Sample /\ Overlap
    /\ m4pc' = "stamp"
    /\ UNCHANGED <<clock, sequence, times, reader>>

(* The read failed, or the sensor was probed again: the data words stay.    *)
SampleFails ==
    /\ m4pc = "accel"
    /\ good' = [good EXCEPT ![Sample] = good[sequence]]
    /\ m4pc' = "stamp"
    /\ UNCHANGED <<clock, sequence, data, times, reader, overlapped>>

WriteStamp ==
    /\ m4pc = "stamp"
    /\ stamp' = Sample /\ Overlap
    /\ scheduled_ms' = next_sample_ms
    /\ timestamp_ms' = now_ms
    /\ m4pc' = "publish"
    /\ UNCHANGED <<clock, sequence, data, reader, good>>

(* After __DMB.                                                             *)
Publish ==
    /\ m4pc = "publish"
    /\ sequence' = sequence + 1
    /\ next_sample_ms' = (next_sample_ms + Period) % Wrap
    /\ m4pc' = "wait"
    /\ UNCHANGED <<milliseconds, now_ms, busy, overruns, data, times, reader, history>>

-----------------------------------------------------------------------------
(* read_consistent: two passes over the page, in the order of its words.    *)
(* Of the first pass only the sequence is used.                             *)

ReadFirst ==
    /\ rpc = "first"
    /\ first' = sequence
    /\ rpc' = "sequence"
    /\ UNCHANGED <<clock, m4pc, sequence, data, times, observed, try, second, frame, history>>

(* The page holds words of a sample that is not published. *)
Partial == Sample \in {accel, gyro, stamp}

ReadSequence ==
    /\ rpc = "sequence"
    /\ second' = [second EXCEPT !.seq = sequence]
    /\ overlapped' = Partial
    /\ rpc' = "stamp"
    /\ UNCHANGED <<clock, m4pc, sequence, data, times, observed, try, first, frame, good>>

ReadStamp ==
    /\ rpc = "stamp"
    /\ second' = [second EXCEPT !.stamp = stamp]
    /\ rpc' = "accel"
    /\ UNCHANGED <<clock, m4pc, sequence, data, times, observed, try, first, frame, history>>

ReadAccel ==
    /\ rpc = "accel"
    /\ second' = [second EXCEPT !.accel = accel]
    /\ rpc' = "gyro"
    /\ UNCHANGED <<clock, m4pc, sequence, data, times, observed, try, first, frame, history>>

Moved == first # second.seq

(* Fault: the frame is labelled with the sequence as it is by now. *)
ReadGyroRelabel ==
    /\ rpc = "gyro"
    /\ ~Moved
    /\ rpc' = "done"
    /\ frame' = [seq |-> sequence, stamp |-> second.stamp,
                 accel |-> second.accel, gyro |-> gyro]
    /\ UNCHANGED <<clock, m4pc, sequence, data, times, observed, try, first, second, history>>

(* The last words; accept the second pass if the sequences agree, else try  *)
(* again, and give up after the last attempt.                               *)
ReadGyro ==
    /\ rpc = "gyro"
    /\ \/ ~Moved /\ rpc' = "done" /\ UNCHANGED try
          /\ frame' = [seq |-> second.seq, stamp |-> second.stamp,
                       accel |-> second.accel, gyro |-> gyro]
       \/ Moved /\ UNCHANGED frame
          /\ IF try < Tries THEN try' = try + 1 /\ rpc' = "first"
                            ELSE rpc' = "failed" /\ UNCHANGED try
    /\ UNCHANGED <<clock, m4pc, sequence, data, times, observed, first, second, history>>

(* main keeps the frame, sleeps and asks for the next.                      *)
ReadNext ==
    /\ rpc = "done"
    /\ observed < Observations
    /\ observed' = observed + 1
    /\ rpc' = "first" /\ try' = 1
    /\ frame' = Nothing
    /\ UNCHANGED <<clock, m4pc, sequence, data, times, first, second, history>>

-----------------------------------------------------------------------------
M4Step == Schedule \/ WriteAccel \/ WriteGyro \/ SampleFails \/ WriteStamp \/ Publish

ReaderStep == ReadFirst \/ ReadSequence \/ ReadStamp \/ ReadAccel \/ ReadGyro \/ ReadNext

Next == Tick \/ M4Step \/ ReaderStep

Spec == Init /\ [][Next]_vars

-----------------------------------------------------------------------------
(* Properties.                                                              *)

ClockTypeOK ==
    /\ milliseconds \in 0..(Wrap - 1) /\ next_sample_ms \in 0..(Wrap - 1)
    /\ now_ms \in 0..(Wrap - 1)
    /\ scheduled_ms \in 0..(Wrap - 1) /\ timestamp_ms \in 0..(Wrap - 1)
    /\ busy \in 0..MaxBusy /\ overruns \in Nat

Number == 0..MaxSample

PageTypeOK ==
    /\ m4pc \in {"wait", "accel", "gyro", "stamp", "publish"}
    /\ sequence \in Number /\ accel \in Number /\ gyro \in Number /\ stamp \in Number
    /\ good \in [Number -> Number]
    /\ m4pc # "wait" => sequence < MaxSample

ReaderTypeOK ==
    /\ rpc \in {"first", "sequence", "stamp", "accel", "gyro", "done", "failed"}
    /\ observed \in 0..Observations /\ try \in 1..Tries
    /\ first \in Number
    /\ second \in [seq : Number, stamp : Number, accel : Number]
    /\ frame # Nothing =>
         frame \in [seq : Number, stamp : Number, accel : Number, gyro : Number]

(* Every variable keeps to its domain, and no more samples are begun than   *)
(* the bound.                                                               *)
TypeOK == ClockTypeOK /\ PageTypeOK /\ ReaderTypeOK /\ overlapped \in BOOLEAN

(* README.md: "only when Linux sees the same number twice is the content    *)
(* taken as one consistent frame".  What read_consistent returns is less:   *)
(* its data are copied after both numbers.  The order of the stores keeps   *)
(* every word from being older than the number says, and a frame is the     *)
(* sample of that number, whole, when no word was stored while it was       *)
(* copied and none of the next sample was there; otherwise words of later   *)
(* samples may be in it.                                                    *)
WholeFrame ==
    frame # Nothing =>
        /\ frame.stamp >= frame.seq
        /\ frame.accel >= good[frame.seq] /\ frame.gyro >= good[frame.seq]
        /\ ~overlapped =>
             /\ frame.stamp = frame.seq
             /\ frame.accel = good[frame.seq] /\ frame.gyro = good[frame.seq]

(* A published sample was taken less than one period after it was           *)
(* scheduled, whatever the I2C transfers took and across the wrap of the    *)
(* counter; and time goes forward from sample to sample, so that no burst   *)
(* of catch-up samples shares a timestamp.                                  *)
OnTime ==
    /\ [](m4pc = "wait" /\ sequence > 0 => Diff(timestamp_ms, scheduled_ms) \in 0..(Period - 1))
    /\ [][stamp' # stamp /\ stamp > 0 => Diff(timestamp_ms', timestamp_ms) > 0]_vars
=============================================================================
