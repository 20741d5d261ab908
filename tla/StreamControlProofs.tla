-------------------------- MODULE StreamControlProofs --------------------------
(***************************************************************************)
(* Proofs about StreamControl, for any number of readers, any buffer sizes *)
(* and any mixture of unclean ends.                                        *)
(***************************************************************************)
EXTENDS StreamControl, TLAPS

-----------------------------------------------------------------------------
(* Types.                                                                   *)

(* Initially every variable has a value of its domain.                      *)
LEMMA TypeInit == Init => TypeOK
<1> SUFFICES ASSUME Init PROVE TypeOK
  OBVIOUS
<1>1. enabled \in BOOLEAN /\ unclean \in BOOLEAN /\ sampling \in BOOLEAN
  BY DEF Init
<1>2. QED
  BY <1>1, BoundAssumption DEF Init, TypeOK, Holding

(* The frame that is sent is numbered and carries the counters.            *)
LEMMA SendDelivers ==
    ASSUME TypeOK, SendFrame
    PROVE  \E frame \in Frame :
             /\ Deliver(frame)
             /\ frame.seq = Outgoing /\ frame.tx = txErrors /\ frame.drp = dropped
<1> DEFINE f == [seq |-> Outgoing, tx |-> txErrors, drp |-> dropped]
<1>1. f \in Frame /\ f.seq = Outgoing /\ f.tx = txErrors /\ f.drp = dropped
  BY DEF TypeOK, Frame, Outgoing
<1>2. Deliver(f)
  BY DEF SendFrame
<1> HIDE DEF f
<1>3. QED
  BY <1>1, <1>2, Zenon

(* One more error, counted in so many bits.                                 *)
LEMMA Wraps ==
    ASSUME TypeOK
    PROVE  /\ (txErrors + 1) % TxWrap \in 0..(TxWrap - 1)
           /\ (txErrors + 1) % TxWrap \in {txErrors + 1, txErrors + 1 - TxWrap}
<1>1. TxWrap \in Nat \ {0} /\ txErrors \in 0..(TxWrap - 1)
  BY BoundAssumption DEF TypeOK
<1>2. (txErrors + 1) % TxWrap = IF txErrors + 1 < TxWrap THEN txErrors + 1 ELSE 0
  BY <1>1
<1>3. QED
  BY <1>1, <1>2

(* A transmission keeps to the size of the tty buffer.                      *)
LEMMA DeliverBounded ==
    ASSUME TypeOK, NEW frame \in Frame, Deliver(frame)
    PROVE  rx' \in Seq(Frame) /\ Len(rx') <= RxMax
<1>1. rx \in Seq(Frame) /\ Len(rx) <= RxMax
  BY DEF TypeOK
<1>2. rx' = rx \/ (rx' = Append(rx, frame) /\ Len(rx) < RxMax)
  BY DEF Deliver
<1>3. QED
  BY <1>1, <1>2, BoundAssumption

(* The number of the frame to come is one.                                  *)
LEMMA OutgoingNat == TypeOK => Outgoing \in Nat
  BY DEF TypeOK, Outgoing

(* Every step leaves every variable in its domain.                          *)
LEMMA TypeStep == TypeOK /\ [Next]_vars => TypeOK'
<1> SUFFICES ASSUME TypeOK, [Next]_vars PROVE TypeOK'
  OBVIOUS
<1> USE ReaderAssumption, BoundAssumption
<1>1. CASE UNCHANGED vars
  BY <1>1 DEF TypeOK, Command, Frame, Holding, vars, channel, frames, session
<1>2. ASSUME NEW r \in Reader, ReaderStep(r)
      PROVE  TypeOK'
  <2>1. CASE AcquireLock(r)
    BY <2>1 DEF AcquireLock, TypeOK, Command, Frame, Holding, Step, channel,
           frames, session
  <2>2. CASE OpenDevice(r)
    BY <2>2 DEF OpenDevice, TypeOK, Command, Frame, Holding, Step, channel,
           frames, session
  <2>3. CASE OpenFails(r)
    BY <2>3 DEF OpenFails, TypeOK, Command, Frame, Holding, Step, Exit,
           channel, frames, session
  <2>4. CASE SetUpDevice(r)
    BY <2>4, OutgoingNat DEF SetUpDevice, TypeOK, Command, Holding, Step,
           channel, session
  <2>5. CASE SetUpFails(r)
    BY <2>5 DEF SetUpFails, TypeOK, Command, Frame, Holding, Step, Exit,
           channel, frames, session
  <2>6. CASE WriteStart(r)
    <3>1. cmds' \in Seq(Command) /\ Len(cmds') <= CmdMax
      BY <2>6 DEF WriteStart, TypeOK, CanWrite, Command
    <3>2. unclean' \in BOOLEAN /\ enabled' \in BOOLEAN
      BY <2>6 DEF WriteStart, TypeOK
    <3>3. QED
      BY <2>6, <3>1, <3>2 DEF WriteStart, TypeOK, Step, Holding, frames, session
  <2>7. CASE StartFails(r)
    BY <2>7 DEF StartFails, TypeOK, Command, Frame, Holding, Step, Exit,
           channel, frames, session
  <2>8. CASE EnterLoop(r)
    BY <2>8 DEF EnterLoop, TypeOK, Command, Frame, Holding, Step, channel,
           frames, session
  <2>9. CASE IcmFails(r)
    BY <2>9 DEF IcmFails, TypeOK, Command, Frame, Holding, Step, Exit,
           channel, frames, session
  <2>10. CASE ReadFrame(r)
    <3>1. rx' \in Seq(Frame) /\ Len(rx') <= RxMax /\ Head(rx) \in Frame
      BY <2>10 DEF ReadFrame, TypeOK
    <3>2. QED
      BY <2>10, <3>1 DEF ReadFrame, TypeOK, channel
  <2>11. CASE ReadTimeout(r)
    BY <2>11 DEF ReadTimeout, TypeOK, Command, Frame, Holding, Step, channel,
           frames, session
  <2>12. CASE LeaveLoop(r)
    BY <2>12 DEF LeaveLoop, TypeOK, Command, Frame, Holding, Step, channel,
           frames, session
  <2>13. CASE WriteStop(r)
    BY <2>13 DEF WriteStop, TypeOK, Command, Frame, Holding, Step, CanWrite,
           channel, frames, session
  <2>14. CASE StopFails(r)
    BY <2>14 DEF StopFails, TypeOK, Command, Frame, Holding, Step, channel,
           frames, session
  <2>15. CASE CloseDevice(r)
    BY <2>15 DEF CloseDevice, TypeOK, Command, Frame, Holding, Step, channel,
           frames, session
  <2>16. CASE Unlock(r)
    BY <2>16 DEF Unlock, TypeOK, Command, Frame, Holding, Step, Exit,
           channel, frames, session
  <2>17. CASE Die(r)
    BY <2>17 DEF Die, TypeOK, Command, Frame, Holding, Exit, channel, frames,
           session
  <2>18. QED
    BY <1>2, <2>1, <2>2, <2>3, <2>4, <2>5, <2>6, <2>7, <2>8, <2>9, <2>10,
       <2>11, <2>12, <2>13, <2>14, <2>15, <2>16, <2>17 DEF ReaderStep, Running
<1>3. CASE ReceiveCommand
  <2>1. cmds' \in Seq(Command) /\ Len(cmds') <= CmdMax
    BY <1>3 DEF ReceiveCommand, TypeOK
  <2>2. enabled' \in BOOLEAN
    BY <1>3, Zenon DEF ReceiveCommand
  <2>3. QED
    BY <1>3, <2>1, <2>2 DEF ReceiveCommand, TypeOK, Holding, frames, session
<1>4. CASE SendFrame
  <2>1. PICK frame \in Frame : Deliver(frame)
    BY <1>4, SendDelivers
  <2>2. rx' \in Seq(Frame) /\ Len(rx') <= RxMax
    BY <2>1, DeliverBounded
  <2>3. txErrors' \in 0..(TxWrap - 1) /\ dropped' \in Nat
    BY <1>4, <2>1, Wraps DEF SendFrame, Deliver, TypeOK
  <2>4. QED
    BY <1>4, <2>2, <2>3 DEF SendFrame, TypeOK, Holding, channel, session
<1>5. CASE M4Stop
  <2>1. cmds' \in Seq(Command) /\ Len(cmds') <= CmdMax
    BY <1>5 DEF M4Stop, TypeOK
  <2>2. rx' \in Seq(Frame) /\ Len(rx') <= RxMax
    BY <1>5 DEF M4Stop, TypeOK
  <2>3. unclean' \in BOOLEAN /\ enabled' \in BOOLEAN
    BY <1>5 DEF M4Stop, TypeOK
  <2>4. restarts' \in 0..MaxRestarts
    BY <1>5 DEF M4Stop, TypeOK
  <2>5. QED
    BY <1>5, <2>1, <2>2, <2>3, <2>4 DEF M4Stop, TypeOK, Holding, channel, frames, session
<1>6. CASE M4Start
  <2>1. txErrors' \in 0..(TxWrap - 1) /\ seq' \in Nat /\ dropped' \in Nat
    BY <1>6 DEF M4Start
  <2>2. m4' \in {"running", "offline"} /\ sampling' = FALSE
    BY <1>6 DEF M4Start
  <2>3. QED
    BY <1>6, <2>1, <2>2 DEF M4Start, TypeOK, Holding, session
<1>7. CASE SampleFrame
  BY <1>7 DEF SampleFrame, TypeOK, Command, Frame, Holding, channel, session
<1>8. QED
  BY <1>1, <1>2, <1>3, <1>4, <1>5, <1>6, <1>7 DEF Next, M4Step

(* Every variable keeps to its domain: neither the RPMsg buffers nor the    *)
(* tty buffer is ever filled beyond its size.                               *)
THEOREM TypeCorrect == Spec => []TypeOK
  BY TypeInit, TypeStep, PTL DEF Spec

-----------------------------------------------------------------------------
(* The lock.                                                                *)

(* The process that is between its flock and its exit holds the lock, and   *)
(* only such a process; only an open device can be hung up.                 *)
LockInv ==
    /\ \A r \in Reader : pc[r] \in Holding <=> lock = r
    /\ \A r \in hung : pc[r] \in DeviceOpen

(* Nobody holds the lock initially.                                         *)
LEMMA LockInit == Init => LockInv
  BY ReaderAssumption DEF Init, LockInv, Holding

(* Every step keeps lock and processes in agreement.                        *)
LEMMA LockStep == TypeOK /\ LockInv /\ [Next]_vars => LockInv'
<1> SUFFICES ASSUME TypeOK, LockInv, [Next]_vars PROVE LockInv'
  OBVIOUS
<1> USE ReaderAssumption
<1>1. CASE UNCHANGED vars
  BY <1>1 DEF LockInv, TypeOK, Holding, DeviceOpen, vars, channel, frames,
         session
<1>2. ASSUME NEW r \in Reader, ReaderStep(r)
      PROVE  LockInv'
  <2>1. CASE AcquireLock(r)
    BY <2>1 DEF AcquireLock, LockInv, TypeOK, Holding, DeviceOpen, Step,
           channel, frames, session
  <2>2. CASE OpenDevice(r)
    BY <2>2 DEF OpenDevice, LockInv, TypeOK, Holding, DeviceOpen, Step,
           channel, frames, session
  <2>3. CASE OpenFails(r)
    BY <2>3 DEF OpenFails, LockInv, TypeOK, Holding, DeviceOpen, Step, Exit,
           channel, frames, session
  <2>4. CASE SetUpDevice(r)
    BY <2>4 DEF SetUpDevice, LockInv, TypeOK, Holding, DeviceOpen, Step,
           channel, frames, session
  <2>5. CASE SetUpFails(r)
    BY <2>5 DEF SetUpFails, LockInv, TypeOK, Holding, DeviceOpen, Step, Exit,
           channel, frames, session
  <2>6. CASE WriteStart(r)
    BY <2>6 DEF WriteStart, LockInv, TypeOK, Holding, DeviceOpen, Step,
           CanWrite, channel, frames, session
  <2>7. CASE StartFails(r)
    BY <2>7 DEF StartFails, LockInv, TypeOK, Holding, DeviceOpen, Step, Exit,
           channel, frames, session
  <2>8. CASE EnterLoop(r)
    BY <2>8 DEF EnterLoop, LockInv, TypeOK, Holding, DeviceOpen, Step,
           channel, frames, session
  <2>9. CASE IcmFails(r)
    BY <2>9 DEF IcmFails, LockInv, TypeOK, Holding, DeviceOpen, Step, Exit,
           channel, frames, session
  <2>10. CASE ReadFrame(r)
    BY <2>10 DEF ReadFrame, LockInv, TypeOK, Holding, DeviceOpen, channel,
           frames, session
  <2>11. CASE ReadTimeout(r)
    BY <2>11 DEF ReadTimeout, LockInv, TypeOK, Holding, DeviceOpen, Step,
           channel, frames, session
  <2>12. CASE LeaveLoop(r)
    BY <2>12 DEF LeaveLoop, LockInv, TypeOK, Holding, DeviceOpen, Step,
           channel, frames, session
  <2>13. CASE WriteStop(r)
    BY <2>13 DEF WriteStop, LockInv, TypeOK, Holding, DeviceOpen, Step,
           CanWrite, channel, frames, session
  <2>14. CASE StopFails(r)
    BY <2>14 DEF StopFails, LockInv, TypeOK, Holding, DeviceOpen, Step,
           channel, frames, session
  <2>15. CASE CloseDevice(r)
    BY <2>15 DEF CloseDevice, LockInv, TypeOK, Holding, DeviceOpen, Step,
           channel, frames, session
  <2>16. CASE Unlock(r)
    BY <2>16 DEF Unlock, LockInv, TypeOK, Holding, DeviceOpen, Step, Exit,
           channel, frames, session
  <2>17. CASE Die(r)
    BY <2>17 DEF Die, LockInv, TypeOK, Holding, DeviceOpen, Exit, channel,
           frames, session
  <2>18. QED
    BY <1>2, <2>1, <2>2, <2>3, <2>4, <2>5, <2>6, <2>7, <2>8, <2>9, <2>10,
       <2>11, <2>12, <2>13, <2>14, <2>15, <2>16, <2>17 DEF ReaderStep, Running
<1>3. CASE ReceiveCommand
  BY <1>3 DEF ReceiveCommand, LockInv, TypeOK, Holding, DeviceOpen, channel,
         frames, session
<1>4. CASE SendFrame
  BY <1>4 DEF SendFrame, LockInv, TypeOK, Holding, DeviceOpen, Deliver,
         channel, frames, session
<1>5. CASE M4Stop
  BY <1>5 DEF M4Stop, LockInv, TypeOK, Holding, DeviceOpen, channel, frames,
         session
<1>6. CASE M4Start
  BY <1>6 DEF M4Start, LockInv, TypeOK, Holding, DeviceOpen, channel, frames,
         session
<1>7. CASE SampleFrame
  BY <1>7 DEF SampleFrame, LockInv, TypeOK, Holding, DeviceOpen, channel, session
<1>8. QED
  BY <1>1, <1>2, <1>3, <1>4, <1>5, <1>6, <1>7 DEF Next, M4Step

(* Only a process that holds the lock has the device open.                  *)
THEOREM Exclusive == Spec => []SingleReader
<1>1. TypeOK /\ LockInv => SingleReader
  BY DEF TypeOK, LockInv, SingleReader, DeviceOpen, Holding
<1>2. QED
  BY <1>1, TypeInit, TypeStep, LockInit, LockStep, PTL DEF Spec

-----------------------------------------------------------------------------
(* The stream.                                                              *)

(* The session is under way: "start" written, "stop" not, the device live.  *)
Live(r) == pc[r] \in Committed /\ r \notin hung

(* What the commands under way amount to is what the readers want: with a   *)
(* live session the firmware will stream, without one it will be quiet -    *)
(* unless a "stop" was lost.  SessionStream and QuietWhenFree speak of the  *)
(* moments at which the channel is drained and are not inductive without.   *)
StreamInv ==
    /\ \A r \in Reader : Live(r) => WillStream
    /\ WillStream => unclean \/ \E r \in Reader : Live(r)

(* Initially the firmware is quiet.                                         *)
LEMMA StreamInit == Init => StreamInv
  BY DEF Init, StreamInv, Live, Committed, WillStream

(* After "start" was written the firmware will stream.                      *)
LEMMA AfterStart ==
    ASSUME TypeOK, cmds' = Append(cmds, "start") PROVE WillStream'
<1>1. cmds \in Seq(Command) /\ "start" \in Command
  BY DEF TypeOK, Command
<1>2. cmds' # <<>> /\ cmds'[Len(cmds')] = "start"
  BY <1>1
<1>3. QED
  BY <1>2 DEF WillStream

(* After "stop" was written it will be quiet.                               *)
LEMMA AfterStop ==
    ASSUME TypeOK, cmds' = Append(cmds, "stop") PROVE ~WillStream'
<1>1. cmds \in Seq(Command) /\ "stop" \in Command
  BY DEF TypeOK, Command
<1>2. cmds' # <<>> /\ cmds'[Len(cmds')] = "stop"
  BY <1>1
<1>3. QED
  BY <1>2 DEF WillStream

(* Taking the first of several elements leaves the last one where it is.    *)
LEMMA LastOfTail ==
    ASSUME NEW S, NEW s \in Seq(S), Len(s) > 1
    PROVE  Tail(s) # <<>> /\ Tail(s)[Len(Tail(s))] = s[Len(s)]
<1>1. Len(s) \in Nat /\ Len(Tail(s)) = Len(s) - 1
  OBVIOUS
<1>2. \A i \in 1..Len(Tail(s)) : Tail(s)[i] = s[i + 1]
  OBVIOUS
<1>3. Tail(s) # <<>>
  <2> DEFINE n == Len(Tail(s))
  <2>1. n # 0
    <3>1. n = Len(s) - 1
      BY <1>1
    <3> HIDE DEF n
    <3>2. QED
      BY <1>1, <3>1
  <2>2. Len(<<>>) = 0
    OBVIOUS
  <2>3. QED
    BY <2>1, <2>2, Zenon
<1>4. QED
  BY <1>1, <1>2, <1>3

(* Receiving a command does not change what the channel amounts to.         *)
LEMMA AfterReceive ==
    ASSUME TypeOK, ReceiveCommand PROVE WillStream' <=> WillStream
<1>1. cmds \in Seq(Command) /\ cmds # <<>> /\ cmds' = Tail(cmds)
  BY DEF TypeOK, ReceiveCommand
<1>2. Len(cmds) \in Nat \ {0} /\ Len(cmds') = Len(cmds) - 1
  BY <1>1
<1>3. CASE Len(cmds) = 1
  <2>1. cmds' = <<>> /\ cmds[Len(cmds)] = Head(cmds)
    BY <1>1, <1>2, <1>3
  <2>2. QED
    BY <1>1, <2>1 DEF ReceiveCommand, WillStream
<1>4. CASE Len(cmds) > 1
  <2>1. cmds' # <<>> /\ cmds'[Len(cmds')] = cmds[Len(cmds)]
    BY <1>1, <1>4, LastOfTail
  <2>2. QED
    BY <1>1, <2>1 DEF WillStream
<1>5. QED
  BY <1>2, <1>3, <1>4

(* Nor does a step that leaves the channel alone.                           *)
LEMMA AfterOther ==
    ASSUME UNCHANGED <<cmds, enabled>> PROVE WillStream' <=> WillStream
  BY DEF WillStream

(* Every step keeps StreamInv.                                              *)
LEMMA StreamStep == TypeOK /\ LockInv /\ StreamInv /\ [Next]_vars => StreamInv'
<1> SUFFICES ASSUME TypeOK, LockInv, StreamInv, [Next]_vars PROVE StreamInv'
  OBVIOUS
<1>1. CASE UNCHANGED vars
  BY <1>1, AfterOther DEF StreamInv, LockInv, TypeOK, Live, Committed,
         Holding, vars, channel, frames, session
<1>2. ASSUME NEW r \in Reader, ReaderStep(r)
      PROVE  StreamInv'
  <2>1. CASE AcquireLock(r)
    BY <2>1, AfterOther DEF AcquireLock, StreamInv, LockInv, TypeOK, Live,
           Committed, Holding, Step, channel, frames, session
  <2>2. CASE OpenDevice(r)
    BY <2>2, AfterOther DEF OpenDevice, StreamInv, LockInv, TypeOK, Live,
           Committed, Holding, Step, channel, frames, session
  <2>3. CASE OpenFails(r)
    BY <2>3, AfterOther DEF OpenFails, StreamInv, LockInv, TypeOK, Live,
           Committed, Holding, Step, Exit, channel, frames, session
  <2>4. CASE SetUpDevice(r)
    BY <2>4, AfterOther DEF SetUpDevice, StreamInv, LockInv, TypeOK, Live,
           Committed, Holding, Step, channel, frames, session
  <2>5. CASE SetUpFails(r)
    BY <2>5, AfterOther DEF SetUpFails, StreamInv, LockInv, TypeOK, Live,
           Committed, Holding, Step, Exit, channel, frames, session
  <2>6. CASE WriteStart(r)
    BY <2>6, AfterStart DEF WriteStart, StreamInv, LockInv, TypeOK, Live,
           Committed, Holding, Step, CanWrite, channel, frames, session
  <2>7. CASE StartFails(r)
    BY <2>7, AfterOther DEF StartFails, StreamInv, LockInv, TypeOK, Live,
           Committed, Holding, Step, Exit, channel, frames, session
  <2>8. CASE EnterLoop(r)
    BY <2>8, AfterOther DEF EnterLoop, StreamInv, LockInv, TypeOK, Live,
           Committed, Holding, Step, channel, frames, session
  <2>9. CASE IcmFails(r)
    BY <2>9, AfterOther DEF IcmFails, StreamInv, LockInv, TypeOK, Live,
           Committed, Holding, Step, Exit, channel, frames, session
  <2>10. CASE ReadFrame(r)
    BY <2>10, AfterOther DEF ReadFrame, StreamInv, LockInv, TypeOK, Live,
           Committed, Holding, channel, frames, session
  <2>11. CASE ReadTimeout(r)
    BY <2>11, AfterOther DEF ReadTimeout, StreamInv, LockInv, TypeOK, Live,
           Committed, Holding, Step, channel, frames, session
  <2>12. CASE LeaveLoop(r)
    BY <2>12, AfterOther DEF LeaveLoop, StreamInv, LockInv, TypeOK, Live,
           Committed, Holding, Step, channel, frames, session
  <2>13. CASE WriteStop(r)
    BY <2>13, AfterStop DEF WriteStop, StreamInv, LockInv, TypeOK, Live,
           Committed, Holding, Step, CanWrite, channel, frames, session
  <2>14. CASE StopFails(r)
    BY <2>14, AfterOther DEF StopFails, StreamInv, LockInv, TypeOK, Live,
           Committed, Holding, Step, channel, frames, session
  <2>15. CASE CloseDevice(r)
    BY <2>15, AfterOther DEF CloseDevice, StreamInv, LockInv, TypeOK, Live,
           Committed, Holding, Step, channel, frames, session
  <2>16. CASE Unlock(r)
    BY <2>16, AfterOther DEF Unlock, StreamInv, LockInv, TypeOK, Live,
           Committed, Holding, Step, Exit, channel, frames, session
  <2>17. CASE Die(r)
    BY <2>17, AfterOther DEF Die, StreamInv, LockInv, TypeOK, Live,
           Committed, Holding, Exit, channel, frames, session
  <2>18. QED
    BY <1>2, <2>1, <2>2, <2>3, <2>4, <2>5, <2>6, <2>7, <2>8, <2>9, <2>10,
       <2>11, <2>12, <2>13, <2>14, <2>15, <2>16, <2>17 DEF ReaderStep, Running
<1>3. CASE ReceiveCommand
  BY <1>3, AfterReceive DEF ReceiveCommand, StreamInv, LockInv, TypeOK, Live,
         Committed, Holding, channel, frames, session
<1>4. CASE SendFrame
  BY <1>4, AfterOther DEF SendFrame, StreamInv, LockInv, TypeOK, Live,
         Committed, Holding, Deliver, channel, frames, session
<1>5. CASE M4Stop
  <2>1. ~WillStream'
    BY <1>5 DEF M4Stop, WillStream
  <2>2. QED
    BY <1>5, <2>1 DEF M4Stop, StreamInv, Live, Committed, DeviceOpen, Holding
<1>6. CASE M4Start
  BY <1>6, AfterOther DEF M4Start, StreamInv, LockInv, TypeOK, Live,
         Committed, Holding, channel, frames, session
<1>7. CASE SampleFrame
  BY <1>7, AfterOther DEF SampleFrame, StreamInv, LockInv, TypeOK, Live,
         Committed, Holding, channel, session
<1>8. QED
  BY <1>1, <1>2, <1>3, <1>4, <1>5, <1>6, <1>7 DEF Next, M4Step

(* In the read loop on a live device with the channel drained, the firmware *)
(* streams: no earlier "stop" is still to come.                             *)
THEOREM SessionServed == Spec => []SessionStream
<1>1. StreamInv => SessionStream
  BY DEF StreamInv, SessionStream, Live, Committed, WillStream
<1>2. QED
  BY <1>1, TypeInit, TypeStep, LockInit, LockStep, StreamInit, StreamStep, PTL DEF Spec

(* With the lock free and the channel drained, the firmware streams only if *)
(* a "stop" was never written.                                              *)
THEOREM QuietProved == Spec => []QuietWhenFree
<1>1. TypeOK /\ LockInv /\ StreamInv => QuietWhenFree
  BY ReaderAssumption DEF TypeOK, LockInv, StreamInv, QuietWhenFree, Live,
                          Committed, Holding, WillStream
<1>2. QED
  BY <1>1, TypeInit, TypeStep, LockInit, LockStep, StreamInit, StreamStep, PTL DEF Spec

-----------------------------------------------------------------------------
(* The frames.                                                              *)

(* The steps at which the device has been set up and is still open.         *)
SetUp == DeviceOpen \ {"opened"}

(* Open devices do not survive the M4 and nothing is buffered without it; a *)
(* reader is given frames only in its loop; what waits in the tty buffer    *)
(* or is being sampled is not among the frames that had been sent when the  *)
(* reader set the device up, if it flushes.                                 *)
FreshInv ==
    /\ m4 = "offline" => rx = <<>> /\ \A r \in Reader : pc[r] \in DeviceOpen => r \in hung
    /\ \A r \in Reader : pc[r] \notin {"reading", "closing", "settling", "unlocking"}
                            => last[r] = NoFrame
    /\ \A r \in Flushing : last[r] # NoFrame => last[r].seq >= mark[r]
    /\ \A r \in Flushing : pc[r] \in SetUp /\ r \notin hung =>
          Outgoing >= mark[r] /\ \A i \in 1..Len(rx) : rx[i].seq >= mark[r]

(* Initially there are no frames.                                           *)
LEMMA FreshInit == Init => FreshInv
  BY ReaderAssumption DEF Init, FreshInv, DeviceOpen, SetUp, Holding

(* What a transmission does to the tty buffer.                              *)
LEMMA DeliverAppends ==
    ASSUME TypeOK, NEW frame \in Frame, Deliver(frame)
    PROVE  \/ rx' = rx
           \/ /\ Len(rx') = Len(rx) + 1 /\ rx'[Len(rx) + 1] = frame
              /\ \A i \in 1..Len(rx) : rx'[i] = rx[i]
<1>1. rx \in Seq(Frame) /\ (rx' = rx \/ rx' = Append(rx, frame))
  BY DEF TypeOK, Deliver
<1>2. QED
  BY <1>1

(* What a read does to it.                                                  *)
LEMMA ReadTakes ==
    ASSUME TypeOK, rx # <<>>
    PROVE  /\ Len(rx) \in Nat \ {0} /\ Len(Tail(rx)) = Len(rx) - 1
           /\ Head(rx) = rx[1] /\ rx[1] \in Frame
           /\ \A i \in 1..Len(Tail(rx)) : Tail(rx)[i] = rx[i + 1]
  BY DEF TypeOK

(* Every step keeps FreshInv.                                               *)
LEMMA FreshStep == TypeOK /\ LockInv /\ FreshInv /\ [Next]_vars => FreshInv'
<1> SUFFICES ASSUME TypeOK, LockInv, FreshInv, [Next]_vars PROVE FreshInv'
  OBVIOUS
<1> USE ReaderAssumption
<1>1. CASE UNCHANGED vars
  BY <1>1 DEF FreshInv, Outgoing, LockInv, TypeOK, SetUp, DeviceOpen, Holding, vars,
         channel, frames, session
<1>2. ASSUME NEW r \in Reader, ReaderStep(r)
      PROVE  FreshInv'
  <2>1. CASE AcquireLock(r)
    BY <2>1 DEF AcquireLock, FreshInv, Outgoing, LockInv, TypeOK, SetUp, DeviceOpen,
           Holding, Step, channel, frames, session
  <2>2. CASE OpenDevice(r)
    BY <2>2 DEF OpenDevice, FreshInv, Outgoing, LockInv, TypeOK, SetUp, DeviceOpen,
           Holding, Step, channel, frames, session
  <2>3. CASE OpenFails(r)
    BY <2>3 DEF OpenFails, FreshInv, Outgoing, LockInv, TypeOK, SetUp, DeviceOpen,
           Holding, Step, Exit, channel, frames, session
  <2>4. CASE SetUpDevice(r)
    BY <2>4 DEF SetUpDevice, FreshInv, Outgoing, LockInv, TypeOK, SetUp, DeviceOpen,
           Holding, Step, channel, frames, session
  <2>5. CASE SetUpFails(r)
    BY <2>5 DEF SetUpFails, FreshInv, Outgoing, LockInv, TypeOK, SetUp, DeviceOpen,
           Holding, Step, Exit, channel, frames, session
  <2>6. CASE WriteStart(r)
    BY <2>6 DEF WriteStart, FreshInv, Outgoing, LockInv, TypeOK, SetUp, DeviceOpen,
           Holding, Step, CanWrite, channel, frames, session
  <2>7. CASE StartFails(r)
    BY <2>7 DEF StartFails, FreshInv, Outgoing, LockInv, TypeOK, SetUp, DeviceOpen,
           Holding, Step, Exit, channel, frames, session
  <2>8. CASE EnterLoop(r)
    BY <2>8 DEF EnterLoop, FreshInv, Outgoing, LockInv, TypeOK, SetUp, DeviceOpen,
           Holding, Step, channel, frames, session
  <2>9. CASE IcmFails(r)
    BY <2>9 DEF IcmFails, FreshInv, Outgoing, LockInv, TypeOK, SetUp, DeviceOpen,
           Holding, Step, Exit, channel, frames, session
  <2>10. CASE ReadFrame(r)
    <3>1. r \in Flushing => Head(rx).seq >= mark[r]
      BY <2>10, ReadTakes DEF ReadFrame, FreshInv, SetUp, DeviceOpen, Holding
    <3>2. \A s \in Flushing : pc[s] \in SetUp /\ s \notin hung =>
            \A i \in 1..Len(rx') : rx'[i].seq >= mark[s]
      BY <2>10, ReadTakes DEF ReadFrame, FreshInv
    <3>3. m4 # "offline"
      BY <2>10 DEF ReadFrame, FreshInv, DeviceOpen, Holding
    <3>4. QED
      BY <2>10, <3>1, <3>2, <3>3 DEF ReadFrame, FreshInv, Outgoing, TypeOK, channel
  <2>11. CASE ReadTimeout(r)
    BY <2>11 DEF ReadTimeout, FreshInv, Outgoing, LockInv, TypeOK, SetUp, DeviceOpen,
           Holding, Step, channel, frames, session
  <2>12. CASE LeaveLoop(r)
    BY <2>12 DEF LeaveLoop, FreshInv, Outgoing, LockInv, TypeOK, SetUp, DeviceOpen,
           Holding, Step, channel, frames, session
  <2>13. CASE WriteStop(r)
    BY <2>13 DEF WriteStop, FreshInv, Outgoing, LockInv, TypeOK, SetUp, DeviceOpen,
           Holding, Step, CanWrite, channel, frames, session
  <2>14. CASE StopFails(r)
    BY <2>14 DEF StopFails, FreshInv, Outgoing, LockInv, TypeOK, SetUp, DeviceOpen,
           Holding, Step, channel, frames, session
  <2>15. CASE CloseDevice(r)
    BY <2>15 DEF CloseDevice, FreshInv, Outgoing, LockInv, TypeOK, SetUp, DeviceOpen,
           Holding, Step, channel, frames, session
  <2>16. CASE Unlock(r)
    BY <2>16 DEF Unlock, FreshInv, Outgoing, LockInv, TypeOK, SetUp, DeviceOpen,
           Holding, Step, Exit, channel, frames, session
  <2>17. CASE Die(r)
    BY <2>17 DEF Die, FreshInv, Outgoing, LockInv, TypeOK, SetUp, DeviceOpen, Holding,
           Exit, channel, frames, session
  <2>18. QED
    BY <1>2, <2>1, <2>2, <2>3, <2>4, <2>5, <2>6, <2>7, <2>8, <2>9, <2>10,
       <2>11, <2>12, <2>13, <2>14, <2>15, <2>16, <2>17 DEF ReaderStep, Running
<1>3. CASE ReceiveCommand
  BY <1>3 DEF ReceiveCommand, FreshInv, Outgoing, LockInv, TypeOK, SetUp, DeviceOpen,
         Holding, channel, frames, session
<1>4. CASE SendFrame
  <2>1. PICK frame \in Frame : Deliver(frame) /\ frame.seq = Outgoing
    BY <1>4, SendDelivers
  <2>2. ASSUME NEW s \in Flushing, pc[s] \in SetUp, s \notin hung
        PROVE  Outgoing' >= mark[s] /\ \A i \in 1..Len(rx') : rx'[i].seq >= mark[s]
    <3>1. Outgoing >= mark[s] /\ \A i \in 1..Len(rx) : rx[i].seq >= mark[s]
      BY <2>2 DEF FreshInv
    <3>2. /\ Outgoing' = Outgoing + 1 /\ Outgoing \in Nat
          /\ mark[s] \in Nat /\ Len(rx) \in Nat
      BY <1>4, ReaderAssumption DEF SendFrame, Outgoing, TypeOK
    <3>3. CASE rx' = rx
      BY <3>1, <3>2, <3>3
    <3>4. CASE /\ Len(rx') = Len(rx) + 1 /\ rx'[Len(rx) + 1] = frame
               /\ \A i \in 1..Len(rx) : rx'[i] = rx[i]
      BY <2>1, <3>1, <3>2, <3>4
    <3>5. QED
      BY <2>1, <3>3, <3>4, DeliverAppends
  <2>3. QED
    BY <1>4, <2>2 DEF SendFrame, FreshInv, channel, session
<1>5. CASE M4Stop
  BY <1>5 DEF M4Stop, FreshInv, Outgoing, LockInv, TypeOK, SetUp, DeviceOpen, Holding,
         channel, frames, session
<1>6. CASE M4Start
  BY <1>6 DEF M4Start, FreshInv, Outgoing, LockInv, TypeOK, SetUp, DeviceOpen, Holding,
         channel, frames, session
<1>7. CASE SampleFrame
  <2>1. Outgoing' = Outgoing
    BY <1>7 DEF SampleFrame, Outgoing, TypeOK
  <2>2. QED
    BY <1>7, <2>1 DEF SampleFrame, FreshInv, channel, session
<1>8. QED
  BY <1>1, <1>2, <1>3, <1>4, <1>5, <1>6, <1>7 DEF Next, M4Step

(* A reader that flushes is never given a frame that was sent before the    *)
(* flush; of those sampled before, at most the one that was in the making.  *)
THEOREM FreshProved == Spec => []FreshFrames
<1>1. FreshInv => FreshFrames
  BY DEF FreshInv, FreshFrames
<1>2. QED
  BY <1>1, TypeInit, TypeStep, LockInit, LockStep, FreshInit, FreshStep, PTL DEF Spec

-----------------------------------------------------------------------------
(* The gaps.                                                                *)

(* A frame's number less what was lost before it was sent: consecutive      *)
(* frames of the tty buffer differ by one in it, whatever was lost, but for *)
(* the wraps of tx_errors.                                                  *)
Score(f) == f.seq - f.tx - f.drp
Total    == Outgoing - txErrors - dropped

Wrapped    == {k * TxWrap : k \in Int}
Near(x, y) == x - y \in Wrapped

(* The frames in the buffer, and before them the last one the reader was    *)
(* given, have consecutive scores that end below the next frame's.          *)
GapInv ==
    /\ \A i \in 1..Len(rx) : Near(Score(rx[i]), Total - Len(rx) + i - 1)
    /\ \A r \in Reader : pc[r] \in DeviceOpen /\ r \notin hung /\ last[r] # NoFrame =>
          Near(Score(last[r]), Total - Len(rx) - 1)

(* The scores are integers.                                                 *)
LEMMA TotalInt == TypeOK => Total \in Int /\ Len(rx) \in Nat
  BY BoundAssumption DEF TypeOK, Total, Outgoing

LEMMA ScoreInt == \A f \in Frame : Score(f) \in Int
  BY BoundAssumption DEF Frame, Score

(* Multiples of the wrap: none, one, and the difference of two.             *)
LEMMA WrappedClosed ==
    /\ 0 \in Wrapped /\ TxWrap \in Wrapped
    /\ \A m, n \in Wrapped : m \in Int /\ m - n \in Wrapped
<1>1. 0 * TxWrap = 0 /\ 1 * TxWrap = TxWrap
  BY BoundAssumption
<1>2. ASSUME NEW m \in Wrapped, NEW n \in Wrapped
      PROVE  m \in Int /\ m - n \in Wrapped
  <2>1. PICK k \in Int : m = k * TxWrap
    BY DEF Wrapped
  <2>2. PICK l \in Int : n = l * TxWrap
    BY DEF Wrapped
  <2>3. m \in Int /\ m - n = (k - l) * TxWrap /\ k - l \in Int
    BY <2>1, <2>2, BoundAssumption
  <2>4. QED
    BY <2>3 DEF Wrapped
<1>3. QED
  BY <1>1, <1>2 DEF Wrapped

(* Nothing remains of them modulo the wrap.                                 *)
LEMMA WrappedMod == \A m \in Wrapped : m % TxWrap = 0
<1> SUFFICES ASSUME NEW k \in Int PROVE (k * TxWrap) % TxWrap = 0
  BY DEF Wrapped
<1> USE BoundAssumption
<1>1. PICK x \in Int : x = k * TxWrap
  OBVIOUS
<1>2. /\ x = TxWrap * (x \div TxWrap) + (x % TxWrap)
      /\ x \div TxWrap \in Int /\ x % TxWrap \in 0..(TxWrap - 1)
  OBVIOUS
<1>3. PICK q \in Int, e \in 0..(TxWrap - 1) : x = TxWrap * q + e /\ e = x % TxWrap
  BY <1>2
<1>4. (k - q) * TxWrap = e
  <2>1. (k - q) * TxWrap = k * TxWrap - TxWrap * q
    OBVIOUS
  <2>2. e \in Int /\ TxWrap * q \in Int /\ x = TxWrap * q + e
    BY <1>3
  <2>3. QED
    BY <1>1, <2>1, <2>2
<1>5. k - q = 0
  <2>1. k - q \in Int
    OBVIOUS
  <2>2. k - q >= 1 => (k - q) * TxWrap >= TxWrap
    OBVIOUS
  <2>3. k - q <= -1 => (k - q) * TxWrap <= -TxWrap
    OBVIOUS
  <2>4. QED
    BY <1>4, <2>1, <2>2, <2>3
<1>6. 0 * TxWrap = 0
  OBVIOUS
<1>7. e = 0
  BY <1>4, <1>5, <1>6
<1>8. QED
  BY <1>1, <1>3, <1>7

(* Near may be shifted on both sides, and by a wrap on one.                 *)
LEMMA NearShift ==
    \A x, y, z \in Int :
        /\ Near(x, x)
        /\ Near(x, y) => Near(x, y + TxWrap)
        /\ Near(x, y) /\ Near(z, y + 1) => z - x - 1 \in Wrapped
<1> SUFFICES ASSUME NEW x \in Int, NEW y \in Int, NEW z \in Int
    PROVE  /\ Near(x, x)
           /\ Near(x, y) => Near(x, y + TxWrap)
           /\ Near(x, y) /\ Near(z, y + 1) => z - x - 1 \in Wrapped
  OBVIOUS
<1>1. /\ x - x = 0
      /\ x - (y + TxWrap) = (x - y) - TxWrap
      /\ z - x - 1 = (z - (y + 1)) - (x - y)
  BY BoundAssumption
<1>2. QED
  BY <1>1, WrappedClosed DEF Near

(* A step of the score between two frames is what GapStep says.             *)
LEMMA ScoreStep ==
    ASSUME NEW a \in Frame, NEW b \in Frame, Score(b) - Score(a) - 1 \in Wrapped
    PROVE  ((b.seq - a.seq - 1) - (b.tx - a.tx) - (b.drp - a.drp)) % TxWrap = 0
<1>1. Score(b) - Score(a) - 1 = (b.seq - a.seq - 1) - (b.tx - a.tx) - (b.drp - a.drp)
  BY BoundAssumption DEF Score, Frame
<1>2. QED
  BY <1>1, WrappedMod

(* Initially there are no frames.                                           *)
LEMMA GapInit == Init => GapInv
  BY DEF Init, GapInv, DeviceOpen, Holding

(* Every step keeps GapInv.                                                 *)
LEMMA GapStepInv == TypeOK /\ LockInv /\ FreshInv /\ GapInv /\ [Next]_vars => GapInv'
<1> SUFFICES ASSUME TypeOK, LockInv, FreshInv, GapInv, [Next]_vars PROVE GapInv'
  OBVIOUS
<1> USE ReaderAssumption
<1>1. CASE UNCHANGED vars
  BY <1>1 DEF GapInv, LockInv, TypeOK, Score, Total, Outgoing, DeviceOpen, Holding,
         vars, channel, frames, session
<1>2. ASSUME NEW r \in Reader, ReaderStep(r)
      PROVE  GapInv'
  <2>1. CASE AcquireLock(r)
    BY <2>1 DEF AcquireLock, GapInv, LockInv, TypeOK, Score, Total, Outgoing,
           DeviceOpen, Holding, Step, channel, frames, session
  <2>2. CASE OpenDevice(r)
    BY <2>2 DEF OpenDevice, Step, FreshInv, GapInv, TypeOK, Score, Total, Outgoing,
           DeviceOpen, channel, frames, session
  <2>3. CASE OpenFails(r)
    BY <2>3 DEF OpenFails, GapInv, LockInv, TypeOK, Score, Total, Outgoing, DeviceOpen,
           Holding, Step, Exit, channel, frames, session
  <2>4. CASE SetUpDevice(r)
    <3>1. last[r] = NoFrame
      BY <2>4 DEF SetUpDevice, Step, FreshInv
    <3>2. \A s \in Reader : pc'[s] \in DeviceOpen => s = r
      BY <2>4 DEF SetUpDevice, Step, LockInv, TypeOK, DeviceOpen, Holding
    <3>3. \A i \in 1..Len(rx') : Near(Score(rx'[i]), Total' - Len(rx') + i - 1)
      BY <2>4 DEF SetUpDevice, GapInv, Score, Total, Outgoing
    <3>4. QED
      BY <2>4, <3>1, <3>2, <3>3 DEF SetUpDevice, GapInv, Score
  <2>5. CASE SetUpFails(r)
    BY <2>5 DEF SetUpFails, GapInv, LockInv, TypeOK, Score, Total, Outgoing,
           DeviceOpen, Holding, Step, Exit, channel, frames, session
  <2>6. CASE WriteStart(r)
    BY <2>6 DEF WriteStart, GapInv, LockInv, TypeOK, Score, Total, Outgoing,
           DeviceOpen, Holding, Step, CanWrite, channel, frames, session
  <2>7. CASE StartFails(r)
    BY <2>7 DEF StartFails, GapInv, LockInv, TypeOK, Score, Total, Outgoing,
           DeviceOpen, Holding, Step, Exit, channel, frames, session
  <2>8. CASE EnterLoop(r)
    BY <2>8 DEF EnterLoop, GapInv, LockInv, TypeOK, Score, Total, Outgoing, DeviceOpen,
           Holding, Step, channel, frames, session
  <2>9. CASE IcmFails(r)
    BY <2>9 DEF IcmFails, GapInv, LockInv, TypeOK, Score, Total, Outgoing, DeviceOpen,
           Holding, Step, Exit, channel, frames, session
  <2>10. CASE ReadFrame(r)
    <3>1. \A i \in 1..Len(rx') : Near(Score(rx'[i]), Total - Len(rx') + i - 1)
      <4>1. ASSUME NEW i \in 1..Len(rx')
            PROVE  Near(Score(rx'[i]), Total - Len(rx') + i - 1)
        <5>1. rx'[i] = rx[i + 1] /\ Len(rx') = Len(rx) - 1 /\ i + 1 \in 1..Len(rx)
          BY <2>10, ReadTakes DEF ReadFrame
        <5>2. Near(Score(rx[i + 1]), Total - Len(rx) + (i + 1) - 1)
          BY <5>1 DEF GapInv
        <5>3. Total - Len(rx) + (i + 1) - 1 = Total - Len(rx') + i - 1
          BY <5>1, TotalInt
        <5>4. QED
          BY <5>1, <5>2, <5>3
      <4>2. QED
        BY <4>1
    <3>2. Near(Score(Head(rx)), Total - Len(rx') - 1)
      <4>1. /\ rx # <<>> /\ Len(rx) \in Nat \ {0} /\ Head(rx) = rx[1]
            /\ Len(rx') = Len(rx) - 1
        BY <2>10, ReadTakes DEF ReadFrame
      <4>2. Near(Score(rx[1]), Total - Len(rx) + 1 - 1)
        BY <4>1 DEF GapInv
      <4>3. Total - Len(rx) + 1 - 1 = Total - Len(rx') - 1
        BY <4>1, TotalInt
      <4>4. QED
        BY <4>1, <4>2, <4>3
    <3>3. \A s \in Reader : pc[s] \in DeviceOpen => s = r
      BY <2>10 DEF ReadFrame, LockInv, DeviceOpen, Holding
    <3>4. Total' = Total
      BY <2>10 DEF ReadFrame, Total, Outgoing
    <3>5. QED
      BY <2>10, <3>1, <3>2, <3>3, <3>4 DEF ReadFrame, GapInv, Score, TypeOK
  <2>11. CASE ReadTimeout(r)
    BY <2>11 DEF ReadTimeout, GapInv, LockInv, TypeOK, Score, Total, Outgoing,
           DeviceOpen, Holding, Step, channel, frames, session
  <2>12. CASE LeaveLoop(r)
    BY <2>12 DEF LeaveLoop, GapInv, LockInv, TypeOK, Score, Total, Outgoing,
           DeviceOpen, Holding, Step, channel, frames, session
  <2>13. CASE WriteStop(r)
    BY <2>13 DEF WriteStop, GapInv, LockInv, TypeOK, Score, Total, Outgoing,
           DeviceOpen, Holding, Step, CanWrite, channel, frames, session
  <2>14. CASE StopFails(r)
    BY <2>14 DEF StopFails, GapInv, LockInv, TypeOK, Score, Total, Outgoing,
           DeviceOpen, Holding, Step, channel, frames, session
  <2>15. CASE CloseDevice(r)
    BY <2>15 DEF CloseDevice, GapInv, LockInv, TypeOK, Score, Total, Outgoing,
           DeviceOpen, Holding, Step, channel, frames, session
  <2>16. CASE Unlock(r)
    BY <2>16 DEF Unlock, GapInv, LockInv, TypeOK, Score, Total, Outgoing, DeviceOpen,
           Holding, Step, Exit, channel, frames, session
  <2>17. CASE Die(r)
    BY <2>17 DEF Die, GapInv, LockInv, TypeOK, Score, Total, Outgoing, DeviceOpen,
           Holding, Exit, channel, frames, session
  <2>18. QED
    BY <1>2, <2>1, <2>2, <2>3, <2>4, <2>5, <2>6, <2>7, <2>8, <2>9, <2>10,
       <2>11, <2>12, <2>13, <2>14, <2>15, <2>16, <2>17 DEF ReaderStep, Running
<1>3. CASE ReceiveCommand
  BY <1>3 DEF ReceiveCommand, GapInv, LockInv, TypeOK, Score, Total, Outgoing,
         DeviceOpen, Holding, channel, frames, session
<1>4. CASE SendFrame
  <2>1. PICK frame \in Frame :
          /\ Deliver(frame)
          /\ frame.seq = Outgoing /\ frame.tx = txErrors /\ frame.drp = dropped
    BY <1>4, SendDelivers
  <2>2. Score(frame) = Total /\ Total \in Int /\ Len(rx) \in Nat
    BY <2>1, TotalInt DEF Score, Total
  <2>3. /\ Outgoing' = Outgoing + 1 /\ Outgoing \in Nat
        /\ txErrors \in Int /\ dropped \in Int
    BY <1>4, BoundAssumption DEF SendFrame, Outgoing, TypeOK
  <2>4. UNCHANGED <<pc, hung, last>>
    BY <1>4 DEF SendFrame, session
  <2>5. ASSUME Total' \in {Total, Total + TxWrap}, rx' = rx PROVE GapInv'
    <3>1. ASSUME NEW x \in Int, NEW c \in Int, Near(x, Total + c)
          PROVE  Near(x, Total' + c)
      <4>1. Total + c \in Int /\ (Total + TxWrap) + c = (Total + c) + TxWrap
        BY <2>2, BoundAssumption
      <4>2. Near(x, (Total + c) + TxWrap)
        BY <3>1, <4>1, NearShift
      <4>3. QED
        BY <2>5, <3>1, <4>1, <4>2
    <3>2. ASSUME NEW i \in 1..Len(rx)
          PROVE  Near(Score(rx[i]), Total' - Len(rx) + i - 1)
      <4>1. Score(rx[i]) \in Int
        BY ScoreInt DEF TypeOK
      <4>2. PICK c \in Int : c = i - 1 - Len(rx)
        <5>1. i \in Int /\ Len(rx) \in Int
          BY <2>2
        <5>2. i - 1 - Len(rx) \in Int
          BY <5>1
        <5>3. QED
          BY <5>2
      <4>3. Total - Len(rx) + i - 1 = Total + c /\ Total' - Len(rx) + i - 1 = Total' + c
        BY <2>2, <2>5, <4>2, BoundAssumption
      <4>4. Near(Score(rx[i]), Total - Len(rx) + i - 1)
        BY DEF GapInv
      <4>5. QED
        BY <3>1, <4>1, <4>3, <4>4
    <3>3. ASSUME NEW r \in Reader, pc[r] \in DeviceOpen, r \notin hung, last[r] # NoFrame
          PROVE  Near(Score(last[r]), Total' - Len(rx) - 1)
      <4>1. Score(last[r]) \in Int
        BY <3>3, ScoreInt DEF TypeOK
      <4>2. PICK c \in Int : c = -1 - Len(rx)
        BY <2>2
      <4>3. Total - Len(rx) - 1 = Total + c /\ Total' - Len(rx) - 1 = Total' + c
        BY <2>2, <2>5, <4>2, BoundAssumption
      <4>4. Near(Score(last[r]), Total - Len(rx) - 1)
        BY <3>3 DEF GapInv
      <4>5. QED
        BY <3>1, <4>1, <4>3, <4>4
    <3>4. QED
      BY <2>4, <2>5, <3>2, <3>3 DEF GapInv, Score
  <2>6. ASSUME Total' = Total + 1,
               Len(rx') = Len(rx) + 1, rx'[Len(rx) + 1] = frame,
               \A i \in 1..Len(rx) : rx'[i] = rx[i]
        PROVE  GapInv'
    <3>1. \A i \in 1..Len(rx') : Near(Score(rx'[i]), Total' - Len(rx') + i - 1)
      <4>1. ASSUME NEW i \in 1..Len(rx)
            PROVE  Near(Score(rx'[i]), Total' - Len(rx') + i - 1)
        <5>1. Near(Score(rx[i]), Total - Len(rx) + i - 1)
          BY DEF GapInv
        <5>2. Total' - Len(rx') + i - 1 = Total - Len(rx) + i - 1
          BY <2>2, <2>6
        <5>3. QED
          BY <2>6, <5>1, <5>2
      <4>2. Near(Score(rx'[Len(rx) + 1]), Total' - Len(rx') + (Len(rx) + 1) - 1)
        <5>1. Total' - Len(rx') + (Len(rx) + 1) - 1 = Total
          BY <2>2, <2>6
        <5>2. Near(Total, Total)
          BY <2>2, NearShift
        <5>3. QED
          BY <2>2, <2>6, <5>1, <5>2
      <4>3. \A i \in 1..Len(rx') : i \in 1..Len(rx) \/ i = Len(rx) + 1
        BY <2>2, <2>6
      <4>4. QED
        BY <4>1, <4>2, <4>3
    <3>2. Total' - Len(rx') = Total - Len(rx)
      BY <2>2, <2>6
    <3>3. QED
      BY <2>4, <3>1, <3>2 DEF GapInv, Score
  <2>7. CASE rx' = Append(rx, frame) /\ UNCHANGED <<txErrors, dropped>>
    <3>1. Total' = Total + 1
      BY <2>3, <2>7 DEF Total
    <3>2. /\ Len(rx') = Len(rx) + 1 /\ rx'[Len(rx) + 1] = frame
          /\ \A i \in 1..Len(rx) : rx'[i] = rx[i]
      BY <2>7 DEF TypeOK
    <3>3. QED
      BY <2>6, <3>1, <3>2
  <2>8. CASE dropped' = dropped + 1 /\ UNCHANGED <<rx, txErrors>>
    BY <2>3, <2>5, <2>8 DEF Total
  <2>9. CASE txErrors' = (txErrors + 1) % TxWrap /\ UNCHANGED <<rx, dropped>>
    <3>1. txErrors' \in {txErrors + 1, txErrors + 1 - TxWrap}
      BY <2>9, Wraps
    <3>2. Total' \in {Total, Total + TxWrap}
      BY <2>3, <2>9, <3>1, BoundAssumption DEF Total
    <3>3. QED
      BY <2>5, <2>9, <3>2
  <2>10. QED
    BY <2>1, <2>7, <2>8, <2>9 DEF Deliver
<1>5. CASE M4Stop
  BY <1>5 DEF M4Stop, GapInv, LockInv, TypeOK, Score, Total, Outgoing, DeviceOpen,
         Holding, channel, frames, session
<1>6. CASE M4Start
  <2>1. rx = <<>> /\ \A r \in Reader : pc[r] \in DeviceOpen => r \in hung
    BY <1>6 DEF M4Start, FreshInv
  <2>2. QED
    BY <1>6, <2>1 DEF M4Start, GapInv
<1>7. CASE SampleFrame
  <2>1. Total' = Total
    BY <1>7 DEF SampleFrame, Outgoing, Total, TypeOK
  <2>2. QED
    BY <1>7, <2>1 DEF SampleFrame, GapInv, Score, channel, session
<1>8. QED
  BY <1>1, <1>2, <1>3, <1>4, <1>5, <1>6, <1>7 DEF Next, M4Step

(* A reader's last frame changes when it reads one or is gone.              *)
LEMMA OnlyReadGives ==
    ASSUME TypeOK, [Next]_vars, NEW q \in Reader
    PROVE  ReadFrame(q) \/ last'[q] = last[q] \/ last'[q] = NoFrame
<1>1. CASE UNCHANGED vars
  BY <1>1 DEF TypeOK, vars, channel, frames, session
<1>2. ASSUME NEW r \in Reader, ReaderStep(r)
      PROVE  ReadFrame(q) \/ last'[q] = last[q] \/ last'[q] = NoFrame
  <2>1. CASE AcquireLock(r)
    BY <2>1 DEF AcquireLock, TypeOK, Step, channel, frames, session
  <2>2. CASE OpenDevice(r)
    BY <2>2 DEF OpenDevice, TypeOK, Step, channel, frames, session
  <2>3. CASE OpenFails(r)
    BY <2>3 DEF OpenFails, TypeOK, Step, Exit, channel, frames, session
  <2>4. CASE SetUpDevice(r)
    BY <2>4 DEF SetUpDevice, TypeOK, Step, channel, frames, session
  <2>5. CASE SetUpFails(r)
    BY <2>5 DEF SetUpFails, TypeOK, Step, Exit, channel, frames, session
  <2>6. CASE WriteStart(r)
    BY <2>6 DEF WriteStart, TypeOK, Step, CanWrite, channel, frames, session
  <2>7. CASE StartFails(r)
    BY <2>7 DEF StartFails, TypeOK, Step, Exit, channel, frames, session
  <2>8. CASE EnterLoop(r)
    BY <2>8 DEF EnterLoop, TypeOK, Step, channel, frames, session
  <2>9. CASE IcmFails(r)
    BY <2>9 DEF IcmFails, TypeOK, Step, Exit, channel, frames, session
  <2>10. CASE ReadFrame(r)
    BY <2>10 DEF ReadFrame, TypeOK, channel, frames, session
  <2>11. CASE ReadTimeout(r)
    BY <2>11 DEF ReadTimeout, TypeOK, Step, channel, frames, session
  <2>12. CASE LeaveLoop(r)
    BY <2>12 DEF LeaveLoop, TypeOK, Step, channel, frames, session
  <2>13. CASE WriteStop(r)
    BY <2>13 DEF WriteStop, TypeOK, Step, CanWrite, channel, frames, session
  <2>14. CASE StopFails(r)
    BY <2>14 DEF StopFails, TypeOK, Step, channel, frames, session
  <2>15. CASE CloseDevice(r)
    BY <2>15 DEF CloseDevice, TypeOK, Step, channel, frames, session
  <2>16. CASE Unlock(r)
    BY <2>16 DEF Unlock, TypeOK, Step, Exit, channel, frames, session
  <2>17. CASE Die(r)
    BY <2>17 DEF Die, TypeOK, Exit, channel, frames, session
  <2>18. QED
    BY <1>2, <2>1, <2>2, <2>3, <2>4, <2>5, <2>6, <2>7, <2>8, <2>9, <2>10,
       <2>11, <2>12, <2>13, <2>14, <2>15, <2>16, <2>17 DEF ReaderStep, Running
<1>3. CASE ReceiveCommand
  BY <1>3 DEF ReceiveCommand, TypeOK, channel, frames, session
<1>4. CASE SendFrame
  BY <1>4 DEF SendFrame, TypeOK, Deliver, channel, frames, session
<1>5. CASE M4Stop
  BY <1>5 DEF M4Stop, TypeOK, channel, frames, session
<1>6. CASE M4Start
  BY <1>6 DEF M4Start, TypeOK, channel, frames, session
<1>7. CASE SampleFrame
  BY <1>7 DEF SampleFrame, TypeOK, channel, session
<1>8. QED
  BY <1>1, <1>2, <1>3, <1>4, <1>5, <1>6, <1>7 DEF Next, M4Step

(* The jump between two frames a reader is given is the growth of tx_errors *)
(* plus what the tty buffer discarded in between, but for wraps.            *)
THEOREM GapProved == Spec => GapAccounted
<1>1. ASSUME TypeOK, TypeOK', LockInv, FreshInv, GapInv, [Next]_vars
      PROVE  [\A r \in Reader : GapStep(r)]_vars
  <2> SUFFICES ASSUME [Next]_vars, NEW r \in Reader PROVE GapStep(r)
    BY <1>1
  <2>1. CASE last'[r] = last[r] \/ last'[r] = NoFrame
    BY <2>1 DEF GapStep
  <2>2. CASE ReadFrame(r)
    <3>1. last'[r] = rx[1] /\ rx[1] \in Frame /\ 1 \in 1..Len(rx)
      BY <1>1, <2>2, ReadTakes DEF ReadFrame, TypeOK
    <3>2. Total \in Int /\ Len(rx) \in Nat
      BY <1>1, TotalInt
    <3>3. ASSUME last[r] # NoFrame PROVE Score(last'[r]) - Score(last[r]) - 1 \in Wrapped
      <4>1. last[r] \in Frame
        BY <1>1, <3>3 DEF TypeOK
      <4>2. Score(last[r]) \in Int /\ Score(rx[1]) \in Int
        BY <3>1, <4>1, ScoreInt
      <4>3. Near(Score(last[r]), Total - Len(rx) - 1)
        BY <1>1, <2>2, <3>3 DEF ReadFrame, GapInv, DeviceOpen, Holding
      <4>4. Near(Score(rx[1]), Total - Len(rx) + 1 - 1)
        BY <1>1, <3>1 DEF GapInv
      <4>5. /\ Total - Len(rx) - 1 \in Int
            /\ Total - Len(rx) + 1 - 1 = (Total - Len(rx) - 1) + 1
        BY <3>2
      <4>6. QED
        BY <3>1, <4>2, <4>3, <4>4, <4>5, NearShift
    <3>4. last[r] # NoFrame => last[r] \in Frame
      BY <1>1 DEF TypeOK
    <3>5. QED
      BY <3>1, <3>3, <3>4, ScoreStep DEF GapStep
  <2>3. ReadFrame(r) \/ last'[r] = last[r] \/ last'[r] = NoFrame
    BY <1>1, OnlyReadGives
  <2>4. QED
    BY <2>1, <2>2, <2>3
<1>2. QED
  BY <1>1, TypeInit, TypeStep, LockInit, LockStep, FreshInit, FreshStep,
     GapInit, GapStepInv, PTL DEF Spec, GapAccounted
=============================================================================
