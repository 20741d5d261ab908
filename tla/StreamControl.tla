---------------------------- MODULE StreamControl ----------------------------
(***************************************************************************)
(* Start/stop control of the IMU stream between the Linux reader tools     *)
(* (tools/monitor_dual_imu.py, monitor_rpmsg_imu.py, attitude_rpmsg_imu.py, *)
(* read_rpmsg_imu.py) and the Cortex-M4 firmware m4/src/mpu6050_rpmsg.c.   *)
(*                                                                         *)
(* All four tools run the same protocol: take an exclusive file lock, open *)
(* /dev/ttyRPMSG0, discard stale input, write "start", read frames, and in *)
(* a finally clause write "stop", wait, close the device and drop the      *)
(* lock.  Commands travel through the RPMsg channel to the firmware's main *)
(* loop, which flips stream_enabled; frames travel back through the tty's  *)
(* input buffer.  Processes may be interrupted or killed at any step, and  *)
(* the M4 may be restarted under a reader that has the device open.        *)
(***************************************************************************)
EXTENDS Integers, Sequences

CONSTANTS
    Reader,       \* the reader processes that may run on the board
    NoReader,     \* the lock is free
    NoFrame,      \* a reader has not been given a frame yet
    Flushing,     \* readers that tcflush the device (all but read_rpmsg_imu)
    Patient,      \* readers without a read timeout (monitor_rpmsg_imu)
    Deaths,       \* the unclean ends that are considered: {"int", "kill", "icm"}
    CmdMax,       \* RPMsg buffers towards the M4
    RxMax,        \* frames the tty input buffer holds
    TxWrap,       \* values of the 16-bit tx_errors
    MaxSeq,       \* bound: frames the M4 samples between two restarts
    MaxRestarts   \* bound: restarts of the M4

ASSUME ReaderAssumption ==
    NoReader \notin Reader /\ Flushing \subseteq Reader /\ Patient \subseteq Reader

ASSUME BoundAssumption ==
    /\ CmdMax \in Nat \ {0} /\ RxMax \in Nat \ {0} /\ TxWrap \in Nat \ {0}
    /\ MaxSeq \in Nat /\ MaxRestarts \in Nat

VARIABLES
    pc,        \* where each reader process is
    lock,      \* who holds the flock on /tmp/rpmsg_imu_reader.lock
    hung,      \* readers whose open device was hung up by an M4 restart
    m4,        \* state of remoteproc0
    cmds,      \* commands on their way to the M4, oldest first
    enabled,   \* stream_enabled of the firmware
    seq,       \* sequence: the number of the next frame
    sampling,  \* a frame is numbered, its sample is being read
    txErrors,  \* tx_errors
    rx,        \* frames waiting in the tty input buffer
    last,      \* the last frame each reader was given
    restarts,  \* restarts of the M4 so far
    dropped,   \* history: frames the full tty buffer discarded
    mark,      \* history: frames sent when the reader went past tcflush
    unclean    \* history: "start" was written and its "stop" never will be

channel == <<m4, cmds, enabled, unclean>>
frames  == <<seq, sampling, txErrors, rx, dropped>>
session == <<last, mark>>
vars    == <<pc, lock, hung, channel, frames, session, restarts>>

Command == {"start", "stop"}
Frame   == [seq : Nat, tx : 0..(TxWrap - 1), drp : Nat]

(* The steps of a reader.  In "reading" it is inside the try block whose    *)
(* finally clause is "closing" -> "settling" -> "unlocking".                *)
Holding == {"locked", "opened", "flushed", "started", "reading",
            "closing", "settling", "unlocking"}
DeviceOpen == Holding \ {"locked", "unlocking"}
Committed  == {"started", "reading", "closing"}  \* "start" sent, "stop" not yet

-----------------------------------------------------------------------------
Init ==
    /\ pc = [r \in Reader |-> "idle"]
    /\ lock = NoReader
    /\ hung = {}
    /\ m4 = "running"
    /\ cmds = <<>>
    /\ enabled = FALSE
    /\ seq = 0
    /\ sampling = FALSE
    /\ txErrors = 0
    /\ rx = <<>>
    /\ last = [r \in Reader |-> NoFrame]
    /\ restarts = 0
    /\ dropped = 0
    /\ mark = [r \in Reader |-> 0]
    /\ unclean = FALSE

-----------------------------------------------------------------------------
(* The reader processes.                                                    *)

Step(r, from, to) == pc[r] = from /\ pc' = [pc EXCEPT ![r] = to]

(* The process is gone: the kernel closes its descriptors, which drops the  *)
(* lock, and what it remembered is forgotten.                               *)
Exit(r) ==
    /\ lock' = IF lock = r THEN NoReader ELSE lock
    /\ hung' = hung \ {r}
    /\ last' = [last EXCEPT ![r] = NoFrame]
    /\ mark' = [mark EXCEPT ![r] = 0]

(* Fault: the channel is taken to have room for ever. *)
CanWriteAlways(r) == r \notin hung

(* write(2) on the non-blocking device: EAGAIN when every RPMsg buffer is   *)
(* taken, EIO once the device was hung up.                                  *)
CanWrite(r) == r \notin hung /\ Len(cmds) < CmdMax

(* Fault: the lock is not tested. *)
LockUntested(r) ==
    /\ Step(r, "idle", "locked")
    /\ lock' = r
    /\ UNCHANGED <<hung, channel, frames, session, restarts>>

(* flock(LOCK_EX | LOCK_NB); a tool that finds the lock taken just exits.   *)
AcquireLock(r) ==
    /\ Step(r, "idle", "locked")
    /\ lock = NoReader
    /\ lock' = r
    /\ UNCHANGED <<hung, channel, frames, session, restarts>>

(* The device node exists only while the M4 runs; otherwise os.open raises  *)
(* before any handler is in place and the process ends.                     *)
OpenDevice(r) ==
    /\ m4 = "running"
    /\ Step(r, "locked", "opened")
    /\ UNCHANGED <<lock, hung, channel, frames, session, restarts>>

OpenFails(r) ==
    /\ m4 # "running"
    /\ Step(r, "locked", "idle")
    /\ Exit(r)
    /\ UNCHANGED <<channel, frames, restarts>>

(* The number of the frame that is transmitted next.                        *)
Outgoing == IF sampling THEN seq - 1 ELSE seq

(* Fault: the stale input is kept. *)
SetUpWithoutFlush(r) ==
    /\ r \notin hung
    /\ Step(r, "opened", "flushed")
    /\ mark' = [mark EXCEPT ![r] = Outgoing]
    /\ UNCHANGED <<lock, hung, channel, frames, last, restarts>>

(* set_raw, then tcflush(TCIFLUSH) in the tools that call it.               *)
SetUpDevice(r) ==
    /\ r \notin hung
    /\ Step(r, "opened", "flushed")
    /\ rx' = IF r \in Flushing THEN <<>> ELSE rx
    /\ mark' = [mark EXCEPT ![r] = Outgoing]
    /\ UNCHANGED <<lock, hung, channel, seq, sampling, txErrors, dropped, last, restarts>>

(* termios calls on a device that was hung up raise, outside any try block. *)
SetUpFails(r) ==
    /\ r \in hung
    /\ Step(r, "opened", "idle")
    /\ Exit(r)
    /\ UNCHANGED <<channel, frames, restarts>>

WriteStart(r) ==
    /\ CanWrite(r)
    /\ Step(r, "flushed", "started")
    /\ cmds' = Append(cmds, "start")
    /\ unclean' = FALSE
    /\ UNCHANGED <<lock, hung, m4, enabled, frames, session, restarts>>

(* The write raises outside of any try block.                               *)
StartFails(r) ==
    /\ ~CanWrite(r)
    /\ Step(r, "flushed", "idle")
    /\ Exit(r)
    /\ UNCHANGED <<channel, frames, restarts>>

(* IcmReader() (or the signal handlers) are set up between "start" and the  *)
(* try block.                                                               *)
EnterLoop(r) ==
    /\ Step(r, "started", "reading")
    /\ UNCHANGED <<lock, hung, channel, frames, session, restarts>>

(* Opening the ICM device fails: MpuReader exists, its close() is not       *)
(* reached.                                                                 *)
IcmFails(r) ==
    /\ "icm" \in Deaths
    /\ Step(r, "started", "idle")
    /\ Exit(r)
    /\ unclean' = (unclean \/ r \notin hung)
    /\ UNCHANGED <<m4, cmds, enabled, frames, restarts>>

ReadFrame(r) ==
    /\ pc[r] = "reading"
    /\ r \notin hung
    /\ rx # <<>>
    /\ last' = [last EXCEPT ![r] = Head(rx)]
    /\ rx' = Tail(rx)
    /\ UNCHANGED <<pc, lock, hung, channel, seq, sampling, txErrors, dropped, mark, restarts>>

(* No valid frame before the deadline: TimeoutError, or the loop's own      *)
(* deadline in read_rpmsg_imu.                                              *)
ReadTimeout(r) ==
    /\ r \notin Patient
    /\ rx = <<>> \/ r \in hung
    /\ Step(r, "reading", "closing")
    /\ UNCHANGED <<lock, hung, channel, frames, session, restarts>>

(* Fault: the lock is dropped before "stop" is written. *)
LeaveLoopUnlocking(r) ==
    /\ Step(r, "reading", "closing")
    /\ lock' = NoReader
    /\ UNCHANGED <<hung, channel, frames, session, restarts>>

(* The requested number of frames was read, or Ctrl+C.                      *)
LeaveLoop(r) ==
    /\ Step(r, "reading", "closing")
    /\ UNCHANGED <<lock, hung, channel, frames, session, restarts>>

(* Fault: the device is closed without "stop". *)
CloseWithoutStop(r) ==
    /\ CanWrite(r)
    /\ Step(r, "closing", "settling")
    /\ UNCHANGED <<lock, hung, channel, frames, session, restarts>>

WriteStop(r) ==
    /\ CanWrite(r)
    /\ Step(r, "closing", "settling")
    /\ cmds' = Append(cmds, "stop")
    /\ UNCHANGED <<lock, hung, m4, enabled, unclean, frames, session, restarts>>

(* Fault: the write is retried for as long as it fails. *)
StopRetried(r) == ~CanWrite(r) /\ pc[r] = "closing" /\ UNCHANGED vars

(* "except OSError: pass": the command is lost and the shutdown goes on.    *)
StopFails(r) ==
    /\ ~CanWrite(r)
    /\ Step(r, "closing", "settling")
    /\ unclean' = (unclean \/ r \notin hung)
    /\ UNCHANGED <<lock, hung, m4, cmds, enabled, frames, session, restarts>>

CloseDevice(r) ==
    /\ Step(r, "settling", "unlocking")
    /\ hung' = hung \ {r}
    /\ UNCHANGED <<lock, channel, frames, session, restarts>>

Unlock(r) ==
    /\ Step(r, "unlocking", "idle")
    /\ Exit(r)
    /\ UNCHANGED <<channel, frames, restarts>>

(* A signal that ends the process where it is.  Ctrl+C ("int") does so only *)
(* outside of the try block; SIGKILL, and SIGHUP or SIGTERM in the tools    *)
(* that do not catch them ("kill"), do so everywhere.                       *)
Die(r) ==
    /\ pc[r] # "idle"
    /\ "kill" \in Deaths \/ ("int" \in Deaths /\ pc[r] # "reading")
    /\ pc' = [pc EXCEPT ![r] = "idle"]
    /\ Exit(r)
    /\ unclean' = (unclean \/ (pc[r] \in Committed /\ r \notin hung))
    /\ UNCHANGED <<m4, cmds, enabled, frames, restarts>>

-----------------------------------------------------------------------------
(* The M4 firmware's main loop and remoteproc.                              *)

(* Fault: "start" is compared with the wrong length and never recognised. *)
StartNotRecognised ==
    /\ m4 = "running"
    /\ ~sampling
    /\ cmds # <<>>
    /\ enabled' = (enabled /\ Head(cmds) = "start")
    /\ cmds' = Tail(cmds)
    /\ UNCHANGED <<pc, lock, hung, m4, unclean, frames, session, restarts>>

(* OPENAMP_check_for_message, the first call of a pass of the loop, runs    *)
(* VIRT_UART0_RxCpltCallback: no command is looked at within a frame.       *)
ReceiveCommand ==
    /\ m4 = "running"
    /\ ~sampling
    /\ cmds # <<>>
    /\ enabled' = (Head(cmds) = "start")
    /\ cmds' = Tail(cmds)
    /\ UNCHANGED <<pc, lock, hung, m4, unclean, frames, session, restarts>>

(* Fault: a failed transmission is not counted. *)
DeliverUncounted(frame) ==
    \/ /\ Len(rx) < RxMax
       /\ rx' = Append(rx, frame)
       /\ UNCHANGED <<txErrors, dropped>>
    \/ /\ Len(rx) >= RxMax
       /\ dropped' = dropped + 1
       /\ UNCHANGED <<rx, txErrors>>
    \/ UNCHANGED <<rx, txErrors, dropped>>

(* A sampling period has passed: the frame is numbered, and reading the     *)
(* sensor over the bit-banged bus takes most of the period.                 *)
SampleFrame ==
    /\ m4 = "running"
    /\ enabled
    /\ ~sampling
    /\ seq < MaxSeq
    /\ seq' = seq + 1
    /\ sampling' = TRUE
    /\ UNCHANGED <<pc, lock, hung, channel, txErrors, rx, dropped, session, restarts>>

(* VIRT_UART_Transmit: the frame gets into the tty buffer, or is discarded  *)
(* for want of room there, or fails and is counted.                         *)
Deliver(frame) ==
    \/ /\ Len(rx) < RxMax
       /\ rx' = Append(rx, frame)
       /\ UNCHANGED <<txErrors, dropped>>
    \/ /\ Len(rx) >= RxMax
       /\ dropped' = dropped + 1
       /\ UNCHANGED <<rx, txErrors>>
    \/ /\ txErrors' = (txErrors + 1) % TxWrap
       /\ UNCHANGED <<rx, dropped>>

(* The frame takes tx_errors with it as it is now, and is transmitted.      *)
SendFrame ==
    /\ m4 = "running"
    /\ sampling
    /\ sampling' = FALSE
    /\ Deliver([seq |-> Outgoing, tx |-> txErrors, drp |-> dropped])
    /\ UNCHANGED <<pc, lock, hung, channel, seq, session, restarts>>

(* echo stop > state: the channel and the tty vanish and with them a frame  *)
(* in the making, open descriptors are hung up.                             *)
M4Stop ==
    /\ m4 = "running"
    /\ restarts < MaxRestarts
    /\ restarts' = restarts + 1
    /\ m4' = "offline"
    /\ cmds' = <<>>
    /\ enabled' = FALSE
    /\ sampling' = FALSE
    /\ rx' = <<>>
    /\ hung' = hung \cup {r \in Reader : pc[r] \in DeviceOpen}
    /\ unclean' = FALSE
    /\ UNCHANGED <<pc, lock, seq, txErrors, dropped, session>>

(* echo start > state: the firmware boots with stream_enabled = 0.          *)
M4Start ==
    /\ m4 = "offline"
    /\ m4' = "running"
    /\ seq' = 0
    /\ sampling' = FALSE
    /\ txErrors' = 0
    /\ dropped' = 0
    /\ UNCHANGED <<pc, lock, hung, cmds, enabled, unclean, rx, session, restarts>>

-----------------------------------------------------------------------------
Running(r) ==
    \/ OpenDevice(r) \/ OpenFails(r) \/ SetUpDevice(r) \/ SetUpFails(r)
    \/ WriteStart(r) \/ StartFails(r) \/ EnterLoop(r)
    \/ WriteStop(r) \/ StopFails(r) \/ CloseDevice(r) \/ Unlock(r)

ReaderStep(r) ==
    \/ AcquireLock(r) \/ Running(r)
    \/ IcmFails(r) \/ ReadFrame(r) \/ ReadTimeout(r) \/ LeaveLoop(r)
    \/ Die(r)

M4Step == ReceiveCommand \/ SampleFrame \/ SendFrame \/ M4Stop \/ M4Start

Next == M4Step \/ \E r \in Reader : ReaderStep(r)

Spec == Init /\ [][Next]_vars

(* The firmware finishes a frame and looks for commands in every pass of    *)
(* its loop, between any two frames: hence SF.  A process that is not       *)
(* blocked runs on; a read that gets nothing times out.  Nobody has to      *)
(* start a reader, leave its loop, kill it or restart the M4.               *)
Fairness ==
    /\ SF_vars(ReceiveCommand) /\ WF_vars(SendFrame)
    /\ \A r \in Reader : WF_vars(Running(r)) /\ WF_vars(ReadTimeout(r))

FairSpec == Spec /\ Fairness

-----------------------------------------------------------------------------
(* Properties.                                                              *)

(* Every variable keeps to its domain; the channel and the tty buffer never *)
(* hold more than they have room for.                                       *)
TypeOK ==
    /\ pc \in [Reader -> Holding \cup {"idle"}]
    /\ lock \in Reader \cup {NoReader}
    /\ hung \subseteq Reader
    /\ m4 \in {"running", "offline"}
    /\ cmds \in Seq(Command) /\ Len(cmds) <= CmdMax
    /\ enabled \in BOOLEAN
    /\ seq \in Nat /\ txErrors \in 0..(TxWrap - 1) /\ dropped \in Nat
    /\ sampling \in BOOLEAN /\ (sampling => seq > 0)
    /\ rx \in Seq(Frame) /\ Len(rx) <= RxMax
    /\ last \in [Reader -> Frame \cup {NoFrame}]
    /\ restarts \in 0..MaxRestarts
    /\ mark \in [Reader -> Nat]
    /\ unclean \in BOOLEAN

(* The file lock keeps a second tool away from the device: no two processes *)
(* have /dev/ttyRPMSG0 open, whichever of them die and in whatever order.   *)
SingleReader ==
    \A r, s \in Reader :
        pc[r] \in DeviceOpen /\ pc[s] \in DeviceOpen => r = s

(* What the firmware will do once it has read every command under way.      *)
WillStream == IF cmds = <<>> THEN enabled ELSE cmds[Len(cmds)] = "start"

(* No "stop" of an earlier session overtakes or outlives the "start" of the *)
(* current one: while a tool is in its read loop on a live device and the   *)
(* channel is drained, the firmware streams.  "stop" is written before the  *)
(* lock is dropped, and this is why.                                        *)
SessionStream ==
    \A r \in Reader :
        pc[r] = "reading" /\ r \notin hung /\ cmds = <<>> => enabled

(* When nobody holds the lock and the channel is drained, the firmware      *)
(* streams only if a session ended without getting its "stop" through.      *)
QuietWhenFree ==
    lock = NoReader /\ cmds = <<>> /\ enabled => unclean

(* A tool that flushed its input is never given a frame that was sent       *)
(* before the flush, whatever an earlier session left in the tty buffer.    *)
(* With the stream left on, the one frame that was being sampled at the     *)
(* time may reach it, and no older one.                                     *)
FreshFrames ==
    \A r \in Flushing : last[r] # NoFrame => last[r].seq >= mark[r]

(* A jump in the sequence numbers a tool sees is exactly accounted for: by  *)
(* the growth of tx_errors in the packets, up to its wrap, and by what the  *)
(* full tty buffer discarded between them.  Nothing is taken by another     *)
(* process.                                                                 *)
GapStep(r) ==
    LET a == last[r]
        b == last'[r]
    IN  a # NoFrame /\ b # NoFrame /\ a # b =>
            ((b.seq - a.seq - 1) - (b.tx - a.tx) - (b.drp - a.drp)) % TxWrap = 0

GapAccounted == [][\A r \in Reader : GapStep(r)]_vars

(* A tool that waits for frames gets the stream turned on, unless its       *)
(* device is hung up or it gives up.                                        *)
StartTakesEffect ==
    \A r \in Reader :
        pc[r] = "reading" ~> enabled \/ r \in hung \/ pc[r] # "reading"

(* A tool that is shutting down, or whose device was hung up under a read   *)
(* with a timeout, gives the lock back: "another reader is already running" *)
(* does not last for ever.                                                  *)
LockReleased ==
    \A r \in Reader :
        (pc[r] \in {"closing", "settling", "unlocking"} \/ r \in hung \ Patient)
            ~> lock # r

(* README.md:1640 says that flow control is in place and that closing the   *)
(* GUI makes the remote program send "stop", leaving no stream behind.      *)
NoStreamLeft ==
    (\A r \in Reader : pc[r] = "idle") /\ cmds = <<>> => ~enabled
=============================================================================
