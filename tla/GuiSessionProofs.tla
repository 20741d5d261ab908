-------------------------- MODULE GuiSessionProofs --------------------------
(***************************************************************************)
(* Proofs about GuiSession, for any number of connection attempts and any  *)
(* length of the signal queue: the sessions are kept apart, a stream that  *)
(* is wanted is never forgotten and no SSH master is.                      *)
(*                                                                         *)
(* The steps of the workers and of stop() are first reduced to what they   *)
(* do to the variables that the invariants are about.                      *)
(***************************************************************************)
EXTENDS GuiSession, TLAPS

Place == Active \cup {"new", "finishing", "done"}
Signal == {"sample", "finished"} \X Gen

(* A worker goes on, or its finally clause is over; nothing is posted.      *)
Works(g) ==
    /\ queue' = queue
    /\ \/ wpc' = wpc
       \/ wpc[g] \in Active /\ \E a \in Active \cup {"finishing"} : wpc' = [wpc EXCEPT ![g] = a]

Samples(g) ==
    /\ wpc[g] \in Active /\ wpc' = wpc
    /\ queue' = Append(queue, <<"sample", g>>)

Posts(g) ==
    /\ wpc[g] = "finishing" /\ wpc' = [wpc EXCEPT ![g] = "done"]
    /\ queue' = Append(queue, <<"finished", g>>)

(* What a worker leaves alone.                                              *)
Aside == UNCHANGED <<mpc, closer, want, closing, timer, startEnabled, cur, held, trace,
                     history, demo>>

LEMMA WorkerShape ==
    ASSUME WorkerTypeOK, NEW g \in Gen, WorkerStep(g)
    PROVE  Aside /\ (Works(g) \/ Samples(g) \/ Posts(g))
<1> USE DEF mainVars, workerVars, Go, Aside
<1>1. CASE StageDone(g)
  <2>1. wpc[g] \in {"master", "deploy"} /\ NextStage[wpc[g]] \in {"deploy", "probe"}
    BY <1>1 DEF StageDone, NextStage
  <2>2. wpc[g] \in Active /\ NextStage[wpc[g]] \in Active
    BY <2>1 DEF Active, Setup
  <2>3. wpc' = [wpc EXCEPT ![g] = NextStage[wpc[g]]] /\ queue' = queue
    BY <1>1 DEF StageDone
  <2>4. Works(g)
    BY <2>2, <2>3 DEF Works
  <2>5. QED
    BY <1>1, <2>4 DEF StageDone
<1>2. CASE StageFails(g)
  BY <1>2 DEF StageFails, Works, Active, Setup
<1>3. CASE ProbeDone(g)
  BY <1>3 DEF ProbeDone, Works, Active, Setup
<1>4. CASE Spawn(g)
  BY <1>4 DEF Spawn, Works, Active
<1>5. CASE EmitSample(g)
  BY <1>5 DEF EmitSample, Samples, Active
<1>6. CASE BreakLoop(g)
  BY <1>6 DEF BreakLoop, Works, Active
<1>7. CASE LineRaises(g)
  BY <1>7 DEF LineRaises, Works, Active
<1>8. CASE ProcessWaited(g)
  BY <1>8 DEF ProcessWaited, Works, Active
<1>9. CASE ForgetProcess(g)
  BY <1>9 DEF ForgetProcess, Works, Active
<1>10. CASE CloseMaster(g)
  BY <1>10 DEF CloseMaster, Works, Active
<1>11. CASE PostFinished(g)
  BY <1>11 DEF PostFinished, Posts
<1>12. CASE DemoSample(g)
  BY <1>12 DEF DemoSample, Samples, Active
<1>13. CASE DemoEnds(g)
  BY <1>13 DEF DemoEnds, Works, Active
<1>14. CASE SshExits(g)
  BY <1>14 DEF SshExits, Works
<1>15. QED
  BY <1>1, <1>2, <1>3, <1>4, <1>5, <1>6, <1>7, <1>8, <1>9, <1>10, <1>11, <1>12, <1>13, <1>14
     DEF WorkerStep, Progress

(* stop() and what follows it in closeEvent leave the session alone, until  *)
(* the window is closed.                                                    *)
Halts ==
    /\ UNCHANGED <<closer, want, closing, timer, startEnabled, cur, held, queue, history, demo>>
    /\ mpc \notin {"loop", "closed"}
    /\ mpc' \in {"poll", "write", "wait", "kill", "closeWait", "loop", "closed"}
    /\ \/ wpc' = wpc /\ trace' = trace
       \/ /\ mpc' = "closed"
          /\ wpc' \in {wpc, [wpc EXCEPT ![cur] = "done"]} /\ trace' = 0

LEMMA StopShape == ASSUME StopCall PROVE Halts
<1> USE DEF workerVars, Halts, Return
<1>1. CASE StopCheck
  BY <1>1 DEF StopCheck
<1>2. CASE StopPoll
  BY <1>2 DEF StopPoll, StopStep
<1>3. CASE StopWrite
  BY <1>3 DEF StopWrite, StopStep
<1>4. CASE StopWait
  BY <1>4 DEF StopWait, StopStep
<1>5. CASE StopKill
  BY <1>5 DEF StopKill, StopStep
<1>6. CASE CloseWait
  BY <1>6 DEF CloseWait
<1>7. QED
  BY <1>1, <1>2, <1>3, <1>4, <1>5, <1>6 DEF StopCall

(* The handlers that may start a worker: they do, or one runs, or none is   *)
(* wanted.                                                                  *)
Begins ==
    /\ want' /\ ~Running(cur) /\ cur + 1 \in Gen
    /\ cur' = cur + 1 /\ wpc' = [wpc EXCEPT ![cur + 1] = Entry]
    /\ held' = {} /\ trace' = cur + 1 /\ startEnabled' = FALSE
    /\ NewSession /\ NewWorkerFlags

Declines ==
    /\ Running(cur) \/ ~want'
    /\ UNCHANGED <<cur, wpc, held, trace, startEnabled, history, stopping, killed>>

LEMMA BeginShape ==
    ASSUME TypeOK, StartClicked \/ DemoStarts \/ TimerFires
    PROVE  /\ mpc = "loop" /\ ~closing /\ timer' = FALSE
           /\ want' = TRUE \/ want' = want
           /\ demo' \in {demo, "on"}
           /\ UNCHANGED <<mpc, closer, closing, queue, attr, ssh, master, forced>>
           /\ Begins \/ Declines
<1>1. /\ BeginStream /\ MayBegin /\ mpc = "loop" /\ ~closing /\ timer' = FALSE
      /\ want' = TRUE \/ want' = want
      /\ demo' \in {demo, "on"}
      /\ UNCHANGED <<mpc, closer, closing, queue, attr, ssh, master, forced>>
  BY DEF StartClicked, DemoStarts, TimerFires, Idle
<1>2. cur \in 0..MaxGen /\ MaxGen \in Nat
  BY BoundAssumption DEF TypeOK, MainTypeOK
<1>3. CASE closing \/ ~want' \/ Running(cur)
  BY <1>1, <1>3 DEF BeginStream, Declines
<1>4. CASE ~(closing \/ ~want' \/ Running(cur))
  <2>1. cur + 1 \in Gen
    BY <1>1, <1>2, <1>4 DEF MayBegin, Gen
  <2>2. QED
    BY <1>1, <1>4, <2>1 DEF BeginStream, Begins
<1>5. QED
  BY <1>1, <1>3, <1>4

-----------------------------------------------------------------------------
(* Types.                                                                   *)

LEMMA TypeInit == Init => TypeOK
<1> SUFFICES ASSUME Init PROVE TypeOK
  OBVIOUS
<1>1. MaxGen \in Nat /\ 0 \in 0..MaxGen
  BY BoundAssumption
<1>2. MainTypeOK
  <2>1. <<>> \in Seq({"sample", "finished"} \X Gen)
    OBVIOUS
  <2>2. closer \in BOOLEAN /\ want \in BOOLEAN /\ closing \in BOOLEAN /\ timer \in BOOLEAN
        /\ startEnabled \in BOOLEAN
    BY Zenon DEF Init
  <2>3. QED
    BY <1>1, <2>1, <2>2 DEF Init, MainTypeOK
<1>3. WorkerTypeOK
  BY DEF Init, WorkerTypeOK
<1>4. QED
  BY <1>2, <1>3 DEF Init, TypeOK

LEMMA WorkerTyped ==
    ASSUME TypeOK, NEW g \in Gen, WorkerStep(g)
    PROVE  TypeOK'
<1>1. Aside /\ (Works(g) \/ Samples(g) \/ Posts(g))
  BY WorkerShape DEF TypeOK
<1>2. queue' \in Seq(Signal)
  <2>1. queue \in Seq(Signal) /\ <<"sample", g>> \in Signal /\ <<"finished", g>> \in Signal
    BY DEF TypeOK, MainTypeOK, Signal
  <2>2. \A x \in Signal : Append(queue, x) \in Seq(Signal)
    BY <2>1
  <2>3. QED
    BY <1>1, <2>1, <2>2, Zenon DEF Works, Samples, Posts
<1>3. MainTypeOK'
  BY <1>1, <1>2 DEF TypeOK, MainTypeOK, Aside, Signal, history
<1>4. wpc' \in [Gen -> Place]
  BY <1>1 DEF Works, Samples, Posts, TypeOK, WorkerTypeOK, Place
<1>5. /\ stopping' \in [Gen -> BOOLEAN] /\ attr' \in [Gen -> BOOLEAN]
      /\ ssh' \in [Gen -> {"absent", "live", "exited"}]
      /\ killed' \in [Gen -> BOOLEAN] /\ master' \in [Gen -> BOOLEAN]
      /\ forced' \subseteq {"thread", "master"}
  <2> USE DEF TypeOK, WorkerTypeOK, mainVars, workerVars
  <2>1. CASE StageDone(g)
    BY <2>1 DEF StageDone
  <2>2. CASE StageFails(g)
    BY <2>2 DEF StageFails
  <2>3. CASE ProbeDone(g) \/ EmitSample(g) \/ BreakLoop(g) \/ LineRaises(g) \/ ProcessWaited(g)
    BY <2>3 DEF ProbeDone, EmitSample, BreakLoop, LineRaises, ProcessWaited
  <2>4. CASE Spawn(g)
    BY <2>4 DEF Spawn
  <2>5. CASE ForgetProcess(g)
    BY <2>5 DEF ForgetProcess
  <2>6. CASE CloseMaster(g)
    BY <2>6 DEF CloseMaster
  <2>7. CASE PostFinished(g) \/ DemoSample(g) \/ DemoEnds(g)
    BY <2>7 DEF PostFinished, DemoSample, DemoEnds
  <2>8. CASE SshExits(g)
    BY <2>8 DEF SshExits
  <2>9. QED
    BY <2>1, <2>2, <2>3, <2>4, <2>5, <2>6, <2>7, <2>8 DEF WorkerStep, Progress
<1>6. WorkerTypeOK'
  BY <1>4, <1>5 DEF WorkerTypeOK, Place
<1>7. mpc' \notin {"loop", "closed"} => cur' # 0
  BY <1>1 DEF Aside, TypeOK
<1>8. QED
  BY <1>3, <1>6, <1>7 DEF TypeOK

LEMMA StopTyped == ASSUME TypeOK, StopCall PROVE TypeOK'
<1>1. Halts
  BY StopShape
<1>2. MaxGen \in Nat /\ cur \in Gen
  BY <1>1, BoundAssumption DEF Halts, TypeOK, MainTypeOK, Gen
<1>3. MainTypeOK' /\ (mpc' \notin {"loop", "closed"} => cur' # 0)
  BY <1>1, <1>2 DEF Halts, TypeOK, MainTypeOK, history
<1>4. WorkerTypeOK'
  <2> USE <1>2 DEF TypeOK, WorkerTypeOK, workerVars
  <2>1. CASE StopCheck
    BY <2>1 DEF StopCheck
  <2>2. CASE StopPoll \/ StopWrite \/ StopWait
    BY <2>2 DEF StopPoll, StopWrite, StopWait, StopStep
  <2>3. CASE StopKill
    BY <2>3 DEF StopKill, StopStep
  <2>4. CASE CloseWait
    BY <2>4 DEF CloseWait
  <2>5. QED
    BY <2>1, <2>2, <2>3, <2>4 DEF StopCall
<1>5. QED
  BY <1>3, <1>4 DEF TypeOK

LEMMA BeginTyped ==
    ASSUME TypeOK, StartClicked \/ DemoStarts \/ TimerFires
    PROVE  TypeOK'
<1>1. /\ mpc = "loop" /\ timer' = FALSE /\ (want' = TRUE \/ want' = want)
      /\ demo' \in {demo, "on"}
      /\ UNCHANGED <<mpc, closer, closing, queue, attr, ssh, master, forced>>
      /\ Begins \/ Declines
  BY BeginShape
<1>2. CASE Begins
  <2>1. MainTypeOK'
    <3>1. cur' \in 0..MaxGen /\ held' \subseteq Gen /\ trace' \in 0..MaxGen
      BY <1>2, BoundAssumption DEF Begins, Gen
    <3>2. overtaken' \subseteq Gen /\ late' \subseteq Gen /\ startEnabled' \in BOOLEAN
      <4>1. {cur} \ {0} \subseteq Gen
        BY BoundAssumption DEF TypeOK, MainTypeOK, Gen
      <4>2. QED
        BY <1>2, <4>1 DEF Begins, NewSession, TypeOK, MainTypeOK
    <3>3. want' \in BOOLEAN /\ timer' \in BOOLEAN
      BY <1>1, Zenon DEF TypeOK, MainTypeOK
    <3>4. QED
      BY <1>1, <3>1, <3>2, <3>3 DEF TypeOK, MainTypeOK
  <2>2. WorkerTypeOK'
    BY <1>1, <1>2 DEF Begins, NewWorkerFlags, Entry, Active, Setup, TypeOK, WorkerTypeOK
  <2>3. QED
    BY <1>1, <2>1, <2>2 DEF TypeOK
<1>3. CASE Declines
  BY <1>1, <1>3 DEF Declines, TypeOK, MainTypeOK, WorkerTypeOK, history
<1>4. QED
  BY <1>1, <1>2, <1>3

(* The other handlers of the main thread.                                   *)
LEMMA MainTyped ==
    ASSUME TypeOK,
           StopClicked \/ PlotFails \/ ClearClicked \/ CloseClicked \/ DeliverSignal
    PROVE  TypeOK'
<1> USE DEF TypeOK, MainTypeOK, WorkerTypeOK, workerVars, history
<1>0. MaxGen \in Nat /\ 0 \in 0..MaxGen
  BY BoundAssumption
<1>1. CASE StopClicked \/ PlotFails
  <2>1. stop_stream /\ mpc = "loop"
    BY <1>1 DEF StopClicked, PlotFails, Idle
  <2>2. CASE Running(cur)
    BY <2>1, <2>2 DEF stop_stream, Running
  <2>3. CASE ~Running(cur)
    BY <2>1, <2>3 DEF stop_stream
  <2>4. QED
    BY <2>2, <2>3
<1>2. CASE ClearClicked
  BY <1>2 DEF ClearClicked, Idle
<1>3. CASE CloseClicked
  <2>1. CASE Running(cur)
    BY <1>3, <2>1 DEF CloseClicked, Running
  <2>2. CASE ~Running(cur)
    BY <1>0, <1>3, <2>2 DEF CloseClicked
  <2>3. QED
    BY <2>1, <2>2
<1>4. CASE DeliverSignal
  <2>1. queue \in Seq(Signal) /\ queue # <<>>
    BY <1>4 DEF DeliverSignal, Signal
  <2>2. Tail(queue) \in Seq(Signal) /\ Head(queue) \in Signal
    BY <2>1
  <2>3. Head(queue)[2] \in Gen
    BY <2>2 DEF Signal
  <2>4. queue' \in Seq({"sample", "finished"} \X Gen)
    BY <1>4, <2>2 DEF DeliverSignal, Signal
  <2>5. CASE AcceptSample(Head(queue)[2]) /\ Head(queue)[1] = "sample"
    BY <1>4, <2>3, <2>4, <2>5 DEF DeliverSignal, AcceptSample, Idle
  <2>6. CASE StreamFinished(Head(queue)[2])
    BY <1>0, <1>4, <2>3, <2>4, <2>6 DEF DeliverSignal, StreamFinished, Idle
  <2>7. QED
    BY <1>4, <2>5, <2>6 DEF DeliverSignal
<1>5. QED
  BY <1>1, <1>2, <1>3, <1>4

LEMMA TypeStep == TypeOK /\ [Next]_vars => TypeOK'
<1> SUFFICES ASSUME TypeOK, [Next]_vars PROVE TypeOK'
  OBVIOUS
<1>1. CASE MainStep
  BY <1>1, MainTyped, BeginTyped, StopTyped DEF MainStep
<1>2. CASE \E g \in Gen : WorkerStep(g)
  BY <1>2, WorkerTyped
<1>3. CASE UNCHANGED vars
  BY <1>3 DEF vars, mainVars, workerVars, history, TypeOK, MainTypeOK, WorkerTypeOK
<1>4. QED
  BY <1>1, <1>2, <1>3 DEF Next, Terminated

-----------------------------------------------------------------------------
(* One worker, and no stream forgotten.                                     *)

(* While stop() or closeEvent runs no stream is wanted, so that whoever     *)
(* waits for one finds the main thread in its loop.                         *)
NotWanted == mpc # "loop" \/ closing => ~want

Served == want => timer \/ Running(cur) \/ \E g \in Gen : FinishPending(g)

SessionInv == OneWorker /\ NotWanted /\ Served

LEMMA SessionInit == Init => SessionInv
BY DEF Init, SessionInv, OneWorker, NotWanted, Served, Running, Active, Setup

LEMMA SessionWorker ==
    ASSUME TypeOK, SessionInv, NEW g \in Gen, WorkerStep(g)
    PROVE  SessionInv'
<1>1. Aside /\ (Works(g) \/ Samples(g) \/ Posts(g))
  BY WorkerShape DEF TypeOK
<1>2. wpc \in [Gen -> Place] /\ queue \in Seq(Signal)
  BY DEF TypeOK, MainTypeOK, WorkerTypeOK, Place, Signal
<1>3. NotWanted'
  BY <1>1 DEF SessionInv, NotWanted, Aside
<1>4. OneWorker'
  <2>1. ASSUME NEW h \in Gen, wpc'[h] \in Active PROVE h = cur
    <3>1. wpc[h] \in Active
      BY <1>1, <1>2, <2>1 DEF Works, Samples, Posts, Active, Setup
    <3>2. QED
      BY <3>1 DEF SessionInv, OneWorker, Running, Gen
  <2>2. QED
    BY <1>1, <2>1 DEF OneWorker, Running, Aside
<1>5. Served'
  <2>1. ASSUME want' PROVE timer' \/ Running(cur)' \/ \E h \in Gen : FinishPending(h)'
    <3>1. want /\ timer' = timer /\ cur' = cur
      BY <1>1, <2>1 DEF Aside
    <3>2. CASE timer
      BY <3>1, <3>2
    <3>3. CASE Running(cur)
      <4>1. cur \in Gen
        BY <3>3, BoundAssumption DEF Running, TypeOK, MainTypeOK, Gen
      <4>2. wpc'[cur] \in Active \/ wpc'[cur] = "finishing"
        BY <1>1, <1>2, <3>3, <4>1 DEF Running, Works, Samples, Posts, Active, Setup
      <4>3. QED
        BY <3>1, <3>3, <4>1, <4>2 DEF Running, FinishPending
    <3>4. ASSUME NEW h \in Gen, FinishPending(h) PROVE FinishPending(h)'
      <4>1. CASE wpc[h] = "finishing"
        <5>1. CASE h = g /\ Posts(g)
          <6>1. queue' = Append(queue, <<"finished", g>>)
            BY <5>1 DEF Posts
          <6>2. Len(queue') = Len(queue) + 1 /\ queue'[Len(queue) + 1] = <<"finished", g>>
            BY <1>2, <6>1
          <6>3. Len(queue) + 1 \in 1..Len(queue')
            BY <1>2, <6>2
          <6>4. QED
            BY <5>1, <6>2, <6>3 DEF FinishPending
        <5>2. CASE ~(h = g /\ Posts(g))
          <6>1. wpc'[h] = "finishing"
            BY <1>1, <1>2, <4>1, <5>2 DEF Works, Samples, Posts, Active, Setup
          <6>2. QED
            BY <6>1 DEF FinishPending
        <5>3. QED
          BY <5>1, <5>2
      <4>2. CASE wpc[h] # "finishing"
        <5>1. PICK i \in 1..Len(queue) : queue[i] = <<"finished", h>>
          BY <3>4, <4>2 DEF FinishPending
        <5>2. queue' = queue \/ \E x \in Signal : queue' = Append(queue, x)
          BY <1>1 DEF Works, Samples, Posts, Signal
        <5>3. i \in 1..Len(queue') /\ queue'[i] = queue[i]
          BY <1>2, <5>1, <5>2
        <5>4. QED
          BY <5>1, <5>3 DEF FinishPending
      <4>3. QED
        BY <4>1, <4>2
    <3>5. QED
      BY <3>1, <3>2, <3>3, <3>4 DEF SessionInv, Served
  <2>2. QED
    BY <2>1 DEF Served
<1>6. QED
  BY <1>3, <1>4, <1>5 DEF SessionInv

(* The main thread.                                                         *)
LEMMA SessionMain == ASSUME TypeOK, SessionInv, MainStep PROVE SessionInv'
<1> USE DEF SessionInv
<1>0. /\ wpc \in [Gen -> Place] /\ queue \in Seq(Signal) /\ cur \in 0..MaxGen
      /\ MaxGen \in Nat
  BY BoundAssumption DEF TypeOK, MainTypeOK, WorkerTypeOK, Place, Signal
<1>1. CASE StartClicked \/ DemoStarts \/ TimerFires
  <2>1. /\ mpc = "loop" /\ ~closing /\ timer' = FALSE
        /\ UNCHANGED <<mpc, closing, queue>>
        /\ Begins \/ Declines
    BY <1>1, BeginShape
  <2>2. NotWanted'
    BY <2>1 DEF NotWanted
  <2>3. CASE Declines
    <3>1. OneWorker' /\ (want' => Running(cur)')
      BY <2>3 DEF Declines, OneWorker, Running
    <3>2. QED
      BY <2>2, <3>1 DEF Served
  <2>4. CASE Begins
    <3>1. /\ ~Running(cur) /\ cur + 1 \in Gen /\ cur' = cur + 1
          /\ wpc' = [wpc EXCEPT ![cur + 1] = Entry] /\ Entry \in Active
      BY <2>4 DEF Begins, Entry, Active, Setup
    <3>2. \A g \in Gen : wpc[g] \notin Active
      BY <3>1 DEF OneWorker, Running, Gen
    <3>3. OneWorker'
      BY <1>0, <3>1, <3>2 DEF OneWorker, Running
    <3>4. Running(cur)'
      BY <1>0, <3>1 DEF Running, Gen
    <3>5. QED
      BY <2>2, <3>3, <3>4 DEF Served
  <2>5. QED
    BY <2>1, <2>3, <2>4
<1>2. CASE StopClicked \/ PlotFails
  <2>1. want' = FALSE /\ UNCHANGED <<wpc, cur>>
    BY <1>2 DEF StopClicked, PlotFails, stop_stream
  <2>2. QED
    BY <2>1 DEF OneWorker, Running, NotWanted, Served
<1>3. CASE ClearClicked
  BY <1>3 DEF ClearClicked, workerVars, OneWorker, Running, NotWanted, Served, FinishPending
<1>4. CASE CloseClicked
  BY <1>4 DEF CloseClicked, OneWorker, Running, NotWanted, Served
<1>5. CASE StopCall
  <2>1. Halts
    BY <1>5, StopShape
  <2>2. ~want /\ want' = want /\ cur' = cur
    BY <2>1 DEF Halts, NotWanted
  <2>3. \A g \in Gen : wpc'[g] \in Active => wpc[g] \in Active
    BY <1>0, <2>1 DEF Halts, Active, Setup
  <2>4. OneWorker'
    BY <2>2, <2>3 DEF OneWorker, Running
  <2>5. QED
    BY <2>2, <2>4 DEF NotWanted, Served
<1>6. CASE DeliverSignal
  <2>1. /\ mpc = "loop" /\ ~closing /\ queue # <<>> /\ queue' = Tail(queue)
        /\ UNCHANGED <<mpc, want, closing, cur, wpc>>
    BY <1>6 DEF DeliverSignal, Idle, workerVars
  <2>2. OneWorker' /\ NotWanted'
    BY <2>1 DEF OneWorker, NotWanted, Running
  <2>3. CASE Head(queue)[1] = "sample"
    <3>1. timer' = timer
      BY <1>6, <2>3 DEF DeliverSignal, AcceptSample
    <3>2. ASSUME NEW g \in Gen, FinishPending(g) PROVE FinishPending(g)'
      <4>1. CASE wpc[g] = "finishing"
        BY <2>1, <4>1 DEF FinishPending
      <4>2. CASE wpc[g] # "finishing"
        <5>1. PICK i \in 1..Len(queue) : queue[i] = <<"finished", g>>
          BY <3>2, <4>2 DEF FinishPending
        <5>2. i # 1
          BY <1>0, <2>1, <2>3, <5>1
        <5>3. i - 1 \in 1..Len(queue') /\ queue'[i - 1] = queue[i]
          BY <1>0, <2>1, <5>1, <5>2
        <5>4. QED
          BY <5>1, <5>3 DEF FinishPending
      <4>3. QED
        BY <4>1, <4>2
    <3>3. Served'
      BY <2>1, <3>1, <3>2 DEF Served, Running
    <3>4. QED
      BY <2>2, <3>3
  <2>4. CASE Head(queue)[1] # "sample"
    <3>1. StreamFinished(Head(queue)[2])
      BY <1>6, <2>4 DEF DeliverSignal
    <3>2. Served'
      BY <2>1, <3>1 DEF StreamFinished, Served
    <3>3. QED
      BY <2>2, <3>2
  <2>5. QED
    BY <2>3, <2>4
<1>7. QED
  BY <1>1, <1>2, <1>3, <1>4, <1>5, <1>6 DEF MainStep

LEMMA SessionStep == TypeOK /\ SessionInv /\ [Next]_vars => SessionInv'
<1> SUFFICES ASSUME TypeOK, SessionInv, [Next]_vars PROVE SessionInv'
  OBVIOUS
<1>1. CASE UNCHANGED vars
  BY <1>1 DEF vars, mainVars, workerVars, history, SessionInv, OneWorker, NotWanted, Served, Running,
              FinishPending
<1>2. QED
  BY <1>1, SessionMain, SessionWorker DEF Next, Terminated

-----------------------------------------------------------------------------
(* SSH masters.                                                             *)

(* Only a worker that has begun its set-up has a master, and when it has    *)
(* left its finally clause the master is gone or was given up.              *)
MasterInv ==
    \A g \in Gen :
        /\ g > cur => wpc[g] = "new"
        /\ wpc[g] \in {"new", "demo"} => ~master[g]
        /\ wpc[g] \in {"finishing", "done"} /\ master[g] => forced # {}

LEMMA MasterInit == Init => MasterInv
BY DEF Init, MasterInv

LEMMA MasterWorker ==
    ASSUME TypeOK, MasterInv, NEW g \in Gen, WorkerStep(g)
    PROVE  MasterInv'
<1> DEFINE Kept(h) == /\ wpc'[h] \in {"new", "demo"} => ~master'[h]
                      /\ wpc'[h] \in {"finishing", "done"} /\ master'[h] => forced' # {}
<1>1. Aside /\ (Works(g) \/ Samples(g) \/ Posts(g))
  BY WorkerShape DEF TypeOK
<1>2. wpc \in [Gen -> Place] /\ master \in [Gen -> BOOLEAN]
  BY DEF TypeOK, WorkerTypeOK, Place
<1>3. ASSUME NEW h \in Gen, h > cur' PROVE wpc'[h] = "new"
  <2>1. wpc[h] = "new" /\ cur' = cur
    BY <1>1, <1>3 DEF Aside, MasterInv
  <2>2. QED
    BY <1>1, <1>2, <2>1 DEF Works, Samples, Posts, Active, Setup
<1>4. ASSUME NEW h \in Gen PROVE Kept(h)
  <2>0. /\ wpc[h] \in {"new", "demo"} => ~master[h]
        /\ wpc[h] \in {"finishing", "done"} /\ master[h] => forced # {}
    BY DEF MasterInv
  <2> USE <1>2, <2>0 DEF mainVars, workerVars, Go
  <2>1. CASE StageDone(g)
    <3>1. wpc[g] \in {"master", "deploy"} /\ NextStage[wpc[g]] \in {"deploy", "probe"}
      BY <2>1 DEF StageDone, NextStage
    <3>2. QED
      BY <2>1, <3>1 DEF StageDone
  <2>2. CASE StageFails(g)
    BY <2>2 DEF StageFails
  <2>3. CASE ProbeDone(g)
    BY <2>3 DEF ProbeDone
  <2>4. CASE Spawn(g)
    BY <2>4 DEF Spawn
  <2>5. CASE EmitSample(g) \/ DemoSample(g) \/ SshExits(g)
    BY <2>5 DEF EmitSample, DemoSample, SshExits
  <2>6. CASE BreakLoop(g) \/ LineRaises(g)
    BY <2>6 DEF BreakLoop, LineRaises
  <2>7. CASE ProcessWaited(g) \/ ForgetProcess(g)
    BY <2>7 DEF ProcessWaited, ForgetProcess
  <2>8. CASE CloseMaster(g)
    BY <2>8 DEF CloseMaster
  <2>9. CASE PostFinished(g)
    BY <2>9 DEF PostFinished
  <2>10. CASE DemoEnds(g)
    BY <2>10 DEF DemoEnds
  <2>11. QED
    BY <2>1, <2>2, <2>3, <2>4, <2>5, <2>6, <2>7, <2>8, <2>9, <2>10 DEF WorkerStep, Progress
<1>5. QED
  BY <1>3, <1>4 DEF MasterInv

LEMMA MasterMain == ASSUME TypeOK, MasterInv, MainStep PROVE MasterInv'
<1>0. /\ wpc \in [Gen -> Place] /\ cur \in 0..MaxGen /\ MaxGen \in Nat
  BY BoundAssumption DEF TypeOK, MainTypeOK, WorkerTypeOK, Place
<1>1. CASE StartClicked \/ DemoStarts \/ TimerFires
  <2>1. /\ UNCHANGED <<master, forced>>
        /\ Begins \/ Declines
    BY <1>1, BeginShape
  <2>2. CASE Begins
    <3>1. /\ cur + 1 \in Gen /\ cur' = cur + 1
          /\ wpc' = [wpc EXCEPT ![cur + 1] = Entry] /\ Entry \in {"master", "demo"}
      BY <2>2 DEF Begins, Entry
    <3>2. wpc[cur + 1] = "new" /\ ~master[cur + 1]
      BY <1>0, <3>1 DEF MasterInv, Gen
    <3>3. QED
      BY <1>0, <2>1, <3>1, <3>2 DEF MasterInv, Gen
  <2>3. CASE Declines
    BY <2>1, <2>3 DEF Declines, MasterInv
  <2>4. QED
    BY <2>1, <2>2, <2>3
<1>2. CASE StopCall
  <2>1. cur' = cur /\ master' = master
    BY <1>2 DEF StopCall, StopCheck, StopPoll, StopWrite, StopWait, StopKill, StopStep, CloseWait,
                workerVars
  <2>2. CASE CloseWait /\ Running(cur)
    <3>1. /\ cur \in Gen /\ wpc' = [wpc EXCEPT ![cur] = "done"]
          /\ forced' = forced \cup {"thread"}
      BY <1>0, <2>2 DEF CloseWait, Running, Gen
    <3>2. QED
      BY <1>0, <2>1, <3>1 DEF MasterInv, Gen
  <2>3. CASE ~(CloseWait /\ Running(cur))
    <3>1. wpc' = wpc /\ forced' = forced
      BY <1>2, <2>3 DEF StopCall, StopCheck, StopPoll, StopWrite, StopWait, StopKill, StopStep,
                        CloseWait, workerVars
    <3>2. QED
      BY <2>1, <3>1 DEF MasterInv
  <2>4. QED
    BY <2>2, <2>3
<1>3. CASE StopClicked \/ PlotFails \/ ClearClicked \/ CloseClicked \/ DeliverSignal
  <2>1. UNCHANGED <<cur, wpc, master, forced>>
    BY <1>3 DEF StopClicked, PlotFails, stop_stream, ClearClicked, CloseClicked, DeliverSignal,
                workerVars
  <2>2. QED
    BY <2>1 DEF MasterInv
<1>4. QED
  BY <1>1, <1>2, <1>3 DEF MainStep

LEMMA MasterStep == TypeOK /\ MasterInv /\ [Next]_vars => MasterInv'
<1> SUFFICES ASSUME TypeOK, MasterInv, [Next]_vars PROVE MasterInv'
  OBVIOUS
<1>1. CASE UNCHANGED vars
  BY <1>1 DEF vars, mainVars, workerVars, history, MasterInv
<1>2. QED
  BY <1>1, MasterMain, MasterWorker DEF Next, Terminated
-----------------------------------------------------------------------------
(* Signals keep to their session.                                           *)

(* A queued signal is of no later worker than the current one; "finished"   *)
(* is posted once, by a thread that is over.                                *)
Posted ==
    \A i \in 1..Len(queue) :
        /\ queue[i][2] <= cur
        /\ queue[i][1] = "finished" =>
              /\ wpc[queue[i][2]] = "done"
              /\ \A j \in 1..Len(queue) : queue[j] = queue[i] => j = i

(* What samples wait and are held comes in the order of the workers, and    *)
(* from an unbroken chain of them.                                          *)
Chained(g) == g <= cur /\ \A h \in g..(cur - 1) : h \in overtaken

Queued(i) == i \in 1..Len(queue) /\ queue[i][1] = "sample"

Sorted ==
    /\ \A g \in held : Chained(g)
    /\ \A i \in 1..Len(queue) : Queued(i) =>
          /\ Chained(queue[i][2])
          /\ \A g \in held : g <= queue[i][2]
          /\ \A j \in 1..Len(queue) : Queued(j) /\ i < j => queue[i][2] <= queue[j][2]

(* A sample is handled before the "finished" of the current worker.         *)
Attended ==
    mpc # "closed" => \A i \in 1..Len(queue) : Queued(i) =>
        \/ Running(cur) \/ wpc[cur] = "finishing"
        \/ \E j \in 1..Len(queue) : i < j /\ queue[j] = <<"finished", cur>>

(* The workers before the current one: only from those that were overtaken  *)
(* is a "finished" still to come.                                           *)
Overtaking ==
    /\ late \subseteq overtaken
    /\ \A g \in Gen : g > cur => wpc[g] = "new"
    /\ \A g \in Gen : g < cur /\ FinishPending(g) => g \in overtaken

(* A session that no late "finished" has come into is still whole.          *)
Session ==
    late = {} /\ mpc # "closed" =>
        /\ Running(cur) \/ (cur # 0 /\ FinishPending(cur)) => trace = cur /\ ~timer
        /\ startEnabled => ~want /\ ~Running(cur)

OrderInv == Posted /\ Sorted /\ Attended /\ Overtaking /\ Session

LEMMA OrderInit == Init => OrderInv
<1> SUFFICES ASSUME Init PROVE OrderInv
  OBVIOUS
<1>1. /\ queue = <<>> /\ held = {} /\ cur = 0 /\ late = {} /\ ~want
      /\ wpc = [g \in Gen |-> "new"]
  BY DEF Init
<1>2. Len(queue) = 0 /\ ~Running(cur)
  BY <1>1 DEF Running
<1>3. QED
  BY <1>1, <1>2 DEF OrderInv, Posted, Sorted, Attended, Overtaking, Session, FinishPending, Gen

LEMMA Domains ==
    ASSUME TypeOK
    PROVE  /\ wpc \in [Gen -> Place] /\ queue \in Seq(Signal)
           /\ Len(queue) \in Nat /\ \A i \in 1..Len(queue) : queue[i] \in Signal
           /\ cur \in 0..MaxGen /\ MaxGen \in Nat /\ held \subseteq Gen
<1>1. queue \in Seq(Signal)
  BY DEF TypeOK, MainTypeOK, Signal
<1>2. QED
  BY <1>1, BoundAssumption DEF TypeOK, MainTypeOK, WorkerTypeOK, Place

(* What Append leaves in place.                                             *)
LEMMA QueueGrows ==
    ASSUME TypeOK, NEW x \in Signal, queue' = Append(queue, x)
    PROVE  /\ Len(queue') = Len(queue) + 1 /\ queue'[Len(queue) + 1] = x
           /\ \A i \in 1..Len(queue) : i \in 1..Len(queue') /\ queue'[i] = queue[i]
           /\ \A i \in 1..Len(queue') : i \in 1..Len(queue) \/ i = Len(queue) + 1
<1>1. queue \in Seq(Signal) /\ Len(queue) \in Nat
  BY Domains
<1>2. QED
  BY <1>1

(* Where none of what the invariant is about moves, but what is taken away. *)
LEMMA OrderQuiet ==
    ASSUME OrderInv,
           UNCHANGED <<cur, queue, wpc, overtaken, late>>, held' \subseteq held,
           mpc' # "closed" => mpc # "closed" /\ trace' = trace,
           timer' = FALSE \/ timer' = timer,
           startEnabled' => (startEnabled /\ (want' => want)) \/ (~want' /\ ~Running(cur))
    PROVE  OrderInv'
<1>1. Posted'
  BY DEF OrderInv, Posted
<1>2. Overtaking'
  BY DEF OrderInv, Overtaking, FinishPending
<1>3. Sorted'
  BY DEF OrderInv, Sorted, Chained, Queued
<1>4. Attended'
  BY DEF OrderInv, Attended, Queued, Running
<1>5. Session'
  BY DEF OrderInv, Session, Running, FinishPending
<1>6. QED
  BY <1>1, <1>2, <1>3, <1>4, <1>5 DEF OrderInv

(* A worker that goes on is the current one.                                *)
LEMMA OrderWorks ==
    ASSUME TypeOK, OneWorker, OrderInv, NEW g \in Gen, Aside, Works(g)
    PROVE  OrderInv'
<1>1. /\ wpc \in [Gen -> Place] /\ Len(queue) \in Nat /\ cur \in 0..MaxGen /\ MaxGen \in Nat
      /\ \A i \in 1..Len(queue) : queue[i] \in Signal
  BY Domains
<1>2. queue' = queue /\ UNCHANGED <<mpc, want, timer, startEnabled, cur, held, trace, overtaken, late>>
  BY DEF Works, Aside, history
<1>3. CASE wpc' = wpc
  BY <1>2, <1>3, OrderQuiet
<1>4. CASE wpc' # wpc
  <2>1. wpc[g] \in Active /\ \E a \in Active \cup {"finishing"} : wpc' = [wpc EXCEPT ![g] = a]
    BY <1>4 DEF Works
  <2>2. g = cur /\ cur # 0 /\ Running(cur)
    BY <1>1, <2>1 DEF OneWorker, Running, Gen
  <2>3. /\ wpc'[cur] \in Active \cup {"finishing"} /\ wpc[cur] \in Active
        /\ \A h \in Gen : h # cur => wpc'[h] = wpc[h]
    BY <1>1, <2>1, <2>2
  <2>4. wpc[cur] # "done" /\ wpc[cur] # "finishing" /\ wpc[cur] # "new"
    BY <2>3 DEF Active, Setup
  <2>5. \A i \in 1..Len(queue) : queue[i][2] \in Gen
    BY <1>1 DEF Signal
  <2>6. Posted'
    BY <1>2, <2>3, <2>4, <2>5 DEF OrderInv, Posted
  <2>7. Sorted'
    BY <1>2 DEF OrderInv, Sorted, Chained, Queued
  <2>8. Running(cur)' \/ wpc'[cur] = "finishing"
    BY <1>2, <2>2, <2>3 DEF Running
  <2>9. Attended'
    BY <1>2, <2>8 DEF Attended
  <2>10. Overtaking'
    <3>1. \A h \in Gen : h > cur => wpc'[h] = "new"
      BY <1>1, <2>3 DEF OrderInv, Overtaking, Gen
    <3>2. \A h \in Gen : h < cur /\ FinishPending(h)' => FinishPending(h)
      BY <1>1, <1>2, <2>3 DEF FinishPending, Gen
    <3>3. QED
      BY <1>2, <3>1, <3>2 DEF OrderInv, Overtaking
  <2>11. Session'
    BY <1>2, <2>2 DEF OrderInv, Session
  <2>12. QED
    BY <2>6, <2>7, <2>9, <2>10, <2>11 DEF OrderInv
<1>5. QED
  BY <1>3, <1>4

(* So is the worker that emits a sample.                                    *)
LEMMA OrderSamples ==
    ASSUME TypeOK, OneWorker, OrderInv, NEW g \in Gen, Aside, Samples(g)
    PROVE  OrderInv'
<1>1. /\ Len(queue) \in Nat /\ cur \in 0..MaxGen /\ MaxGen \in Nat /\ held \subseteq Gen
      /\ \A i \in 1..Len(queue) : queue[i] \in Signal
  BY Domains
<1>2. wpc' = wpc /\ UNCHANGED <<mpc, want, timer, startEnabled, cur, held, trace, overtaken, late>>
  BY DEF Samples, Aside, history
<1>3. g = cur /\ cur # 0 /\ Running(cur)
  BY <1>1 DEF Samples, OneWorker, Running, Gen
<1>4. <<"sample", g>> \in Signal /\ queue' = Append(queue, <<"sample", g>>)
  BY DEF Samples, Signal
<1>5. /\ Len(queue') = Len(queue) + 1 /\ queue'[Len(queue) + 1] = <<"sample", cur>>
      /\ \A i \in 1..Len(queue) : i \in 1..Len(queue') /\ queue'[i] = queue[i]
      /\ \A i \in 1..Len(queue') : i \in 1..Len(queue) \/ i = Len(queue) + 1
  BY <1>3, <1>4, QueueGrows
<1>6. Posted'
  <2>1. ASSUME NEW i \in 1..Len(queue')
        PROVE  /\ queue'[i][2] <= cur
               /\ queue'[i][1] = "finished" =>
                    /\ wpc[queue'[i][2]] = "done"
                    /\ \A j \in 1..Len(queue') : queue'[j] = queue'[i] => j = i
    <3>1. CASE i = Len(queue) + 1
      BY <1>1, <1>5, <3>1
    <3>2. CASE i \in 1..Len(queue)
      <4>1. queue'[i] = queue[i]
        BY <1>5, <3>2
      <4>2. ASSUME queue[i][1] = "finished", NEW j \in 1..Len(queue'), queue'[j] = queue[i]
            PROVE  j = i
        <5>1. j # Len(queue) + 1
          BY <1>5, <4>2
        <5>2. j \in 1..Len(queue) /\ queue[j] = queue[i]
          BY <1>5, <4>2, <5>1
        <5>3. QED
          BY <3>2, <4>2, <5>2 DEF OrderInv, Posted
      <4>3. QED
        BY <3>2, <4>1, <4>2 DEF OrderInv, Posted
    <3>3. QED
      BY <1>5, <3>1, <3>2
  <2>2. QED
    BY <1>2, <2>1 DEF Posted
<1>7. Sorted'
  <2>1. Chained(cur) /\ \A h \in held : Chained(h) /\ h <= cur
    BY <1>1 DEF OrderInv, Sorted, Chained
  <2>2. ASSUME NEW i \in 1..Len(queue'), queue'[i][1] = "sample"
        PROVE  /\ Chained(queue'[i][2])
               /\ \A h \in held : h <= queue'[i][2]
               /\ \A j \in 1..Len(queue') :
                    queue'[j][1] = "sample" /\ i < j => queue'[i][2] <= queue'[j][2]
    <3>1. CASE i = Len(queue) + 1
      BY <1>1, <1>5, <2>1, <3>1
    <3>2. CASE i \in 1..Len(queue)
      <4>1. queue'[i] = queue[i] /\ Queued(i)
        BY <1>5, <2>2, <3>2 DEF Queued
      <4>2. Chained(queue[i][2]) /\ queue[i][2] <= cur /\ \A h \in held : h <= queue[i][2]
        BY <3>2, <4>1 DEF OrderInv, Sorted, Chained
      <4>3. ASSUME NEW j \in 1..Len(queue'), queue'[j][1] = "sample", i < j
            PROVE  queue[i][2] <= queue'[j][2]
        <5>1. CASE j = Len(queue) + 1
          BY <1>5, <4>2, <5>1
        <5>2. CASE j \in 1..Len(queue)
          BY <1>5, <3>2, <4>1, <4>3, <5>2 DEF OrderInv, Sorted, Queued
        <5>3. QED
          BY <1>5, <5>1, <5>2
      <4>4. QED
        BY <4>1, <4>2, <4>3
    <3>3. QED
      BY <1>5, <3>1, <3>2
  <2>3. QED
    BY <1>2, <2>1, <2>2 DEF Sorted, Chained, Queued
<1>8. Running(cur)'
  BY <1>2, <1>3 DEF Running
<1>9. Attended'
  BY <1>8 DEF Attended
<1>10. \A h \in Gen : FinishPending(h)' => FinishPending(h)
  <2>1. ASSUME NEW h \in Gen, NEW i \in 1..Len(queue'), queue'[i] = <<"finished", h>>
        PROVE  i \in 1..Len(queue) /\ queue[i] = <<"finished", h>>
    <3>1. i # Len(queue) + 1
      BY <1>5, <2>1
    <3>2. QED
      BY <1>5, <2>1, <3>1
  <2>2. QED
    BY <1>2, <2>1 DEF FinishPending
<1>11. Overtaking'
  BY <1>2, <1>10 DEF OrderInv, Overtaking
<1>12. Session'
  BY <1>2, <1>3 DEF OrderInv, Session
<1>13. QED
  BY <1>6, <1>7, <1>9, <1>11, <1>12 DEF OrderInv

(* "finished" may come from a worker before the current one.                *)
LEMMA OrderPosts ==
    ASSUME TypeOK, OneWorker, OrderInv, NEW g \in Gen, Aside, Posts(g)
    PROVE  OrderInv'
<1>1. /\ wpc \in [Gen -> Place] /\ Len(queue) \in Nat /\ cur \in 0..MaxGen /\ MaxGen \in Nat
      /\ \A i \in 1..Len(queue) : queue[i] \in Signal
  BY Domains
<1>2. UNCHANGED <<mpc, want, timer, startEnabled, cur, held, trace, overtaken, late>>
  BY DEF Aside, history
<1>3. /\ wpc[g] = "finishing" /\ wpc'[g] = "done"
      /\ \A h \in Gen : h # g => wpc'[h] = wpc[h]
  BY <1>1 DEF Posts
<1>4. g <= cur
  BY <1>1, <1>3 DEF OrderInv, Overtaking, Gen
<1>5. <<"finished", g>> \in Signal /\ queue' = Append(queue, <<"finished", g>>)
  BY DEF Posts, Signal
<1>6. /\ Len(queue') = Len(queue) + 1 /\ queue'[Len(queue) + 1] = <<"finished", g>>
      /\ \A i \in 1..Len(queue) : i \in 1..Len(queue') /\ queue'[i] = queue[i]
      /\ \A i \in 1..Len(queue') : i \in 1..Len(queue) \/ i = Len(queue) + 1
  BY <1>5, QueueGrows
<1>7. \A i \in 1..Len(queue) : queue[i] # <<"finished", g>> /\ queue[i][2] \in Gen
  <2>1. ASSUME NEW i \in 1..Len(queue), queue[i] = <<"finished", g>> PROVE FALSE
    <3>1. queue[i][1] = "finished" /\ queue[i][2] = g
      BY <2>1
    <3>2. wpc[g] = "done"
      BY <3>1 DEF OrderInv, Posted
    <3>3. QED
      BY <1>3, <3>2
  <2>2. QED
    BY <1>1, <2>1 DEF Signal
<1>8. Posted'
  <2>1. ASSUME NEW i \in 1..Len(queue')
        PROVE  /\ queue'[i][2] <= cur
               /\ queue'[i][1] = "finished" =>
                    /\ wpc'[queue'[i][2]] = "done"
                    /\ \A j \in 1..Len(queue') : queue'[j] = queue'[i] => j = i
    <3>1. CASE i = Len(queue) + 1
      <4>1. queue'[i] = <<"finished", g>>
        BY <1>6, <3>1
      <4>2. \A j \in 1..Len(queue') : queue'[j] = <<"finished", g>> => j = i
        BY <1>6, <1>7, <3>1
      <4>3. QED
        BY <1>3, <1>4, <4>1, <4>2
    <3>2. CASE i \in 1..Len(queue)
      <4>1. queue'[i] = queue[i] /\ queue[i][2] \in Gen /\ queue[i][2] <= cur
        BY <1>6, <1>7, <3>2 DEF OrderInv, Posted
      <4>2. ASSUME queue[i][1] = "finished"
            PROVE  /\ wpc'[queue[i][2]] = "done"
                   /\ \A j \in 1..Len(queue') : queue'[j] = queue[i] => j = i
        <5>1. /\ wpc[queue[i][2]] = "done"
              /\ \A j \in 1..Len(queue) : queue[j] = queue[i] => j = i
          BY <3>2, <4>2 DEF OrderInv, Posted
        <5>2. wpc'[queue[i][2]] = "done"
          BY <1>3, <4>1, <5>1
        <5>3. ASSUME NEW j \in 1..Len(queue'), queue'[j] = queue[i] PROVE j = i
          <6>1. j # Len(queue) + 1
            BY <1>6, <1>7, <3>2, <5>3
          <6>2. j \in 1..Len(queue) /\ queue[j] = queue[i]
            BY <1>6, <5>3, <6>1
          <6>3. QED
            BY <5>1, <6>2
        <5>4. QED
          BY <5>2, <5>3
      <4>3. QED
        BY <4>1, <4>2
    <3>3. QED
      BY <1>6, <3>1, <3>2
  <2>2. QED
    BY <1>2, <2>1 DEF Posted
<1>9. \A i \in 1..Len(queue') : queue'[i][1] = "sample" => Queued(i) /\ queue'[i] = queue[i]
  <2>1. ASSUME NEW i \in 1..Len(queue'), queue'[i][1] = "sample"
        PROVE  Queued(i) /\ queue'[i] = queue[i]
    <3>1. i # Len(queue) + 1
      BY <1>6, <2>1
    <3>2. QED
      BY <1>6, <2>1, <3>1 DEF Queued
  <2>2. QED
    BY <2>1
<1>10. Sorted'
  <2>1. ASSUME NEW i \in 1..Len(queue'), queue'[i][1] = "sample"
        PROVE  /\ Chained(queue'[i][2])
               /\ \A h \in held : h <= queue'[i][2]
               /\ \A j \in 1..Len(queue') :
                    queue'[j][1] = "sample" /\ i < j => queue'[i][2] <= queue'[j][2]
    BY <1>9, <2>1 DEF OrderInv, Sorted, Queued
  <2>2. \A h \in held : Chained(h)
    BY DEF OrderInv, Sorted
  <2>3. QED
    BY <1>2, <2>1, <2>2 DEF Sorted, Chained, Queued
<1>11. Attended'
  <2>1. ASSUME mpc # "closed", NEW i \in 1..Len(queue'), queue'[i][1] = "sample"
        PROVE  \/ Running(cur)' \/ wpc'[cur] = "finishing"
               \/ \E j \in 1..Len(queue') : i < j /\ queue'[j] = <<"finished", cur>>
    <3>1. Queued(i) /\ i \in 1..Len(queue)
      BY <1>9, <2>1 DEF Queued
    <3>2. CASE cur = g
      BY <1>6, <3>1, <3>2
    <3>3. CASE cur # g
      <4>1. cur \in Gen
        BY <1>1, <1>4 DEF Gen
      <4>2. wpc'[cur] = wpc[cur]
        BY <1>3, <3>3, <4>1
      <4>3. CASE Running(cur) \/ wpc[cur] = "finishing"
        BY <1>2, <4>2, <4>3 DEF Running
      <4>4. ASSUME NEW j \in 1..Len(queue), i < j, queue[j] = <<"finished", cur>>
            PROVE  \E k \in 1..Len(queue') : i < k /\ queue'[k] = <<"finished", cur>>
        BY <1>6, <4>4
      <4>5. QED
        BY <2>1, <3>1, <4>3, <4>4 DEF OrderInv, Attended
    <3>4. QED
      BY <3>2, <3>3
  <2>2. QED
    BY <1>2, <2>1 DEF Attended, Queued
<1>12. \A h \in Gen : FinishPending(h)' => FinishPending(h)
  <2>1. ASSUME NEW h \in Gen, NEW i \in 1..Len(queue'), queue'[i] = <<"finished", h>>
        PROVE  FinishPending(h)
    <3>1. CASE i = Len(queue) + 1
      BY <1>3, <1>6, <2>1, <3>1 DEF FinishPending
    <3>2. CASE i \in 1..Len(queue)
      BY <1>6, <2>1, <3>2 DEF FinishPending
    <3>3. QED
      BY <1>6, <3>1, <3>2
  <2>2. \A h \in Gen : wpc'[h] = "finishing" => wpc[h] = "finishing"
    BY <1>3
  <2>3. QED
    BY <2>1, <2>2 DEF FinishPending
<1>13. Overtaking'
  <2>1. \A h \in Gen : h > cur => wpc'[h] = "new"
    BY <1>1, <1>3, <1>4 DEF OrderInv, Overtaking, Gen
  <2>2. QED
    BY <1>2, <1>12, <2>1 DEF OrderInv, Overtaking
<1>14. Session'
  <2>1. Running(cur)' => Running(cur)
    BY <1>1, <1>2, <1>3 DEF Running, Active, Setup, Gen
  <2>2. cur # 0 /\ FinishPending(cur)' => FinishPending(cur)
    BY <1>1, <1>2, <1>12 DEF Gen
  <2>3. QED
    BY <1>2, <2>1, <2>2 DEF OrderInv, Session
<1>15. QED
  BY <1>8, <1>10, <1>11, <1>13, <1>14 DEF OrderInv

(* A start that does not wait: the samples that are left belong to the      *)
(* worker whose "finished" is still to come, or to one before it.           *)
LEMMA OrderBegin ==
    ASSUME TypeOK, OrderInv, StartClicked \/ DemoStarts \/ TimerFires
    PROVE  OrderInv'
<1>1. /\ wpc \in [Gen -> Place] /\ Len(queue) \in Nat /\ cur \in 0..MaxGen /\ MaxGen \in Nat
      /\ \A i \in 1..Len(queue) : queue[i] \in Signal
  BY Domains
<1>2. /\ mpc = "loop" /\ timer' = FALSE /\ (want' = TRUE \/ want' = want)
      /\ mpc' = mpc /\ queue' = queue
      /\ Begins \/ Declines
  BY BeginShape
<1>3. CASE Declines
  <2>1. /\ UNCHANGED <<cur, wpc, held, trace, startEnabled, overtaken, late>>
        /\ Running(cur) \/ ~want'
    BY <1>3 DEF Declines, history
  <2>2. Session'
    BY <1>2, <2>1 DEF OrderInv, Session, Running, FinishPending
  <2>3. /\ Posted' /\ Sorted'
        /\ Attended' /\ Overtaking'
    <3>1. Posted'
      BY <1>2, <2>1 DEF OrderInv, Posted
    <3>2. Sorted'
      BY <1>2, <2>1 DEF OrderInv, Sorted, Chained, Queued
    <3>3. Attended'
      BY <1>2, <2>1 DEF OrderInv, Attended, Queued, Running
    <3>4. Overtaking'
      BY <1>2, <2>1 DEF OrderInv, Overtaking, FinishPending
    <3>5. QED
      BY <3>1, <3>2, <3>3, <3>4
  <2>4. QED
    BY <2>2, <2>3 DEF OrderInv
<1>4. CASE Begins
  <2>1. /\ ~Running(cur) /\ cur + 1 \in Gen /\ cur' = cur + 1
        /\ held' = {} /\ trace' = cur + 1 /\ startEnabled' = FALSE /\ late' = {}
        /\ overtaken' = overtaken \cup {g \in {cur} \ {0} : FinishPending(g)}
    BY <1>4 DEF Begins, NewSession
  <2>2. /\ wpc'[cur + 1] \in Active
        /\ \A g \in Gen : g # cur + 1 => wpc'[g] = wpc[g]
    BY <1>1, <1>4, <2>1 DEF Begins, Entry, Active, Setup
  <2>3. \A i \in 1..Len(queue) : queue[i][2] \in Gen /\ queue[i][2] <= cur
    BY <1>1 DEF Signal, OrderInv, Posted
  <2>4. Posted'
    BY <1>1, <1>2, <2>1, <2>2, <2>3 DEF OrderInv, Posted, Gen
  <2>5. ASSUME NEW i \in 1..Len(queue), Queued(i)
        PROVE  \A h \in queue[i][2]..cur : h \in overtaken'
    <3>1. FinishPending(cur)
      BY <1>2, <2>1, <2>5 DEF OrderInv, Attended, FinishPending
    <3>2. cur # 0
      BY <1>1, <2>3, <2>5 DEF Gen
    <3>3. cur \in overtaken'
      BY <2>1, <3>1, <3>2
    <3>4. \A h \in queue[i][2]..(cur - 1) : h \in overtaken'
      BY <2>1, <2>5 DEF OrderInv, Sorted, Chained
    <3>5. QED
      BY <1>1, <2>3, <3>3, <3>4 DEF Gen
  <2>6. Sorted'
    <3>1. ASSUME NEW i \in 1..Len(queue), Queued(i)
          PROVE  Chained(queue[i][2])'
      <4>1. cur' - 1 = cur
        BY <1>1, <2>1
      <4>2. queue[i][2] <= cur'
        BY <1>1, <2>1, <2>3 DEF Gen
      <4>3. \A h \in queue[i][2]..(cur' - 1) : h \in overtaken'
        BY <2>5, <3>1, <4>1
      <4>4. QED
        BY <1>2, <4>2, <4>3 DEF Chained
    <3>2. \A i, j \in 1..Len(queue) : Queued(i) /\ Queued(j) /\ i < j => queue[i][2] <= queue[j][2]
      BY DEF OrderInv, Sorted
    <3>3. QED
      BY <1>2, <2>1, <3>1, <3>2 DEF Sorted, Queued
  <2>7. Running(cur)'
    BY <1>1, <2>1, <2>2 DEF Running
  <2>8. Attended'
    BY <2>7 DEF Attended
  <2>9. Overtaking'
    <3>1. \A g \in Gen : g > cur + 1 => wpc'[g] = "new"
      BY <1>1, <2>2 DEF OrderInv, Overtaking, Gen
    <3>2. ASSUME NEW g \in Gen, g < cur + 1, FinishPending(g)' PROVE g \in overtaken'
      <4>1. g <= cur /\ g # 0
        BY <1>1, <3>2 DEF Gen
      <4>2. FinishPending(g)
        BY <1>1, <1>2, <2>2, <3>2, <4>1 DEF FinishPending, Gen
      <4>3. CASE g = cur
        BY <2>1, <4>1, <4>2, <4>3
      <4>4. CASE g # cur
        <5>1. g < cur
          BY <1>1, <4>1, <4>4 DEF Gen
        <5>2. QED
          BY <2>1, <4>2, <5>1 DEF OrderInv, Overtaking
      <4>5. QED
        BY <4>3, <4>4
    <3>3. QED
      BY <2>1, <3>1, <3>2 DEF Overtaking
  <2>10. Session'
    BY <1>2, <2>1 DEF Session
  <2>11. QED
    BY <2>4, <2>6, <2>8, <2>9, <2>10 DEF OrderInv
<1>5. QED
  BY <1>2, <1>3, <1>4

(* What Tail leaves in place.                                               *)
LEMMA QueueShrinks ==
    ASSUME TypeOK, queue # <<>>, queue' = Tail(queue)
    PROVE  /\ Len(queue) >= 1 /\ Len(queue') = Len(queue) - 1
           /\ Head(queue) = queue[1] /\ queue[1] \in Signal
           /\ \A i \in 1..Len(queue') : i + 1 \in 1..Len(queue) /\ queue'[i] = queue[i + 1]
           /\ \A i \in 2..Len(queue) : i - 1 \in 1..Len(queue') /\ queue'[i - 1] = queue[i]
<1>1. queue \in Seq(Signal) /\ Len(queue) \in Nat
  BY Domains
<1>2. QED
  BY <1>1

(* What holds of the signals holds of those behind the first; they are one  *)
(* place on.                                                                *)
LEMMA OrderDeliver == ASSUME TypeOK, OrderInv, DeliverSignal PROVE OrderInv'
<1>1. /\ wpc \in [Gen -> Place] /\ Len(queue) \in Nat /\ cur \in 0..MaxGen /\ MaxGen \in Nat
      /\ held \subseteq Gen /\ \A i \in 1..Len(queue) : queue[i] \in Signal
  BY Domains
<1>2. /\ mpc = "loop" /\ ~closing /\ queue # <<>> /\ queue' = Tail(queue)
      /\ UNCHANGED <<mpc, want, closing, cur, wpc, overtaken>>
  BY DEF DeliverSignal, Idle, workerVars
<1>3. /\ Len(queue) >= 1 /\ Len(queue') = Len(queue) - 1
      /\ Head(queue) = queue[1] /\ queue[1] \in Signal
      /\ \A i \in 1..Len(queue') : i + 1 \in 1..Len(queue) /\ queue'[i] = queue[i + 1]
      /\ \A i \in 2..Len(queue) : i - 1 \in 1..Len(queue') /\ queue'[i - 1] = queue[i]
  BY <1>2, QueueShrinks
<1> DEFINE g == queue[1][2]
<1>4. g \in Gen /\ 1 \in 1..Len(queue) /\ queue[1] = <<queue[1][1], g>>
      /\ queue[1][1] \in {"sample", "finished"}
  BY <1>1, <1>3 DEF Signal
<1>5. \/ queue[1][1] = "sample" /\ AcceptSample(g)
      \/ queue[1][1] = "finished" /\ StreamFinished(g)
  BY <1>3, <1>4 DEF DeliverSignal
<1> HIDE DEF g
<1>6. \A i \in 1..Len(queue') : i + 1 # 1 /\ i + 1 > 1
  OBVIOUS
<1>7. Posted'
  <2>1. ASSUME NEW i \in 1..Len(queue')
        PROVE  /\ queue'[i][2] <= cur
               /\ queue'[i][1] = "finished" =>
                    /\ wpc[queue'[i][2]] = "done"
                    /\ \A j \in 1..Len(queue') : queue'[j] = queue'[i] => j = i
    <3>1. i + 1 \in 1..Len(queue) /\ queue'[i] = queue[i + 1]
      BY <1>3
    <3>2. /\ queue[i + 1][2] <= cur
          /\ queue[i + 1][1] = "finished" =>
                /\ wpc[queue[i + 1][2]] = "done"
                /\ \A j \in 1..Len(queue) : queue[j] = queue[i + 1] => j = i + 1
      BY <3>1 DEF OrderInv, Posted
    <3>3. ASSUME queue[i + 1][1] = "finished", NEW j \in 1..Len(queue'), queue'[j] = queue[i + 1]
          PROVE  j = i
      <4>1. j + 1 \in 1..Len(queue) /\ queue[j + 1] = queue[i + 1]
        BY <1>3, <3>3
      <4>2. j + 1 = i + 1
        BY <3>2, <3>3, <4>1
      <4>3. QED
        BY <4>2
    <3>4. QED
      BY <3>1, <3>2, <3>3
  <2>2. QED
    BY <1>2, <2>1 DEF Posted
<1>8. Sorted'
  <2>1. \A h \in held' : h \in held \/ (h = g /\ Queued(1))
    BY <1>4, <1>5 DEF AcceptSample, StreamFinished, Queued
  <2>2. \A h \in held' : Chained(h)
    BY <1>4, <2>1 DEF OrderInv, Sorted, g
  <2>3. ASSUME NEW i \in 1..Len(queue'), queue'[i][1] = "sample"
        PROVE  /\ Chained(queue'[i][2])
               /\ \A h \in held' : h <= queue'[i][2]
               /\ \A j \in 1..Len(queue') :
                    queue'[j][1] = "sample" /\ i < j => queue'[i][2] <= queue'[j][2]
    <3>1. Queued(i + 1) /\ i + 1 \in 1..Len(queue) /\ queue'[i] = queue[i + 1] /\ 1 < i + 1
      BY <1>3, <2>3 DEF Queued
    <3>2. Chained(queue[i + 1][2]) /\ \A h \in held : h <= queue[i + 1][2]
      BY <3>1 DEF OrderInv, Sorted
    <3>3. Queued(1) => g <= queue[i + 1][2]
      BY <1>4, <3>1 DEF OrderInv, Sorted, g
    <3>4. ASSUME NEW j \in 1..Len(queue'), queue'[j][1] = "sample", i < j
          PROVE  queue[i + 1][2] <= queue'[j][2]
      <4>1. Queued(j + 1) /\ j + 1 \in 1..Len(queue) /\ queue'[j] = queue[j + 1] /\ i + 1 < j + 1
        BY <1>3, <3>4 DEF Queued
      <4>2. QED
        BY <3>1, <4>1 DEF OrderInv, Sorted
    <3>5. QED
      BY <2>1, <3>1, <3>2, <3>3, <3>4
  <2>4. QED
    BY <1>2, <2>2, <2>3 DEF Sorted, Chained, Queued
<1>9. Attended'
  <2>1. ASSUME NEW i \in 1..Len(queue'), queue'[i][1] = "sample"
        PROVE  \/ Running(cur) \/ wpc[cur] = "finishing"
               \/ \E j \in 1..Len(queue') : i < j /\ queue'[j] = <<"finished", cur>>
    <3>1. Queued(i + 1) /\ i + 1 \in 1..Len(queue)
      BY <1>3, <2>1 DEF Queued
    <3>2. CASE Running(cur) \/ wpc[cur] = "finishing"
      BY <3>2
    <3>3. ASSUME NEW j \in 1..Len(queue), i + 1 < j, queue[j] = <<"finished", cur>>
          PROVE  \E k \in 1..Len(queue') : i < k /\ queue'[k] = <<"finished", cur>>
      <4>1. j \in 2..Len(queue) /\ i < j - 1
        BY <1>1, <3>3
      <4>2. j - 1 \in 1..Len(queue') /\ queue'[j - 1] = <<"finished", cur>>
        BY <1>3, <3>3, <4>1
      <4>3. QED
        BY <4>1, <4>2
    <3>4. QED
      BY <1>2, <3>1, <3>2, <3>3 DEF OrderInv, Attended
  <2>2. QED
    BY <1>2, <2>1 DEF Attended, Running, Queued
<1>10. \A h \in Gen : FinishPending(h)' => FinishPending(h)
  BY <1>2, <1>3 DEF FinishPending
<1>11. late' = late \/ (g < cur /\ late' = late \cup {g} /\ FinishPending(g))
  <2>1. CASE AcceptSample(g)
    BY <2>1 DEF AcceptSample
  <2>2. CASE queue[1][1] = "finished" /\ StreamFinished(g)
    <3>1. g <= cur
      BY <1>4 DEF OrderInv, Posted, g
    <3>2. CASE g = cur
      BY <2>2, <3>2 DEF StreamFinished
    <3>3. CASE g # cur
      <4>1. late' = late \cup {g}
        BY <2>2, <3>3 DEF StreamFinished
      <4>2. FinishPending(g)
        BY <1>4, <2>2 DEF FinishPending
      <4>3. g < cur
        BY <1>1, <1>4, <3>1, <3>3 DEF Gen
      <4>4. QED
        BY <4>1, <4>2, <4>3
    <3>4. QED
      BY <3>2, <3>3
  <2>3. QED
    BY <1>5, <2>1, <2>2
<1>12. Overtaking'
  BY <1>2, <1>4, <1>10, <1>11 DEF OrderInv, Overtaking
<1>13. Session'
  <2>1. SUFFICES ASSUME late' = {}
                 PROVE  /\ Running(cur) \/ (cur # 0 /\ FinishPending(cur)')
                             => trace' = cur /\ ~timer'
                        /\ startEnabled' => ~want /\ ~Running(cur)
    BY <1>2 DEF Session, Running
  <2>2. late = {} /\ late' = late
    BY <1>11, <2>1
  <2>3. /\ Running(cur) \/ (cur # 0 /\ FinishPending(cur)) => trace = cur /\ ~timer
        /\ startEnabled => ~want /\ ~Running(cur)
    BY <1>2, <2>2 DEF OrderInv, Session
  <2>4. CASE AcceptSample(g)
    <3>1. UNCHANGED <<timer, startEnabled, trace>>
      BY <2>4 DEF AcceptSample
    <3>2. cur # 0 /\ FinishPending(cur)' => FinishPending(cur)
      <4>1. cur # 0 => cur \in Gen
        BY <1>1 DEF Gen
      <4>2. QED
        BY <1>2, <1>10, <4>1 DEF FinishPending
    <3>3. QED
      BY <2>3, <3>1, <3>2
  <2>5. CASE queue[1][1] = "finished" /\ StreamFinished(g)
    <3>1. g = cur
      BY <2>1, <2>5 DEF StreamFinished
    <3>2. queue[1] = <<"finished", cur>>
      BY <1>4, <2>5, <3>1
    <3>3. /\ wpc[queue[1][2]] = "done"
          /\ \A j \in 1..Len(queue) : queue[j] = queue[1] => j = 1
      BY <1>4, <2>5 DEF OrderInv, Posted
    <3>4. wpc[cur] = "done"
      BY <3>1, <3>3 DEF g
    <3>5. ~Running(cur)
      BY <3>4 DEF Running, Active, Setup
    <3>6. ~FinishPending(cur)'
      <4>1. ASSUME NEW i \in 1..Len(queue'), queue'[i] = <<"finished", cur>> PROVE FALSE
        <5>1. i + 1 \in 1..Len(queue) /\ queue[i + 1] = queue[1]
          BY <1>3, <3>2, <4>1
        <5>2. i + 1 = 1
          BY <3>3, <5>1
        <5>3. QED
          BY <1>6, <5>2
      <4>2. QED
        BY <1>2, <3>4, <4>1 DEF FinishPending
    <3>7. startEnabled' => ~want
      BY <1>2, <2>5 DEF StreamFinished
    <3>8. QED
      BY <3>5, <3>6, <3>7
  <2>6. QED
    BY <1>5, <2>4, <2>5
<1>14. QED
  BY <1>7, <1>8, <1>9, <1>12, <1>13 DEF OrderInv

(* The other handlers, and stop(), which may leave the thread behind only   *)
(* where the window closes.                                                 *)
LEMMA OrderOther ==
    ASSUME TypeOK, OrderInv,
           StopClicked \/ PlotFails \/ ClearClicked \/ CloseClicked \/ StopCall
    PROVE  OrderInv'
<1>1. /\ wpc \in [Gen -> Place] /\ Len(queue) \in Nat /\ cur \in 0..MaxGen /\ MaxGen \in Nat
      /\ \A i \in 1..Len(queue) : queue[i] \in Signal
  BY Domains
<1>2. CASE StopClicked \/ PlotFails
  <2>1. stop_stream /\ mpc = "loop"
    BY <1>2 DEF StopClicked, PlotFails, Idle
  <2>2. CASE Running(cur)
    BY OrderQuiet, <2>1, <2>2 DEF stop_stream, history
  <2>3. CASE ~Running(cur)
    BY OrderQuiet, <2>1, <2>3 DEF stop_stream, history
  <2>4. QED
    BY <2>2, <2>3
<1>3. CASE ClearClicked
  BY OrderQuiet, <1>3 DEF ClearClicked, Idle, workerVars, history
<1>4. CASE CloseClicked
  <2>1. mpc = "loop" /\ want' = FALSE /\ timer' = FALSE
        /\ UNCHANGED <<startEnabled, cur, held, queue, wpc, overtaken, late>>
        /\ (mpc' # "closed" => trace' = trace)
    BY <1>4 DEF CloseClicked, Idle, history
  <2>2. QED
    BY OrderQuiet, <2>1
<1>5. CASE StopCall
  <2>1. Halts
    BY <1>5, StopShape
  <2>2. UNCHANGED <<want, timer, startEnabled, cur, held, queue, overtaken, late>>
        /\ mpc # "closed"
    BY <2>1 DEF Halts, history
  <2>3. CASE wpc' = wpc /\ trace' = trace
    BY OrderQuiet, <2>2, <2>3
  <2>4. CASE mpc' = "closed"
    <3>1. \A g \in Gen : wpc'[g] = wpc[g] \/ (wpc'[g] = "done" /\ g = cur)
      BY <1>1, <2>1, <2>4 DEF Halts
    <3>2. \A i \in 1..Len(queue) : queue[i][2] \in Gen
      BY <1>1 DEF Signal
    <3>3. Posted'
      BY <2>2, <3>1, <3>2 DEF OrderInv, Posted
    <3>4. Sorted'
      BY <2>2 DEF OrderInv, Sorted, Chained, Queued
    <3>5. Attended' /\ Session'
      BY <2>4 DEF Attended, Session
    <3>6. \A h \in Gen : FinishPending(h)' => FinishPending(h)
      BY <2>2, <3>1 DEF FinishPending
    <3>7. \A h \in Gen : h > cur => wpc'[h] = "new"
      BY <1>1, <3>1 DEF OrderInv, Overtaking, Gen
    <3>8. Overtaking'
      BY <2>2, <3>6, <3>7 DEF OrderInv, Overtaking
    <3>9. QED
      BY <3>3, <3>4, <3>5, <3>8 DEF OrderInv
  <2>5. QED
    BY <2>1, <2>3, <2>4 DEF Halts
<1>6. QED
  BY <1>2, <1>3, <1>4, <1>5

LEMMA OrderStep == TypeOK /\ OneWorker /\ OrderInv /\ [Next]_vars => OrderInv'
<1> SUFFICES ASSUME TypeOK, OneWorker, OrderInv, [Next]_vars PROVE OrderInv'
  OBVIOUS
<1>1. CASE MainStep
  BY <1>1, OrderBegin, OrderDeliver, OrderOther DEF MainStep
<1>2. ASSUME NEW g \in Gen, WorkerStep(g) PROVE OrderInv'
  <2>1. Aside /\ (Works(g) \/ Samples(g) \/ Posts(g))
    BY <1>2, WorkerShape DEF TypeOK
  <2>2. QED
    BY <2>1, OrderWorks, OrderSamples, OrderPosts
<1>3. CASE UNCHANGED vars
  BY <1>3, OrderQuiet DEF vars, mainVars, workerVars, history
<1>4. QED
  BY <1>1, <1>2, <1>3 DEF Next, Terminated

-----------------------------------------------------------------------------
LEMMA AllInductive == Spec => [](TypeOK /\ SessionInv /\ MasterInv /\ OrderInv)
<1>1. Init => TypeOK /\ SessionInv /\ MasterInv /\ OrderInv
  BY TypeInit, SessionInit, MasterInit, OrderInit
<1>2. TypeOK /\ SessionInv /\ MasterInv /\ OrderInv /\ [Next]_vars
        => (TypeOK /\ SessionInv /\ MasterInv /\ OrderInv)'
  BY TypeStep, SessionStep, MasterStep, OrderStep DEF SessionInv
<1>3. QED
  BY <1>1, <1>2, PTL DEF Spec

(* Every variable of the window and of its workers keeps to its domain, and *)
(* stop() never looks at a worker that is not there.                        *)
THEOREM TypeCorrect == Spec => []TypeOK
BY AllInductive, PTL

(* _begin_stream's isRunning() check is enough: however many connections    *)
(* are made and broken, only the worker in self.worker ever runs.           *)
THEOREM OneWorkerProved == Spec => []OneWorker
<1>1. SessionInv => OneWorker
  BY DEF SessionInv
<1>2. QED
  BY <1>1, AllInductive, PTL

(* start_stream, stream_finished and the reconnect timer leave no gap in    *)
(* which a wanted stream has nothing under way.                             *)
THEOREM WantedProved == Spec => []WantedServed
<1>1. SessionInv => WantedServed
  BY DEF SessionInv, Served, WantedServed
<1>2. QED
  BY <1>1, AllInductive, PTL

(* clear_data in _begin_stream drops what the workers before left, except   *)
(* for the signals of a worker whose "finished" was not waited for; with    *)
(* those, however many, the samples still come in the order of the workers. *)
THEOREM CleanProved == Spec => []CleanSession
<1>1. TypeOK /\ OrderInv => CleanSession
  BY Domains DEF OrderInv, Sorted, Chained, Queued, CleanSession
<1>2. QED
  BY <1>1, AllInductive, PTL

(* Only the "finished" of a worker that was overtaken can close a later     *)
(* session's trace file, arm its timer or offer Start beside it, and the    *)
(* next session is whole again.                                             *)
THEOREM TraceProved == Spec => []TraceOpen
<1>1. OrderInv => TraceOpen
  BY DEF OrderInv, Overtaking, Session, TraceOpen, Idle
<1>2. QED
  BY <1>1, AllInductive, PTL

(* The finally clause of run() removes every SSH master that a set-up may   *)
(* have left, the one that a cancelled "ssh -f" put in the background       *)
(* included.                                                                *)
THEOREM MasterProved == Spec => []NoMasterLeft
<1>1. TypeOK /\ MasterInv => NoMasterLeft
  BY DEF TypeOK, WorkerTypeOK, MasterInv, NoMasterLeft
<1>2. QED
  BY <1>1, AllInductive, PTL
=============================================================================
