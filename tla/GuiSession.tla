----------------------------- MODULE GuiSession -----------------------------
(***************************************************************************)
(* The acquisition session of gui/app.py: the Qt main thread (MainWindow)  *)
(* and the StreamWorker threads it creates, one per connection attempt.    *)
(*                                                                         *)
(* A worker sets up an SSH master connection, installs and probes the      *)
(* board through it, spawns the ssh process that runs the remote reader    *)
(* and turns its lines into queued signals.  The main thread handles       *)
(* clicks, the reconnect timer and those signals one at a time, except     *)
(* that StreamWorker.stop() runs in it, step by step, while the worker     *)
(* runs on.  Workers are numbered in the order they are created.           *)
(***************************************************************************)
EXTENDS Naturals, Sequences

CONSTANTS
    MaxGen,       \* bound: workers created
    MaxQueue      \* bound: a sample is emitted while fewer signals are pending

ASSUME BoundAssumption ==
    MaxGen \in Nat \ {0} /\ MaxQueue \in Nat \ {0}

Gen == 1..MaxGen

VARIABLES
    \* main thread
    mpc,           \* "loop", or the step of stop() or closeEvent it is in
    closer,        \* stop() was called by closeEvent, not by stop_stream
    want,          \* _want_stream
    closing,       \* _closing
    timer,         \* reconnect_timer is running
    startEnabled,  \* start_button; stop_button is enabled when it is not
    cur,           \* number of the worker in self.worker, 0 for None
    held,          \* workers whose samples the plots and estimators hold
    trace,         \* worker whose events the open trace file receives, or 0
    queue,         \* queued signals, oldest first
    demo,          \* "off", or --demo: "pending" until its start of itself, "on"
    \* workers
    wpc,           \* where each worker's run() is
    stopping,      \* _stopping
    attr,          \* self.process is not None
    ssh,           \* the operating system's view of that process
    killed,        \* it was sent SIGTERM
    master,        \* the SSH master connection is up
    \* history
    overtaken,     \* workers whose successor did not wait for their "finished"
    late,          \* whose "finished" came during the current worker's session
    forced         \* what was given up on: the thread, the master clean-up

mainVars   == <<mpc, closer, want, closing, timer, startEnabled, cur, held, trace>>
workerVars == <<wpc, stopping, attr, ssh, killed, master>>
history    == <<overtaken, late>>
vars == <<mainVars, queue, workerVars, history, forced, demo>>

Setup  == {"master", "deploy", "probe"}
Active == Setup \cup {"demo", "checked", "stream", "wait", "finally", "cleanup"}

(* Fault: a stage that nothing runs. *)
StageOff == [master |-> "deploy", deploy |-> "upload"]

(* "deploy" installs the M4 service, if the user asked for it, and uploads  *)
(* the reader.                                                              *)
NextStage == [master |-> "deploy", deploy |-> "probe"]

Running(g) == g # 0 /\ wpc[g] \in Active     \* QThread.isRunning()
FinishPending(g) ==
    wpc[g] = "finishing" \/ \E i \in 1..Len(queue) : queue[i] = <<"finished", g>>

Init ==
    /\ mpc = "loop" /\ closer = FALSE
    /\ want = FALSE /\ closing = FALSE /\ timer = FALSE /\ startEnabled = TRUE
    /\ cur = 0 /\ held = {} /\ trace = 0
    /\ queue = <<>>
    /\ demo \in {"off", "pending"}
    /\ wpc = [g \in Gen |-> "new"]
    /\ stopping = [g \in Gen |-> FALSE]
    /\ attr = [g \in Gen |-> FALSE]
    /\ ssh = [g \in Gen |-> "absent"]
    /\ killed = [g \in Gen |-> FALSE]
    /\ master = [g \in Gen |-> FALSE]
    /\ overtaken = {} /\ late = {}
    /\ forced = {}

-----------------------------------------------------------------------------
(* The worker thread: StreamWorker.run.                                     *)

Go(g, from, to) == wpc[g] = from /\ wpc' = [wpc EXCEPT ![g] = to]

(* A set-up command succeeds.  _stopping is polled every 0.2 s: a command   *)
(* that ends first is not cancelled, the next one is.                       *)
StageDone(g) ==
    /\ wpc[g] \in DOMAIN NextStage
    /\ wpc' = [wpc EXCEPT ![g] = NextStage[@]]
    /\ master' = IF wpc[g] = "master" THEN [master EXCEPT ![g] = TRUE] ELSE master
    /\ UNCHANGED <<mainVars, queue, stopping, attr, ssh, killed, history, forced, demo>>

(* It fails, times out or is cancelled, and its process group is killed.    *)
(* "ssh -MNf" may have gone to the background, out of reach, before that.   *)
StageFails(g) ==
    /\ wpc[g] \in Setup
    /\ wpc' = [wpc EXCEPT ![g] = "finally"]
    /\ \/ master' = master
       \/ wpc[g] = "master" /\ master' = [master EXCEPT ![g] = TRUE]
    /\ UNCHANGED <<mainVars, queue, stopping, attr, ssh, killed, history, forced, demo>>

(* Fault: the stop request is not looked at before ssh is spawned. *)
ProbeUnchecked(g) ==
    /\ Go(g, "probe", "checked")
    /\ UNCHANGED <<mainVars, queue, stopping, attr, ssh, killed, master, history, forced, demo>>

(* The board answers; the last look at _stopping before ssh is spawned.     *)
ProbeDone(g) ==
    /\ Go(g, "probe", IF stopping[g] THEN "finally" ELSE "checked")
    /\ UNCHANGED <<mainVars, queue, stopping, attr, ssh, killed, master, history, forced, demo>>

Spawn(g) ==
    /\ Go(g, "checked", "stream")
    /\ attr' = [attr EXCEPT ![g] = TRUE]
    /\ ssh' = [ssh EXCEPT ![g] = "live"]
    /\ UNCHANGED <<mainVars, queue, stopping, killed, master, history, forced, demo>>

(* A line of output: a sample is posted to the main thread, a log line      *)
(* changes nothing, and after a stop request the loop is left.              *)
EmitSample(g) ==
    /\ wpc[g] = "stream" /\ ssh[g] = "live"
    /\ ~stopping[g] /\ Len(queue) < MaxQueue
    /\ queue' = Append(queue, <<"sample", g>>)
    /\ UNCHANGED <<mainVars, wpc, stopping, attr, ssh, killed, master, history, forced, demo>>

BreakLoop(g) ==
    /\ ssh[g] = "live" => stopping[g]            \* or end of file
    /\ Go(g, "stream", "wait")
    /\ UNCHANGED <<mainVars, queue, stopping, attr, ssh, killed, master, history, forced, demo>>

(* Undecodable output or an unparsable number: the except clause does not   *)
(* wait for the process.                                                    *)
LineRaises(g) ==
    /\ ssh[g] = "live"
    /\ Go(g, "stream", "finally")
    /\ UNCHANGED <<mainVars, queue, stopping, attr, ssh, killed, master, history, forced, demo>>

ProcessWaited(g) ==
    /\ ssh[g] = "exited"
    /\ Go(g, "wait", "finally")
    /\ UNCHANGED <<mainVars, queue, stopping, attr, ssh, killed, master, history, forced, demo>>

ForgetProcess(g) ==
    /\ Go(g, "finally", "cleanup")
    /\ attr' = [attr EXCEPT ![g] = FALSE]
    /\ UNCHANGED <<mainVars, queue, stopping, ssh, killed, master, history, forced, demo>>

(* Fault: "ssh -O exit" runs only where the set-up got past the master.     *)
CloseStartedMaster(g) ==
    /\ Go(g, "cleanup", "finishing")
    /\ master' = IF ssh[g] # "absent" THEN [master EXCEPT ![g] = FALSE] ELSE master
    /\ ssh' = [ssh EXCEPT ![g] = IF @ = "live" THEN "exited" ELSE @]
    /\ UNCHANGED <<mainVars, queue, stopping, attr, killed, history, forced, demo>>

(* "ssh -O exit" takes the master and the sessions on it down, or times out. *)
CloseMaster(g) ==
    /\ Go(g, "cleanup", "finishing")
    /\ \/ /\ master' = [master EXCEPT ![g] = FALSE]
          /\ ssh' = [ssh EXCEPT ![g] = IF @ = "live" THEN "exited" ELSE @]
          /\ UNCHANGED forced
       \/ /\ forced' = forced \cup {"master"}
          /\ UNCHANGED <<master, ssh>>
    /\ UNCHANGED <<mainVars, queue, stopping, attr, killed, history, demo>>

(* The thread is over; QThread posts "finished" to the main thread.         *)
PostFinished(g) ==
    /\ Go(g, "finishing", "done")
    /\ queue' = Append(queue, <<"finished", g>>)
    /\ UNCHANGED <<mainVars, stopping, attr, ssh, killed, master, history, forced, demo>>

(* _run_demo: no ssh, no process; a made-up sample every 20 ms until asked  *)
(* to stop.                                                                 *)
DemoSample(g) ==
    /\ wpc[g] = "demo"
    /\ ~stopping[g] /\ Len(queue) < MaxQueue
    /\ queue' = Append(queue, <<"sample", g>>)
    /\ UNCHANGED <<mainVars, workerVars, history, forced, demo>>

DemoEnds(g) ==
    /\ stopping[g]
    /\ Go(g, "demo", "finishing")
    /\ UNCHANGED <<mainVars, queue, stopping, attr, ssh, killed, master, history, forced, demo>>

(* The ssh process ends: Ctrl+C or SIGTERM reached it, the remote program   *)
(* ended, or the connection is gone.                                        *)
SshExits(g) ==
    /\ ssh[g] = "live"
    /\ ssh' = [ssh EXCEPT ![g] = "exited"]
    /\ UNCHANGED <<mainVars, queue, wpc, stopping, attr, killed, master, history, forced, demo>>

-----------------------------------------------------------------------------
(* The main thread's event handlers.                                        *)

(* The new StreamWorker has its own flags; the old object is dropped.       *)
NewWorkerFlags ==
    /\ stopping' = [g \in Gen |-> FALSE]
    /\ killed' = [g \in Gen |-> FALSE]

(* A start after a stop does not wait for the "finished" of the last worker *)
(* to be handled, nor for the samples that are queued before it.            *)
NewSession ==
    /\ overtaken' = overtaken \cup {g \in {cur} \ {0} : FinishPending(g)}
    /\ late' = {}

(* The first thing run() of a new worker does.                              *)
Entry == IF demo = "off" THEN "master" ELSE "demo"

(* Fault: a worker that is still running is not looked for. *)
BeginAlways ==
    /\ cur' = cur + 1
    /\ wpc' = [wpc EXCEPT ![cur + 1] = Entry]
    /\ held' = {} /\ trace' = cur + 1 /\ startEnabled' = FALSE
    /\ NewSession
    /\ NewWorkerFlags

(* Fault: the data of the previous connection is kept. *)
BeginUncleared ==
    IF closing \/ ~want' \/ Running(cur)
    THEN UNCHANGED <<cur, wpc, held, trace, startEnabled, stopping, killed, history>>
    ELSE /\ cur' = cur + 1
         /\ wpc' = [wpc EXCEPT ![cur + 1] = Entry]
         /\ trace' = cur + 1 /\ startEnabled' = FALSE
         /\ NewSession
         /\ NewWorkerFlags
         /\ UNCHANGED held

(* _begin_stream: open the trace file, clear_data, create and start a       *)
(* worker, unless one runs or no stream is wanted.                          *)
BeginStream ==
    IF closing \/ ~want' \/ Running(cur)
    THEN UNCHANGED <<cur, wpc, held, trace, startEnabled, stopping, killed, history>>
    ELSE /\ cur' = cur + 1
         /\ wpc' = [wpc EXCEPT ![cur + 1] = Entry]
         /\ held' = {} /\ trace' = cur + 1 /\ startEnabled' = FALSE
         /\ NewSession
         /\ NewWorkerFlags

Idle == mpc = "loop" /\ ~closing
MayBegin == cur < MaxGen \/ Running(cur)       \* the bound on workers

StartClicked ==
    /\ Idle /\ startEnabled /\ MayBegin
    /\ want' = TRUE
    /\ timer' = FALSE
    /\ BeginStream
    /\ UNCHANGED <<mpc, closer, closing, queue, attr, ssh, master, forced, demo>>

(* start_stream once more, 200 ms after a demo window was made, whatever    *)
(* was clicked since.                                                       *)
DemoStarts ==
    /\ Idle /\ demo = "pending" /\ MayBegin
    /\ demo' = "on"
    /\ want' = TRUE
    /\ timer' = FALSE
    /\ BeginStream
    /\ UNCHANGED <<mpc, closer, closing, queue, attr, ssh, master, forced>>

TimerFires ==
    /\ Idle /\ timer /\ MayBegin
    /\ timer' = FALSE
    /\ want' = want
    /\ BeginStream
    /\ UNCHANGED <<mpc, closer, closing, queue, attr, ssh, master, forced, demo>>

(* Fault: the session is taken for over while its worker still runs. *)
StopEndsSession ==
    /\ want' = FALSE /\ timer' = FALSE
    /\ startEnabled' = TRUE /\ trace' = 0
    /\ IF Running(cur)
       THEN /\ mpc' = "check" /\ closer' = FALSE
            /\ stopping' = [stopping EXCEPT ![cur] = TRUE]
       ELSE UNCHANGED <<mpc, closer, stopping>>
    /\ UNCHANGED <<closing, cur, held, queue, wpc, attr, ssh, killed, master,
                   history, forced, demo>>

stop_stream ==
    /\ want' = FALSE
    /\ timer' = FALSE
    /\ IF Running(cur)
       THEN /\ mpc' = "check" /\ closer' = FALSE
            /\ stopping' = [stopping EXCEPT ![cur] = TRUE]
            /\ UNCHANGED startEnabled
       ELSE /\ startEnabled' = TRUE
            /\ UNCHANGED <<mpc, closer, stopping>>
    /\ UNCHANGED <<closing, cur, held, trace, queue, wpc, attr, ssh, killed, master,
                   history, forced, demo>>

StopClicked == Idle /\ ~startEnabled /\ stop_stream

(* refresh_plots raises and stops the stream itself, in whatever state the  *)
(* buttons are.                                                             *)
PlotFails == Idle /\ held # {} /\ stop_stream

ClearClicked ==
    /\ Idle
    /\ held' = {}
    /\ UNCHANGED <<mpc, closer, want, closing, timer, startEnabled, cur, trace, queue,
                   workerVars, history, forced, demo>>

AcceptSample(g) ==
    /\ held' = held \cup {g}
    /\ UNCHANGED <<timer, startEnabled, trace, late>>

(* Fault: the reconnect timer is not started. *)
FinishedUnarmed(g) ==
    /\ trace' = 0
    /\ late' = late \cup ({g} \ {cur})
    /\ startEnabled' = ~(want /\ ~closing)
    /\ UNCHANGED <<timer, held>>

(* stream_finished: close the trace file, then either arm the reconnect     *)
(* timer or offer to start again, whichever worker it was that finished.    *)
StreamFinished(g) ==
    /\ trace' = 0
    /\ late' = late \cup ({g} \ {cur})
    /\ IF want /\ ~closing
       THEN timer' = TRUE /\ startEnabled' = FALSE
       ELSE startEnabled' = TRUE /\ UNCHANGED timer
    /\ UNCHANGED held

DeliverSignal ==
    /\ Idle /\ queue # <<>>
    /\ queue' = Tail(queue)
    /\ LET g == Head(queue)[2]
       IN  IF Head(queue)[1] = "sample" THEN AcceptSample(g) ELSE StreamFinished(g)
    /\ UNCHANGED <<mpc, closer, want, closing, cur, workerVars, overtaken, forced, demo>>

(* closeEvent: flags and timers first, then stop() on a running worker.     *)
CloseClicked ==
    /\ Idle
    /\ closing' = TRUE /\ want' = FALSE /\ timer' = FALSE
    /\ IF Running(cur)
       THEN /\ mpc' = "check" /\ closer' = TRUE
            /\ stopping' = [stopping EXCEPT ![cur] = TRUE]
            /\ UNCHANGED trace
       ELSE /\ mpc' = "closed" /\ trace' = 0
            /\ UNCHANGED <<closer, stopping>>
    /\ UNCHANGED <<startEnabled, cur, held, queue, wpc, attr, ssh, killed, master,
                   history, forced, demo>>

-----------------------------------------------------------------------------
(* StreamWorker.stop(), in the main thread.  self.process is read anew at   *)
(* every step, and the worker may have set it to None since the last one:   *)
(* AttributeError is not caught in stop().                                  *)

Return == IF closer THEN "closeWait" ELSE "loop"

StopStep(from, to) ==
    /\ mpc = from
    /\ \/ attr[cur] /\ mpc' = to
       \/ ~attr[cur] /\ mpc' = IF closer THEN "closed" ELSE "loop"
    /\ UNCHANGED <<closer, want, closing, timer, startEnabled, cur, held, trace, queue,
                   wpc, stopping, attr, ssh, master, history, forced, demo>>

StopCheck ==
    /\ mpc = "check"
    /\ mpc' = IF attr[cur] THEN "poll" ELSE Return
    /\ UNCHANGED <<closer, want, closing, timer, startEnabled, cur, held, trace, queue,
                   workerVars, history, forced, demo>>

StopPoll ==
    /\ StopStep("poll", IF ssh[cur] = "live" THEN "write" ELSE Return)
    /\ UNCHANGED killed

(* Ctrl+C through the pipe to ssh, or BrokenPipeError.                      *)
StopWrite ==
    /\ StopStep("write", IF ssh[cur] = "live" THEN "wait" ELSE "kill")
    /\ UNCHANGED killed

(* Fault: the wait for the process has no timeout. *)
StopWaitForever ==
    /\ mpc = "wait"
    /\ ssh[cur] # "live"
    /\ StopStep("wait", Return)
    /\ UNCHANGED killed

(* wait(timeout=2.0): the process has exited, or TimeoutExpired.            *)
StopWait ==
    /\ mpc = "wait"
    /\ \/ ssh[cur] # "live" /\ StopStep("wait", Return)
       \/ ssh[cur] = "live" /\ StopStep("wait", "kill")
    /\ UNCHANGED killed

StopKill ==
    /\ StopStep("kill", Return)
    /\ killed' = [killed EXCEPT ![cur] = @ \/ attr[cur]]

(* closeEvent waits six seconds for the thread, then terminates it: its     *)
(* finally clause does not run.                                             *)
CloseWait ==
    /\ mpc = "closeWait"
    /\ mpc' = "closed"
    /\ trace' = 0
    /\ IF Running(cur)
       THEN /\ wpc' = [wpc EXCEPT ![cur] = "done"]
            /\ forced' = forced \cup {"thread"}
       ELSE UNCHANGED <<wpc, forced>>
    /\ UNCHANGED <<closer, want, closing, timer, startEnabled, cur, held, queue, stopping,
                   attr, ssh, killed, master, history, demo>>

-----------------------------------------------------------------------------
Progress(g) ==
    \/ StageDone(g) \/ StageFails(g) \/ ProbeDone(g) \/ Spawn(g)
    \/ ProcessWaited(g) \/ ForgetProcess(g) \/ CloseMaster(g) \/ PostFinished(g)
    \/ DemoEnds(g)

WorkerStep(g) ==
    Progress(g) \/ DemoSample(g) \/ EmitSample(g) \/ BreakLoop(g) \/ LineRaises(g) \/ SshExits(g)

StopCall == StopCheck \/ StopPoll \/ StopWrite \/ StopWait \/ StopKill \/ CloseWait

MainStep ==
    \/ StartClicked \/ StopClicked \/ PlotFails \/ ClearClicked \/ CloseClicked
    \/ DemoStarts \/ TimerFires \/ DeliverSignal \/ StopCall

Terminated == mpc = "closed" /\ UNCHANGED vars

Next == MainStep \/ (\E g \in Gen : WorkerStep(g)) \/ Terminated

Spec == Init /\ [][Next]_vars

(* The threads are scheduled, the event loop turns, timers fire, a process  *)
(* that was sent SIGTERM ends and its output with it, and a reader that was *)
(* not stopped keeps printing lines.  Nobody has to click and no command    *)
(* has to succeed.                                                          *)
Fairness ==
    /\ \A g \in Gen :
        /\ WF_vars(Progress(g))
        /\ WF_vars(BreakLoop(g))
        /\ WF_vars(killed[g] /\ SshExits(g))
    /\ WF_vars(TimerFires)
    /\ WF_vars(DeliverSignal)
    /\ WF_vars(StopCall)

FairSpec == Spec /\ Fairness

-----------------------------------------------------------------------------
(* Properties.                                                              *)

MainTypeOK ==
    /\ mpc \in {"loop", "check", "poll", "write", "wait", "kill", "closeWait", "closed"}
    /\ closer \in BOOLEAN /\ want \in BOOLEAN /\ closing \in BOOLEAN
    /\ timer \in BOOLEAN /\ startEnabled \in BOOLEAN
    /\ cur \in 0..MaxGen /\ held \subseteq Gen /\ trace \in 0..MaxGen
    /\ queue \in Seq({"sample", "finished"} \X Gen)
    /\ overtaken \subseteq Gen /\ late \subseteq Gen
    /\ demo \in {"off", "pending", "on"}

WorkerTypeOK ==
    /\ wpc \in [Gen -> Active \cup {"new", "finishing", "done"}]
    /\ stopping \in [Gen -> BOOLEAN] /\ attr \in [Gen -> BOOLEAN]
    /\ ssh \in [Gen -> {"absent", "live", "exited"}]
    /\ killed \in [Gen -> BOOLEAN] /\ master \in [Gen -> BOOLEAN]
    /\ forced \subseteq {"thread", "master"}

(* Every variable keeps to its domain; a step of stop() always has a worker *)
(* to look at.                                                              *)
TypeOK == MainTypeOK /\ WorkerTypeOK /\ (mpc \notin {"loop", "closed"} => cur # 0)

(* Two acquisitions never run at once, and the running one is the one the   *)
(* stop button and closeEvent act on.                                       *)
OneWorker == \A g \in Gen : Running(g) => g = cur

(* No lost wake-up: while the user wants a stream, something is under way   *)
(* that will end in a new connection attempt - a worker, its undelivered    *)
(* "finished", or the reconnect timer - however clicks, the timer and the   *)
(* worker's end interleave.                                                 *)
WantedServed ==
    want /\ Idle => timer \/ Running(cur) \/ \E g \in Gen : FinishPending(g)

(* The plots, the attitude calibration and the trajectory get samples of an *)
(* earlier connection only along an unbroken chain of workers that were     *)
(* each overtaken: of any other worker everything was handled, and cleared, *)
(* before the next was created, so that a session that waited for the last  *)
(* one's "finished" starts clean, whatever was mixed up before it.  Nor are *)
(* sessions interleaved: after the first sample of a connection none of an  *)
(* earlier one comes.                                                       *)
CleanSession ==
    /\ \A g \in held : \A h \in g..(cur - 1) : h \in overtaken
    /\ \A g \in held, i \in 1..Len(queue) :
          queue[i][1] = "sample" => g <= queue[i][2]

(* "finished" acts on the session it belongs to - the trace file stays open *)
(* until the worker's last signal has been handled, Start is not offered    *)
(* and the reconnect timer does not run meanwhile - until that of a worker  *)
(* that was overtaken comes late, and again from the next session on.       *)
TraceOpen ==
    /\ late \subseteq overtaken
    /\ Idle /\ late = {} =>
        /\ Running(cur) \/ (cur # 0 /\ FinishPending(cur)) => trace = cur /\ ~timer
        /\ startEnabled => ~want /\ ~Running(cur)

(* "Also attempt cleanup when cancellation races with ssh -f startup"       *)
(* (gui/app.py:313): a worker that ran to its end leaves no SSH master      *)
(* connection behind unless "ssh -O exit" itself timed out.                 *)
NoMasterLeft ==
    \A g \in Gen : wpc[g] = "done" /\ master[g] => forced \cap {"master", "thread"} # {}

(* Stopping during the set-up commands, or with the ssh process in sight of *)
(* stop(), brings the worker to its end; so does stopping a demo.           *)
CancelCompletes ==
    \A g \in Gen :
        stopping[g] /\ (wpc[g] \in Setup \cup {"demo"} \/ (mpc = "poll" /\ cur = g /\ attr[g]))
            ~> wpc[g] = "done"

(* A connection that breaks is followed by a new attempt, unless the user   *)
(* stops.                                                                   *)
Reconnects ==
    \A g \in 1..(MaxGen - 1) :
        cur = g /\ wpc[g] = "done" /\ want ~> cur > g \/ ~want

(* The window closes, whatever the worker is doing.                         *)
CloseCompletes == closing ~> mpc = "closed"

(* gui/README.md says of the stop button that it cancels what is under way; *)
(* every worker that was asked to stop would then end.                      *)
StopCompletes == \A g \in Gen : stopping[g] ~> wpc[g] = "done"
=============================================================================
