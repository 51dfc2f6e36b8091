-------------------------- MODULE ApplicationLaunch --------------------------
(***************************************************************************)
(* ApplicationLaunchService::submit: a worker thread asks uwsm, systemd or *)
(* the kernel to start an application while a timer of 15 seconds runs in  *)
(* the caller's thread; whichever is first answers, and only once.         *)
(***************************************************************************)
EXTENDS Naturals

Results == {"started", "refused", "failed", "uncertain"}
LaunchPending == "pending"

VARIABLES
  launchHost,     \* Capabilities as the session has them, and whether the deadline is past
  launchWorker,   \* the worker: its step, and job_path and results of its observer
  launchUnit,     \* the application: of a transient unit, of uwsm, or a detached process
  launchAnswer    \* the caller's side: timer, watcher, completed and what the callback got

launchVars == <<launchHost, launchWorker, launchUnit, launchAnswer>>

LaunchTypeOK ==
  /\ launchHost \in [manager : BOOLEAN, uwsm : BOOLEAN, service : BOOLEAN, error : BOOLEAN, expired : BOOLEAN]
  /\ launchWorker.step \in {"none", "submitted", "probed", "uwsm", "monitoring", "asked", "waiting", "done"}
  /\ launchWorker.seen \in {LaunchPending, "done", "failed"}
  /\ launchWorker.result \in Results \cup {LaunchPending}
  /\ launchUnit \in {"none", "starting", "running", "dead"}
  /\ launchAnswer.timer \in BOOLEAN /\ launchAnswer.signal \in BOOLEAN
  /\ launchAnswer.completed \in BOOLEAN /\ launchAnswer.context \in BOOLEAN
  /\ launchAnswer.told \in 0..2 /\ launchAnswer.answer \in Results \cup {LaunchPending}

LaunchInit ==
  /\ launchHost \in [manager : BOOLEAN, uwsm : BOOLEAN, service : BOOLEAN, error : BOOLEAN, expired : {FALSE}]
  /\ launchWorker = [step |-> "none", seen |-> LaunchPending, result |-> LaunchPending]
  /\ launchUnit = "none"
  /\ launchAnswer = [timer |-> FALSE, signal |-> FALSE, completed |-> FALSE, context |-> TRUE,
                     told |-> 0, answer |-> LaunchPending]

----------------------------------------------------------------------------
\* backendFor
BackendFor(c) ==
  CASE c.error /\ c.manager -> "unavailable"
    [] c.manager /\ c.uwsm  -> "uwsm"
    [] c.manager            -> "systemd"
    [] OTHER                -> IF c.service THEN "unavailable" ELSE "detached"

\* The future is finished with the result: its watcher's signal is queued.
Finish(result) ==
  /\ launchWorker' = [launchWorker EXCEPT !.step = "done", !.result = result]
  /\ launchAnswer' = [launchAnswer EXCEPT !.signal = @ \/ launchAnswer.context]

\* launch, launchDesktop and submit.
Submit ==
  /\ launchWorker.step = "none"
  /\ launchWorker' = [launchWorker EXCEPT !.step = "submitted"]
  /\ launchAnswer' = [launchAnswer EXCEPT !.timer = TRUE]
  /\ UNCHANGED <<launchHost, launchUnit>>

\* 15 seconds after submit.
DeadlinePasses ==
  /\ launchWorker.step \notin {"none", "done"} /\ ~launchHost.expired
  /\ launchHost' = [launchHost EXCEPT !.expired = TRUE]
  /\ UNCHANGED <<launchWorker, launchUnit, launchAnswer>>

\* The user manager, or its uwsm session, ends or starts while the worker runs.
HostChanges ==
  /\ launchHost' \in {[launchHost EXCEPT !.manager = ~@], [launchHost EXCEPT !.uwsm = ~@]}
  /\ UNCHANGED <<launchWorker, launchUnit, launchAnswer>>

\* probeCapabilities, backendFor, and execute up to the backend's own function.  The
\* command may be missing: no such action, no terminal, or no executable.
WorkerProbes ==
  /\ launchWorker.step = "submitted"
  /\ \/ launchHost.expired /\ Finish("uncertain") /\ UNCHANGED <<launchHost, launchUnit>>
     \/ ~launchHost.expired /\ BackendFor(launchHost) = "unavailable" /\ Finish("refused")
        /\ UNCHANGED <<launchHost, launchUnit>>
     \/ /\ ~launchHost.expired /\ BackendFor(launchHost) = "uwsm"
        /\ launchWorker' = [launchWorker EXCEPT !.step = "uwsm"]
        /\ UNCHANGED <<launchHost, launchUnit, launchAnswer>>
     \/ ~launchHost.expired /\ BackendFor(launchHost) \in {"detached", "systemd"} /\ Finish("failed")
        /\ UNCHANGED <<launchHost, launchUnit>>
     \/ /\ ~launchHost.expired /\ BackendFor(launchHost) = "detached"
        /\ launchUnit' = "running" /\ Finish("started")
        /\ UNCHANGED launchHost
     \/ /\ ~launchHost.expired /\ BackendFor(launchHost) = "systemd"
        /\ launchWorker' = [launchWorker EXCEPT !.step = "probed"]
        /\ UNCHANGED <<launchHost, launchUnit, launchAnswer>>

\* executeUwsm: the helper starts the application and exits, fails, or is killed at the
\* deadline, before or after it has started it.
UwsmRuns ==
  /\ launchWorker.step = "uwsm" /\ UNCHANGED launchHost
  /\ \/ launchUnit = "none" /\ launchUnit' = "running" /\ UNCHANGED <<launchWorker, launchAnswer>>
     \/ launchUnit \in {"running", "dead"} /\ ~launchHost.expired /\ Finish("started") /\ UNCHANGED launchUnit
     \/ launchUnit = "none" /\ ~launchHost.expired /\ Finish("failed") /\ UNCHANGED launchUnit
     \/ launchHost.expired /\ Finish("uncertain") /\ UNCHANGED launchUnit

\* executeSystemd up to StartTransientUnit.
SystemdMonitors ==
  /\ launchWorker.step = "probed" /\ UNCHANGED <<launchHost, launchUnit>>
  /\ \/ launchHost.expired /\ Finish("uncertain")
     \/ ~launchHost.expired /\ Finish("failed")
     \/ /\ ~launchHost.expired /\ launchHost.manager
        /\ launchWorker' = [launchWorker EXCEPT !.step = "monitoring"]
        /\ UNCHANGED launchAnswer

\* The call StartTransientUnit reaches the manager.
ManagerStarts ==
  /\ launchWorker.step = "monitoring"
  /\ \/ /\ launchHost.manager /\ launchUnit' = "starting"
        /\ launchWorker' = [launchWorker EXCEPT !.step = "asked"]
        /\ UNCHANGED launchAnswer
     \/ Finish("failed") /\ UNCHANGED launchUnit
  /\ UNCHANGED launchHost

\* The start job ends; JobRemoved is queued for the observer, before or after the reply.
JobRemoved ==
  /\ launchUnit = "starting" /\ launchWorker.step \in {"asked", "waiting"}
  /\ \/ launchUnit' = "running" /\ launchWorker' = [launchWorker EXCEPT !.seen = "done"]
     \/ launchUnit' = "dead" /\ launchWorker' = [launchWorker EXCEPT !.seen = "failed"]
  /\ UNCHANGED <<launchHost, launchAnswer>>

\* The call's reply names the job; or no reply comes in time and the unit is stopped.
ManagerReplies ==
  /\ launchWorker.step = "asked"
  /\ \/ launchWorker' = [launchWorker EXCEPT !.step = "waiting"] /\ UNCHANGED <<launchUnit, launchAnswer>>
     \/ /\ launchHost.expired
        /\ launchUnit' \in {launchUnit, "dead"} /\ Finish("uncertain")
  /\ UNCHANGED launchHost

\* Mutant: the deadline does not matter once the job has ended, and the unit is not stopped.
NeverStops(seen, expired) == IF seen = LaunchPending THEN "failed" ELSE IF seen = "done" THEN "started" ELSE "failed"

\* What executeSystemd returns after its loop.
SystemdResult(seen, expired) ==
  IF seen = "done" /\ ~expired THEN "started" ELSE IF seen = "failed" THEN "failed" ELSE "uncertain"

\* The loop ends with the job, or by its timer.  Without a result in time the unit is
\* stopped, if the manager hears of it.
SystemdAnswers ==
  /\ launchWorker.step = "waiting" /\ (launchWorker.seen # LaunchPending \/ launchHost.expired)
  /\ LET result == SystemdResult(launchWorker.seen, launchHost.expired) IN
     /\ Finish(result)
     /\ launchUnit' \in IF result = "uncertain" THEN {launchUnit, "dead"} ELSE {launchUnit}
  /\ UNCHANGED launchHost

\* The application itself ends.
ApplicationEnds ==
  /\ launchUnit = "running"
  /\ launchUnit' = "dead"
  /\ UNCHANGED <<launchHost, launchWorker, launchAnswer>>

\* The callback.
Tell(a, result) == [a EXCEPT !.completed = TRUE, !.told = @ + 1, !.answer = result]

\* The timer: a finished future counts, though its signal is still queued.
LaunchTimeout ==
  /\ launchAnswer.timer /\ launchHost.expired /\ launchAnswer.context
  /\ launchAnswer' = IF launchAnswer.completed THEN [launchAnswer EXCEPT !.timer = FALSE]
                     ELSE Tell([launchAnswer EXCEPT !.timer = FALSE],
                               IF launchWorker.step = "done" THEN launchWorker.result ELSE "uncertain")
  /\ UNCHANGED <<launchHost, launchWorker, launchUnit>>

\* The watcher's finished.
WatcherFinished ==
  /\ launchAnswer.signal /\ launchAnswer.context
  /\ LET stopped == [launchAnswer EXCEPT !.signal = FALSE, !.timer = FALSE] IN
     launchAnswer' = IF launchAnswer.completed THEN stopped ELSE Tell(stopped, launchWorker.result)
  /\ UNCHANGED <<launchHost, launchWorker, launchUnit>>

\* The context is destroyed, its timer and watcher with it.
ContextGone ==
  /\ launchWorker.step # "none" /\ launchAnswer.context
  /\ launchAnswer' = [launchAnswer EXCEPT !.context = FALSE, !.signal = FALSE, !.timer = FALSE]
  /\ UNCHANGED <<launchHost, launchWorker, launchUnit>>

LaunchNext ==
  \/ Submit \/ DeadlinePasses \/ HostChanges
  \/ WorkerProbes \/ UwsmRuns
  \/ SystemdMonitors \/ ManagerStarts \/ JobRemoved \/ ManagerReplies \/ SystemdAnswers
  \/ ApplicationEnds
  \/ LaunchTimeout \/ WatcherFinished \/ ContextGone

----------------------------------------------------------------------------
(* Properties.                                                             *)

\* The caller is answered once: "started" only of an application that was started, a
\* failure or a refusal only of one that does not run and will not; when worker, timer
\* and watcher are at rest a living caller has been answered.
LaunchIsHonest ==
  /\ launchAnswer.told <= 1
  /\ launchAnswer.answer = "started" => launchUnit \in {"running", "dead"}
  /\ launchAnswer.answer \in {"failed", "refused"} => launchUnit \in {"none", "dead"}
  /\ launchWorker.step = "done" /\ ~launchAnswer.timer /\ ~launchAnswer.signal /\ launchAnswer.context
       => launchAnswer.told = 1

----------------------------------------------------------------------------
(***************************************************************************)
(* runGuardedProcess: a process with a timer, whose end, error and timeout *)
(* handlers race for one callback.                                         *)
(***************************************************************************)

VARIABLE guarded   \* the QProcess, its timer, completed, and the callback's context

guardedVars == <<guarded>>

GuardedTypeOK ==
  guarded \in [process : {"none", "starting", "running", "killed", "exited", "crashed", "failed", "deleted"},
               timer : BOOLEAN, completed : BOOLEAN, context : BOOLEAN, callbacks : 0..2,
               told : {"nothing", "exit", "error", "timeout"}]

GuardedInit == guarded = [process |-> "none", timer |-> FALSE, completed |-> FALSE, context |-> TRUE,
                          callbacks |-> 0, told |-> "nothing"]

\* deliver: suppressed when the context is gone.
Deliver(g, what) ==
  IF g.context THEN [g EXCEPT !.callbacks = @ + 1, !.told = what] ELSE g

\* Mutant: a handler that does not look at completed.
CompleteTwice(g, what) == [Deliver(g, what) EXCEPT !.completed = TRUE]

\* The three handlers: the first completes; the process deletes itself afterwards.
Complete(g, what) == IF g.completed THEN g ELSE [Deliver(g, what) EXCEPT !.completed = TRUE]

\* A timeout that is not positive is answered at once and starts nothing.
Run ==
  /\ guarded.process = "none"
  /\ guarded' \in {[guarded EXCEPT !.process = "starting", !.timer = TRUE],
                   [Complete(guarded, "error") EXCEPT !.process = "deleted"]}

Starts == guarded.process = "starting" /\ guarded' = [guarded EXCEPT !.process = "running"]

\* errorOccurred: a program that cannot start, or a read or write error, but not a crash.
ErrorOccurred ==
  \/ /\ guarded.process = "starting"
     /\ guarded' = [Complete(guarded, "error") EXCEPT !.process = "failed"]
  \/ /\ guarded.process = "running"
     /\ guarded' = Complete(guarded, "error")

\* finished: of a process that exits, crashes (its errorOccurred was ignored) or was killed.
Finished ==
  /\ guarded.process \in {"running", "killed", "crashed"}
  /\ guarded' = [Complete(guarded, "exit") EXCEPT !.process = "exited"]

Crashes == guarded.process = "running" /\ guarded' = [guarded EXCEPT !.process = "crashed"]

\* The timer kills a process that still runs.
Timeout ==
  /\ guarded.timer
  /\ guarded' = [Complete(guarded, "timeout") EXCEPT
                   !.timer = FALSE,
                   !.process = IF ~guarded.completed /\ @ \in {"starting", "running"} THEN "killed" ELSE @]

\* deleteLater, after the callback; its destructor ends a process that still runs.
Deletes ==
  /\ guarded.completed /\ guarded.process # "deleted"
  /\ guarded' = [guarded EXCEPT !.process = "deleted", !.timer = FALSE]

ContextDies == guarded.context /\ guarded' = [guarded EXCEPT !.context = FALSE]

GuardedNext ==
  Run \/ Starts \/ ErrorOccurred \/ Finished \/ Crashes \/ Timeout \/ Deletes \/ ContextDies

\* The callback comes exactly once, and never to a context that is gone: once the
\* process is deleted a living context has been told, whichever handler was first.
GuardedAnswersOnce ==
  /\ guarded.callbacks <= 1
  /\ guarded.process = "deleted" /\ guarded.context => guarded.callbacks = 1
  /\ guarded.completed /\ guarded.context => guarded.told # "nothing"
=============================================================================
