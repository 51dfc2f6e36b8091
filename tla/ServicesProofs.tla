---------------------------- MODULE ServicesProofs ----------------------------
(***************************************************************************)
(* What the services that keep what they read make of it, for any          *)
(* applications, documents, backends, calendars, events and bounds.        *)
(***************************************************************************)
EXTENDS ServicesMC, Subsequences, TLAPS

----------------------------------------------------------------------------
(***************************************************************************)
(* Launches.                                                               *)
(***************************************************************************)

Hosts == [manager : BOOLEAN, uwsm : BOOLEAN, service : BOOLEAN, error : BOOLEAN, expired : BOOLEAN]
Workers == [step : {"none", "submitted", "probed", "uwsm", "monitoring", "asked", "waiting", "done"},
            seen : {LaunchPending, "done", "failed"}, result : Results \cup {LaunchPending}]
LaunchAnswers == [timer : BOOLEAN, signal : BOOLEAN, completed : BOOLEAN, context : BOOLEAN, told : {0, 1},
                  answer : Results \cup {LaunchPending}]

\* How far the application is at each step of the worker.
UnitFits(w, unit) ==
  /\ w.step = "done" <=> w.result # LaunchPending
  /\ w.step \in {"none", "submitted", "probed", "monitoring"} => unit = "none" /\ w.seen = LaunchPending
  /\ w.step = "uwsm" => unit \in {"none", "running", "dead"} /\ w.seen = LaunchPending
  /\ w.step \in {"asked", "waiting"} =>
       /\ w.seen = LaunchPending => unit = "starting"
       /\ w.seen = "done" => unit \in {"running", "dead"}
       /\ w.seen = "failed" => unit = "dead"
  /\ w.result = "started" => unit \in {"running", "dead"}
  /\ w.result \in {"failed", "refused"} => unit \in {"none", "dead"}

\* The caller was told once if at all, in time or of the result; until then its timer runs.
AnswerFits(a, w) ==
  /\ a.told = (IF a.completed THEN 1 ELSE 0)
  /\ ~a.completed => a.answer = LaunchPending
  /\ a.completed => a.answer = "uncertain" \/ (w.step = "done" /\ a.answer = w.result)
  /\ a.signal => w.step = "done"
  /\ w.step = "none" => ~a.timer /\ ~a.completed
  /\ w.step # "none" /\ a.context /\ ~a.completed => a.timer

LaunchInv ==
  /\ launchHost \in Hosts /\ launchWorker \in Workers /\ launchUnit \in {"none", "starting", "running", "dead"}
  /\ launchAnswer \in LaunchAnswers
  /\ UnitFits(launchWorker, launchUnit) /\ AnswerFits(launchAnswer, launchWorker)

LEMMA LaunchStart == LaunchInit => LaunchInv
<1> SUFFICES ASSUME LaunchInit PROVE LaunchInv
  OBVIOUS
<1>1. launchHost \in Hosts
  BY DEF LaunchInit, Hosts
<1>2. launchWorker \in Workers
  BY DEF LaunchInit, Workers, LaunchPending
<1>3. launchAnswer \in LaunchAnswers
  BY DEF LaunchInit, LaunchAnswers, LaunchPending
<1>4. UnitFits(launchWorker, launchUnit)
  BY DEF LaunchInit, UnitFits, LaunchPending
<1>5. AnswerFits(launchAnswer, launchWorker)
  BY DEF LaunchInit, AnswerFits, LaunchPending
<1> QED
  BY <1>1, <1>2, <1>3, <1>4, <1>5 DEF LaunchInit, LaunchInv

\* The worker goes on and has no result.
LEMMA WorkerGoesOn ==
  ASSUME NEW a \in LaunchAnswers, NEW w \in Workers, AnswerFits(a, w), NEW x \in Workers,
         w.step \notin {"none", "done"}, x.step \notin {"none", "done"}
  PROVE  AnswerFits(a, x)
BY DEF AnswerFits, Workers, LaunchAnswers

\* The worker ends with a result.
Finishes(a, w, b, x, result) ==
  /\ x = [w EXCEPT !.step = "done", !.result = result]
  /\ b = [a EXCEPT !.signal = @ \/ a.context]

LEMMA WorkerFinishes ==
  ASSUME NEW a \in LaunchAnswers, NEW w \in Workers, AnswerFits(a, w), w.step \notin {"none", "done"},
         NEW result \in Results, NEW x, NEW b, Finishes(a, w, b, x, result)
  PROVE  /\ x \in Workers /\ x.step = "done" /\ x.result = result
         /\ b \in LaunchAnswers /\ AnswerFits(b, x)
<1>1. x \in Workers /\ x.step = "done" /\ x.result = result
  BY DEF Finishes, Workers, Results
<1>2. /\ b \in LaunchAnswers /\ (b.signal <=> a.signal \/ a.context) /\ b.timer = a.timer /\ b.completed = a.completed
      /\ b.context = a.context /\ b.told = a.told /\ b.answer = a.answer
  BY Zenon DEF Finishes, LaunchAnswers
<1> QED
  BY <1>1, <1>2 DEF AnswerFits, LaunchAnswers

LEMMA LaunchFinishes ==
  ASSUME LaunchInv, launchWorker.step \notin {"none", "done"}, NEW result \in Results, Finish(result),
         launchHost' = launchHost, launchUnit' \in {"none", "starting", "running", "dead"},
         result = "started" => launchUnit' \in {"running", "dead"},
         result \in {"failed", "refused"} => launchUnit' \in {"none", "dead"}
  PROVE  LaunchInv'
<1> DEFINE w == launchWorker
           a == launchAnswer
           x == launchWorker'
           b == launchAnswer'
           unit == launchUnit'
<1>1. a \in LaunchAnswers /\ w \in Workers /\ AnswerFits(a, w) /\ Finishes(a, w, b, x, result) /\ w.step \notin {"none", "done"}
  BY DEF LaunchInv, Finish, Finishes
<1> HIDE DEF w, a, x, b
<1>2. /\ x \in Workers /\ x.step = "done" /\ x.result = result
      /\ b \in LaunchAnswers /\ AnswerFits(b, x)
  BY <1>1, WorkerFinishes
<1>3. UnitFits(x, unit)
  BY <1>2 DEF UnitFits, Results, LaunchPending
<1> QED
  BY <1>2, <1>3 DEF LaunchInv, x, b

LEMMA LaunchStep ==
  ASSUME LaunchInv, [LaunchNext]_launchVars
  PROVE  LaunchInv'
<1> DEFINE w == launchWorker
           a == launchAnswer
<1>0. /\ launchHost \in Hosts /\ w \in Workers /\ launchUnit \in {"none", "starting", "running", "dead"}
      /\ a \in LaunchAnswers /\ UnitFits(w, launchUnit) /\ AnswerFits(a, w)
  BY DEF LaunchInv
<1>a. "uncertain" \in Results /\ "started" \in Results /\ "failed" \in Results /\ "refused" \in Results
  BY DEF Results
\* The worker goes on, the caller is not told of it.
<1>b. ASSUME w.step \notin {"none", "done"}, NEW x \in Workers, x.step \notin {"none", "done"}, UnitFits(x, launchUnit'),
             launchWorker' = x, UNCHANGED <<launchHost, launchAnswer>>, launchUnit' \in {"none", "starting", "running", "dead"}
      PROVE  LaunchInv'
  BY <1>0, <1>b, WorkerGoesOn DEF LaunchInv
\* The caller's side moves, the worker does not.
<1>c. ASSUME NEW b \in LaunchAnswers, AnswerFits(b, w), launchAnswer' = b, UNCHANGED <<launchHost, launchWorker, launchUnit>>
      PROVE  LaunchInv'
  BY <1>0, <1>c DEF LaunchInv
<1>1. CASE Submit
  <2> DEFINE x == [w EXCEPT !.step = "submitted"]
             b == [a EXCEPT !.timer = TRUE]
  <2>1. x \in Workers /\ x.step = "submitted" /\ x.seen = w.seen /\ x.result = w.result
    BY <1>0 DEF Workers
  <2>2. b \in LaunchAnswers /\ b.timer /\ b.signal = a.signal /\ b.completed = a.completed
        /\ b.context = a.context /\ b.told = a.told /\ b.answer = a.answer
    BY <1>0 DEF LaunchAnswers
  <2>3. launchWorker' = x /\ launchAnswer' = b /\ UNCHANGED <<launchHost, launchUnit>> /\ w.step = "none"
    BY <1>1 DEF Submit
  <2> HIDE DEF x, b
  <2>4. UnitFits(x, launchUnit) /\ AnswerFits(b, x)
    BY <1>0, <2>1, <2>2, <2>3 DEF UnitFits, AnswerFits, Results, LaunchPending
  <2> QED
    BY <1>0, <2>1, <2>2, <2>3, <2>4 DEF LaunchInv
<1>2. CASE DeadlinePasses
  BY <1>0, <1>2 DEF DeadlinePasses, LaunchInv, Hosts
<1>3. CASE HostChanges
  <2>1. launchHost' \in Hosts
    <3>1. ASSUME NEW h \in Hosts PROVE [h EXCEPT !.manager = ~@] \in Hosts /\ [h EXCEPT !.uwsm = ~@] \in Hosts
      BY <3>1, Zenon DEF Hosts
    <3> QED
      BY <1>0, <1>3, <3>1 DEF HostChanges
  <2> QED
    BY <1>0, <1>3, <2>1 DEF HostChanges, LaunchInv
<1>4. CASE WorkerProbes
  BY <1>0, <1>4, <1>a, LaunchFinishes, <1>b DEF WorkerProbes, UnitFits, Workers
<1>5. CASE UwsmRuns
  BY <1>0, <1>5, <1>a, LaunchFinishes DEF UwsmRuns, UnitFits, Results, LaunchPending, LaunchInv
<1>6. CASE SystemdMonitors
  BY <1>0, <1>6, <1>a, LaunchFinishes, <1>b DEF SystemdMonitors, UnitFits, Workers
<1>7. CASE ManagerStarts
  BY <1>0, <1>7, <1>a, LaunchFinishes, <1>b DEF ManagerStarts, UnitFits, Workers, LaunchPending, Results
<1>8. CASE JobRemoved
  BY <1>0, <1>8, <1>b DEF Workers, JobRemoved, UnitFits, LaunchPending, Results
<1>9. CASE ManagerReplies
  BY <1>9, <1>0, <1>a, LaunchFinishes, <1>b DEF ManagerReplies, Workers, UnitFits, LaunchPending, Results
<1>10. CASE SystemdAnswers
  BY <1>10, <1>0, <1>a, LaunchFinishes DEF SystemdAnswers, SystemdResult, UnitFits
<1>11. CASE ApplicationEnds
  BY <1>0, <1>11 DEF ApplicationEnds, UnitFits, LaunchPending, Results, Workers, LaunchInv
<1>12. ASSUME NEW b \in LaunchAnswers, ~b.completed, NEW result \in Results,
              b.told = 0, result = "uncertain" \/ (w.step = "done" /\ result = w.result), ~b.timer, b.signal => w.step = "done",
              w.step # "none", launchAnswer' = Tell(b, result), UNCHANGED <<launchHost, launchWorker, launchUnit>>
       PROVE  LaunchInv'
  <2> DEFINE c == Tell(b, result)
  <2>1. /\ c \in LaunchAnswers /\ c.completed /\ c.told = 1 /\ c.answer = result
        /\ c.timer = b.timer /\ c.signal = b.signal /\ c.context = b.context
    <3>1. c = [b EXCEPT !.completed = TRUE, !.told = 1, !.answer = result]
      BY <1>12 DEF Tell
    <3>2. {0, 1} \subseteq Nat /\ 1 \in {0, 1} /\ TRUE \in BOOLEAN /\ result \in Results \cup {LaunchPending}
      BY <1>12
    <3> HIDE DEF c
    <3> QED
      BY <1>12, <3>1, <3>2 DEF LaunchAnswers
  <2>2. launchAnswer' = c
    BY <1>12
  <2> HIDE DEF c
  <2>3. AnswerFits(c, w)
    BY <1>0, <1>12, <2>1 DEF AnswerFits
  <2> QED
    BY <1>12, <1>c, <2>1, <2>2, <2>3
<1>13. CASE LaunchTimeout
  <2> DEFINE b == [launchAnswer EXCEPT !.timer = FALSE]
  <2>1. /\ b \in LaunchAnswers /\ ~b.timer /\ b.signal = a.signal /\ b.completed = a.completed
        /\ b.context = a.context /\ b.told = a.told /\ b.answer = a.answer
    BY <1>0 DEF LaunchAnswers
  <2>2. /\ a.timer /\ UNCHANGED <<launchHost, launchWorker, launchUnit>>
        /\ launchAnswer' = IF a.completed THEN b ELSE Tell(b, IF w.step = "done" THEN w.result ELSE "uncertain")
    BY <1>13 DEF LaunchTimeout
  <2> HIDE DEF b
  <2>3. CASE a.completed
    <3>1. AnswerFits(b, w)
      BY <1>0, <2>1, <2>3 DEF AnswerFits
    <3> QED
      BY <1>c, <2>1, <2>2, <2>3, <3>1
  <2>4. CASE ~a.completed
    BY <1>0, <1>a, <2>2, <2>4, <1>12, <2>1 DEF UnitFits, Workers, AnswerFits
  <2> QED
    BY <2>3, <2>4
<1>14. CASE WatcherFinished
  <2> DEFINE b == [launchAnswer EXCEPT !.signal = FALSE, !.timer = FALSE]
  <2>1. /\ b \in LaunchAnswers /\ ~b.timer /\ ~b.signal /\ b.completed = a.completed
        /\ b.context = a.context /\ b.told = a.told /\ b.answer = a.answer
    BY <1>0 DEF LaunchAnswers
  <2>2. /\ a.signal /\ UNCHANGED <<launchHost, launchWorker, launchUnit>>
        /\ launchAnswer' = IF a.completed THEN b ELSE Tell(b, w.result)
    BY <1>14 DEF WatcherFinished
  <2>5. w.step = "done" /\ w.result \in Results
    BY <1>0, <2>2 DEF AnswerFits, UnitFits, Workers
  <2> HIDE DEF b
  <2>3. CASE a.completed
    <3>1. AnswerFits(b, w)
      BY <1>0, <2>1, <2>3, <2>5 DEF AnswerFits
    <3> QED
      BY <1>c, <2>1, <2>2, <2>3, <3>1
  <2>4. CASE ~a.completed
    BY <1>0, <2>4, <2>2, <2>5, <1>12, <2>1 DEF AnswerFits
  <2> QED
    BY <2>3, <2>4
<1>15. CASE ContextGone
  <2> DEFINE b == [launchAnswer EXCEPT !.context = FALSE, !.signal = FALSE, !.timer = FALSE]
  <2>1. /\ b \in LaunchAnswers /\ ~b.timer /\ ~b.signal /\ b.completed = a.completed
        /\ ~b.context /\ b.told = a.told /\ b.answer = a.answer
    BY <1>0 DEF LaunchAnswers
  <2>2. w.step # "none" /\ UNCHANGED <<launchHost, launchWorker, launchUnit>> /\ launchAnswer' = b
    BY <1>15 DEF ContextGone
  <2> HIDE DEF b
  <2>3. AnswerFits(b, w)
    BY <1>0, <2>1, <2>2 DEF AnswerFits
  <2> QED
    BY <1>c, <2>1, <2>2, <2>3
<1>16. CASE UNCHANGED launchVars
  BY <1>0, <1>16 DEF launchVars, LaunchInv
<1> QED
  BY <1>1, <1>2, <1>3, <1>4, <1>5, <1>6, <1>7, <1>8, <1>9, <1>10, <1>11, <1>13, <1>14, <1>15, <1>16 DEF LaunchNext

LEMMA LaunchesAreHonest ==
  ASSUME LaunchInv
  PROVE  LaunchTypeOK /\ LaunchIsHonest
BY DEF LaunchInv, LaunchTypeOK, Hosts, Workers, LaunchAnswers, LaunchIsHonest, AnswerFits, UnitFits, Results,
   LaunchPending

----------------------------------------------------------------------------
(***************************************************************************)
(* Guarded processes.                                                      *)
(***************************************************************************)

Guards == [process : {"none", "starting", "running", "killed", "exited", "crashed", "failed", "deleted"},
           timer : BOOLEAN, completed : BOOLEAN, context : BOOLEAN, callbacks : {0, 1},
           told : {"nothing", "exit", "error", "timeout"}]

\* Nobody is told before the process completes, and whoever is there then is told.
GuardFits(g) ==
  /\ g.callbacks = 0 <=> g.told = "nothing"
  /\ ~g.completed => g.callbacks = 0
  /\ g.completed /\ g.context => g.callbacks = 1
  /\ g.process = "deleted" => g.completed

GuardedInv == guarded \in Guards /\ GuardFits(guarded)

\* A process completes, at most once.
LEMMA ProcessCompletes ==
  ASSUME NEW g \in Guards, GuardFits(g), NEW what \in {"exit", "error", "timeout"}
  PROVE  /\ Complete(g, what) \in Guards /\ GuardFits(Complete(g, what))
         /\ Complete(g, what).completed /\ Complete(g, what).timer = g.timer
         /\ Complete(g, what).process = g.process /\ Complete(g, what).context = g.context
<1> DEFINE c == Complete(g, what)
<1>1. CASE g.completed
  BY <1>1 DEF Complete, GuardFits
<1>2. CASE ~g.completed /\ ~g.context
  <2>1. c = [g EXCEPT !.completed = TRUE]
    BY <1>2 DEF Complete, Deliver
  <2> HIDE DEF c
  <2>2. /\ c \in Guards /\ c.completed /\ c.timer = g.timer /\ c.process = g.process /\ c.context = g.context
        /\ c.callbacks = g.callbacks /\ c.told = g.told
    BY <2>1 DEF Guards
  <2>3. GuardFits(c)
    BY <1>2, <2>2 DEF GuardFits
  <2> QED
    BY <2>2, <2>3 DEF c
<1>3. CASE ~g.completed /\ g.context
  <2>1. c = [[g EXCEPT !.callbacks = @ + 1, !.told = what] EXCEPT !.completed = TRUE]
    BY <1>3 DEF Complete, Deliver
  <2>0. g.callbacks = 0
    BY <1>3 DEF GuardFits
  <2> HIDE DEF c
  <2>4. c = [g EXCEPT !.callbacks = 1, !.told = what, !.completed = TRUE]
    BY <2>0, <2>1 DEF Guards
  <2>2. /\ c \in Guards /\ c.completed /\ c.timer = g.timer /\ c.process = g.process /\ c.context = g.context
        /\ c.callbacks = 1 /\ c.told = what
    BY <2>4 DEF Guards
  <2>3. GuardFits(c)
    BY <1>3, <2>2 DEF GuardFits
  <2> QED
    BY <2>2, <2>3 DEF c
<1> QED
  BY <1>1, <1>2, <1>3 DEF Guards

\* What the invariant does not ask about changes.
Moves(h, g, process, timer) == h = [g EXCEPT !.process = process, !.timer = timer]

LEMMA ProcessMoves ==
  ASSUME NEW g \in Guards, GuardFits(g), NEW timer \in BOOLEAN,
         NEW process \in {"none", "starting", "running", "killed", "exited", "crashed", "failed", "deleted"},
         process = "deleted" => g.completed, NEW h, Moves(h, g, process, timer)
  PROVE  h \in Guards /\ GuardFits(h)
<1>1. /\ h \in Guards /\ h.completed = g.completed /\ h.process = process /\ h.context = g.context
      /\ h.callbacks = g.callbacks /\ h.told = g.told
  BY DEF Moves, Guards
<1> QED
  BY <1>1 DEF GuardFits

LEMMA GuardedStart == GuardedInit => GuardedInv
BY DEF GuardedInit, GuardedInv, Guards, GuardFits

LEMMA GuardedStep ==
  ASSUME GuardedInv, [GuardedNext]_guardedVars
  PROVE  GuardedInv'
<1> DEFINE g == guarded
           processes == {"none", "starting", "running", "killed", "exited", "crashed", "failed", "deleted"}
<1>0. g \in Guards /\ GuardFits(g)
  BY DEF GuardedInv
<1>a. g.timer \in BOOLEAN /\ g.process \in processes
  BY <1>0 DEF Guards
\* A handler that completes moves the process on, or leaves it.
<1>b. ASSUME NEW what \in {"exit", "error", "timeout"}, NEW p \in processes, NEW timer \in BOOLEAN,
             guarded' = [Complete(g, what) EXCEPT !.process = p, !.timer = timer]
      PROVE  GuardedInv'
  <2> DEFINE c == Complete(g, what)
  <2>1. c \in Guards /\ GuardFits(c) /\ c.completed
    BY <1>0, ProcessCompletes
  <2>2. Moves(guarded', c, p, timer)
    BY <1>b DEF Moves
  <2> HIDE DEF c
  <2> QED
    BY <1>b, <2>1, <2>2, ProcessMoves DEF GuardedInv
<1>c. ASSUME NEW p \in processes \ {"deleted"}, NEW timer \in BOOLEAN, guarded' = [g EXCEPT !.process = p, !.timer = timer]
      PROVE  GuardedInv'
  <2>1. Moves(guarded', g, p, timer)
    BY <1>c DEF Moves
  <2> QED
    BY <1>0, <1>c, <2>1, ProcessMoves DEF GuardedInv
<1>d. ASSUME NEW what \in {"exit", "error", "timeout"}, NEW p \in processes,
             guarded' = [Complete(g, what) EXCEPT !.process = p]
      PROVE  GuardedInv'
  <2> DEFINE c == Complete(g, what)
  <2>1. c \in Guards /\ c.timer = g.timer
    BY <1>0, ProcessCompletes
  <2>0. guarded' = [c EXCEPT !.process = p]
    BY <1>d
  <2> HIDE DEF c
  <2>2. guarded' = [c EXCEPT !.process = p, !.timer = g.timer]
    BY <2>0, <2>1 DEF Guards
  <2>3. guarded' = [Complete(g, what) EXCEPT !.process = p, !.timer = g.timer]
    BY <2>2 DEF c
  <2> QED
    BY <1>a, <1>b, <2>3
<1>e. ASSUME NEW p \in processes \ {"deleted"}, guarded' = [g EXCEPT !.process = p] PROVE GuardedInv'
  <2>1. guarded' = [g EXCEPT !.process = p, !.timer = g.timer]
    BY <1>0, <1>e DEF Guards
  <2> QED
    BY <1>a, <1>c, <1>e, <2>1
<1>p. /\ {"starting", "running", "crashed"} \subseteq processes \ {"deleted"}
      /\ {"deleted", "failed", "exited"} \subseteq processes /\ TRUE \in BOOLEAN
      /\ {"exit", "error"} \subseteq {"exit", "error", "timeout"}
  OBVIOUS
<1>1. CASE Run
  <2>1. CASE guarded' = [g EXCEPT !.process = "starting", !.timer = TRUE]
    BY <1>c, <1>p, <2>1
  <2>2. CASE guarded' = [Complete(g, "error") EXCEPT !.process = "deleted"]
    BY <1>d, <1>p, <2>2
  <2> QED
    BY <1>1, <2>1, <2>2 DEF Run
<1>2. CASE Starts
  BY <1>2, <1>e, <1>p DEF Starts
<1>3. CASE ErrorOccurred
  BY <1>d, <1>p, <1>0, ProcessCompletes, <1>3 DEF GuardedInv, ErrorOccurred
<1>4. CASE Finished
  BY <1>4, <1>d, <1>p DEF Finished
<1>5. CASE Crashes
  BY <1>5, <1>e, <1>p DEF Crashes
<1>6. CASE Timeout
  <2> DEFINE c == Complete(g, "timeout")
             p == IF ~g.completed /\ c.process \in {"starting", "running"} THEN "killed" ELSE c.process
  <2>1. guarded' = [c EXCEPT !.timer = FALSE, !.process = p]
    BY <1>6 DEF Timeout
  <2>2. c \in Guards
    BY <1>0, ProcessCompletes
  <2>3. p \in processes
    BY <2>2 DEF Guards
  <2>4. guarded' = [c EXCEPT !.process = p, !.timer = FALSE]
    <3> HIDE DEF c, p
    <3> QED
      BY <2>1, <2>2 DEF Guards
  <2> HIDE DEF p
  <2> QED
    BY <1>b, <2>3, <2>4
<1>7. CASE Deletes
  <2>1. g.completed /\ Moves(guarded', g, "deleted", FALSE)
    BY <1>7 DEF Deletes, Moves
  <2>2. "deleted" \in processes
    OBVIOUS
  <2> QED
    BY <1>0, <2>1, <2>2, ProcessMoves DEF GuardedInv
<1>8. CASE ContextDies
  <2> DEFINE h == [g EXCEPT !.context = FALSE]
  <2>1. /\ h \in Guards /\ h.completed = g.completed /\ h.process = g.process /\ ~h.context
        /\ h.callbacks = g.callbacks /\ h.told = g.told
    BY <1>0 DEF Guards
  <2>2. guarded' = h
    BY <1>8 DEF ContextDies
  <2> HIDE DEF h
  <2>3. GuardFits(h)
    BY <1>0, <2>1 DEF GuardFits
  <2> QED
    BY <2>1, <2>2, <2>3 DEF GuardedInv
<1>9. CASE UNCHANGED guardedVars
  BY <1>0, <1>9 DEF guardedVars, GuardedInv
<1> QED
  BY <1>1, <1>2, <1>3, <1>4, <1>5, <1>6, <1>7, <1>8, <1>9 DEF GuardedNext

LEMMA ProcessesAnswerOnce ==
  ASSUME GuardedInv
  PROVE  GuardedTypeOK /\ GuardedAnswersOnce
BY DEF GuardedInv, GuardedTypeOK, Guards, GuardedAnswersOnce, GuardFits

----------------------------------------------------------------------------
(***************************************************************************)
(* The configuration.  First the settings: what each is read as.           *)
(***************************************************************************)

LEMMA SettingsAre ==
  /\ Settings = {"overview_access", "persist_body", "count", "margin", "latitude", "longitude", "provider", "location_source",
                 "units", "temp_unit", "refresh_interval", "logo"}
  /\ Coordinates = {"latitude", "longitude"} /\ Flags = {"overview_access", "persist_body"}
BY DEF Settings, Flags, Ranged, Coordinates, TextChoices

\* The table of the settings of a document.
TableFits(f) == f = [s \in Settings |-> f[s]] /\ \A s \in Settings : f[s] \in Values(s)

\* What an accepted setting may be.
AcceptedTable(f) ==
  /\ f = [s \in Settings |-> f[s]]
  /\ \A s \in {"overview_access", "persist_body", "count", "margin", "refresh_interval", "logo"} : f[s] \in {"absent", "default", "set"}
  /\ f["latitude"] \in {"absent", "set"} /\ f["longitude"] \in {"absent", "set"}
  /\ f["provider"] \in {"absent", "open-meteo", "openweathermap"}
  /\ f["location_source"] \in {"absent", "manual", "auto"}
  /\ f["units"] \in {"absent", "metric", "imperial", "standard"}
  /\ f["temp_unit"] \in {"absent", "celsius", "fahrenheit", "kelvin"}

LEMMA ValuesAre ==
  /\ Values("overview_access") = {"absent", "wrong", "default", "set"} /\ Values("persist_body") = {"absent", "wrong", "default", "set"}
  /\ Values("logo") = {"absent", "wrong", "default", "set"}
  /\ Values("latitude") = {"absent", "wrong", "low", "set", "high"} /\ Values("longitude") = {"absent", "wrong", "low", "set", "high"}
  /\ Values("count") = {"absent", "wrong", "low", "default", "set", "high"}
  /\ Values("margin") = {"absent", "wrong", "low", "default", "set"}
  /\ Values("refresh_interval") = {"absent", "wrong", "low", "default", "set"}
  /\ Values("provider") = {"absent", "wrong", "unknown", "open-meteo", "openweathermap"}
  /\ Values("location_source") = {"absent", "wrong", "unknown", "manual", "auto"}
  /\ Values("units") = {"absent", "wrong", "unknown", "metric", "imperial", "standard"}
  /\ Values("temp_unit") = {"absent", "wrong", "unknown", "celsius", "fahrenheit", "kelvin"}
BY DEF Flags, Values, Coordinates

LEMMA AcceptedValues ==
  ASSUME NEW f, TableFits(f), \A s \in Settings : ValueIsValid(s, f[s])
  PROVE  AcceptedTable(f)
BY SettingsAre, ValuesAre DEF TableFits, ValueIsValid, AcceptedTable

\* The other way: a table of accepted values fits and is accepted.
LEMMA AcceptedIsValid ==
  ASSUME NEW f, AcceptedTable(f)
  PROVE  TableFits(f) /\ \A s \in Settings : ValueIsValid(s, f[s])
BY ValuesAre, SettingsAre DEF AcceptedTable, ValueIsValid, TableFits

\* What an accepted table is parsed to, setting by setting.
OrDefault(v, default) == IF v = "absent" THEN default ELSE v

LEMMA ParsedAre ==
  ASSUME NEW f, AcceptedTable(f)
  PROVE  /\ ParsedSettings(f) = [s \in Settings |-> ParsedSettings(f)[s]]
         /\ \A s \in {"overview_access", "persist_body", "count", "margin", "refresh_interval", "logo"} :
              ParsedSettings(f)[s] = OrDefault(f[s], "default")
         /\ ParsedSettings(f)["latitude"] = OrDefault(f["latitude"], "none") /\ ParsedSettings(f)["longitude"] = OrDefault(f["longitude"], "none")
         /\ ParsedSettings(f)["provider"] = OrDefault(f["provider"], "openweathermap")
         /\ ParsedSettings(f)["units"] = OrDefault(f["units"], "metric")
         /\ ParsedSettings(f)["temp_unit"] = OrDefault(f["temp_unit"], TempUnitOf(OrDefault(f["units"], "metric")))
         /\ ParsedSettings(f)["location_source"] =
              OrDefault(f["location_source"], IF f["latitude"] = "set" /\ f["longitude"] = "set" THEN "manual" ELSE "auto")
BY SettingsAre DEF ParsedSettings, Read, OrDefault, AcceptedTable, ParsedWorkspaces, Clamped, ParsedHistory, ParsedLogo,
   ParsedMargin, ParsedWeather, ReadPositive, ReadCoordinate

\* Nothing that is set is replaced.
LEMMA AcceptedSettings ==
  ASSUME NEW f, AcceptedTable(f), NEW s \in Settings, f[s] # "absent"
  PROVE  ParsedSettings(f)[s] = f[s]
BY ParsedAre, SettingsAre DEF OrDefault

\* The settings as they are written.
WrittenTable(p) == [s \in Settings |-> IF s = "logo" \/ p[s] = "none" THEN "absent" ELSE p[s]]

LEMMA WrittenSettings ==
  ASSUME NEW f, AcceptedTable(f)
  PROVE  /\ AcceptedTable(WrittenTable(ParsedSettings(f)))
         /\ ParsedSettings(WrittenTable(ParsedSettings(f))) = [s \in Settings |-> IF s = "logo" THEN "default" ELSE ParsedSettings(f)[s]]
BY ParsedAre, SettingsAre DEF WrittenTable, AcceptedTable, OrDefault, TempUnitOf

----------------------------------------------------------------------------
(***************************************************************************)
(* The widgets.                                                            *)
(***************************************************************************)

\* A widget by its fields; of a countdown that counts, the title and the date are there.
Widget(type, enabled, position, monitors, title, deadline, minutes) ==
  [type |-> type, enabled |-> enabled, position |-> position, monitors |-> monitors,
   title |-> title, deadline |-> deadline, minutes |-> minutes]

LEMMA AcceptedWidget ==
  ASSUME NEW e \in Entry, EntryIsValid(e)
  PROVE  /\ ParsedWidget(e) # NoWidget /\ ParsedWidget(e).type = e.type
         /\ ParsedWidget(e) = Widget(e.type, e.enabled # "no", IF e.position = "corner" THEN "corner" ELSE "center", e.monitors = "names",
                                     e.type = "time-to-event" /\ e.title = "text", e.type = "time-to-event" /\ e.deadline = "date",
                                     IF e.type = "mpris" /\ e.minutes = "set" THEN "set" ELSE "default")
<1>1. /\ e.type \in {"time-to-event", "clock", "mpris"} /\ e.position \in {"absent", "corner", "center"}
      /\ e.minutes \in {"absent", "default", "set"}
      /\ e.type = "time-to-event" /\ e.enabled # "no" => e.title = "text" /\ e.deadline = "date"
  BY DEF Entry, EntryIsValid
<1> DEFINE strict == e.enabled # "no"
           names == e.monitors = "names"
           place == IF e.position = "corner" THEN "corner" ELSE "center"
           text == e.title = "text"
           date == e.deadline = "date"
           common == [DefaultWidget EXCEPT !.type = e.type, !.enabled = strict, !.position = PositionOf(e, strict), !.monitors = names]
<1>2. PositionOf(e, strict) = place /\ place # "refused"
  BY <1>1 DEF PositionOf
<1>3. strict \in BOOLEAN /\ names \in BOOLEAN /\ text \in BOOLEAN /\ date \in BOOLEAN
  OBVIOUS
<1>4. ~(e.type = "time-to-event" /\ CountdownRefused(e, strict))
  BY <1>1 DEF CountdownRefused
<1>5. e.type # "other"
  BY <1>1
<1>6. ParsedWidget(e) = IF common.position = "refused" \/ (e.type = "time-to-event" /\ CountdownRefused(e, strict)) THEN NoWidget
                        ELSE CASE e.type = "time-to-event" -> [common EXCEPT !.title = text, !.deadline = date]
                               [] e.type = "clock" -> common
                               [] e.type = "mpris" -> [common EXCEPT !.minutes = Clamped(Read(e.minutes, "default"))]
  BY <1>5, Zenon DEF ParsedWidget
<1> HIDE DEF strict, names, text, date, place
<1>7. common = Widget(e.type, strict, place, names, FALSE, FALSE, "default")
  <2>1. common = [DefaultWidget EXCEPT !.type = e.type, !.enabled = strict, !.position = place, !.monitors = names]
    BY <1>2
  <2>2. common = [[[[DefaultWidget EXCEPT !.type = e.type] EXCEPT !.enabled = strict] EXCEPT !.position = place] EXCEPT !.monitors = names]
    BY <2>1
  <2>3. DefaultWidget = Widget("time-to-event", TRUE, "center", FALSE, FALSE, FALSE, "default")
    BY DEF Widget, DefaultWidget
  <2> HIDE DEF common
  <2> DEFINE no == FALSE
             yes == TRUE
             d0 == DefaultWidget
             d1 == [d0 EXCEPT !.type = e.type]
             d2 == [d1 EXCEPT !.enabled = strict]
             d3 == [d2 EXCEPT !.position = place]
             type == e.type
  <2>4. common = [d3 EXCEPT !.monitors = names]
    BY <2>2
  <2>5. d0 = Widget("time-to-event", yes, "center", no, no, no, "default") /\ no = FALSE /\ yes = TRUE
    BY <2>3
  <2> HIDE DEF no, yes, d0, type
  <2>6. d1 = [d0 EXCEPT !.type = type]
    BY DEF type
  <2> HIDE DEF d1
  <2>7. d1 = Widget(type, yes, "center", no, no, no, "default")
    BY <2>5, <2>6 DEF Widget
  <2> HIDE DEF d2
  <2>8. d2 = Widget(type, strict, "center", no, no, no, "default")
    BY <2>7 DEF d2, Widget
  <2> HIDE DEF d3
  <2>9. d3 = Widget(type, strict, place, no, no, no, "default")
    BY <2>8 DEF d3, Widget
  <2>10. common = Widget(type, strict, place, names, no, no, "default")
    BY <2>4, <2>9 DEF Widget
  <2> QED
    BY <2>5, <2>10, Zenon DEF type
<1> HIDE DEF common
<1>8. common.position = place
  BY <1>7 DEF Widget
<1>9. Clamped(Read(e.minutes, "default")) = IF e.minutes = "set" THEN "set" ELSE "default"
  BY <1>1 DEF Clamped, Read
<1>10. e.type = "time-to-event" => ParsedWidget(e) = Widget(e.type, strict, place, names, text, date, "default")
  <2> HAVE e.type = "time-to-event"
  <2>1. ParsedWidget(e) = [common EXCEPT !.title = text, !.deadline = date]
    BY <1>2, <1>4, <1>6, <1>8
  <2> QED
    BY <1>7, <2>1 DEF Widget
<1>11. e.type = "clock" => ParsedWidget(e) = Widget(e.type, strict, place, names, FALSE, FALSE, "default")
  BY <1>2, <1>4, <1>6, <1>7, <1>8
<1>12. e.type = "mpris" => ParsedWidget(e) = Widget(e.type, strict, place, names, FALSE, FALSE, IF e.minutes = "set" THEN "set" ELSE "default")
  <2> HAVE e.type = "mpris"
  <2>1. ParsedWidget(e) = [common EXCEPT !.minutes = IF e.minutes = "set" THEN "set" ELSE "default"]
    BY <1>2, <1>4, <1>6, <1>8, <1>9
  <2> QED
    BY <1>7, <2>1 DEF Widget
<1>13. ParsedWidget(e) = Widget(e.type, strict, place, names, e.type = "time-to-event" /\ text, e.type = "time-to-event" /\ date,
                                IF e.type = "mpris" /\ e.minutes = "set" THEN "set" ELSE "default")
  BY <1>1, <1>3, <1>10, <1>11, <1>12, Zenon
<1>14. \A a, b, c, d, k, l, m : Widget(a, b, c, d, k, l, m) # NoWidget /\ Widget(a, b, c, d, k, l, m).type = a
  BY DEF Widget, NoWidget
<1> QED
  BY <1>13, <1>14 DEF strict, names, text, date, place

\* A widget that is written is accepted, and read as it was.
LEMMA WrittenWidgets ==
  ASSUME NEW e \in Entry, EntryIsValid(e)
  PROVE  /\ WrittenWidget(ParsedWidget(e)) \in Entry /\ EntryIsValid(WrittenWidget(ParsedWidget(e)))
         /\ ParsedWidget(WrittenWidget(ParsedWidget(e))) = ParsedWidget(e)
<1> DEFINE strict == e.enabled # "no"
           names == e.monitors = "names"
           place == IF e.position = "corner" THEN "corner" ELSE "center"
           text == e.type = "time-to-event" /\ e.title = "text"
           date == e.type = "time-to-event" /\ e.deadline = "date"
           minutes == IF e.type = "mpris" /\ e.minutes = "set" THEN "set" ELSE "default"
           w == ParsedWidget(e)
           k == WrittenWidget(w)
<1>1. w = Widget(e.type, strict, place, names, text, date, minutes)
  BY AcceptedWidget
<1>2. /\ e.type \in {"time-to-event", "clock", "mpris"}
      /\ strict \in BOOLEAN /\ names \in BOOLEAN /\ text \in BOOLEAN /\ date \in BOOLEAN
      /\ place \in {"corner", "center"} /\ minutes \in {"set", "default"}
      /\ e.type = "time-to-event" /\ strict => text /\ date
      /\ e.type # "time-to-event" => ~text /\ ~date
      /\ e.type # "mpris" => minutes = "default"
  BY DEF Entry, EntryIsValid
<1> HIDE DEF w, strict, names, place, text, date, minutes
<1>3. w.type = e.type /\ w.enabled = strict /\ w.position = place /\ w.monitors = names /\ w.title = text /\ w.deadline = date /\ w.minutes = minutes
  BY <1>1 DEF Widget
<1>4. k = [type |-> e.type, enabled |-> IF strict THEN "yes" ELSE "no", position |-> place,
           monitors |-> IF names THEN "names" ELSE "absent", title |-> IF text THEN "text" ELSE "absent",
           deadline |-> IF e.type # "time-to-event" THEN "absent" ELSE IF date THEN "date" ELSE "words",
           minutes |-> IF e.type = "mpris" THEN minutes ELSE "absent"]
  BY <1>3 DEF WrittenWidget
<1> HIDE DEF k
<1>5. /\ k.type = e.type /\ k.enabled = (IF strict THEN "yes" ELSE "no") /\ k.position = place
      /\ k.monitors = (IF names THEN "names" ELSE "absent") /\ k.title = (IF text THEN "text" ELSE "absent")
      /\ k.deadline = (IF e.type # "time-to-event" THEN "absent" ELSE IF date THEN "date" ELSE "words")
      /\ k.minutes = (IF e.type = "mpris" THEN minutes ELSE "absent")
  BY <1>4
<1>6. k \in Entry
  BY <1>2, <1>5, <1>4 DEF Entry
<1>7. EntryIsValid(k)
  BY <1>2, <1>5 DEF EntryIsValid
<1>8. ParsedWidget(k) = Widget(k.type, k.enabled # "no", IF k.position = "corner" THEN "corner" ELSE "center", k.monitors = "names",
                               k.type = "time-to-event" /\ k.title = "text", k.type = "time-to-event" /\ k.deadline = "date",
                               IF k.type = "mpris" /\ k.minutes = "set" THEN "set" ELSE "default")
  BY <1>6, <1>7, AcceptedWidget
<1>9. /\ k.enabled # "no" <=> strict
      /\ k.monitors = "names" <=> names
      /\ k.type = "time-to-event" /\ k.title = "text" <=> text
      /\ k.type = "time-to-event" /\ k.deadline = "date" <=> date
      /\ (IF k.position = "corner" THEN "corner" ELSE "center") = place
      /\ (IF k.type = "mpris" /\ k.minutes = "set" THEN "set" ELSE "default") = minutes
  BY <1>2, <1>5
<1>10. /\ (k.enabled # "no") = strict /\ (k.monitors = "names") = names
       /\ (k.type = "time-to-event" /\ k.title = "text") = text
       /\ (k.type = "time-to-event" /\ k.deadline = "date") = date
  BY <1>2, <1>9, Zenon
<1>11. ParsedWidget(k) = w
  BY <1>8, <1>9, <1>10, <1>1, <1>5
<1> QED
  BY <1>6, <1>7, <1>11 DEF k, w

\* The lists of them.
AcceptedEntries(entries) == entries \in Seq(Entry) /\ \A i \in 1..Len(entries) : EntryIsValid(entries[i])

LEMMA ParsedLists ==
  ASSUME NEW entries, AcceptedEntries(entries)
  PROVE  ParsedWidgets(entries) = [i \in 1..Len(entries) |-> ParsedWidget(entries[i])]
<1> DEFINE parsed == [i \in 1..Len(entries) |-> ParsedWidget(entries[i])]
           S == {i \in 1..Len(entries) : parsed[i] # NoWidget}
           T == {parsed[i] : i \in 1..Len(entries)}
<1>1. entries \in Seq(Entry) /\ Len(entries) \in Nat /\ \A i \in 1..Len(entries) : entries[i] \in Entry /\ EntryIsValid(entries[i])
  BY DEF AcceptedEntries
<1>2. \A i \in 1..Len(entries) : parsed[i] # NoWidget
  BY <1>1, AcceptedWidget
<1>3. S = 1..Len(entries)
  BY <1>2
<1>4. parsed \in Seq(T) /\ Len(parsed) = Len(entries)
  BY <1>1
<1>5. Cardinality(1..Len(entries)) = Len(entries)
  BY <1>1, FS_Interval
<1>6. ParsedWidgets(entries) = SubSeqAt(parsed, S)
  BY DEF ParsedWidgets
<1> HIDE DEF parsed, S, T
<1>7. SubSeqAt(parsed, 1..Len(parsed)) = parsed
  BY <1>4, <1>5, SubSeqAtProperties
<1> QED
  BY <1>3, <1>4, <1>6, <1>7 DEF parsed

\* An accepted entry is kept.
LEMMA EntryIsKept ==
  ASSUME NEW e \in Entry, EntryIsValid(e) PROVE IsTheEntry(ParsedWidget(e), e)
<1> DEFINE enabled == e.enabled # "no"
           place == IF e.position = "corner" THEN "corner" ELSE "center"
           names == e.monitors = "names"
           text == e.type = "time-to-event" /\ e.title = "text"
           date == e.type = "time-to-event" /\ e.deadline = "date"
           minutes == IF e.type = "mpris" /\ e.minutes = "set" THEN "set" ELSE "default"
           w == ParsedWidget(e)
<1>1. w = Widget(e.type, enabled, place, names, text, date, minutes)
  BY AcceptedWidget
<1>2. e.position \in {"absent", "corner", "center"} /\ e.minutes \in {"absent", "default", "set"}
  BY DEF Entry, EntryIsValid
<1>3. /\ place = IF e.position = "absent" THEN "center" ELSE e.position
      /\ e.type = "mpris" => minutes = IF e.minutes = "absent" THEN "default" ELSE e.minutes
      /\ e.type = "time-to-event" => text = (e.title = "text") /\ date = (e.deadline = "date")
  BY <1>2
<1> HIDE DEF enabled, place, names, text, date, minutes, w
<1>4. /\ w.type = e.type /\ w.enabled = enabled /\ w.position = place /\ w.monitors = names
      /\ w.title = text /\ w.deadline = date /\ w.minutes = minutes
  BY <1>1 DEF Widget
<1> QED
  BY <1>3, <1>4 DEF IsTheEntry, w, enabled, names

\* A list keeps its length and its entries.
LEMMA ParsedEntries ==
  ASSUME NEW entries, AcceptedEntries(entries), NEW widgets, widgets = ParsedWidgets(entries)
  PROVE  /\ entries \in Seq(Entry) /\ Len(entries) \in Nat /\ Len(widgets) = Len(entries)
         /\ \A i \in 1..Len(entries) : widgets[i] = ParsedWidget(entries[i]) /\ IsTheEntry(widgets[i], entries[i])
<1>1. entries \in Seq(Entry) /\ Len(entries) \in Nat /\ \A i \in 1..Len(entries) : entries[i] \in Entry /\ EntryIsValid(entries[i])
  BY DEF AcceptedEntries
<1>2. widgets = [i \in 1..Len(entries) |-> ParsedWidget(entries[i])]
  BY ParsedLists
<1>3. Len(widgets) = Len(entries) /\ \A i \in 1..Len(entries) : widgets[i] = ParsedWidget(entries[i])
  BY <1>1, <1>2
<1>4. \A i \in 1..Len(entries) : IsTheEntry(widgets[i], entries[i])
  BY <1>1, <1>3, EntryIsKept
<1> QED
  BY <1>1, <1>3, <1>4

LEMMA WrittenLists ==
  ASSUME NEW entries, AcceptedEntries(entries), NEW widgets, widgets = ParsedWidgets(entries)
  PROVE  /\ AcceptedEntries([i \in 1..Len(widgets) |-> WrittenWidget(widgets[i])])
         /\ ParsedWidgets([i \in 1..Len(widgets) |-> WrittenWidget(widgets[i])]) = widgets
<1> DEFINE written == [i \in 1..Len(widgets) |-> WrittenWidget(widgets[i])]
<1>1. entries \in Seq(Entry) /\ Len(entries) \in Nat /\ \A i \in 1..Len(entries) : entries[i] \in Entry /\ EntryIsValid(entries[i])
  BY DEF AcceptedEntries
<1>2. widgets = [i \in 1..Len(entries) |-> ParsedWidget(entries[i])]
  BY ParsedLists
<1>3. Len(widgets) = Len(entries) /\ \A i \in 1..Len(entries) : widgets[i] = ParsedWidget(entries[i])
  BY ParsedEntries
<1> DEFINE w2 == [i \in 1..Len(entries) |-> WrittenWidget(widgets[i])]
<1>5. \A i \in 1..Len(entries) : w2[i] \in Entry /\ EntryIsValid(w2[i]) /\ ParsedWidget(w2[i]) = widgets[i]
  BY <1>1, <1>3, WrittenWidgets
<1>6. w2 \in Seq(Entry) /\ Len(w2) = Len(entries)
  BY <1>1, <1>5
<1>7. w2 = written
  BY <1>3
<1> HIDE DEF w2, written
<1>8. AcceptedEntries(w2)
  BY <1>5, <1>6 DEF AcceptedEntries
<1>9. ParsedWidgets(w2) = [i \in 1..Len(w2) |-> ParsedWidget(w2[i])]
  BY <1>8, ParsedLists
<1>10. [i \in 1..Len(w2) |-> ParsedWidget(w2[i])] = widgets
  BY <1>3, <1>5, <1>2, <1>6
<1>11. ParsedWidgets(w2) = widgets
  BY <1>9, <1>10
<1> QED
  BY <1>7, <1>8, <1>11 DEF written

----------------------------------------------------------------------------
(***************************************************************************)
(* The accounts and the overrides, and documents.                          *)
(***************************************************************************)

AcceptedAccounts(accounts) ==
  AreTables(accounts, AccountKeys, Account) /\ \A k \in DOMAIN accounts : AccountIsValid(k[1], accounts[k])

AcceptedOverrides(overrides) ==
  AreTables(overrides, TableNames, Override) /\ \A n \in DOMAIN overrides : OverrideIsValid(overrides[n])

\* The tables whose names may stand bare.
BareAccounts(kept) == [k \in {k \in DOMAIN kept : k[2] \in BareNames} |-> kept[k]]
BareOverrides(kept) == [n \in DOMAIN kept \cap BareNames |-> kept[n]]

LEMMA KeysAre ==
  ASSUME NEW k \in AccountKeys
  PROVE  k = <<k[1], k[2]>> /\ k[1] \in {"caldav", "ics"} /\ k[2] \in TableNames
BY DEF AccountKeys

LEMMA HeadersAre ==
  ASSUME NEW n \in TableNames
  PROVE  /\ TableOf(n) \in TableNames /\ TableOf(n) # "dotted"
         /\ n \in BareNames <=> n = "bare"
         /\ n \in BareNames => TableOf(n) = n
         /\ n # "blank" => TableOf(n) \in BareNames
BY DEF TableOf, TableNames, BareNames

\* What is read of accepted accounts.
LEMMA ReadAccounts ==
  ASSUME NEW accounts, AcceptedAccounts(accounts), NEW kept, kept = ParsedAccounts(accounts)
  PROVE  /\ DOMAIN kept = DOMAIN accounts /\ DOMAIN kept \subseteq AccountKeys
         /\ kept = [k \in DOMAIN kept |-> kept[k]]
         /\ \A k \in DOMAIN kept : /\ kept[k] \in {"absent", "names"} /\ (kept[k] = "names" => k[1] = "caldav")
                                   /\ k[1] = "caldav" => kept[k] = accounts[k].include
<1> DEFINE S == {k \in DOMAIN accounts : accounts[k].url /\ (k[1] = "caldav" => accounts[k].username)}
<1>1. /\ DOMAIN accounts \subseteq AccountKeys
      /\ \A k \in DOMAIN accounts : accounts[k] \in Account /\ AccountIsValid(k[1], accounts[k])
  BY DEF AcceptedAccounts, AreTables
<1>2. S = DOMAIN accounts
  BY <1>1 DEF AccountIsValid
<1>3. kept = [k \in S |-> IF k[1] = "caldav" /\ accounts[k].include = "names" THEN "names" ELSE "absent"]
  BY DEF ParsedAccounts
<1> HIDE DEF S
<1>4. \A k \in DOMAIN accounts : accounts[k].include \in {"absent", "names"}
  BY <1>1 DEF AccountIsValid, Account
<1> QED
  BY <1>1, <1>2, <1>3, <1>4

\* What is written of them, and read again.
LEMMA SavedAccounts ==
  ASSUME NEW accounts, AcceptedAccounts(accounts), NEW kept, kept = ParsedAccounts(accounts), NEW saved, saved = WrittenAccounts(kept)
  PROVE  /\ AreTables(saved, AccountKeys, Account)
         /\ (\A k \in DOMAIN kept : k[2] \in BareNames) => AcceptedAccounts(saved)
         /\ (\A k \in DOMAIN kept : k[2] # "blank") /\ AcceptedAccounts(saved) => ParsedAccounts(saved) = BareAccounts(kept)
<1> DEFINE S == {<<key[1], TableOf(key[2])>> : key \in DOMAIN kept}
           Dav(k) == k[1] = "caldav"
<1>1. /\ DOMAIN kept \subseteq AccountKeys
      /\ \A k \in DOMAIN kept : kept[k] \in {"absent", "names"} /\ (kept[k] = "names" => Dav(k))
  BY ReadAccounts
<1>2. saved = [k \in S |-> IF k \in DOMAIN kept THEN [url |-> TRUE, username |-> Dav(k), include |-> kept[k]]
                           ELSE [url |-> FALSE, username |-> FALSE, include |-> "absent"]]
  BY DEF WrittenAccounts
<1>3. \A k \in S : k \in AccountKeys /\ k[2] # "dotted"
  <2> SUFFICES ASSUME NEW key \in DOMAIN kept PROVE LET k == <<key[1], TableOf(key[2])>> IN k \in AccountKeys /\ k[2] # "dotted"
    OBVIOUS
  <2> QED
    BY <1>1, KeysAre, HeadersAre DEF AccountKeys
<1>4. \A k \in DOMAIN kept : k[2] \in BareNames => k \in S
  BY <1>1, KeysAre, HeadersAre
<1>5. (\A k \in DOMAIN kept : k[2] \in BareNames) => S \subseteq DOMAIN kept
  BY <1>1, KeysAre, HeadersAre
<1>6. (\A k \in DOMAIN kept : k[2] # "blank") => \A k \in S : k[2] \in BareNames
  BY <1>1, KeysAre, HeadersAre
<1>7. \A k \in S : Dav(k) \in BOOLEAN
  OBVIOUS
<1> HIDE DEF S, Dav
<1>8. DOMAIN saved = S /\ saved = [k \in S |-> saved[k]]
  BY <1>2
<1>9. ASSUME NEW k \in S
      PROVE  /\ saved[k] \in Account
             /\ k \in DOMAIN kept => saved[k].url = TRUE /\ saved[k].username = Dav(k) /\ saved[k].include = kept[k]
             /\ k \notin DOMAIN kept => ~saved[k].url
  <2>1. CASE k \in DOMAIN kept
    <3>1. saved[k] = [url |-> TRUE, username |-> Dav(k), include |-> kept[k]]
      BY <1>2, <2>1
    <3> QED
      BY <1>1, <1>7, <2>1, <3>1 DEF Account
  <2>2. CASE k \notin DOMAIN kept
    <3>1. saved[k] = [url |-> FALSE, username |-> FALSE, include |-> "absent"]
      BY <1>2, <2>2
    <3> QED
      BY <2>2, <3>1 DEF Account
  <2> QED
    BY <2>1, <2>2
<1>10. AreTables(saved, AccountKeys, Account)
  BY <1>3, <1>8, <1>9 DEF AreTables
<1>11. ASSUME NEW k \in S, k \in DOMAIN kept PROVE AccountIsValid(k[1], saved[k])
  BY <1>1, <1>9, <1>11 DEF AccountIsValid, Dav
<1>12. (\A k \in DOMAIN kept : k[2] \in BareNames) => AcceptedAccounts(saved)
  BY <1>5, <1>8, <1>10, <1>11 DEF AcceptedAccounts
<1>13. ASSUME \A k \in DOMAIN kept : k[2] # "blank", AcceptedAccounts(saved) PROVE ParsedAccounts(saved) = BareAccounts(kept)
  <2>1. \A k \in S : AccountIsValid(k[1], saved[k])
    BY <1>8, <1>13 DEF AcceptedAccounts
  <2>2. \A k \in S : k \in DOMAIN kept
    BY <1>9, <2>1 DEF AccountIsValid
  <2>3. S = {k \in DOMAIN kept : k[2] \in BareNames}
    BY <1>4, <1>6, <1>13, <2>2
  <2>4. \A k \in S : saved[k].url /\ (k[1] = "caldav" => saved[k].username)
    BY <2>1 DEF AccountIsValid
  <2>5. {k \in DOMAIN saved : saved[k].url /\ (k[1] = "caldav" => saved[k].username)} = S
    BY <1>8, <2>4
  <2>6. \A k \in S : (IF k[1] = "caldav" /\ saved[k].include = "names" THEN "names" ELSE "absent") = kept[k]
    <3> SUFFICES ASSUME NEW k \in S PROVE (IF k[1] = "caldav" /\ saved[k].include = "names" THEN "names" ELSE "absent") = kept[k]
      OBVIOUS
    <3>1. saved[k].include = kept[k] /\ kept[k] \in {"absent", "names"} /\ (kept[k] = "names" => k[1] = "caldav")
      BY <1>1, <1>9, <2>2 DEF Dav
    <3> QED
      BY <3>1
  <2>7. ParsedAccounts(saved) = [k \in S |-> kept[k]]
    BY <2>5, <2>6 DEF ParsedAccounts
  <2> QED
    BY <2>3, <2>7 DEF BareAccounts
<1> QED
  BY <1>10, <1>12, <1>13

\* The same of the overrides.
LEMMA ReadOverrides ==
  ASSUME NEW overrides, AcceptedOverrides(overrides) PROVE ParsedOverrides(overrides) = overrides
<1> DEFINE S == {n \in DOMAIN overrides : overrides[n].icon /\ overrides[n].selector}
<1>1. S = DOMAIN overrides /\ overrides = [n \in DOMAIN overrides |-> overrides[n]]
  BY DEF AcceptedOverrides, AreTables, OverrideIsValid
<1>2. ParsedOverrides(overrides) = [n \in S |-> overrides[n]]
  BY DEF ParsedOverrides
<1> HIDE DEF S
<1> QED
  BY <1>1, <1>2

LEMMA SavedOverrides ==
  ASSUME NEW kept, AcceptedOverrides(kept), NEW saved, saved = WrittenOverrides(kept)
  PROVE  /\ AreTables(saved, TableNames, Override)
         /\ DOMAIN kept \subseteq BareNames => AcceptedOverrides(saved)
         /\ "blank" \notin DOMAIN kept /\ AcceptedOverrides(saved) => ParsedOverrides(saved) = BareOverrides(kept)
<1> DEFINE S == {TableOf(name) : name \in DOMAIN kept}
<1>1. DOMAIN kept \subseteq TableNames /\ \A n \in DOMAIN kept : kept[n] \in Override /\ OverrideIsValid(kept[n])
  BY DEF AcceptedOverrides, AreTables
<1>2. saved = [n \in S |-> IF n \in DOMAIN kept THEN kept[n] ELSE [icon |-> FALSE, selector |-> FALSE]]
  BY DEF WrittenOverrides
<1>3. S \subseteq TableNames
  BY <1>1, HeadersAre
<1>4. \A n \in DOMAIN kept : n \in BareNames => n \in S
  BY <1>1, HeadersAre
<1>5. DOMAIN kept \subseteq BareNames => S \subseteq DOMAIN kept
  BY <1>1, HeadersAre
<1>6. "blank" \notin DOMAIN kept => S \subseteq BareNames
  BY <1>1, HeadersAre
<1> HIDE DEF S
<1>7. DOMAIN saved = S /\ saved = [n \in S |-> saved[n]]
  BY <1>2
<1>8. ASSUME NEW n \in S
      PROVE  saved[n] \in Override /\ (n \in DOMAIN kept => saved[n] = kept[n]) /\ (n \notin DOMAIN kept => ~saved[n].icon)
  <2>1. n \in DOMAIN kept => saved[n] = kept[n]
    BY <1>2
  <2>2. CASE n \in DOMAIN kept
    BY <1>1, <2>1, <2>2
  <2>3. CASE n \notin DOMAIN kept
    <3>1. saved[n] = [icon |-> FALSE, selector |-> FALSE]
      BY <1>2, <2>3
    <3> QED
      BY <2>3, <3>1 DEF Override
  <2> QED
    BY <2>2, <2>3
<1>9. AreTables(saved, TableNames, Override)
  BY <1>3, <1>7, <1>8 DEF AreTables
<1>10. DOMAIN kept \subseteq BareNames => AcceptedOverrides(saved)
  BY <1>1, <1>5, <1>7, <1>8, <1>9 DEF AcceptedOverrides
<1>11. ASSUME "blank" \notin DOMAIN kept, AcceptedOverrides(saved) PROVE ParsedOverrides(saved) = BareOverrides(kept)
  <2>1. ParsedOverrides(saved) = saved
    BY <1>11, ReadOverrides
  <2>2. \A n \in S : n \in DOMAIN kept
    BY <1>7, <1>8, <1>11 DEF AcceptedOverrides, OverrideIsValid
  <2>3. S = DOMAIN kept \cap BareNames
    BY <1>4, <1>6, <1>11, <2>2
  <2>4. saved = [n \in S |-> kept[n]]
    BY <1>7, <1>8, <2>2
  <2> QED
    BY <2>1, <2>3, <2>4 DEF BareOverrides
<1> QED
  BY <1>9, <1>10, <1>11

AcceptedDocument(d) ==
  /\ IsDocument(d) /\ d.toml
  /\ AcceptedTable(d.settings) /\ AcceptedEntries(d.widgets) /\ AcceptedAccounts(d.accounts) /\ AcceptedOverrides(d.overrides)

LEMMA FailuresAre ==
  ASSUME NEW d, IsDocument(d)
  PROVE  /\ Failures(d) \subseteq Settings \cup {"widget", "calendar", "tray", "syntax"}
         /\ Failures(d) = {} <=> AcceptedDocument(d)
<1>1. /\ d.toml \in BOOLEAN /\ TableFits(d.settings) /\ d.widgets \in Seq(Entry)
      /\ AreTables(d.accounts, AccountKeys, Account) /\ AreTables(d.overrides, TableNames, Override)
  BY DEF IsDocument, TableFits
<1> DEFINE wrong == {s \in Settings : ~ValueIsValid(s, d.settings[s])}
           entries == \A i \in 1..Len(d.widgets) : EntryIsValid(d.widgets[i])
           accounts == \A k \in DOMAIN d.accounts : AccountIsValid(k[1], d.accounts[k])
           overrides == \A n \in DOMAIN d.overrides : OverrideIsValid(d.overrides[n])
<1>2. Failures(d) = IF d.toml THEN wrong \cup (IF entries THEN {} ELSE {"widget"}) \cup (IF accounts THEN {} ELSE {"calendar"})
                                        \cup (IF overrides THEN {} ELSE {"tray"})
                    ELSE {"syntax"}
  BY DEF Failures, DocumentDiagnostics
<1>3. wrong \subseteq Settings /\ (wrong = {} <=> \A s \in Settings : ValueIsValid(s, d.settings[s]))
  OBVIOUS
<1>4. wrong = {} <=> AcceptedTable(d.settings)
  BY <1>1, <1>3, AcceptedValues, AcceptedIsValid
<1>5. AcceptedDocument(d) <=> d.toml /\ wrong = {} /\ entries /\ accounts /\ overrides
  BY <1>1, <1>4 DEF AcceptedDocument, AcceptedEntries, AcceptedAccounts, AcceptedOverrides
<1> HIDE DEF wrong, entries, accounts, overrides
<1>6. Failures(d) \subseteq Settings \cup {"widget", "calendar", "tray", "syntax"}
  BY <1>2, <1>3
<1>7. Failures(d) = {} <=> d.toml /\ wrong = {} /\ entries /\ accounts /\ overrides
  BY <1>2
<1> QED
  BY <1>5, <1>6, <1>7

\* What the writer makes of an accepted document.
LEMMA WrittenDocuments ==
  ASSUME NEW d, AcceptedDocument(d)
  PROVE  /\ IsDocument(Written(Product(d)))
         /\ NamesOf(Product(d)) \subseteq BareNames => AcceptedDocument(Written(Product(d)))
         /\ AcceptedDocument(Written(Product(d))) => Product(Written(Product(d))) = SavedOf(Product(d))
<1> DEFINE p == Product(d)
           w == Written(p)
           f == ParsedSettings(d.settings)
           ws == ParsedWidgets(d.widgets)
           as == ParsedAccounts(d.accounts)
           os == d.overrides
           g == WrittenTable(f)
           es == [i \in 1..Len(ws) |-> WrittenWidget(ws[i])]
           bs == WrittenAccounts(as)
           qs == WrittenOverrides(os)
           names == {k[2] : k \in DOMAIN as} \cup DOMAIN os
<1>1. /\ AcceptedTable(d.settings) /\ AcceptedEntries(d.widgets) /\ AcceptedAccounts(d.accounts) /\ AcceptedOverrides(os)
  BY DEF AcceptedDocument
<1>2. AcceptedTable(g) /\ ParsedSettings(g) = [s \in Settings |-> IF s = "logo" THEN "default" ELSE f[s]]
  BY <1>1, WrittenSettings
<1>3. AcceptedEntries(es) /\ ParsedWidgets(es) = ws
  BY <1>1, WrittenLists
<1>4. /\ AreTables(bs, AccountKeys, Account)
      /\ (\A k \in DOMAIN as : k[2] \in BareNames) => AcceptedAccounts(bs)
      /\ (\A k \in DOMAIN as : k[2] # "blank") /\ AcceptedAccounts(bs) => ParsedAccounts(bs) = BareAccounts(as)
  BY <1>1, SavedAccounts
<1>5. /\ AreTables(qs, TableNames, Override)
      /\ DOMAIN os \subseteq BareNames => AcceptedOverrides(qs)
      /\ "blank" \notin DOMAIN os /\ AcceptedOverrides(qs) => ParsedOverrides(qs) = BareOverrides(os)
  BY <1>1, SavedOverrides
<1>6. ParsedOverrides(os) = os
  BY <1>1, ReadOverrides
<1>7. p = [settings |-> f, widgets |-> ws, accounts |-> as, overrides |-> os]
  BY <1>6 DEF Product
<1>8. p.settings = f /\ p.widgets = ws /\ p.accounts = as /\ p.overrides = os
  BY <1>7
<1>9. NamesOf(p) = names
  BY <1>8 DEF NamesOf
<1>10. w = [toml |-> "blank" \notin names, settings |-> g, widgets |-> es, accounts |-> bs, overrides |-> qs]
  BY <1>8, <1>9 DEF Written, WrittenTable
<1>11. f = [s \in Settings |-> f[s]]
  BY DEF ParsedSettings
<1>12. "blank" \notin names => (\A k \in DOMAIN as : k[2] # "blank") /\ "blank" \notin DOMAIN os
  OBVIOUS
<1>13. names \subseteq BareNames => /\ \A k \in DOMAIN as : k[2] \in BareNames
                                    /\ DOMAIN os \subseteq BareNames /\ "blank" \notin names
  BY DEF BareNames
<1>14. SavedOf(p) = [settings |-> [s \in Settings |-> IF s = "logo" THEN "default" ELSE f[s]], widgets |-> ws,
                     accounts |-> BareAccounts(as), overrides |-> BareOverrides(os)]
  <2>1. SavedOf(p) = [p EXCEPT !.settings["logo"] = "default", !.accounts = BareAccounts(p.accounts),
                               !.overrides = BareOverrides(p.overrides)]
    BY DEF SavedOf, BareAccounts, BareOverrides
  <2> HIDE DEF p, f, ws, as, os
  <2>2. SavedOf(p) = [settings |-> [f EXCEPT !["logo"] = "default"], widgets |-> ws, accounts |-> BareAccounts(as),
                      overrides |-> BareOverrides(os)]
    BY <2>1, <1>7, <1>8
  <2>3. [f EXCEPT !["logo"] = "default"] = [s \in Settings |-> IF s = "logo" THEN "default" ELSE f[s]]
    BY <1>11
  <2> QED
    BY <2>2, <2>3
<1> DEFINE toml == "blank" \notin names
<1>15. toml \in BOOLEAN /\ w = [toml |-> toml, settings |-> g, widgets |-> es, accounts |-> bs, overrides |-> qs]
  BY <1>10
<1>16. (toml <=> "blank" \notin names)
  OBVIOUS
<1> HIDE DEF p, w, f, ws, as, os, g, es, bs, qs, names, toml
<1>17. w.toml = toml /\ w.settings = g /\ w.widgets = es /\ w.accounts = bs /\ w.overrides = qs
  BY <1>15
<1>18. TableFits(g)
  BY <1>2, AcceptedIsValid
<1>19. es \in Seq(Entry)
  BY <1>3 DEF AcceptedEntries
<1>20. w = [toml |-> w.toml, settings |-> w.settings, widgets |-> w.widgets, accounts |-> w.accounts, overrides |-> w.overrides]
  BY <1>15, <1>17
<1>21. IsDocument(w)
  BY <1>4, <1>5, <1>15, <1>17, <1>18, <1>19, <1>20 DEF TableFits, IsDocument
<1>22. NamesOf(p) \subseteq BareNames => AcceptedDocument(w)
  BY <1>2, <1>3, <1>4, <1>5, <1>9, <1>13, <1>16, <1>17, <1>21 DEF AcceptedDocument
<1>23. ASSUME AcceptedDocument(w) PROVE Product(w) = SavedOf(p)
  <2>1. toml /\ AcceptedAccounts(bs) /\ AcceptedOverrides(qs)
    BY <1>17, <1>23 DEF AcceptedDocument
  <2>2. ParsedAccounts(bs) = BareAccounts(as) /\ ParsedOverrides(qs) = BareOverrides(os)
    BY <2>1, <1>4, <1>5, <1>12, <1>16
  <2> QED
    BY <1>2, <1>3, <1>14, <1>17, <2>2 DEF Product
<1> QED
  BY <1>21, <1>22, <1>23 DEF p, w

----------------------------------------------------------------------------
(***************************************************************************)
(* The service.                                                            *)
(***************************************************************************)

ServiceFits(c) ==
  /\ c = [shown |-> c.shown, diagnostics |-> c.diagnostics, told |-> c.told, timer |-> c.timer, rewrites |-> c.rewrites]
  /\ c.diagnostics \subseteq Settings \cup {"widget", "calendar", "tray", "syntax"}
  /\ c.told \in BOOLEAN /\ c.timer \in BOOLEAN /\ c.rewrites \in 0..MaxRewrites

Follow(f, shown) == f = [x \in Signalled |-> SectionOf(shown, x)]

ConfigInv ==
  /\ IsDocument(configFile) /\ ServiceFits(configService) /\ Follow(followers, configService.shown)
  /\ ~configService.told /\ ~configService.timer =>
       /\ configService.diagnostics = Failures(configFile)
       /\ Failures(configFile) = {} => configService.shown = Product(configFile)

LEMMA ConfigStart == ConfigInit => ConfigInv
BY ConfigAssumption, FailuresAre DEF ConfigInit, ConfigStarts, ServiceFits, ConfigInv, Follow

LEMMA FileBecomesInv ==
  ASSUME ConfigInv, NEW d, IsDocument(d), FileBecomes(d) PROVE ConfigInv'
<1> DEFINE c == configService
           e == configService'
<1>1. /\ c.rewrites < MaxRewrites /\ configFile' = d /\ followers' = followers
      /\ e = [c EXCEPT !.told = TRUE, !.rewrites = @ + 1]
  BY DEF FileBecomes
<1>2. ServiceFits(c) /\ Follow(followers, c.shown)
  BY DEF ConfigInv
<1> HIDE DEF c, e
<1>3. e = [shown |-> c.shown, diagnostics |-> c.diagnostics, told |-> TRUE, timer |-> c.timer, rewrites |-> c.rewrites + 1]
  BY <1>1, <1>2 DEF ServiceFits
<1>4. e.shown = c.shown /\ e.diagnostics = c.diagnostics /\ e.told = TRUE /\ e.timer = c.timer /\ e.rewrites = c.rewrites + 1
  BY <1>3
<1>5. MaxRewrites \in Nat
  BY ConfigAssumption
<1>6. c.rewrites \in 0..MaxRewrites
  BY <1>2 DEF ServiceFits
<1>7. c.rewrites + 1 \in 0..MaxRewrites
  BY <1>1, <1>5, <1>6
<1>8. e = [shown |-> e.shown, diagnostics |-> e.diagnostics, told |-> e.told, timer |-> e.timer, rewrites |-> e.rewrites]
  BY <1>3, <1>4
<1>9. e.diagnostics \subseteq Settings \cup {"widget", "calendar", "tray", "syntax"} /\ e.told \in BOOLEAN /\ e.timer \in BOOLEAN
  BY <1>2, <1>4 DEF ServiceFits
<1>10. ServiceFits(e)
  BY <1>4, <1>7, <1>8, <1>9 DEF ServiceFits
<1> QED
  BY <1>1, <1>2, <1>4, <1>10 DEF ConfigInv, c, e

LEMMA ConfigStep == ConfigInv /\ [ConfigNext]_configVars => ConfigInv'
<1> SUFFICES ASSUME ConfigInv, [ConfigNext]_configVars PROVE ConfigInv'
  OBVIOUS
<1> DEFINE c == configService
           e == configService'
<1>0. IsDocument(configFile) /\ ServiceFits(c) /\ Follow(followers, c.shown)
  BY DEF ConfigInv
<1>1. CASE FileRewritten
  BY <1>1, ConfigAssumption, FileBecomesInv DEF FileRewritten
<1>2. CASE FileSaved
  BY <1>2, <1>0, FailuresAre, WrittenDocuments, FileBecomesInv DEF FileSaved
<1>3. CASE DocumentChanged
  <2>1. e = [c EXCEPT !.told = FALSE, !.timer = TRUE] /\ configFile' = configFile /\ followers' = followers
    BY <1>3 DEF DocumentChanged
  <2> HIDE DEF c, e
  <2>2. e = [shown |-> c.shown, diagnostics |-> c.diagnostics, told |-> FALSE, timer |-> TRUE, rewrites |-> c.rewrites]
    BY <1>0, <2>1 DEF ServiceFits
  <2>3. e.shown = c.shown /\ e.diagnostics = c.diagnostics /\ e.told = FALSE /\ e.timer = TRUE /\ e.rewrites = c.rewrites
    BY <2>2
  <2>4. ServiceFits(e)
    BY <1>0, <2>2, <2>3 DEF ServiceFits
  <2> QED
    BY <1>0, <2>1, <2>3, <2>4 DEF ConfigInv, c, e
<1>4. CASE ParseFile
  <2> DEFINE failures == Failures(configFile)
             p == IF failures = {} THEN Product(configFile) ELSE c.shown
  <2>1. e = [c EXCEPT !.timer = FALSE, !.diagnostics = failures, !.shown = p] /\ followers' = Told(p) /\ configFile' = configFile
    BY <1>4 DEF ParseFile
  <2>2. failures = Failures(configFile) /\ (failures = {} => p = Product(configFile))
    OBVIOUS
  <2>3. failures \subseteq Settings \cup {"widget", "calendar", "tray", "syntax"}
    BY <1>0, FailuresAre
  <2>4. Told(p) = [x \in Signalled |-> IF SectionOf(p, x) # SectionOf(c.shown, x) THEN SectionOf(p, x) ELSE followers[x]]
    BY DEF Told
  <2> HIDE DEF c, e, failures, p
  <2>5. e = [shown |-> p, diagnostics |-> failures, told |-> c.told, timer |-> FALSE, rewrites |-> c.rewrites]
    BY <1>0, <2>1 DEF ServiceFits
  <2>6. e.shown = p /\ e.diagnostics = failures /\ e.told = c.told /\ e.timer = FALSE /\ e.rewrites = c.rewrites
    BY <2>5
  <2>7. ServiceFits(e)
    BY <1>0, <2>3, <2>5, <2>6 DEF ServiceFits
  <2>8. Follow(followers', e.shown)
    BY <1>0, <2>4, <2>1, <2>6 DEF Follow
  <2> QED
    BY <1>0, <2>1, <2>2, <2>6, <2>7, <2>8 DEF ConfigInv, e
<1>5. CASE UNCHANGED configVars
  BY <1>5 DEF configVars, ConfigInv
<1> QED
  BY <1>1, <1>2, <1>3, <1>4, <1>5 DEF ConfigNext

LEMMA ConfigurationIsKept == ConfigInv => ConfigTypeOK /\ ConfigIsTheFiles /\ AcceptedIsKept /\ SavingKeepsMeaning
<1> SUFFICES ASSUME ConfigInv PROVE ConfigTypeOK /\ ConfigIsTheFiles /\ AcceptedIsKept /\ SavingKeepsMeaning
  OBVIOUS
<1> DEFINE d == configFile
           p == Product(d)
<1>0. IsDocument(d) /\ ServiceFits(configService) /\ Follow(followers, configService.shown)
  BY DEF ConfigInv
<1>1. ConfigTypeOK
  BY <1>0 DEF IsDocument, ServiceFits, Follow, ConfigTypeOK
<1>2. ConfigIsTheFiles
  BY <1>0 DEF ConfigInv, ConfigIsTheFiles, Follow
<1>3. p = [settings |-> ParsedSettings(d.settings), widgets |-> ParsedWidgets(d.widgets),
           accounts |-> ParsedAccounts(d.accounts), overrides |-> ParsedOverrides(d.overrides)]
  BY DEF Product
<1>4. /\ p.settings = ParsedSettings(d.settings) /\ p.widgets = ParsedWidgets(d.widgets)
      /\ p.accounts = ParsedAccounts(d.accounts) /\ p.overrides = ParsedOverrides(d.overrides)
  BY <1>3
<1> HIDE DEF p
<1>5. AcceptedIsKept
  <2> SUFFICES ASSUME Failures(d) = {}
               PROVE  /\ \A s \in Settings : d.settings[s] # "absent" => p.settings[s] = d.settings[s]
                      /\ Len(p.widgets) = Len(d.widgets)
                      /\ \A i \in 1..Len(p.widgets) : IsTheEntry(p.widgets[i], d.widgets[i])
                      /\ DOMAIN p.accounts = DOMAIN d.accounts
                      /\ \A k \in DOMAIN p.accounts : k[1] = "caldav" => p.accounts[k] = d.accounts[k].include
                      /\ p.overrides = d.overrides
    BY DEF AcceptedIsKept, p
  <2>1. AcceptedDocument(d)
    BY <1>0, FailuresAre
  <2>2. /\ AcceptedTable(d.settings) /\ AcceptedEntries(d.widgets) /\ AcceptedAccounts(d.accounts)
        /\ AcceptedOverrides(d.overrides)
    BY <2>1 DEF AcceptedDocument
  <2> HIDE DEF d
  <2>3. \A s \in Settings : d.settings[s] # "absent" => p.settings[s] = d.settings[s]
    BY <1>4, <2>2, AcceptedSettings
  <2>4. Len(p.widgets) = Len(d.widgets) /\ \A i \in 1..Len(p.widgets) : IsTheEntry(p.widgets[i], d.widgets[i])
    <3>1. /\ Len(ParsedWidgets(d.widgets)) = Len(d.widgets)
          /\ \A i \in 1..Len(d.widgets) : IsTheEntry(ParsedWidgets(d.widgets)[i], d.widgets[i])
      BY <2>2, ParsedEntries
    <3> QED
      BY <1>4, <3>1
  <2>5. DOMAIN p.accounts = DOMAIN d.accounts /\ \A k \in DOMAIN p.accounts : k[1] = "caldav" => p.accounts[k] = d.accounts[k].include
    BY <1>4, <2>2, ReadAccounts
  <2>6. p.overrides = d.overrides
    BY <1>4, <2>2, ReadOverrides
  <2> QED
    BY <2>3, <2>4, <2>5, <2>6
<1>6. SavingKeepsMeaning
  BY <1>0, FailuresAre, WrittenDocuments DEF SavingKeepsMeaning
<1> QED
  BY <1>1, <1>2, <1>5, <1>6

----------------------------------------------------------------------------
(***************************************************************************)
(* Default applications.                                                   *)
(***************************************************************************)

Defaults == [MimeKeys -> Handlers \cup {NoHandler}]
MimeProcesses == [key : MimeKeys, live : BOOLEAN, done : BOOLEAN, result : Handlers \cup {NoHandler}]
MimeSetters == [id : 1..MaxSets, key : MimeKeys, handler : Handlers, written : BOOLEAN]

OneLive(queries) == \A q, r \in queries : q.live /\ r.live /\ q.key = r.key => q = r

\* A query is under way that will read, or that has read what is in the file; or none is,
\* and the file's is shown.
OnItsWay(queries, files, k) == \E q \in queries : q.key = k /\ q.live /\ (~q.done \/ q.result = files[k])
Shown(queries, files, cache, k) == cache[k] = files[k] /\ \A q \in queries : ~(q.key = k /\ q.live)
KeyFits(queries, files, cache, k) == OnItsWay(queries, files, k) \/ Shown(queries, files, cache, k)

MimeInv ==
  /\ mimeFiles \in Defaults /\ mimeCache \in Defaults /\ mimeQueries \subseteq MimeProcesses
  /\ mimeSets \subseteq MimeSetters /\ mimeTimer \in BOOLEAN /\ mimeMissed \subseteq MimeKeys
  /\ mimeWatched \subseteq MimeLists
  /\ OneLive(mimeQueries)
  /\ ~mimeTimer => \A k \in MimeKeys \ mimeMissed : KeyFits(mimeQueries, mimeFiles, mimeCache, k)

LEMMA MimeStart == MimeInit => MimeInv
BY MimeAssumption DEF MimeInit, Defaults, OneLive, MimeInv

\* What a new query is.
LEMMA NewQueryIs ==
  ASSUME NEW k \in MimeKeys
  PROVE  /\ NewQuery(k) \in MimeProcesses /\ NewQuery(k).key = k /\ NewQuery(k).live /\ ~NewQuery(k).done
BY DEF NewQuery, MimeProcesses

\* A query that is asked for where none is under way, or one that has not read, is on its way.
LEMMA QueryIsOnItsWay ==
  ASSUME NEW queries, queries \subseteq MimeProcesses, OneLive(queries), NEW k \in MimeKeys, NEW files
  PROVE  /\ Query(queries, k) \subseteq MimeProcesses /\ OneLive(Query(queries, k))
         /\ (\A q \in Pending(queries, k) : ~q.done) => OnItsWay(Query(queries, k), files, k)
         /\ \A l : l # k => \A q : q.key = l => (q \in Query(queries, k) <=> q \in queries)
BY NewQueryIs DEF Query, Pending, OneLive, OnItsWay

\* What becomes of the other keys' queries does not touch this one's.
LEMMA OtherKeyFits ==
  ASSUME NEW queries, NEW more, NEW files, NEW cache, NEW given, NEW k,
         KeyFits(queries, files, cache, k), given[k] = cache[k],
         \A q : q.key = k => (q \in more <=> q \in queries)
  PROVE  KeyFits(more, files, given, k)
BY DEF KeyFits, OnItsWay, Shown

\* A list is written: the timer runs, or a query that has not read is under way, or nobody will tell.
LEMMA ListWrittenKeeps ==
  ASSUME MimeInv, NEW k \in MimeKeys, NEW h \in Handlers, NEW list, ListWritten(k, h, list),
         mimeCache' = mimeCache, mimeQueries' = mimeQueries, mimeSets' \subseteq MimeSetters,
         mimeWatched' \subseteq MimeLists
  PROVE  MimeInv'
<1>1. /\ mimeFiles \in Defaults /\ mimeCache \in Defaults /\ mimeQueries \subseteq MimeProcesses
      /\ mimeTimer \in BOOLEAN /\ mimeMissed \subseteq MimeKeys /\ OneLive(mimeQueries)
      /\ ~mimeTimer => \A x \in MimeKeys \ mimeMissed : KeyFits(mimeQueries, mimeFiles, mimeCache, x)
  BY DEF MimeInv
<1>2. /\ mimeFiles' = [mimeFiles EXCEPT ![k] = h] /\ mimeTimer' = (mimeTimer \/ list \in mimeWatched)
      /\ mimeMissed' = IF list \in mimeWatched \/ IsDue(k) THEN mimeMissed ELSE mimeMissed \cup {k}
  BY DEF ListWritten
<1>3. /\ mimeFiles' \in Defaults /\ \A x \in MimeKeys : x # k => mimeFiles'[x] = mimeFiles[x]
      /\ mimeMissed' \subseteq MimeKeys /\ mimeMissed \subseteq mimeMissed'
      /\ mimeTimer' \in BOOLEAN /\ (~mimeTimer' => ~mimeTimer /\ list \notin mimeWatched)
  BY <1>1, <1>2 DEF Defaults
<1>4. ASSUME ~mimeTimer', NEW x \in MimeKeys, x \notin mimeMissed'
      PROVE  KeyFits(mimeQueries, mimeFiles', mimeCache, x)
  <2>1. CASE x # k
    BY <1>1, <1>3, <1>4, <2>1 DEF KeyFits, OnItsWay, Shown
  <2>2. CASE x = k
    <3>1. IsDue(k) /\ ~mimeTimer
      BY <1>2, <1>3, <1>4, <2>2
    <3> QED
      BY <2>2, <3>1 DEF IsDue, Pending, KeyFits, OnItsWay
  <2> QED
    BY <2>1, <2>2
<1> QED
  BY <1>1, <1>3, <1>4 DEF MimeInv

LEMMA MimeStep == MimeInv /\ [MimeNext]_mimeVars => MimeInv'
<1> SUFFICES ASSUME MimeInv, [MimeNext]_mimeVars PROVE MimeInv'
  OBVIOUS
<1>0. /\ mimeFiles \in Defaults /\ mimeCache \in Defaults /\ mimeQueries \subseteq MimeProcesses
      /\ mimeSets \subseteq MimeSetters /\ mimeTimer \in BOOLEAN /\ mimeMissed \subseteq MimeKeys
      /\ OneLive(mimeQueries) /\ mimeWatched \subseteq MimeLists
  BY DEF MimeInv
<1>1. CASE RefreshAllRoles
  <2> DEFINE idle == {x \in MimeKeys : Pending(mimeQueries, x) = {}}
             all == mimeQueries \cup {NewQuery(k) : k \in idle}
  <2>1. /\ mimeQueries' = all /\ mimeTimer' = FALSE /\ mimeFiles' = mimeFiles /\ mimeCache' = mimeCache /\ mimeSets' = mimeSets
        /\ mimeMissed' = {k \in MimeKeys : \E q \in Pending(mimeQueries, k) : q.done} /\ mimeWatched' = mimeWatched
    BY <1>1 DEF RefreshAllRoles
  <2>2. all \subseteq MimeProcesses
    BY <1>0, NewQueryIs
  <2>3. OneLive(all)
    BY NewQueryIs, <1>0 DEF OneLive, Pending
  <2>4. ASSUME NEW k \in MimeKeys, \A q \in Pending(mimeQueries, k) : ~q.done
        PROVE  OnItsWay(all, mimeFiles, k)
    BY NewQueryIs, <2>4 DEF OnItsWay, Pending
  <2> HIDE DEF all
  <2>5. \A k \in MimeKeys \ mimeMissed' : KeyFits(all, mimeFiles, mimeCache, k)
    BY <2>1, <2>4 DEF KeyFits
  <2> QED
    BY <1>0, <2>1, <2>2, <2>3, <2>5 DEF MimeInv
<1>2. ASSUME NEW k \in MimeKeys, NEW h \in Handlers, NEW list \in MimeLists, FileChanges(k, h, list)
      PROVE  MimeInv'
  <2>1. /\ ListWritten(k, h, list) /\ mimeCache' = mimeCache /\ mimeQueries' = mimeQueries
        /\ mimeSets' \subseteq MimeSetters /\ mimeWatched' \subseteq MimeLists
    BY <1>2, <1>0 DEF FileChanges
  <2> QED
    BY <2>1, ListWrittenKeeps
<1>3. ASSUME NEW q \in mimeQueries, QueryReads(q)
      PROVE  MimeInv'
  <2>0. q \in MimeProcesses /\ ~q.done /\ q.key \in MimeKeys
    BY <1>0, <1>3 DEF QueryReads, MimeProcesses
  <2>1. mimeFiles' = mimeFiles /\ mimeCache' = mimeCache /\ mimeSets' = mimeSets /\ mimeTimer' = mimeTimer
        /\ mimeWatched' = mimeWatched
    BY <1>3 DEF QueryReads
  <2>2. PICK r \in MimeProcesses :
          /\ r.key = q.key /\ r.live = q.live /\ r.done /\ mimeQueries' = (mimeQueries \ {q}) \cup {r}
          /\ \/ r.result = mimeFiles[q.key] /\ mimeMissed' = mimeMissed
             \/ mimeMissed' = IF q.live THEN mimeMissed \cup {q.key} ELSE mimeMissed
    <3>1. CASE /\ mimeQueries' = (mimeQueries \ {q}) \cup {[q EXCEPT !.done = TRUE, !.result = mimeFiles[q.key]]}
               /\ UNCHANGED mimeMissed
      <4> DEFINE r == [q EXCEPT !.done = TRUE, !.result = mimeFiles[q.key]]
      <4>1. mimeFiles[q.key] \in Handlers \cup {NoHandler}
        BY <1>0, <2>0 DEF Defaults
      <4>2. r \in MimeProcesses /\ r.key = q.key /\ r.live = q.live /\ r.done /\ r.result = mimeFiles[q.key]
        BY <2>0, <4>1 DEF MimeProcesses
      <4> QED
        BY <3>1, <4>2
    <3>2. CASE /\ mimeQueries' = (mimeQueries \ {q}) \cup {[q EXCEPT !.done = TRUE]}
               /\ mimeMissed' = IF q.live THEN mimeMissed \cup {q.key} ELSE mimeMissed
      <4> DEFINE r == [q EXCEPT !.done = TRUE]
      <4>1. r \in MimeProcesses /\ r.key = q.key /\ r.live = q.live /\ r.done
        BY <2>0 DEF MimeProcesses
      <4> QED
        BY <3>2, <4>1
    <3> QED
      BY <1>3, <3>1, <3>2 DEF QueryReads
  <2>3. OneLive(mimeQueries')
    BY <1>0, <2>2 DEF OneLive
  <2>4. mimeQueries' \subseteq MimeProcesses /\ mimeMissed' \subseteq MimeKeys /\ mimeMissed \subseteq mimeMissed'
    BY <1>0, <2>0, <2>2
  <2>5. ASSUME ~mimeTimer, NEW k \in MimeKeys, k \notin mimeMissed'
        PROVE  KeyFits(mimeQueries', mimeFiles, mimeCache, k)
    BY <2>4, <2>5, <2>2 DEF MimeInv, KeyFits, OnItsWay, Shown
  <2> QED
    BY <1>0, <2>1, <2>3, <2>4, <2>5 DEF MimeInv
<1>4. ASSUME NEW q \in mimeQueries, QueryEnds(q)
      PROVE  MimeInv'
  BY <1>4, <1>0 DEF QueryEnds, IsCurrent, MimeProcesses, Defaults, OneLive, MimeInv, KeyFits, OnItsWay, Shown
<1>5. ASSUME NEW h \in Handlers, NEW keys, keys \subseteq MimeKeys, SetDefault(h, keys)
      PROVE  MimeInv'
  <2> DEFINE free == CHOOSE i \in 1..MaxSets : \A s \in mimeSets : s.id # i
  <2>1. free \in 1..MaxSets
    BY <1>5 DEF SetDefault
  <2>2. /\ mimeSets' = mimeSets \cup {[id |-> free, key |-> k, handler |-> h, written |-> FALSE] : k \in keys}
        /\ mimeFiles' = mimeFiles /\ mimeCache' = mimeCache /\ mimeQueries' = mimeQueries
        /\ mimeTimer' = mimeTimer /\ mimeMissed' = mimeMissed /\ mimeWatched' = mimeWatched
    BY <1>5 DEF SetDefault
  <2> HIDE DEF free
  <2>3. \A k \in keys : [id |-> free, key |-> k, handler |-> h, written |-> FALSE] \in MimeSetters
    BY <1>5, <2>1 DEF MimeSetters
  <2>4. mimeSets' \subseteq MimeSetters
    BY <1>0, <2>2, <2>3
  <2> QED
    BY <1>0, <2>2, <2>4 DEF MimeInv
<1>6. ASSUME NEW s \in mimeSets, SetWrites(s)
      PROVE  MimeInv'
  <2>1. PICK list \in MimeLists : ListWritten(s.key, s.handler, list)
    BY <1>6 DEF SetWrites
  <2>2. /\ mimeSets' = (mimeSets \ {s}) \cup {[s EXCEPT !.written = TRUE]}
        /\ mimeCache' = mimeCache /\ mimeQueries' = mimeQueries /\ mimeWatched' = mimeWatched
    BY <1>6 DEF SetWrites
  <2>3. /\ s \in MimeSetters /\ s.handler \in Handlers /\ s.key \in MimeKeys
        /\ [s EXCEPT !.written = TRUE] \in MimeSetters
    BY <1>0 DEF MimeSetters
  <2>4. mimeSets' \subseteq MimeSetters
    BY <1>0, <2>2, <2>3
  <2> QED
    BY <1>0, <2>1, <2>2, <2>3, <2>4, ListWrittenKeeps
<1>7. ASSUME NEW s \in mimeSets, SetEnds(s)
      PROVE  MimeInv'
  <2>0. s.key \in MimeKeys /\ s.handler \in Handlers /\ mimeSets \ {s} \subseteq MimeSetters
    BY <1>0 DEF MimeSetters
  <2>a. mimeSets' = mimeSets \ {s} /\ mimeWatched' = mimeWatched
    BY <1>7 DEF SetEnds
  <2>1. CASE UNCHANGED <<mimeFiles, mimeCache, mimeQueries, mimeTimer, mimeMissed>>
    BY <1>0, <2>0, <2>a, <2>1 DEF MimeInv
  <2>b. CASE /\ \E list \in MimeLists : ListWritten(s.key, s.handler, list)
             /\ UNCHANGED <<mimeCache, mimeQueries>>
    BY <1>0, <2>0, <2>a, <2>b, ListWrittenKeeps
  <2>2. CASE /\ \E list \in MimeLists : mimeTimer' = (mimeTimer \/ list \in mimeWatched)
             /\ LET old == {[q EXCEPT !.live = @ /\ q.key # s.key] : q \in mimeQueries} IN
                mimeQueries' = Query(old, s.key)
             /\ mimeFiles' = [mimeFiles EXCEPT ![s.key] = s.handler]
             /\ mimeCache' = [mimeCache EXCEPT ![s.key] = s.handler]
             /\ mimeMissed' = mimeMissed \ {s.key}
    <3> DEFINE Aged(q) == [q EXCEPT !.live = @ /\ q.key # s.key]
               old == {Aged(q) : q \in mimeQueries}
    <3>1. ASSUME NEW q \in mimeQueries
          PROVE  /\ Aged(q) \in MimeProcesses /\ Aged(q).key = q.key /\ (Aged(q).live => q.live /\ Aged(q) = q)
                 /\ Aged(q).live => q.key # s.key
                 /\ q.key # s.key => Aged(q) = q
      <4> DEFINE b == q.live /\ q.key # s.key
      <4>1. b \in BOOLEAN
        OBVIOUS
      <4>2. Aged(q) = [q EXCEPT !.live = b]
        OBVIOUS
      <4>3. q = [key |-> q.key, live |-> q.live, done |-> q.done, result |-> q.result] /\ q \in MimeProcesses /\ q.live \in BOOLEAN
        BY <1>0 DEF MimeProcesses
      <4>4. (b => q.live = b) /\ (q.key # s.key => q.live = b)
        BY <4>1, <4>3
      <4>5. b => q.live /\ q.key # s.key
        OBVIOUS
      <4> HIDE DEF b
      <4>6. [q EXCEPT !.live = b] = [key |-> q.key, live |-> b, done |-> q.done, result |-> q.result]
        BY <4>3
      <4> HIDE DEF Aged
      <4>7. Aged(q) \in MimeProcesses /\ Aged(q).key = q.key /\ Aged(q).live = b
        BY <4>1, <4>2, <4>3, <4>6 DEF MimeProcesses
      <4>8. (b => Aged(q) = q) /\ (q.key # s.key => Aged(q) = q)
        BY <4>2, <4>3, <4>4, <4>6
      <4> QED
        BY <4>5, <4>7, <4>8
    <3>2. old \subseteq MimeProcesses
      BY <3>1
    <3>3. OneLive(old)
      <4> HIDE DEF Aged
      <4>1. \A q, r \in old : q.live /\ r.live => q \in mimeQueries /\ r \in mimeQueries
        BY <3>1
      <4> HIDE DEF old
      <4> QED
        BY <1>0, <4>1 DEF OneLive
    <3>4. mimeQueries' = Query(old, s.key)
      BY <2>2
    <3>a. Pending(old, s.key) = {}
      <4> HIDE DEF Aged
      <4> QED
        BY <3>1 DEF Pending
    <3>b. ASSUME NEW k, k # s.key PROVE \A q : q.key = k => (q \in old <=> q \in mimeQueries)
      <4> HIDE DEF Aged
      <4> QED
        BY <3>1, <3>b
    <3> HIDE DEF old
    <3>5. mimeQueries' \subseteq MimeProcesses /\ OneLive(mimeQueries')
      BY <2>0, <3>2, <3>3, <3>4, QueryIsOnItsWay
    <3>6. /\ mimeFiles' \in Defaults /\ mimeCache' \in Defaults /\ mimeMissed' \subseteq MimeKeys
          /\ mimeTimer' \in BOOLEAN /\ (~mimeTimer' => ~mimeTimer)
          /\ \A k \in MimeKeys : k # s.key => mimeFiles'[k] = mimeFiles[k] /\ mimeCache'[k] = mimeCache[k]
      BY <1>0, <2>0, <2>2 DEF Defaults
    <3>7. ASSUME ~mimeTimer', NEW k \in MimeKeys, k \notin mimeMissed'
          PROVE  KeyFits(mimeQueries', mimeFiles', mimeCache', k)
      <4>1. CASE k = s.key
        <5>1. OnItsWay(Query(old, s.key), mimeFiles', s.key)
          BY <2>0, <3>2, <3>3, <3>a, QueryIsOnItsWay
        <5> QED
          BY <3>4, <4>1, <5>1 DEF KeyFits
      <4>2. CASE k # s.key
        <5>1. k \notin mimeMissed /\ ~mimeTimer
          BY <2>2, <3>6, <3>7, <4>2
        <5>2. KeyFits(mimeQueries, mimeFiles, mimeCache, k)
          BY <5>1 DEF MimeInv
        <5>3. \A q : q.key = k => (q \in mimeQueries' <=> q \in mimeQueries)
          BY <2>0, <3>2, <3>3, <3>4, <3>b, <4>2, QueryIsOnItsWay
        <5>4. KeyFits(mimeQueries', mimeFiles, mimeCache, k)
          BY <5>2, <5>3, OtherKeyFits
        <5> QED
          BY <3>6, <4>2, <5>4 DEF KeyFits, OnItsWay, Shown
      <4> QED
        BY <4>1, <4>2
    <3> QED
      BY <2>0, <1>0, <2>a, <3>5, <3>6, <3>7 DEF MimeInv
  <2>3. CASE /\ s.written /\ s.key = Browser
             /\ mimeQueries' = Query(mimeQueries, Browser)
             /\ mimeMissed' = IF \E q \in Pending(mimeQueries, Browser) : q.done THEN mimeMissed \cup {Browser} ELSE mimeMissed
             /\ UNCHANGED <<mimeFiles, mimeCache, mimeTimer>>
    <3>1. Browser \in MimeKeys
      BY DEF MimeKeys
    <3>2. mimeQueries' \subseteq MimeProcesses /\ OneLive(mimeQueries')
      BY <1>0, <2>3, <3>1, QueryIsOnItsWay
    <3>3. mimeMissed \subseteq mimeMissed' /\ mimeMissed' \subseteq MimeKeys
      BY <1>0, <2>3, <3>1
    <3>4. ASSUME ~mimeTimer, NEW k \in MimeKeys, k \notin mimeMissed'
          PROVE  KeyFits(mimeQueries', mimeFiles, mimeCache, k)
      <4>1. CASE k = Browser
        BY <2>3, <3>4, <4>1, <1>0, <3>1, QueryIsOnItsWay DEF KeyFits
      <4>2. CASE k # Browser
        BY <1>0, <2>3, <3>1, <4>2, QueryIsOnItsWay, <3>3, <3>4, OtherKeyFits DEF MimeInv
      <4> QED
        BY <4>1, <4>2
    <3> QED
      BY <1>0, <2>0, <2>a, <2>3, <3>2, <3>3, <3>4 DEF MimeInv
  <2>4. CASE /\ s.written /\ s.key # Browser
             /\ \E list \in MimeLists : ListWritten(s.key, s.handler, list)
             /\ UNCHANGED <<mimeCache, mimeQueries>>
    BY <2>b, <2>4
  <2> QED
    BY <1>7, <2>a, <2>1, <2>2, <2>3, <2>4 DEF SetEnds
<1>8. CASE UNCHANGED mimeVars
  BY <1>8 DEF MimeInv, mimeVars
<1>9. MimeTypes \subseteq MimeKeys /\ {Browser} \subseteq MimeKeys
  BY DEF MimeKeys
<1> QED
  BY <1>1, <1>2, <1>3, <1>4, <1>5, <1>6, <1>7, <1>8, <1>9 DEF MimeNext

LEMMA DefaultsSettle == MimeInv => MimeTypeOK /\ MimeDefaultsSettle
<1> SUFFICES ASSUME MimeInv PROVE MimeTypeOK /\ MimeDefaultsSettle
  OBVIOUS
<1>1. MimeTypeOK
  BY DEF MimeInv, MimeTypeOK, Defaults, MimeProcesses, MimeSetters
<1>2. ASSUME mimeQueries = {}, mimeSets = {}, ~mimeTimer, NEW k \in MimeKeys \ mimeMissed
      PROVE  mimeCache[k] = mimeFiles[k]
  BY <1>2 DEF MimeInv, KeyFits, OnItsWay, Shown
<1>3. ASSUME NEW k \in MimeKeys
      PROVE  Cardinality(Pending(mimeQueries, k)) <= 1
  <2>1. CASE Pending(mimeQueries, k) = {}
    BY <2>1, FS_EmptySet
  <2>2. CASE Pending(mimeQueries, k) # {}
    <3>1. PICK q : q \in Pending(mimeQueries, k)
      BY <2>2
    <3>2. Pending(mimeQueries, k) = {q}
      BY <3>1 DEF Pending, MimeInv, OneLive
    <3>3. Cardinality(Pending(mimeQueries, k)) = 1
      BY <3>2, FS_Singleton
    <3> QED
      BY <3>3
  <2> QED
    BY <2>1, <2>2
<1> QED
  BY <1>1, <1>2, <1>3 DEF MimeDefaultsSettle

----------------------------------------------------------------------------
(***************************************************************************)
(* The report on the session.                                              *)
(***************************************************************************)

ReportIds ==
  {"process-env", "cursor-theme", "qt-activation", "systemd-env", "activation-address", "activation-desktop", "menu-prefix",
   "menu-candidates", "kde-sycoca", "mime-role", "mime-cache", "session-services", "holonight", "portal", "services"}
Reports == [id : ReportIds \cup {"rebuild"}, status : Statuses]
Fixtures == [env : SUBSET {"bus", "desktop", "prefix", "qt"}, cursor : Cursors \cup {NoCursor},
             tools : SUBSET {"systemctl", "kbuildsycoca6", "xdg", "update-desktop-database"}]
Facts == [at : 0..MaxFacts, systemd : {"down", "imported", "other"}, menu : BOOLEAN, sycoca : {"none", "old", "current"},
          roles : BOOLEAN, mimeinfo : BOOLEAN, writable : BOOLEAN, connected : BOOLEAN, owned : SUBSET DesktopNames]
StepLists == UNION {[1..n -> BOOLEAN] : n \in 0..2}
Integrations == [running : BOOLEAN, pending : BOOLEAN, rows : SUBSET Reports, overall : Statuses \ {"info"},
                 steps : StepLists, asked : 0..MaxFacts, shownAt : 0..MaxFacts]

CursorRow == Row("cursor-theme", Warns(expectedCursor # NoCursor /\ sessionFixed.cursor = expectedCursor, "warning"))

\* What a worker has read: nothing of a rebuild, and the cursor row of the theme expected
\* if none has been expected since.
JobsFit(s, jobs, oldest, row) ==
  /\ DOMAIN jobs \subseteq Diagnostics /\ oldest \in 0..MaxFacts
  /\ \A d \in DOMAIN jobs : jobs[d] \subseteq Reports /\ \A r \in jobs[d] : r.id # "rebuild"
  /\ ~s.running => jobs = <<>>
  /\ s.running /\ ~s.pending /\ jobs # <<>> => oldest >= s.asked
  /\ s.running /\ ~s.pending /\ "process" \in DOMAIN jobs => row \in jobs["process"]

\* What is shown at rest.
ReportFits(s, row) ==
  /\ ~s.running => ~s.pending
  /\ ~s.running /\ s.rows # {} =>
       s.shownAt >= s.asked /\ row \in s.rows /\ {r \in s.rows : r.id = "rebuild"} = RebuildRows(s.steps)

IntegrationInv ==
  /\ sessionFixed \in Fixtures /\ sessionFacts \in Facts /\ expectedCursor \in Cursors \cup {NoCursor}
  /\ integration \in Integrations /\ integration.asked <= sessionFacts.at
  /\ JobsFit(integration, integrationJobs, integrationOldest, CursorRow) /\ ReportFits(integration, CursorRow)
  /\ integrationTold \in BOOLEAN /\ (integrationTold => \A i \in DOMAIN integration.steps : integration.steps[i])

LEMMA NoSteps == <<>> \in StepLists /\ \A i \in DOMAIN <<>> : FALSE
BY DEF StepLists

LEMMA IntegrationStart == IntegrationInit => IntegrationInv
<1> SUFFICES ASSUME IntegrationInit PROVE IntegrationInv
  OBVIOUS
<1>0. 0 \in 0..MaxFacts
  BY IntegrationAssumption
<1>1. sessionFixed \in Fixtures
  BY DEF IntegrationInit, Fixtures
<1>2. sessionFacts \in Facts /\ sessionFacts.at = 0
  BY <1>0 DEF IntegrationInit, Facts
<1>3. expectedCursor \in Cursors \cup {NoCursor} /\ integrationJobs = <<>> /\ integrationOldest = 0 /\ integrationTold = FALSE
  BY DEF IntegrationInit
<1>4. integration = [running |-> FALSE, pending |-> FALSE, rows |-> {}, overall |-> "ok", steps |-> <<>>, asked |-> 0, shownAt |-> 0]
  BY DEF IntegrationInit
<1>5. "ok" \in Statuses \ {"info"}
  BY DEF Statuses
<1>6. integration \in Integrations
  BY <1>0, <1>4, <1>5, NoSteps DEF Integrations
<1>7. ReportFits(integration, CursorRow)
  BY <1>4 DEF ReportFits
<1>8. JobsFit(integration, integrationJobs, integrationOldest, CursorRow)
  BY <1>0, <1>3, <1>4 DEF JobsFit
<1> QED
  BY <1>1, <1>2, <1>3, <1>4, <1>6, <1>7, <1>8, 0 <= 0 DEF IntegrationInv

----------------------------------------------------------------------------
\* A request: what the service is after it.
Requested(s, t, steps, at) ==
  /\ t \in Integrations /\ t.running /\ t.rows = s.rows /\ t.steps = steps /\ t.asked = at
  /\ s.running => t.pending
  /\ ~s.running => ~t.pending

\* What of it does not depend on the time and the steps.
Refreshed(s, u) ==
  /\ u \in Integrations /\ u.running /\ u.rows = s.rows /\ u.steps = s.steps
  /\ s.running => u.pending
  /\ ~s.running => ~u.pending

LEMMA RefreshIs ==
  ASSUME NEW s \in Integrations, ~s.running => ~s.pending
  PROVE  Refreshed(s, Refresh(s))
<1> DEFINE u == Refresh(s)
<1>1. CASE s.running
  <2>1. u = [s EXCEPT !.pending = TRUE]
    BY <1>1 DEF Refresh
  <2> HIDE DEF u
  <2>2. Refreshed(s, u)
    BY <1>1, <2>1 DEF Integrations, Refreshed
  <2> QED
    BY <2>2 DEF u
<1>2. CASE ~s.running
  <2>1. u = [s EXCEPT !.running = TRUE]
    BY <1>2 DEF Refresh
  <2> HIDE DEF u
  <2>2. Refreshed(s, u)
    BY <1>2, <2>1 DEF Integrations, Refreshed
  <2> QED
    BY <2>2 DEF u
<1> QED
  BY <1>1, <1>2

LEMMA RequestIs ==
  ASSUME NEW s \in Integrations, ~s.running => ~s.pending, sessionFacts.at \in 0..MaxFacts
  PROVE  Requested(s, Request(s), s.steps, sessionFacts.at)
BY RefreshIs DEF Request, Integrations, Refreshed, Requested

LEMMA RebuiltIs ==
  ASSUME NEW s \in Integrations, ~s.running => ~s.pending, NEW steps \in StepLists, NEW at \in 0..MaxFacts,
         NEW t, t = [Refresh(s) EXCEPT !.steps = steps, !.asked = at]
  PROVE  Requested(s, t, steps, at)
<1> DEFINE u == Refresh(s)
           v == [u EXCEPT !.steps = steps]
<1>1. Refreshed(s, u)
  BY RefreshIs
<1>2. t = [u EXCEPT !.steps = steps, !.asked = at]
  OBVIOUS
<1> HIDE DEF u
<1>3. t = [v EXCEPT !.asked = at]
  BY <1>2
<1>4. v \in Integrations /\ v.steps = steps /\ v.running = u.running /\ v.pending = u.pending /\ v.rows = u.rows
  BY <1>1 DEF Integrations, Refreshed
<1> HIDE DEF v
<1>5. /\ t \in Integrations /\ t.asked = at /\ t.steps = v.steps /\ t.running = v.running /\ t.pending = v.pending
      /\ t.rows = v.rows
  BY <1>3, <1>4 DEF Integrations
<1> QED
  BY <1>1, <1>4, <1>5 DEF Requested, Refreshed

\* After a request the report is not at rest, and what was read before is not shown.
LEMMA RequestedFits ==
  ASSUME NEW s, NEW t, NEW steps, NEW at, NEW jobs, NEW oldest, NEW row, NEW new,
         JobsFit(s, jobs, oldest, row), Requested(s, t, steps, at)
  PROVE  JobsFit(t, jobs, oldest, new) /\ ReportFits(t, new)
BY DEF Requested, ReportFits, JobsFit

----------------------------------------------------------------------------
\* What each worker reads.
ReportsFit(rows) == rows \subseteq Reports /\ \A r \in rows : r.id # "rebuild"

LEMMA RowFits ==
  ASSUME NEW id \in ReportIds, NEW status \in Statuses
  PROVE  ReportsFit({Row(id, status)})
BY DEF ReportIds, ReportsFit, Row, Reports

LEMMA StatusesAre ==
  /\ Statuses = {"ok", "info", "warning", "error"}
  /\ \A ok : Warns(ok, "warning") \in Statuses /\ Warns(ok, "error") \in Statuses
BY DEF Warns, Statuses

LEMMA ReportsAre ==
  ASSUME NEW d \in Diagnostics
  PROVE  ReportsFit(IntegrationRowsOf(d)) /\ (d = "process" => CursorRow \in IntegrationRowsOf(d))
BY StatusesAre, RowFits DEF IntegrationRowsOf, ProcessEnvironmentRows, CursorRow, ReportIds, ReportsFit,
   SystemdEnvironmentRows, DbusActivationRows, XdgMenuRows, KdeCacheRows, MimeRows, PortalRows, Diagnostics

\* The rows of a rebuild.
LEMMA RebuildReports ==
  ASSUME NEW steps
  PROVE  /\ RebuildRows(steps) \subseteq Reports
         /\ \A r \in RebuildRows(steps) : r.id = "rebuild"
         /\ (\A i \in DOMAIN steps : steps[i]) => Row("rebuild", "warning") \notin RebuildRows(steps)
<1>1. "warning" \in Statuses /\ "ok" # "warning"
  BY DEF Statuses
<1>2. ASSUME NEW r \in RebuildRows(steps)
      PROVE  /\ r \in Reports /\ r.id = "rebuild"
             /\ (\A i \in DOMAIN steps : steps[i]) => r.status = "ok"
  BY StatusesAre DEF RebuildRows, Warns, Row, Reports
<1>3. Row("rebuild", "warning").status = "warning"
  BY DEF Row
<1> QED
  BY <1>1, <1>2, <1>3

LEMMA OverallIs == \A rows : OverallStatus(rows) \in Statuses \ {"info"}
BY DEF OverallStatus, Statuses

\* What a rebuild may come to: two steps at most.
LEMMA RebuildStepsAre ==
  ASSUME NEW tools, NEW writable
  PROVE  RebuildSteps(tools, writable) \subseteq StepLists
<1> SUFFICES ASSUME NEW steps \in RebuildSteps(tools, writable) PROVE steps \in StepLists
  OBVIOUS
<1>1. PICK a \in DesktopSteps(tools, writable), b \in SycocaSteps(tools) : steps = a \o b
  BY DEF RebuildSteps
<1>2. a \in {<<>>, <<TRUE>>, <<FALSE>>} /\ b \in {<<>>, <<TRUE>>, <<FALSE>>}
  BY DEF DesktopSteps, SycocaSteps
<1>3. /\ <<>> \in Seq(BOOLEAN) /\ Len(<<>>) = 0
      /\ <<TRUE>> \in Seq(BOOLEAN) /\ Len(<<TRUE>>) = 1
      /\ <<FALSE>> \in Seq(BOOLEAN) /\ Len(<<FALSE>>) = 1
  OBVIOUS
<1>4. /\ a \in Seq(BOOLEAN) /\ Len(a) \in {0, 1}
      /\ b \in Seq(BOOLEAN) /\ Len(b) \in {0, 1}
  BY <1>2, <1>3
<1>5. steps \in Seq(BOOLEAN) /\ Len(steps) = Len(a) + Len(b)
  BY <1>1, <1>4
<1>6. Len(steps) \in 0..2
  BY <1>4, <1>5
<1>7. steps \in [1..Len(steps) -> BOOLEAN]
  BY <1>5
<1> QED
  BY <1>6, <1>7 DEF StepLists

----------------------------------------------------------------------------
LEMMA FactsChangeWell ==
  ASSUME IntegrationInv, FactsChange
  PROVE  sessionFacts' \in Facts /\ sessionFacts.at <= sessionFacts'.at
<1>1. sessionFacts \in Facts /\ sessionFacts.at \in 0..MaxFacts /\ sessionFacts.at < MaxFacts /\ MaxFacts \in Nat
  BY IntegrationAssumption DEF IntegrationInv, FactsChange, Facts
<1>2. sessionFacts.at + 1 \in 0..MaxFacts /\ sessionFacts.at <= sessionFacts.at + 1
  BY <1>1
<1>9. PICK kind \in Changing : \E new \in
       CASE kind = "systemd" -> {[sessionFacts EXCEPT !.systemd = s] : s \in {"down", "imported", "other"}}
         [] kind = "files"   -> {[sessionFacts EXCEPT !.sycoca = "old", !.mimeinfo = TRUE],
                                 [sessionFacts EXCEPT !.menu = ~@], [sessionFacts EXCEPT !.roles = ~@]}
         [] kind = "bus"     -> {[sessionFacts EXCEPT !.connected = FALSE]}
                                  \cup {[sessionFacts EXCEPT !.owned = DesktopNames \ {n}] : n \in DesktopNames} :
          sessionFacts' = [new EXCEPT !.at = @ + 1]
  BY DEF FactsChange
<1>3. PICK new \in
       CASE kind = "systemd" -> {[sessionFacts EXCEPT !.systemd = s] : s \in {"down", "imported", "other"}}
         [] kind = "files"   -> {[sessionFacts EXCEPT !.sycoca = "old", !.mimeinfo = TRUE],
                                 [sessionFacts EXCEPT !.menu = ~@], [sessionFacts EXCEPT !.roles = ~@]}
         [] kind = "bus"     -> {[sessionFacts EXCEPT !.connected = FALSE]}
                                  \cup {[sessionFacts EXCEPT !.owned = DesktopNames \ {n}] : n \in DesktopNames} :
          sessionFacts' = [new EXCEPT !.at = @ + 1]
  BY <1>9
<1>4. new \in Facts /\ new.at = sessionFacts.at
  <2>1. CASE kind = "systemd"
    BY <1>3, <2>1, <1>1 DEF Facts
  <2>2. CASE kind = "files"
    <3>1. \/ new = [sessionFacts EXCEPT !.sycoca = "old", !.mimeinfo = TRUE]
          \/ new = [sessionFacts EXCEPT !.menu = ~@]
          \/ new = [sessionFacts EXCEPT !.roles = ~@]
      BY <1>3, <2>2
    <3>2. CASE new = [sessionFacts EXCEPT !.sycoca = "old", !.mimeinfo = TRUE]
      BY <1>1, <3>2 DEF Facts
    <3>3. CASE new = [sessionFacts EXCEPT !.menu = ~@]
      BY <1>1, <3>3 DEF Facts
    <3>4. CASE new = [sessionFacts EXCEPT !.roles = ~@]
      BY <1>1, <3>4 DEF Facts
    <3> QED
      BY <3>1, <3>2, <3>3, <3>4
  <2>3. CASE kind = "bus"
    <3>1. \/ new = [sessionFacts EXCEPT !.connected = FALSE]
          \/ \E n \in DesktopNames : new = [sessionFacts EXCEPT !.owned = DesktopNames \ {n}]
      BY <1>3, <2>3
    <3>2. CASE new = [sessionFacts EXCEPT !.connected = FALSE]
      BY <1>1, <3>2 DEF Facts
    <3>3. ASSUME NEW n \in DesktopNames, new = [sessionFacts EXCEPT !.owned = DesktopNames \ {n}]
          PROVE  new \in Facts /\ new.at = sessionFacts.at
      BY <1>1, <3>3 DEF Facts
    <3> QED
      BY <3>1, <3>2, <3>3
  <2> QED
    BY <2>1, <2>2, <2>3, IntegrationAssumption
<1>5. sessionFacts' \in Facts /\ sessionFacts'.at = sessionFacts.at + 1
  BY <1>2, <1>3, <1>4 DEF Facts
<1> QED
  BY <1>2, <1>5

LEMMA RebuildWell ==
  ASSUME IntegrationInv, NEW steps, sessionFacts.at < MaxFacts,
         NEW b \in BOOLEAN, NEW c \in {"none", "old", "current"}, NEW rebuilt,
         rebuilt = [sessionFacts EXCEPT !.at = @ + 1, !.mimeinfo = b, !.sycoca = c]
  PROVE  rebuilt \in Facts /\ rebuilt.at \in 0..MaxFacts
<1>1. sessionFacts \in Facts /\ sessionFacts.at \in 0..MaxFacts /\ MaxFacts \in Nat
  BY IntegrationAssumption DEF IntegrationInv, Facts
<1>2. sessionFacts.at + 1 \in 0..MaxFacts
  BY <1>1
<1> DEFINE u == [sessionFacts EXCEPT !.at = @ + 1]
           v == [u EXCEPT !.mimeinfo = b]
<1>3. u \in Facts
  BY <1>1, <1>2 DEF Facts
<1>4. rebuilt = [v EXCEPT !.sycoca = c]
  OBVIOUS
<1> HIDE DEF u
<1>5. v \in Facts
  BY <1>3 DEF Facts
<1> HIDE DEF v
<1> QED
  BY <1>4, <1>5 DEF Facts

\* What the workers read is shown.
LEMMA FinishFits ==
  ASSUME IntegrationInv, RefreshFinishes
  PROVE  /\ integration' \in Integrations /\ integration'.asked = integration.asked /\ integration'.steps = integration.steps
         /\ JobsFit(integration', integrationJobs', integrationOldest', CursorRow) /\ ReportFits(integration', CursorRow)
<1> DEFINE s == integration
           jobs == integrationJobs
           oldest == integrationOldest
           rows == (UNION {jobs[d] : d \in Diagnostics}) \cup RebuildRows(s.steps)
           idle == [s EXCEPT !.running = FALSE, !.pending = FALSE, !.rows = rows, !.overall = OverallStatus(rows), !.shownAt = oldest]
           overall == OverallStatus(rows)
<1>1. /\ s.running /\ DOMAIN jobs = Diagnostics /\ integration' = (IF s.pending THEN Refresh(idle) ELSE idle)
      /\ integrationJobs' = <<>> /\ integrationOldest' = 0
  BY DEF RefreshFinishes
<1>2. /\ s \in Integrations /\ JobsFit(s, jobs, oldest, CursorRow) /\ 0 \in 0..MaxFacts
  BY IntegrationAssumption DEF IntegrationInv
<1>3. "process" \in Diagnostics /\ jobs # <<>>
  BY <1>1 DEF Diagnostics
<1>4. rows \subseteq Reports /\ {r \in rows : r.id = "rebuild"} = RebuildRows(s.steps)
  BY <1>1, <1>2, RebuildReports DEF JobsFit
<1>5. overall \in Statuses \ {"info"} /\ oldest \in 0..MaxFacts
  BY <1>2, OverallIs DEF JobsFit
<1>6. ~s.pending => oldest >= s.asked /\ CursorRow \in rows
  BY <1>1, <1>2, <1>3 DEF JobsFit
<1> DEFINE t1 == [s EXCEPT !.running = FALSE]
           t2 == [t1 EXCEPT !.pending = FALSE]
           t3 == [t2 EXCEPT !.rows = rows]
           t4 == [t3 EXCEPT !.overall = overall]
<1>7. idle = [t4 EXCEPT !.shownAt = oldest]
  OBVIOUS
<1> HIDE DEF rows, overall, idle, s, jobs, oldest
<1>8. t1 \in Integrations /\ t1.running = FALSE /\ t1.asked = s.asked /\ t1.steps = s.steps
  BY <1>2 DEF Integrations
<1> HIDE DEF t1
<1>9. t2 \in Integrations /\ t2.running = FALSE /\ t2.pending = FALSE /\ t2.asked = s.asked /\ t2.steps = s.steps
  BY <1>8 DEF Integrations
<1> HIDE DEF t2
<1>10. /\ t3 \in Integrations /\ t3.running = FALSE /\ t3.pending = FALSE /\ t3.asked = s.asked /\ t3.steps = s.steps
       /\ t3.rows = rows
  BY <1>4, <1>9 DEF Integrations
<1> HIDE DEF t3
<1>11. /\ t4 \in Integrations /\ t4.running = FALSE /\ t4.pending = FALSE /\ t4.asked = s.asked /\ t4.steps = s.steps
       /\ t4.rows = rows
  BY <1>5, <1>10 DEF Integrations
<1> HIDE DEF t4
<1>12. /\ idle \in Integrations /\ idle.running = FALSE /\ idle.pending = FALSE /\ idle.asked = s.asked /\ idle.steps = s.steps
       /\ idle.rows = rows /\ idle.shownAt = oldest
  BY <1>5, <1>7, <1>11 DEF Integrations
<1>13. CASE ~s.pending
  BY <1>1, <1>13, <1>4, <1>6, <1>12, <1>2 DEF ReportFits, JobsFit, s
<1>14. CASE s.pending
  <2>1. integration' = Refresh(idle)
    BY <1>1, <1>14
  <2>2. Refreshed(idle, Refresh(idle))
    BY <1>12, RefreshIs
  <2> DEFINE u == Refresh(idle)
  <2>3. u = [idle EXCEPT !.running = TRUE]
    BY <1>12 DEF Refresh
  <2> HIDE DEF u
  <2>4. u.asked = idle.asked /\ u \in Integrations /\ u.running /\ u.steps = idle.steps
    BY <1>12, <2>3 DEF Integrations
  <2>5. ReportFits(u, CursorRow)
    BY <2>4 DEF ReportFits
  <2>6. JobsFit(u, <<>>, 0, CursorRow)
    BY <1>2, <2>4 DEF JobsFit
  <2> QED
    BY <1>1, <1>12, <2>1, <2>4, <2>5, <2>6 DEF s, u
<1> QED
  BY <1>13, <1>14

LEMMA IntegrationStep == IntegrationInv /\ [IntegrationNext]_integrationVars => IntegrationInv'
<1> SUFFICES ASSUME IntegrationInv, [IntegrationNext]_integrationVars PROVE IntegrationInv'
  OBVIOUS
<1>0. /\ sessionFixed \in Fixtures /\ sessionFacts \in Facts /\ expectedCursor \in Cursors \cup {NoCursor}
      /\ integration \in Integrations /\ integration.asked <= sessionFacts.at
      /\ JobsFit(integration, integrationJobs, integrationOldest, CursorRow) /\ ReportFits(integration, CursorRow)
      /\ integrationTold \in BOOLEAN /\ (integrationTold => \A i \in DOMAIN integration.steps : integration.steps[i])
      /\ sessionFacts.at \in 0..MaxFacts /\ integration.asked \in 0..MaxFacts /\ (~integration.running => ~integration.pending)
      /\ MaxFacts \in Nat
  BY IntegrationAssumption DEF IntegrationInv, Facts, Integrations, ReportFits
<1>1. CASE FactsChange
  <2>1. sessionFacts' \in Facts /\ sessionFacts.at <= sessionFacts'.at
    BY <1>1, FactsChangeWell
  <2>2. /\ sessionFixed' = sessionFixed /\ expectedCursor' = expectedCursor /\ integration' = integration
        /\ integrationJobs' = integrationJobs /\ integrationOldest' = integrationOldest /\ integrationTold' = integrationTold
    BY <1>1 DEF FactsChange
  <2>3. sessionFacts'.at \in 0..MaxFacts
    BY <2>1 DEF Facts
  <2>4. integration.asked <= sessionFacts'.at
    BY <1>0, <2>1, <2>3
  <2>5. CursorRow' = CursorRow
    BY <2>2 DEF CursorRow
  <2> QED
    BY <1>0, <2>1, <2>2, <2>4, <2>5 DEF IntegrationInv
<1>2. ASSUME NEW c \in Cursors \cup {NoCursor}, expectedCursor' = c, integration' = Request(integration),
             sessionFixed' = sessionFixed, sessionFacts' = sessionFacts, integrationJobs' = integrationJobs,
             integrationOldest' = integrationOldest, integrationTold' = integrationTold
      PROVE  IntegrationInv'
  BY <1>0, <1>2, RequestIs, RequestedFits DEF Requested, IntegrationInv
<1>3. ASSUME NEW d \in Diagnostics, WorkerReads(d)
      PROVE  IntegrationInv'
  BY <1>3, ReportsAre, <1>0 DEF WorkerReads, JobsFit, ReportsFit, CursorRow, IntegrationInv
<1>4. CASE RefreshFinishes
  <2>1. /\ integration' \in Integrations /\ integration'.asked = integration.asked /\ integration'.steps = integration.steps
        /\ JobsFit(integration', integrationJobs', integrationOldest', CursorRow) /\ ReportFits(integration', CursorRow)
    BY <1>4, FinishFits
  <2>2. /\ sessionFixed' = sessionFixed /\ sessionFacts' = sessionFacts /\ expectedCursor' = expectedCursor
        /\ integrationTold' = integrationTold
    BY <1>4 DEF RefreshFinishes
  <2>3. CursorRow' = CursorRow
    BY <2>2 DEF CursorRow
  <2> QED
    BY <1>0, <2>1, <2>2, <2>3 DEF IntegrationInv
<1>5. CASE RebuildApplicationCaches
  <2>1. PICK steps \in RebuildSteps(sessionFixed.tools, sessionFacts.writable) :
          /\ sessionFacts.at < MaxFacts
          /\ sessionFacts' = [sessionFacts EXCEPT
                                !.at = @ + 1,
                                !.mimeinfo = @ \/ (sessionFacts.writable /\ steps # <<>> /\ steps[1]),
                                !.sycoca = IF "kbuildsycoca6" \in sessionFixed.tools /\ steps[Len(steps)] THEN "current" ELSE @]
          /\ integration' = [Refresh(integration) EXCEPT !.steps = steps, !.asked = sessionFacts'.at]
          /\ integrationTold' = (\A i \in DOMAIN steps : steps[i])
          /\ UNCHANGED <<sessionFixed, expectedCursor, integrationJobs, integrationOldest>>
    BY <1>5 DEF RebuildApplicationCaches
  <2>2. steps \in StepLists
    BY RebuildStepsAre
  <2> DEFINE b == sessionFacts.mimeinfo \/ (sessionFacts.writable /\ steps # <<>> /\ steps[1])
             c == IF "kbuildsycoca6" \in sessionFixed.tools /\ steps[Len(steps)] THEN "current" ELSE sessionFacts.sycoca
  <2>3. b \in BOOLEAN /\ c \in {"none", "old", "current"}
    BY <1>0 DEF Facts
  <2>4. sessionFacts' = [sessionFacts EXCEPT !.at = @ + 1, !.mimeinfo = b, !.sycoca = c]
    BY <2>1
  <2> HIDE DEF b, c
  <2>5. sessionFacts' \in Facts /\ sessionFacts'.at \in 0..MaxFacts
    BY <2>1, <2>3, <2>4, RebuildWell
  <2>6. Requested(integration, integration', steps, sessionFacts'.at)
    BY <1>0, <2>1, <2>2, <2>5, RebuiltIs
  <2>7. integrationTold' \in BOOLEAN /\ (integrationTold' => \A i \in DOMAIN steps : steps[i])
    BY <2>1
  <2>8. CursorRow' = CursorRow
    BY <2>1 DEF CursorRow
  <2>9. JobsFit(integration', integrationJobs, integrationOldest, CursorRow) /\ ReportFits(integration', CursorRow)
    BY <1>0, <2>6, RequestedFits
  <2>10. integration' \in Integrations /\ integration'.asked = sessionFacts'.at /\ integration'.steps = steps
    BY <2>6 DEF Requested
  <2>11. sessionFacts'.at <= sessionFacts'.at
    BY <2>5
  <2> QED
    BY <1>0, <2>1, <2>5, <2>7, <2>8, <2>9, <2>10, <2>11 DEF IntegrationInv
<1>6. CASE RefreshAsked
  BY <1>0, <1>2, <1>6 DEF RefreshAsked
<1>7. ASSUME NEW c \in Cursors, SetExpectedCursorTheme(c)
      PROVE  IntegrationInv'
  BY <1>2, <1>7 DEF SetExpectedCursorTheme
<1>8. CASE UNCHANGED integrationVars
  BY <1>8, <1>0 DEF CursorRow, integrationVars, IntegrationInv
<1> QED
  BY <1>1, <1>3, <1>4, <1>5, <1>6, <1>7, <1>8 DEF IntegrationNext

LEMMA ReportIsCurrent == IntegrationInv => IntegrationTypeOK /\ IntegrationIsCurrent
BY RebuildReports DEF IntegrationInv, Fixtures, Facts, Integrations, Reports, JobsFit, IntegrationTypeOK, StepLists,
   Row, ReportFits, IntegrationIsCurrent, CursorRow

----------------------------------------------------------------------------
(***************************************************************************)
(* The desktop portal.                                                     *)
(***************************************************************************)

BusCalls == {"owner", "names", "refresh"}
BrokerCalls == {"introspect", "scheme"}
MessageKinds == BusCalls \cup BrokerCalls \cup {"changed", "impls", "here", "gone"}

\* What a message may carry.
CarriesWell(m) ==
  /\ m.kind = "owner" /\ m.ok => m.value \in BOOLEAN
  /\ m.kind \in {"names", "refresh"} /\ m.ok => m.value \subseteq Backends
  /\ m.kind = "introspect" /\ m.ok => m.value \subseteq Faces
  /\ m.kind = "scheme" /\ m.ok => m.value \in Schemes
  /\ m.kind = "changed" => m.ok /\ m.value \in Schemes
Carried == BOOLEAN \cup (SUBSET Backends) \cup (SUBSET Faces) \cup Schemes
Messages == {m \in [kind : MessageKinds, ok : BOOLEAN, value : Carried] : CarriesWell(m)}

Brokers == [alive : BOOLEAN, faces : SUBSET Faces, scheme : Schemes, turns : 0..MaxTurns]
Portals == [available : BOOLEAN, faces : SUBSET Faces, backends : SUBSET Backends, scheme : Schemes \cup {NoScheme},
            probing : BOOLEAN, count : 0..2, started : BOOLEAN]
Pendings == [bus : Seq(BusCalls), broker : Seq(BrokerCalls)]
Unread == {"owner", "names", "faces", "scheme"}

\* What is asked, what is on its way, and what comes after the i-th message.
Asked(calls, kind) == \E i \in 1..Len(calls) : calls[i] = kind
Comes(box, kind) == \E i \in 1..Len(box) : box[i].kind = kind
Later(box, i, kind) == \E j \in (i + 1)..Len(box) : box[j].kind = kind
Out(c, box, kind) == Asked(c.bus, kind) \/ Asked(c.broker, kind) \/ Comes(box, kind)

\* The broker was found on the bus, or not found.
Found(m) == m.kind = "owner" /\ m.ok /\ m.value
NotFound(m) == m.kind = "owner" /\ m.ok /\ ~m.value

\* After the first k messages the service holds that there is no broker.
GoneBy(box, k) == \E j \in 1..k : box[j].kind = "gone" /\ \A l \in (j + 1)..k : ~Found(box[l])
Lowered(p) == ~p.available /\ p.faces = {}
Down(box, p, k) == GoneBy(box, k) \/ (Lowered(p) /\ \A l \in 1..k : ~Found(box[l]))

\* A probe waits for the owner, or for what it asked of the broker that was found.
ProbeFits(c, box, p) ==
  /\ p.probing => p.started /\ (p.count = 0 => Out(c, box, "owner")) /\ (p.count # 0 => p.available)
  /\ p.available /\ p.count = 2 => Out(c, box, "names") /\ Out(c, box, "introspect")
  /\ p.available /\ p.count = 1 => Out(c, box, "names") \/ Out(c, box, "introspect")

\* Without a broker the service is down, or will be before it hears of the next.
DownFits(alive, box, p) ==
  /\ ~alive => Down(box, p, Len(box))
  /\ \A i \in 1..Len(box) : NotFound(box[i]) \/ box[i].kind = "here" => Down(box, p, i - 1)

\* With a broker it is up, or is about to hear of it.
UpFits(alive, c, box, p, missed) ==
  /\ alive => \A i \in 1..Len(box) : NotFound(box[i]) \/ box[i].kind = "gone" => Later(box, i, "here")
  /\ alive /\ p.started /\ ~Comes(box, "here") /\ "owner" \notin missed => Out(c, box, "owner") \/ p.available
  /\ ~p.available /\ p.faces # {} => "owner" \in missed

FacesFit(b, c, box, p, missed) ==
  /\ \A i \in 1..Len(box) : box[i].kind = "introspect" /\ box[i].ok =>
       Later(box, i, "gone") \/ (b.alive /\ box[i].value = b.faces)
  /\ p.available /\ ~Comes(box, "gone") /\ "faces" \notin missed => Out(c, box, "introspect") \/ p.faces = b.faces

SchemeFits(b, c, box, p, missed) ==
  /\ \A i \in 1..Len(box) : (box[i].kind = "scheme" /\ box[i].ok) \/ box[i].kind = "changed" =>
       Later(box, i, "gone") \/ Later(box, i, "changed") \/ (b.alive /\ box[i].value = b.scheme)
  /\ p.available /\ ~Comes(box, "gone") /\ "faces" \notin missed /\ "scheme" \notin missed /\ "settings" \in p.faces =>
       p.count # 0 \/ Out(c, box, "scheme") \/ Comes(box, "changed") \/ p.scheme = b.scheme

NamesFit(impls, c, box, p, missed) ==
  /\ \A i \in 1..Len(box) : box[i].kind \in {"names", "refresh"} /\ box[i].ok =>
       Later(box, i, "impls") \/ box[i].value = impls
  /\ p.available /\ "names" \notin missed =>
       Comes(box, "impls") \/ Out(c, box, "names") \/ Out(c, box, "refresh") \/ p.backends = impls

PortalTyped(b, impls, c, box, p, missed) ==
  /\ b \in Brokers /\ impls \in SUBSET Backends /\ c \in Pendings /\ box \in Seq(Messages) /\ p \in Portals
  /\ missed \in SUBSET Unread

PortalHolds(b, impls, c, box, p, missed) ==
  /\ ProbeFits(c, box, p) /\ DownFits(b.alive, box, p) /\ UpFits(b.alive, c, box, p, missed)
  /\ FacesFit(b, c, box, p, missed) /\ SchemeFits(b, c, box, p, missed) /\ NamesFit(impls, c, box, p, missed)

\* Before its first probe the service knows nothing, and nothing is on its way.
StartFits(c, box, p) == ~p.started => ~p.available /\ ~Asked(c.bus, "owner") /\ ~Comes(box, "owner")

PortalInv ==
  /\ PortalTyped(portalBroker, portalImpls, portalCalls, portalInbox, portal, portalMissed)
  /\ PortalHolds(portalBroker, portalImpls, portalCalls, portalInbox, portal, portalMissed)
  /\ StartFits(portalCalls, portalInbox, portal)

----------------------------------------------------------------------------
\* More messages after those of a box.
Grown(box, added, more) ==
  /\ box \in Seq(Messages) /\ added \in Seq(Messages) /\ more \in Seq(Messages)
  /\ Len(box) \in Nat /\ Len(added) \in Nat /\ Len(more) = Len(box) + Len(added)
  /\ \A i \in 1..Len(box) : more[i] = box[i]
  /\ \A i \in 1..Len(added) : more[Len(box) + i] = added[i]
  /\ \A i \in 1..Len(more) : i \in 1..Len(box) \/ \E j \in 1..Len(added) : i = Len(box) + j

LEMMA BoxGrows ==
  ASSUME NEW box \in Seq(Messages), NEW added \in Seq(Messages), NEW more, more = box \o added
  PROVE  Grown(box, added, more)
<1>1. /\ more \in Seq(Messages) /\ Len(box) \in Nat /\ Len(added) \in Nat /\ Len(more) = Len(box) + Len(added)
      /\ \A i \in 1..Len(box) : more[i] = box[i]
      /\ \A i \in 1..Len(added) : more[Len(box) + i] = added[i]
  OBVIOUS
<1>2. ASSUME NEW i \in 1..Len(more) PROVE i \in 1..Len(box) \/ \E j \in 1..Len(added) : i = Len(box) + j
  <2>1. CASE i <= Len(box)
    BY <1>1, <2>1
  <2>2. CASE i > Len(box)
    <3>1. i - Len(box) \in 1..Len(added) /\ i = Len(box) + (i - Len(box))
      BY <1>1, <2>2
    <3> QED
      BY <3>1
  <2> QED
    BY <1>1, <2>1, <2>2
<1> QED
  BY <1>1, <1>2 DEF Grown

LEMMA GrownComes ==
  ASSUME NEW box, NEW added, NEW more, Grown(box, added, more), NEW kind
  PROVE  /\ Comes(more, kind) <=> Comes(box, kind) \/ Comes(added, kind)
         /\ \A i \in 1..Len(box) : Later(more, i, kind) <=> Later(box, i, kind) \/ Comes(added, kind)
         /\ \A i \in 1..Len(added) : Later(more, Len(box) + i, kind) <=> Later(added, i, kind)
<1>1. /\ Len(box) \in Nat /\ Len(added) \in Nat /\ Len(more) = Len(box) + Len(added)
      /\ \A i \in 1..Len(box) : more[i] = box[i]
      /\ \A i \in 1..Len(added) : more[Len(box) + i] = added[i]
      /\ \A i \in 1..Len(more) : i \in 1..Len(box) \/ \E j \in 1..Len(added) : i = Len(box) + j
  BY DEF Grown
<1>2. \A i \in 1..Len(box) : i \in 1..Len(more)
  BY <1>1
<1>3. \A i \in 1..Len(added) : Len(box) + i \in 1..Len(more) /\ Len(box) + i > Len(box)
  BY <1>1
<1>4. Comes(more, kind) <=> Comes(box, kind) \/ Comes(added, kind)
  <2>1. ASSUME Comes(more, kind) PROVE Comes(box, kind) \/ Comes(added, kind)
    <3>1. PICK i \in 1..Len(more) : more[i].kind = kind
      BY <2>1 DEF Comes
    <3>2. CASE i \in 1..Len(box)
      BY <1>1, <3>1, <3>2 DEF Comes
    <3>3. CASE \E j \in 1..Len(added) : i = Len(box) + j
      BY <1>1, <3>1, <3>3 DEF Comes
    <3> QED
      BY <1>1, <3>2, <3>3
  <2>2. ASSUME Comes(box, kind) PROVE Comes(more, kind)
    BY <1>1, <1>2, <2>2 DEF Comes
  <2>3. ASSUME Comes(added, kind) PROVE Comes(more, kind)
    BY <2>3, <1>1, <1>3 DEF Comes
  <2> QED
    BY <2>1, <2>2, <2>3
<1>5. ASSUME NEW i \in 1..Len(box)
      PROVE  Later(more, i, kind) <=> Later(box, i, kind) \/ Comes(added, kind)
  <2>1. ASSUME Later(more, i, kind) PROVE Later(box, i, kind) \/ Comes(added, kind)
    <3>1. PICK j \in (i + 1)..Len(more) : more[j].kind = kind
      BY <2>1 DEF Later
    <3>2. j \in 1..Len(more)
      BY <1>1, <3>1
    <3>3. CASE j \in 1..Len(box)
      BY <1>1, <3>1, <3>3 DEF Later
    <3>4. CASE \E l \in 1..Len(added) : j = Len(box) + l
      BY <1>1, <3>1, <3>4 DEF Comes
    <3> QED
      BY <1>1, <3>2, <3>3, <3>4
  <2>2. ASSUME Later(box, i, kind) PROVE Later(more, i, kind)
    BY <2>2, <1>1 DEF Later
  <2>3. ASSUME Comes(added, kind) PROVE Later(more, i, kind)
    BY <2>3, <1>1 DEF Comes, Later
  <2> QED
    BY <2>1, <2>2, <2>3
<1>6. ASSUME NEW i \in 1..Len(added)
      PROVE  Later(more, Len(box) + i, kind) <=> Later(added, i, kind)
  <2>1. ASSUME Later(more, Len(box) + i, kind) PROVE Later(added, i, kind)
    <3>1. PICK j \in ((Len(box) + i) + 1)..Len(more) : more[j].kind = kind
      BY <2>1 DEF Later
    <3>2. j - Len(box) \in (i + 1)..Len(added) /\ j - Len(box) \in 1..Len(added) /\ j = Len(box) + (j - Len(box))
      BY <1>1, <3>1
    <3>3. added[j - Len(box)].kind = kind
      BY <1>1, <3>1, <3>2
    <3> QED
      BY <3>2, <3>3 DEF Later
  <2>2. ASSUME Later(added, i, kind) PROVE Later(more, Len(box) + i, kind)
    <3>1. PICK j \in (i + 1)..Len(added) : added[j].kind = kind
      BY <2>2 DEF Later
    <3>2. Len(box) + j \in ((Len(box) + i) + 1)..Len(more) /\ j \in 1..Len(added)
      BY <1>1, <3>1
    <3> QED
      BY <1>1, <3>1, <3>2 DEF Later
  <2> QED
    BY <2>1, <2>2
<1> QED
  BY <1>4, <1>5, <1>6

LEMMA GrownDown ==
  ASSUME NEW box, NEW added, NEW more, Grown(box, added, more), NEW p
  PROVE  /\ \A k \in 0..Len(box) : Down(box, p, k) => Down(more, p, k)
         /\ \A k \in 0..Len(added) :
              Down(box, p, Len(box)) /\ (\A l \in 1..k : ~Found(added[l])) => Down(more, p, Len(box) + k)
         /\ \A k \in 1..Len(added) : added[k].kind = "gone" => Down(more, p, Len(box) + k)
<1>1. /\ Len(box) \in Nat /\ Len(added) \in Nat /\ Len(more) = Len(box) + Len(added)
      /\ \A i \in 1..Len(box) : more[i] = box[i]
      /\ \A i \in 1..Len(added) : more[Len(box) + i] = added[i]
      /\ \A i \in 1..Len(more) : i \in 1..Len(box) \/ \E j \in 1..Len(added) : i = Len(box) + j
  BY DEF Grown
<1>2. ASSUME NEW k \in 0..Len(box), Down(box, p, k) PROVE Down(more, p, k)
  <2>1. \A l \in 1..k : l \in 1..Len(box)
    BY <1>1
  <2>2. CASE GoneBy(box, k)
    BY <2>2, <1>1, <2>1 DEF GoneBy, Down
  <2>3. CASE Lowered(p) /\ \A l \in 1..k : ~Found(box[l])
    BY <1>1, <2>1, <2>3 DEF Down
  <2> QED
    BY <1>2, <2>2, <2>3 DEF Down
<1>3. ASSUME NEW k \in 0..Len(added), Down(box, p, Len(box)), \A l \in 1..k : ~Found(added[l])
      PROVE  Down(more, p, Len(box) + k)
  <2> DEFINE n == Len(box) + k
  <2>1. ASSUME NEW l \in 1..n, l > Len(box)
        PROVE  l - Len(box) \in 1..k /\ Len(box) + (l - Len(box)) = l /\ l - Len(box) \in 1..Len(added)
    BY <1>1, <2>1
  <2>2. \A l \in 1..n : l > Len(box) => ~Found(more[l])
    BY <1>1, <1>3, <2>1
  <2>3. CASE GoneBy(box, Len(box))
    <3>1. PICK j \in 1..Len(box) : box[j].kind = "gone" /\ \A l \in (j + 1)..Len(box) : ~Found(box[l])
      BY <2>3 DEF GoneBy
    <3>2. j \in 1..n /\ more[j].kind = "gone"
      BY <1>1, <3>1
    <3>3. ASSUME NEW l \in (j + 1)..n PROVE ~Found(more[l])
      <4>1. CASE l > Len(box)
        BY <1>1, <2>2, <4>1
      <4>2. CASE ~(l > Len(box))
        BY <1>1, <4>2, <3>1
      <4> QED
        BY <4>1, <4>2
    <3>4. GoneBy(more, n)
      BY <3>2, <3>3 DEF GoneBy
    <3> QED
      BY <3>4 DEF Down
  <2>4. CASE Lowered(p) /\ \A l \in 1..Len(box) : ~Found(box[l])
    <3>1. \A l \in 1..n : l \in 1..Len(box) \/ l > Len(box)
      BY <1>1
    <3>2. \A l \in 1..n : ~Found(more[l])
      BY <1>1, <2>2, <2>4, <3>1
    <3> QED
      BY <2>4, <3>2 DEF Down
  <2> QED
    BY <1>3, <2>3, <2>4 DEF Down
<1>4. ASSUME NEW k \in 1..Len(added), added[k].kind = "gone" PROVE Down(more, p, Len(box) + k)
  <2> DEFINE n == Len(box) + k
  <2>1. n \in 1..n /\ more[n].kind = "gone" /\ \A l \in (n + 1)..n : FALSE
    BY <1>1, <1>4
  <2>2. GoneBy(more, n)
    BY <2>1 DEF GoneBy
  <2> QED
    BY <2>2 DEF Down
<1> QED
  BY <1>2, <1>3, <1>4

\* The first message of a box, and the rest of them.
HeardFrom(box, m, rest) ==
  /\ box \in Seq(Messages) /\ rest \in Seq(Messages) /\ m \in Messages
  /\ Len(box) \in Nat /\ Len(rest) \in Nat /\ Len(box) = Len(rest) + 1
  /\ box[1] = m
  /\ \A i \in 1..Len(rest) : rest[i] = box[i + 1]

LEMMA BoxIsHeard ==
  ASSUME NEW box \in Seq(Messages), box # <<>>
  PROVE  HeardFrom(box, Head(box), Tail(box))
BY DEF HeardFrom

LEMMA HeardComes ==
  ASSUME NEW box, NEW m, NEW rest, HeardFrom(box, m, rest), NEW kind
  PROVE  /\ Comes(box, kind) <=> m.kind = kind \/ Comes(rest, kind)
         /\ Later(box, 1, kind) <=> Comes(rest, kind)
         /\ \A i \in 1..Len(rest) : Later(box, i + 1, kind) <=> Later(rest, i, kind)
<1>1. /\ Len(box) \in Nat /\ Len(rest) \in Nat /\ Len(box) = Len(rest) + 1
      /\ box[1] = m /\ \A i \in 1..Len(rest) : rest[i] = box[i + 1]
  BY DEF HeardFrom
<1>2. ASSUME NEW i \in 0..Len(rest)
      PROVE  Later(box, i + 1, kind) <=> \E j \in (i + 1)..Len(rest) : rest[j].kind = kind
  <2>1. ASSUME Later(box, i + 1, kind) PROVE \E j \in (i + 1)..Len(rest) : rest[j].kind = kind
    <3>1. PICK j \in ((i + 1) + 1)..Len(box) : box[j].kind = kind
      BY <2>1 DEF Later
    <3>2. j - 1 \in (i + 1)..Len(rest) /\ j - 1 \in 1..Len(rest) /\ (j - 1) + 1 = j
      BY <1>1, <3>1
    <3>3. rest[j - 1].kind = kind
      BY <1>1, <3>1, <3>2
    <3> QED
      BY <3>2, <3>3
  <2>2. ASSUME NEW j \in (i + 1)..Len(rest), rest[j].kind = kind PROVE Later(box, i + 1, kind)
    <3>1. j + 1 \in ((i + 1) + 1)..Len(box) /\ j \in 1..Len(rest)
      BY <1>1
    <3> QED
      BY <1>1, <2>2, <3>1 DEF Later
  <2> QED
    BY <2>1, <2>2
<1>3. ASSUME NEW i \in 1..Len(rest) PROVE Later(box, i + 1, kind) <=> Later(rest, i, kind)
  <2>1. i \in 0..Len(rest)
    BY <1>1
  <2> QED
    BY <1>2, <2>1 DEF Later
<1>4. Later(box, 1, kind) <=> Comes(rest, kind)
  <2>1. 0 \in 0..Len(rest) /\ 0 + 1 = 1
    BY <1>1
  <2>2. Later(box, 0 + 1, kind) <=> \E j \in (0 + 1)..Len(rest) : rest[j].kind = kind
    BY <1>2, <2>1
  <2> QED
    BY <2>1, <2>2 DEF Comes
<1>5. Comes(box, kind) <=> m.kind = kind \/ Comes(rest, kind)
  <2>1. 1 \in 1..Len(box) /\ \A i \in 1..Len(rest) : i + 1 \in 1..Len(box)
    BY <1>1
  <2>2. \A i \in 1..Len(box) : i = 1 \/ (i - 1 \in 1..Len(rest) /\ (i - 1) + 1 = i)
    BY <1>1
  <2>3. ASSUME Comes(box, kind) PROVE m.kind = kind \/ Comes(rest, kind)
    <3>1. PICK i \in 1..Len(box) : box[i].kind = kind
      BY <2>3 DEF Comes
    <3>2. CASE i # 1
      <4>1. rest[i - 1].kind = kind
        BY <1>1, <2>2, <3>1, <3>2
      <4> QED
        BY <2>2, <3>2, <4>1 DEF Comes
    <3> QED
      BY <1>1, <3>1, <3>2
  <2>4. ASSUME Comes(rest, kind) PROVE Comes(box, kind)
    <3>1. PICK i \in 1..Len(rest) : rest[i].kind = kind
      BY <2>4 DEF Comes
    <3> QED
      BY <1>1, <2>1, <3>1 DEF Comes
  <2> QED
    BY <1>1, <2>1, <2>3, <2>4 DEF Comes
<1> QED
  BY <1>3, <1>4, <1>5

LEMMA HeardDown ==
  ASSUME NEW box, NEW m, NEW rest, HeardFrom(box, m, rest), NEW p, NEW q, NEW k \in 1..Len(box), Down(box, p, k),
         m.kind = "gone" => Lowered(q),
         Lowered(p) /\ ~Found(m) => Lowered(q)
  PROVE  Down(rest, q, k - 1)
<1>1. /\ Len(box) \in Nat /\ Len(rest) \in Nat /\ Len(box) = Len(rest) + 1
      /\ box[1] = m /\ \A i \in 1..Len(rest) : rest[i] = box[i + 1]
  BY DEF HeardFrom
<1>2. \A l \in 1..(k - 1) : l \in 1..Len(rest) /\ l + 1 \in 1..k /\ l + 1 >= 2
  BY <1>1
<1>3. CASE GoneBy(box, k)
  <2>1. PICK j \in 1..k : box[j].kind = "gone" /\ \A l \in (j + 1)..k : ~Found(box[l])
    BY <1>3 DEF GoneBy
  <2>2. CASE j = 1
    <3>1. \A l \in 1..(k - 1) : l + 1 \in (j + 1)..k
      BY <1>1, <2>2
    <3>2. \A l \in 1..(k - 1) : ~Found(rest[l])
      BY <1>1, <1>2, <2>1, <3>1
    <3> QED
      BY <1>1, <2>1, <2>2, <3>2 DEF Down
  <2>3. CASE j # 1
    <3>1. j - 1 \in 1..(k - 1) /\ (j - 1) + 1 = j
      BY <1>1, <2>3
    <3>2. \A l \in ((j - 1) + 1)..(k - 1) : l + 1 \in (j + 1)..k /\ l \in 1..(k - 1)
      BY <1>1, <3>1
    <3>3. rest[j - 1].kind = "gone" /\ \A l \in ((j - 1) + 1)..(k - 1) : ~Found(rest[l])
      BY <1>1, <1>2, <2>1, <3>1, <3>2
    <3>4. GoneBy(rest, k - 1)
      BY <3>1, <3>3 DEF GoneBy
    <3> QED
      BY <3>4 DEF Down
  <2> QED
    BY <2>2, <2>3
<1>4. CASE Lowered(p) /\ \A l \in 1..k : ~Found(box[l])
  <2>1. 1 \in 1..k
    BY <1>1
  <2>2. \A l \in 1..(k - 1) : ~Found(rest[l])
    BY <1>1, <1>2, <1>4
  <2> QED
    BY <1>1, <1>4, <2>1, <2>2 DEF Down
<1> QED
  BY <1>3, <1>4 DEF Down

----------------------------------------------------------------------------
\* What is asked stays asked until the answer is on its way.
Answerable == BusCalls \cup BrokerCalls
KeepsOut(c, box, d, more) == \A kind \in Answerable : Out(c, box, kind) => Out(d, more, kind)

LEMMA AnswerableAre == Answerable = {"owner", "names", "refresh", "introspect", "scheme"}
BY DEF Answerable, BusCalls, BrokerCalls

LEMMA ProbeKept ==
  ASSUME NEW c, NEW box, NEW d, NEW more, NEW p, ProbeFits(c, box, p), KeepsOut(c, box, d, more)
  PROVE  ProbeFits(d, more, p)
BY AnswerableAre DEF KeepsOut, ProbeFits

\* A message of which the bus or the broker says what is so.
Quiet(b, e, impls, now, m) ==
  /\ m \in Messages /\ m.kind # "gone" /\ m.kind # "here"
  /\ e.alive = b.alive /\ e.faces = b.faces /\ (e.scheme = b.scheme \/ m.kind = "changed") /\ (now = impls \/ m.kind = "impls")
  /\ Found(m) => b.alive
  /\ NotFound(m) => ~b.alive
  /\ m.kind = "introspect" /\ m.ok => b.alive /\ m.value = b.faces
  /\ (m.kind = "scheme" /\ m.ok) \/ m.kind = "changed" => b.alive /\ m.value = e.scheme
  /\ m.kind \in {"names", "refresh"} /\ m.ok => m.value = now

LEMMA OneMore ==
  ASSUME NEW m \in Messages
  PROVE  /\ <<m>> \in Seq(Messages) /\ Len(<<m>>) = 1 /\ <<m>>[1] = m
         /\ \A kind : Comes(<<m>>, kind) <=> m.kind = kind
BY DEF Comes

LEMMA QuietStep ==
  ASSUME NEW b, NEW e, NEW impls, NEW now, NEW c, NEW d, NEW box \in Seq(Messages), NEW more, NEW p, NEW missed, NEW m,
         PortalHolds(b, impls, c, box, p, missed), Quiet(b, e, impls, now, m),
         more = Append(box, m), KeepsOut(c, box, d, more)
  PROVE  PortalHolds(e, now, d, more, p, missed)
<1> DEFINE added == <<m>>
<1>1. m \in Messages /\ added \in Seq(Messages) /\ Len(added) = 1 /\ added[1] = m /\ \A kind : Comes(added, kind) <=> m.kind = kind
  BY OneMore DEF Quiet
<1>2. more = box \o added
  BY <1>1
<1>3. Grown(box, added, more)
  BY <1>1, <1>2, BoxGrows
<1> HIDE DEF added
<1>4. /\ \A kind : Comes(more, kind) <=> Comes(box, kind) \/ m.kind = kind
      /\ \A kind : \A i \in 1..Len(box) : Later(box, i, kind) \/ m.kind = kind => Later(more, i, kind)
  BY <1>1, <1>3, GrownComes
<1> DEFINE n == Len(box) + 1
<1>5. /\ Len(box) \in Nat /\ Len(more) = n /\ more[n] = m
      /\ \A i \in 1..Len(box) : more[i] = box[i]
      /\ \A i \in 1..Len(more) : i \in 1..Len(box) \/ i = n
  BY <1>1, <1>3 DEF Grown
<1>6. /\ ProbeFits(c, box, p) /\ DownFits(b.alive, box, p) /\ UpFits(b.alive, c, box, p, missed)
      /\ FacesFit(b, c, box, p, missed) /\ SchemeFits(b, c, box, p, missed) /\ NamesFit(impls, c, box, p, missed)
  BY DEF PortalHolds
<1>7. \A kind \in Answerable : Out(c, box, kind) => Out(d, more, kind)
  BY DEF KeepsOut
<1>8. /\ m.kind # "gone" /\ m.kind # "here" /\ e.alive = b.alive /\ e.faces = b.faces
      /\ e.scheme = b.scheme \/ m.kind = "changed"
      /\ now = impls \/ m.kind = "impls"
      /\ Found(m) => b.alive
      /\ NotFound(m) => ~b.alive
      /\ m.kind = "introspect" /\ m.ok => b.alive /\ m.value = b.faces
      /\ (m.kind = "scheme" /\ m.ok) \/ m.kind = "changed" => b.alive /\ m.value = e.scheme
      /\ m.kind \in {"names", "refresh"} /\ m.ok => m.value = now
  BY DEF Quiet
<1>9. ProbeFits(d, more, p)
  BY <1>6, ProbeKept
<1>10. DownFits(e.alive, more, p)
  <2>1. \A k \in 0..Len(box) : Down(box, p, k) => Down(more, p, k)
    BY <1>3, GrownDown
  <2>2. ~Found(m) /\ Down(box, p, Len(box)) => Down(more, p, n)
    <3>1. 1 \in 0..Len(added) /\ \A l \in 1..1 : l = 1
      BY <1>1
    <3> QED
      BY <1>1, <1>3, <3>1, GrownDown
  <2>3. ~e.alive => Down(more, p, Len(more))
    BY <1>5, <1>6, <1>8, <2>2 DEF DownFits
  <2>4. ASSUME NEW i \in 1..Len(more), NotFound(more[i]) \/ more[i].kind = "here" PROVE Down(more, p, i - 1)
    BY <1>5, <1>6, <2>4, <2>1, <1>8 DEF DownFits
  <2> QED
    BY <2>3, <2>4 DEF DownFits
<1>11. UpFits(e.alive, d, more, p, missed)
  BY <1>5, <1>8, <1>4, <1>6, <1>7, AnswerableAre DEF UpFits
<1>12. FacesFit(e, d, more, p, missed)
  BY <1>4, <1>5, <1>6, <1>8, <1>7, AnswerableAre DEF FacesFit
<1>13. SchemeFits(e, d, more, p, missed)
  BY <1>4, <1>5, <1>6, <1>8, <1>7, AnswerableAre DEF SchemeFits
<1>14. NamesFit(now, d, more, p, missed)
  BY <1>4, <1>5, <1>6, <1>8, <1>7, AnswerableAre DEF NamesFit
<1> QED
  BY <1>9, <1>10, <1>11, <1>12, <1>13, <1>14 DEF PortalHolds

\* The broker ends or starts: what it was asked has failed, and the bus says so.
Turned(b, e, added) ==
  /\ added \in Seq(Messages) /\ Len(added) \in Nat \ {0} /\ b.alive \in BOOLEAN /\ e.alive = ~b.alive
  /\ added[Len(added)].kind = (IF b.alive THEN "gone" ELSE "here")
  /\ \A i \in 1..(Len(added) - 1) : added[i].kind \in BrokerCalls /\ ~added[i].ok

LEMMA TurnStep ==
  ASSUME NEW b, NEW e, NEW impls, NEW c, NEW d, NEW box \in Seq(Messages), NEW more, NEW p, NEW missed,
         NEW added, PortalHolds(b, impls, c, box, p, missed), Turned(b, e, added),
         more = box \o added, KeepsOut(c, box, d, more)
  PROVE  PortalHolds(e, impls, d, more, p, missed)
<1> DEFINE n == Len(added)
<1>1. /\ added \in Seq(Messages) /\ n \in Nat \ {0} /\ e.alive = ~b.alive /\ b.alive \in BOOLEAN
      /\ added[n].kind = (IF b.alive THEN "gone" ELSE "here")
      /\ \A i \in 1..(n - 1) : added[i].kind \in {"introspect", "scheme"} /\ ~added[i].ok
  BY DEF Turned, BrokerCalls
<1>2. Grown(box, added, more)
  BY <1>1, BoxGrows
<1>3. /\ \A kind : Comes(more, kind) <=> Comes(box, kind) \/ Comes(added, kind)
      /\ \A kind : \A i \in 1..Len(box) : Later(box, i, kind) \/ Comes(added, kind) => Later(more, i, kind)
  BY <1>2, GrownComes
<1>4. /\ Len(box) \in Nat /\ Len(more) = Len(box) + n
      /\ \A i \in 1..Len(box) : more[i] = box[i]
      /\ \A i \in 1..n : more[Len(box) + i] = added[i]
      /\ \A i \in 1..Len(more) : i \in 1..Len(box) \/ \E j \in 1..n : i = Len(box) + j
  BY <1>2 DEF Grown
<1>5. /\ ProbeFits(c, box, p) /\ DownFits(b.alive, box, p) /\ UpFits(b.alive, c, box, p, missed)
      /\ FacesFit(b, c, box, p, missed) /\ SchemeFits(b, c, box, p, missed) /\ NamesFit(impls, c, box, p, missed)
  BY DEF PortalHolds
<1>6. \A kind \in Answerable : Out(c, box, kind) => Out(d, more, kind)
  BY DEF KeepsOut
<1>7. n \in 1..n /\ \A i \in 1..n : i = n \/ i \in 1..(n - 1)
  BY <1>1
<1>8. /\ \A i \in 1..n : ~Found(added[i]) /\ ~NotFound(added[i])
      /\ \A i \in 1..n : added[i].kind = "introspect" \/ added[i].kind = "scheme" => ~added[i].ok
      /\ \A i \in 1..n : added[i].kind \notin {"changed", "names", "refresh"}
      /\ \A i \in 1..n : added[i].kind = "here" => i = n /\ ~b.alive
      /\ \A i \in 1..n : added[i].kind = "gone" => b.alive
  BY <1>1, <1>7 DEF Found, NotFound
<1>9. IF b.alive THEN Comes(added, "gone") ELSE Comes(added, "here")
  BY <1>1, <1>7 DEF Comes
<1>10. ~b.alive => Comes(box, "gone") \/ ~p.available
  BY <1>5 DEF GoneBy, Comes, DownFits, Down, Lowered
<1>17. ASSUME NEW i \in 1..Len(more), i \notin 1..Len(box)
       PROVE  /\ more[i].kind = "introspect" \/ more[i].kind = "scheme" => ~more[i].ok
              /\ more[i].kind \notin {"changed", "names", "refresh"}
  <2>1. PICK j \in 1..n : i = Len(box) + j
    BY <1>4, <1>17
  <2>2. more[i] = added[j]
    BY <1>4, <2>1
  <2> QED
    BY <1>8, <2>2
<1> HIDE DEF n
<1>11. ProbeFits(d, more, p)
  BY <1>5, ProbeKept
<1>12. DownFits(e.alive, more, p)
  <2>1. \A k \in 0..Len(box) : Down(box, p, k) => Down(more, p, k)
    BY <1>2, GrownDown
  <2>2. ASSUME ~e.alive PROVE Down(more, p, Len(more))
    <3>1. added[n].kind = "gone" /\ n \in 1..Len(added)
      BY <1>1, <1>7, <2>2 DEF n
    <3>2. \A k \in 1..Len(added) : added[k].kind = "gone" => Down(more, p, Len(box) + k)
      BY <1>2, GrownDown
    <3> QED
      BY <1>4, <3>1, <3>2
  <2>3. ASSUME NEW i \in 1..Len(more), NotFound(more[i]) \/ more[i].kind = "here" PROVE Down(more, p, i - 1)
    <3>1. CASE i \in 1..Len(box)
      BY <1>4, <1>5, <2>3, <3>1, <2>1 DEF DownFits
    <3>2. CASE \E j \in 1..n : i = Len(box) + j
      <4>1. i = Len(box) + n /\ ~b.alive
        BY <1>4, <1>8, <2>3, <3>2
      <4>2. Down(box, p, Len(box)) /\ n - 1 \in 0..n /\ \A l \in 1..(n - 1) : l \in 1..n
        BY <1>1, <1>5, <4>1 DEF DownFits
      <4>3. Down(more, p, Len(box) + (n - 1))
        BY <1>2, <1>8, <4>2, GrownDown DEF n
      <4>4. i - 1 = Len(box) + (n - 1)
        BY <1>1, <1>4, <4>1
      <4> QED
        BY <4>3, <4>4
    <3> QED
      BY <1>4, <3>1, <3>2
  <2> QED
    BY <2>2, <2>3 DEF DownFits
<1>13. UpFits(e.alive, d, more, p, missed)
  <2>1. ASSUME e.alive, NEW i \in 1..Len(more), NotFound(more[i]) \/ more[i].kind = "gone" PROVE Later(more, i, "here")
    <3>1. Comes(added, "here") /\ ~b.alive
      BY <1>1, <1>9, <2>1
    <3>2. ASSUME NEW j \in 1..n, i = Len(box) + j PROVE FALSE
      <4>1. more[i] = added[j]
        BY <1>4, <3>2
      <4> QED
        BY <1>8, <2>1, <3>1, <4>1
    <3>3. i \in 1..Len(box)
      BY <1>4, <3>2
    <3> QED
      BY <1>3, <3>1, <3>3
  <2>2. e.alive => Comes(more, "here")
    BY <1>1, <1>3, <1>9
  <2>3. ~p.available /\ p.faces # {} => "owner" \in missed
    BY <1>5 DEF UpFits
  <2> QED
    BY <2>1, <2>2, <2>3 DEF UpFits
<1>14. FacesFit(e, d, more, p, missed)
  <2>1. ASSUME NEW i \in 1..Len(more), more[i].kind = "introspect", more[i].ok
        PROVE  Later(more, i, "gone")
    <3>1. i \in 1..Len(box)
      BY <1>17, <2>1
    <3>2. CASE b.alive
      BY <1>3, <1>9, <3>1, <3>2
    <3>3. CASE ~b.alive
      BY <1>3, <1>4, <1>5, <2>1, <3>1, <3>3 DEF FacesFit
    <3> QED
      BY <3>2, <3>3
  <2>2. p.available => Comes(more, "gone")
    BY <1>3, <1>9, <1>10
  <2> QED
    BY <2>1, <2>2 DEF FacesFit
<1>15. SchemeFits(e, d, more, p, missed)
  <2>1. ASSUME NEW i \in 1..Len(more), (more[i].kind = "scheme" /\ more[i].ok) \/ more[i].kind = "changed"
        PROVE  Later(more, i, "gone") \/ Later(more, i, "changed")
    <3>1. i \in 1..Len(box)
      BY <1>17, <2>1
    <3>2. CASE b.alive
      BY <1>3, <1>9, <3>1, <3>2
    <3>3. CASE ~b.alive
      BY <1>3, <1>4, <1>5, <2>1, <3>1, <3>3 DEF SchemeFits
    <3> QED
      BY <3>2, <3>3
  <2>2. p.available => Comes(more, "gone")
    BY <1>3, <1>9, <1>10
  <2> QED
    BY <2>1, <2>2 DEF SchemeFits
<1>16. NamesFit(impls, d, more, p, missed)
  <2>1. ASSUME NEW i \in 1..Len(more), more[i].kind \in {"names", "refresh"}, more[i].ok
        PROVE  Later(more, i, "impls") \/ more[i].value = impls
    BY <1>17, <2>1, <1>3, <1>4, <1>5 DEF NamesFit
  <2>2. ASSUME p.available, "names" \notin missed
        PROVE  Comes(more, "impls") \/ Out(d, more, "names") \/ Out(d, more, "refresh") \/ p.backends = impls
    BY <1>3, <1>5, <1>6, <2>2, AnswerableAre DEF NamesFit
  <2> QED
    BY <2>1, <2>2 DEF NamesFit
<1> QED
  BY <1>11, <1>12, <1>13, <1>14, <1>15, <1>16 DEF PortalHolds

----------------------------------------------------------------------------
\* What the service makes of a message m, before and after it: whether there is a broker,
HearsOwner(p, q, m) ==
  /\ m.kind = "gone" => Lowered(q)
  /\ Found(m) => q.available
  /\ m.kind = "owner" /\ ~Found(m) => ~q.available
  /\ m.kind # "gone" /\ m.kind # "owner" => q.available = p.available
  /\ m.kind # "gone" /\ m.kind # "introspect" => q.faces = p.faces
  /\ m.kind = "introspect" => q.faces = (IF p.available /\ m.ok THEN m.value ELSE p.faces)

\* how far the probe is,
HearsProbe(p, q, m) ==
  /\ p.started => q.started
  /\ m.kind # "here" => q.started = p.started
  /\ m.kind = "gone" => ~q.probing /\ q.count = 0
  /\ Found(m) => q.probing = p.probing /\ q.count = 2
  /\ m.kind = "owner" /\ ~Found(m) => ~q.probing
  /\ m.kind \in {"introspect", "names"} /\ p.available =>
       \/ p.count # 2 /\ ~q.probing /\ q.count = 0
       \/ p.count = 2 /\ q.count = 1 /\ q.probing = p.probing
  /\ m.kind \in {"introspect", "names"} /\ ~p.available => q.probing = p.probing /\ q.count = p.count
  /\ m.kind \in {"refresh", "scheme", "changed", "impls"} => q.probing = p.probing /\ q.count = p.count
  /\ m.kind = "here" /\ p.probing => q.probing = p.probing /\ q.count = p.count
  /\ m.kind = "here" /\ ~p.probing => q.probing /\ q.started /\ q.count = 0

\* what it asks,
HearsCalls(c, d, p, q, m) ==
  /\ \A kind \in Answerable : (Asked(c.bus, kind) => Asked(d.bus, kind)) /\ (Asked(c.broker, kind) => Asked(d.broker, kind))
  /\ Found(m) => Asked(d.bus, "names") /\ Asked(d.broker, "introspect")
  /\ m.kind = "impls" => Asked(d.bus, "refresh")
  /\ m.kind = "here" /\ ~p.probing => Asked(d.bus, "owner")
  /\ m.kind \in {"introspect", "names"} /\ p.available /\ p.count # 2 /\ "settings" \in q.faces => Asked(d.broker, "scheme")

\* and what it has read of the backends and the scheme.
HearsValues(p, q, m) ==
  /\ m.kind # "gone" /\ (m.kind \notin {"names", "refresh"} \/ ~m.ok) => q.backends = p.backends
  /\ ((m.kind = "names" /\ p.available) \/ m.kind = "refresh") /\ m.ok => q.backends = m.value
  /\ m.kind \notin {"scheme", "changed"} \/ ~m.ok => q.scheme = p.scheme
  /\ m.kind \in {"scheme", "changed"} /\ m.ok => q.scheme = m.value

\* What is left unread.
HearsMissed(missed, left, m) ==
  /\ m.kind = "owner" /\ ~m.ok => "owner" \in left
  /\ m.kind = "introspect" /\ ~m.ok => "faces" \in left
  /\ m.kind = "scheme" /\ ~m.ok => "scheme" \in left
  /\ m.kind \in {"names", "refresh"} /\ ~m.ok => "names" \in left
  /\ m.kind # "owner" /\ m.kind # "gone" /\ "owner" \in missed => "owner" \in left
  /\ m.kind # "introspect" /\ "faces" \in missed => "faces" \in left
  /\ m.kind # "scheme" /\ m.kind # "changed" /\ "scheme" \in missed => "scheme" \in left
  /\ m.kind # "names" /\ m.kind # "refresh" /\ "names" \in missed => "names" \in left

Hears(c, d, p, q, m, missed, left) ==
  /\ HearsOwner(p, q, m) /\ HearsProbe(p, q, m) /\ HearsCalls(c, d, p, q, m) /\ HearsValues(p, q, m)
  /\ HearsMissed(missed, left, m)

LEMMA HeardStep ==
  ASSUME NEW b, NEW impls, NEW c, NEW d, NEW box, NEW rest, NEW p \in Portals, NEW q \in Portals, NEW missed, NEW left, NEW m,
         PortalHolds(b, impls, c, box, p, missed), HeardFrom(box, m, rest), Hears(c, d, p, q, m, missed, left),
         b.alive \in BOOLEAN
  PROVE  PortalHolds(b, impls, d, rest, q, left)
<1>1. /\ m \in Messages /\ Len(box) \in Nat /\ Len(rest) \in Nat /\ Len(box) = Len(rest) + 1 /\ box[1] = m
      /\ \A i \in 1..Len(rest) : rest[i] = box[i + 1]
  BY DEF HeardFrom
<1>2. /\ m.kind \in {"owner", "names", "refresh", "introspect", "scheme", "changed", "impls", "here", "gone"}
      /\ m.kind = "changed" => m.ok
      /\ m.ok \in BOOLEAN
  BY <1>1 DEF Messages, MessageKinds, BusCalls, BrokerCalls, CarriesWell
<1>3. /\ \A kind : Comes(box, kind) <=> m.kind = kind \/ Comes(rest, kind)
      /\ \A kind : Later(box, 1, kind) <=> Comes(rest, kind)
      /\ \A kind : \A i \in 1..Len(rest) : Later(box, i + 1, kind) <=> Later(rest, i, kind)
  BY HeardComes
<1>4. /\ 1 \in 1..Len(box) /\ \A i \in 1..Len(rest) : i + 1 \in 1..Len(box)
  BY <1>1
<1>5. /\ ProbeFits(c, box, p) /\ DownFits(b.alive, box, p) /\ UpFits(b.alive, c, box, p, missed)
      /\ FacesFit(b, c, box, p, missed) /\ SchemeFits(b, c, box, p, missed) /\ NamesFit(impls, c, box, p, missed)
  BY DEF PortalHolds
<1>6. /\ HearsOwner(p, q, m) /\ HearsProbe(p, q, m) /\ HearsCalls(c, d, p, q, m) /\ HearsValues(p, q, m)
      /\ HearsMissed(missed, left, m)
  BY DEF Hears
<1>7. /\ Found(m) => m.kind = "owner" /\ m.ok
      /\ NotFound(m) => m.kind = "owner" /\ m.ok
      /\ m.kind = "owner" /\ ~Found(m) /\ ~NotFound(m) => ~m.ok
  BY <1>1 DEF Found, NotFound
<1>8. ASSUME NEW kind \in Answerable, m.kind # kind, Out(c, box, kind) PROVE Out(d, rest, kind)
  BY <1>3, <1>6, <1>8 DEF HearsCalls, Out
<1>9. \A kind : Asked(d.bus, kind) \/ Asked(d.broker, kind) => Out(d, rest, kind)
  BY DEF Out
<1>10. /\ p.available \in BOOLEAN /\ p.probing \in BOOLEAN /\ p.count \in 0..2 /\ p.started \in BOOLEAN
       /\ q.available \in BOOLEAN /\ q.probing \in BOOLEAN /\ q.count \in 0..2 /\ q.started \in BOOLEAN
  BY DEF Portals
<1>11. ProbeFits(d, rest, q)
  BY <1>8, AnswerableAre, <1>5, <1>6, <1>9, <1>10, <1>2 DEF ProbeFits, HearsOwner, HearsProbe, HearsCalls, Lowered
<1>12. /\ m.kind = "gone" => Lowered(q)
       /\ Lowered(p) /\ ~Found(m) => Lowered(q)
  BY <1>6 DEF Lowered, HearsOwner
<1>13. DownFits(b.alive, rest, q)
  <2>1. ~b.alive => Down(rest, q, Len(rest))
    BY <1>5, <1>1, <1>12, HeardDown DEF DownFits
  <2>2. ASSUME NEW i \in 1..Len(rest), NotFound(rest[i]) \/ rest[i].kind = "here" PROVE Down(rest, q, i - 1)
    BY <1>1, <1>4, <1>5, <2>2, <1>12, HeardDown DEF DownFits
  <2> QED
    BY <2>1, <2>2 DEF DownFits
<1>14. m.kind = "here" \/ NotFound(m) => Lowered(p)
  BY <1>1, <1>4, <1>5 DEF DownFits, GoneBy, Down
<1>15. UpFits(b.alive, d, rest, q, left)
  <2>1. ASSUME b.alive, NEW i \in 1..Len(rest), NotFound(rest[i]) \/ rest[i].kind = "gone" PROVE Later(rest, i, "here")
    BY <1>1, <1>3, <1>4, <1>5, <2>1 DEF UpFits
  <2>2. ASSUME b.alive, q.started, ~Comes(rest, "here"), "owner" \notin left PROVE Out(d, rest, "owner") \/ q.available
    <3>1. ~NotFound(m) /\ m.kind # "gone"
      BY <1>3, <2>2, <1>1, <1>4, <1>5 DEF UpFits
    <3>2. CASE m.kind = "owner"
      BY <1>2, <1>6, <2>2, <3>2, <1>7, <3>1 DEF HearsMissed, HearsOwner
    <3>3. CASE m.kind = "here"
      BY <1>5, <1>10, <1>14, <3>3, <1>8, AnswerableAre, <1>6, <1>9 DEF ProbeFits, Lowered, HearsCalls
    <3>4. CASE m.kind # "owner" /\ m.kind # "here"
      <4>1. q.available = p.available /\ q.started = p.started /\ "owner" \notin missed
        BY <1>6, <2>2, <3>1, <3>4 DEF HearsOwner, HearsProbe, HearsMissed
      <4>2. ~Comes(box, "here")
        BY <1>3, <2>2, <3>4
      <4>3. Out(c, box, "owner") \/ p.available
        BY <1>5, <2>2, <4>1, <4>2 DEF UpFits
      <4> QED
        BY <1>8, <3>4, <4>1, <4>3, AnswerableAre
    <3> QED
      BY <3>2, <3>3, <3>4
  <2>3. ASSUME ~q.available, q.faces # {} PROVE "owner" \in left
    BY <2>3, <1>7, <1>12, <1>14, <1>6, <1>5 DEF Lowered, Found, NotFound, HearsOwner, HearsMissed, UpFits
  <2> QED
    BY <2>1, <2>2, <2>3 DEF UpFits
<1>16. q.available => m.kind # "gone" /\ (m.kind = "owner" => Found(m)) /\ m.kind # "here" /\ (m.kind # "owner" => p.available)
  <2>1. q.available => m.kind # "gone" /\ (m.kind = "owner" => Found(m)) /\ (m.kind # "owner" => p.available)
    BY <1>6 DEF HearsOwner, Lowered
  <2>2. m.kind = "here" => ~p.available
    BY <1>14 DEF Lowered
  <2> QED
    BY <2>1, <2>2
<1>17. FacesFit(b, d, rest, q, left)
  BY <1>1, <1>3, <1>4, <1>5, <1>6, <1>9, <1>16, <1>2, <1>8, AnswerableAre DEF FacesFit, HearsCalls, HearsMissed,
     HearsOwner
<1>18. SchemeFits(b, d, rest, q, left)
  BY <1>1, <1>3, <1>4, <1>5, <1>6, <1>16, <1>9, <1>2, <1>8, AnswerableAre DEF SchemeFits, HearsProbe, HearsCalls,
     HearsMissed, HearsValues, HearsOwner
<1>19. NamesFit(impls, d, rest, q, left)
  BY <1>1, <1>3, <1>4, <1>5, <1>6, <1>9, <1>16, <1>2, <1>8, AnswerableAre DEF NamesFit, HearsCalls, HearsMissed,
     HearsValues
<1> QED
  BY <1>11, <1>13, <1>15, <1>17, <1>18, <1>19 DEF PortalHolds

----------------------------------------------------------------------------
\* A message that is sent.
LEMMA MessageIs ==
  ASSUME NEW kind \in MessageKinds, NEW ok \in BOOLEAN, NEW value \in Carried, NEW m, m = Message(kind, ok, value),
         CarriesWell(m)
  PROVE  m \in Messages /\ m.kind = kind /\ m.ok = ok /\ m.value = value
BY DEF Message, Messages

\* What is asked, after a call is answered and after calls are made.
LEMMA AskedRest ==
  ASSUME NEW S, NEW calls \in Seq(S), calls # <<>>, NEW kind
  PROVE  Asked(calls, kind) <=> Head(calls) = kind \/ Asked(Tail(calls), kind)
BY DEF Asked

LEMMA AskedMore ==
  ASSUME NEW S, NEW calls \in Seq(S), NEW added \in Seq(S), NEW more, more = calls \o added
  PROVE  /\ more \in Seq(S)
         /\ \A kind : Asked(more, kind) <=> Asked(calls, kind) \/ Asked(added, kind)
<1>1. /\ more \in Seq(S) /\ Len(calls) \in Nat /\ Len(added) \in Nat /\ Len(more) = Len(calls) + Len(added)
      /\ \A i \in 1..Len(calls) : more[i] = calls[i]
      /\ \A i \in 1..Len(added) : more[Len(calls) + i] = added[i]
  OBVIOUS
<1>2. ASSUME NEW kind, Asked(more, kind) PROVE Asked(calls, kind) \/ Asked(added, kind)
  BY <1>2, <1>1 DEF Asked
<1>3. ASSUME NEW kind, Asked(calls, kind) PROVE Asked(more, kind)
  BY <1>3, <1>1 DEF Asked
<1>4. ASSUME NEW kind, Asked(added, kind) PROVE Asked(more, kind)
  <2>1. PICK i \in 1..Len(added) : added[i] = kind
    BY <1>4 DEF Asked
  <2>2. Len(calls) + i \in 1..Len(more)
    BY <1>1
  <2> QED
    BY <1>1, <2>1, <2>2 DEF Asked
<1> QED
  BY <1>1, <1>2, <1>3, <1>4

LEMMA CallsGrow ==
  ASSUME portalCalls \in Pendings, NEW bus \in Seq(BusCalls), NEW broker \in Seq(BrokerCalls), Calls(bus, broker)
  PROVE  /\ portalCalls' \in Pendings
         /\ \A kind : Asked(portalCalls'.bus, kind) <=> Asked(portalCalls.bus, kind) \/ Asked(bus, kind)
         /\ \A kind : Asked(portalCalls'.broker, kind) <=> Asked(portalCalls.broker, kind) \/ Asked(broker, kind)
<1>1. portalCalls.bus \in Seq(BusCalls) /\ portalCalls.broker \in Seq(BrokerCalls)
  BY DEF Pendings
<1>2. portalCalls'.bus = portalCalls.bus \o bus /\ portalCalls'.broker = portalCalls.broker \o broker
  BY DEF Calls
<1>3. /\ portalCalls'.bus \in Seq(BusCalls)
      /\ \A kind : Asked(portalCalls'.bus, kind) <=> Asked(portalCalls.bus, kind) \/ Asked(bus, kind)
  BY <1>1, <1>2, AskedMore
<1>4. /\ portalCalls'.broker \in Seq(BrokerCalls)
      /\ \A kind : Asked(portalCalls'.broker, kind) <=> Asked(portalCalls.broker, kind) \/ Asked(broker, kind)
  BY <1>1, <1>2, AskedMore
<1>5. portalCalls' \in Pendings
  BY <1>3, <1>4 DEF Calls, Pendings
<1> QED
  BY <1>3, <1>4, <1>5

LEMMA AskedOne ==
  /\ \A kind : ~Asked(<<>>, kind)
  /\ \A one, kind : Asked(<<one>>, kind) <=> one = kind
  /\ <<>> \in Seq(BusCalls) /\ <<>> \in Seq(BrokerCalls)
  /\ \A one \in BusCalls : <<one>> \in Seq(BusCalls)
  /\ \A one \in BrokerCalls : <<one>> \in Seq(BrokerCalls)
BY DEF Asked

----------------------------------------------------------------------------
\* A probe starts.
LEMMA ProbeStarted ==
  ASSUME NEW p \in Portals, NEW q, q = [p EXCEPT !.probing = TRUE, !.count = 0, !.started = TRUE]
  PROVE  /\ q \in Portals /\ q.probing /\ q.count = 0 /\ q.started
         /\ q.available = p.available /\ q.faces = p.faces /\ q.backends = p.backends /\ q.scheme = p.scheme
<1> DEFINE a == [p EXCEPT !.probing = TRUE]
           z == [a EXCEPT !.count = 0]
<1>1. /\ a \in Portals /\ a.available = p.available /\ a.probing /\ a.count = p.count /\ a.started = p.started
      /\ a.faces = p.faces /\ a.backends = p.backends /\ a.scheme = p.scheme
  BY DEF Portals
<1>2. q = [z EXCEPT !.started = TRUE]
  OBVIOUS
<1> HIDE DEF a
<1>3. /\ z \in Portals /\ z.available = p.available /\ z.probing /\ z.count = 0 /\ z.started = p.started
      /\ z.faces = p.faces /\ z.backends = p.backends /\ z.scheme = p.scheme
  BY <1>1 DEF Portals
<1> HIDE DEF z
<1> QED
  BY <1>2, <1>3 DEF Portals

LEMMA OwnerFound ==
  ASSUME NEW p \in Portals, NEW q, q = [p EXCEPT !.available = TRUE, !.count = 2]
  PROVE  /\ q \in Portals /\ q.available /\ q.count = 2 /\ q.probing = p.probing /\ q.started = p.started
         /\ q.faces = p.faces /\ q.backends = p.backends /\ q.scheme = p.scheme
<1> DEFINE a == [p EXCEPT !.available = TRUE]
<1>1. a \in Portals /\ q = [a EXCEPT !.count = 2]
  BY DEF Portals
<1>2. /\ a.available /\ a.probing = p.probing /\ a.count = p.count /\ a.started = p.started
      /\ a.faces = p.faces /\ a.backends = p.backends /\ a.scheme = p.scheme
  BY DEF Portals
<1> HIDE DEF a
<1> QED
  BY <1>1, <1>2 DEF Portals

LEMMA OwnerNotFound ==
  ASSUME NEW p \in Portals, NEW q, q = [p EXCEPT !.available = FALSE, !.probing = FALSE]
  PROVE  /\ q \in Portals /\ ~q.available /\ ~q.probing /\ q.started = p.started
         /\ q.faces = p.faces /\ q.backends = p.backends /\ q.scheme = p.scheme
BY DEF Portals

LEMMA ProbeFinished ==
  ASSUME NEW p \in Portals, NEW q, q = [p EXCEPT !.probing = FALSE, !.count = 0]
  PROVE  /\ q \in Portals /\ ~q.probing /\ q.count = 0 /\ q.started = p.started
         /\ q.available = p.available /\ q.faces = p.faces /\ q.backends = p.backends /\ q.scheme = p.scheme
<1> DEFINE a == [p EXCEPT !.probing = FALSE]
<1>1. a \in Portals /\ q = [a EXCEPT !.count = 0]
  BY DEF Portals
<1>2. /\ a.available = p.available /\ ~a.probing /\ a.count = p.count /\ a.started = p.started
      /\ a.faces = p.faces /\ a.backends = p.backends /\ a.scheme = p.scheme
  BY DEF Portals
<1> HIDE DEF a
<1> QED
  BY <1>1, <1>2 DEF Portals

LEMMA ProbeCounted ==
  ASSUME NEW p \in Portals, NEW q, p.count = 2, q = [p EXCEPT !.count = @ - 1]
  PROVE  /\ q \in Portals /\ q.count = 1 /\ q.probing = p.probing /\ q.started = p.started
         /\ q.available = p.available /\ q.faces = p.faces /\ q.backends = p.backends /\ q.scheme = p.scheme
BY DEF Portals

LEMMA FacesRead ==
  ASSUME NEW p \in Portals, NEW v \in SUBSET Faces, NEW q, q = [p EXCEPT !.faces = v]
  PROVE  /\ q \in Portals /\ q.faces = v /\ q.probing = p.probing /\ q.count = p.count /\ q.started = p.started
         /\ q.available = p.available /\ q.backends = p.backends /\ q.scheme = p.scheme
BY DEF Portals

LEMMA BackendsRead ==
  ASSUME NEW p \in Portals, NEW v \in SUBSET Backends, NEW q, q = [p EXCEPT !.backends = v]
  PROVE  /\ q \in Portals /\ q.backends = v /\ q.probing = p.probing /\ q.count = p.count /\ q.started = p.started
         /\ q.available = p.available /\ q.faces = p.faces /\ q.scheme = p.scheme
BY DEF Portals

LEMMA SchemeRead ==
  ASSUME NEW p \in Portals, NEW v \in Schemes, NEW q, q = [p EXCEPT !.scheme = v]
  PROVE  /\ q \in Portals /\ q.scheme = v /\ q.probing = p.probing /\ q.count = p.count /\ q.started = p.started
         /\ q.available = p.available /\ q.faces = p.faces /\ q.backends = p.backends
BY DEF Portals

LEMMA BrokerLost ==
  ASSUME NEW p \in Portals, NEW q, q = BrokerDisappeared(p)
  PROVE  /\ q \in Portals /\ Lowered(q) /\ ~q.probing /\ q.count = 0 /\ q.started = p.started /\ q.scheme = p.scheme
<1> DEFINE a == [p EXCEPT !.available = FALSE, !.faces = {}]
           z == [a EXCEPT !.backends = {}, !.probing = FALSE]
<1>1. a \in Portals /\ ~a.available /\ a.faces = {} /\ a.started = p.started /\ a.scheme = p.scheme /\ a.count = p.count
  BY DEF Portals
<1>2. q = [z EXCEPT !.count = 0]
  BY DEF BrokerDisappeared
<1> HIDE DEF a
<1>3. z \in Portals /\ ~z.available /\ z.faces = {} /\ z.started = p.started /\ z.scheme = p.scheme /\ ~z.probing
  BY <1>1 DEF Portals
<1> HIDE DEF z
<1> QED
  BY <1>2, <1>3 DEF Portals, Lowered

----------------------------------------------------------------------------
\* What the service makes of each message is what the steps above ask of it.
KeepsAsking(c, d) ==
  \A kind \in Answerable : (Asked(c.bus, kind) => Asked(d.bus, kind)) /\ (Asked(c.broker, kind) => Asked(d.broker, kind))
AsksOwner(c, d, q) == Asked(d.bus, "owner") => Asked(c.bus, "owner") \/ q.started

Replied(c, d, p, q, m) ==
  /\ q \in Portals /\ d \in Pendings /\ AsksOwner(c, d, q)
  /\ HearsOwner(p, q, m) /\ HearsProbe(p, q, m) /\ HearsCalls(c, d, p, q, m) /\ HearsValues(p, q, m)

LEMMA MessageCarries ==
  ASSUME NEW m \in Messages
  PROVE  /\ m.kind \in {"owner", "names", "refresh", "introspect", "scheme", "changed", "impls", "here", "gone"}
         /\ m.ok \in BOOLEAN /\ CarriesWell(m)
BY DEF Messages, MessageKinds, BusCalls, BrokerCalls

LEMMA AskingKept == \A c : KeepsAsking(c, c)
BY DEF KeepsAsking

LEMMA ProbeReplied ==
  ASSUME portal \in Portals, portalCalls \in Pendings, NEW p \in Portals, ProbeReply(p),
         p.count = portal.count
  PROVE  /\ portal' \in Portals /\ portalCalls' \in Pendings /\ KeepsAsking(portalCalls, portalCalls')
         /\ Asked(portalCalls'.bus, "owner") => Asked(portalCalls.bus, "owner")
         /\ portal'.available = p.available /\ portal'.faces = p.faces /\ portal'.backends = p.backends
         /\ portal'.scheme = p.scheme /\ portal'.started = p.started
         /\ \/ p.count # 2 /\ ~portal'.probing /\ portal'.count = 0
            \/ p.count = 2 /\ portal'.count = 1 /\ portal'.probing = p.probing
         /\ p.count # 2 /\ "settings" \in p.faces => Asked(portalCalls'.broker, "scheme")
<1>1. p.count \in {0, 1, 2}
  BY DEF Portals
<1>2. CASE p.count = 2
  BY <1>2, ProbeCounted, AskingKept DEF ProbeReply
<1>3. CASE p.count # 2
  <2>1. p.count <= 1
    BY <1>1, <1>3
  <2>2. portal' = [p EXCEPT !.probing = FALSE, !.count = 0]
    BY <2>1 DEF ProbeReply
  <2>3. CASE "settings" \in p.faces
    <3>1. Calls(<<>>, <<"scheme">>)
      BY <2>1, <2>3 DEF ProbeReply
    <3>2. <<>> \in Seq(BusCalls) /\ <<"scheme">> \in Seq(BrokerCalls) /\ ~Asked(<<>>, "owner") /\ Asked(<<"scheme">>, "scheme")
      BY AskedOne DEF BrokerCalls
    <3>3. portalCalls' \in Pendings /\ KeepsAsking(portalCalls, portalCalls')
      BY <3>1, <3>2, CallsGrow DEF KeepsAsking
    <3>4. (Asked(portalCalls'.bus, "owner") => Asked(portalCalls.bus, "owner")) /\ Asked(portalCalls'.broker, "scheme")
      BY <3>1, <3>2, CallsGrow
    <3> QED
      BY <1>3, <2>2, <3>3, <3>4, ProbeFinished
  <2>4. CASE "settings" \notin p.faces
    <3>1. portalCalls' = portalCalls
      BY <2>1, <2>4 DEF ProbeReply
    <3> QED
      BY <1>3, <2>2, <2>4, <3>1, ProbeFinished, AskingKept
  <2> QED
    BY <2>3, <2>4
<1> QED
  BY <1>2, <1>3

LEMMA ReplyIsHeard ==
  ASSUME portal \in Portals, portalCalls \in Pendings, NEW m \in Messages, Reply(m)
  PROVE  Replied(portalCalls, portalCalls', portal, portal', m)
<1> DEFINE c == portalCalls
           d == portalCalls'
           p == portal
           q == portal'
<1>1. /\ m.kind \in {"owner", "names", "refresh", "introspect", "scheme", "changed", "impls", "here", "gone"}
      /\ m.ok \in BOOLEAN /\ CarriesWell(m)
  BY MessageCarries
<1>2. p.available \in BOOLEAN /\ p.probing \in BOOLEAN
  BY DEF Portals
<1>3. c = d => d \in Pendings /\ KeepsAsking(c, d) /\ AsksOwner(c, d, q)
  BY AskingKept DEF AsksOwner
<1>4. CASE m.kind = "owner"
  <2>1. m.ok => m.value \in BOOLEAN
    BY <1>1, <1>4 DEF CarriesWell
  <2>2. NameHasOwnerReply(m)
    BY <1>4 DEF Reply
  <2>3. CASE Found(m)
    <3>1. q = [p EXCEPT !.available = TRUE, !.count = 2] /\ Calls(<<"names">>, <<"introspect">>)
      BY <2>2, <2>3 DEF NameHasOwnerReply, Found
    <3>2. /\ q \in Portals /\ q.available /\ q.count = 2 /\ q.probing = p.probing /\ q.started = p.started
          /\ q.faces = p.faces /\ q.backends = p.backends /\ q.scheme = p.scheme
      BY <3>1, OwnerFound, Zenon
    <3>3. /\ <<"names">> \in Seq(BusCalls) /\ <<"introspect">> \in Seq(BrokerCalls)
          /\ \A kind : (Asked(<<"names">>, kind) <=> kind = "names") /\ (Asked(<<"introspect">>, kind) <=> kind = "introspect")
      BY AskedOne DEF BusCalls, BrokerCalls
    <3>4. d \in Pendings /\ KeepsAsking(c, d) /\ Asked(d.bus, "names") /\ Asked(d.broker, "introspect") /\ AsksOwner(c, d, q)
      BY <3>1, <3>3, CallsGrow DEF KeepsAsking, AsksOwner
    <3>5. HearsOwner(p, q, m) /\ HearsProbe(p, q, m) /\ HearsValues(p, q, m)
      BY <1>4, <2>3, <3>2 DEF HearsOwner, HearsProbe, HearsValues
    <3>6. HearsCalls(c, d, p, q, m)
      BY <1>4, <3>4 DEF HearsCalls, KeepsAsking
    <3> QED
      BY <3>2, <3>4, <3>5, <3>6 DEF Replied
  <2>4. CASE ~Found(m)
    <3>1. q = [p EXCEPT !.available = FALSE, !.probing = FALSE] /\ c = d
      BY <1>4, <2>1, <2>2, <2>4 DEF NameHasOwnerReply, Found
    <3>2. /\ q \in Portals /\ ~q.available /\ ~q.probing /\ q.started = p.started
          /\ q.faces = p.faces /\ q.backends = p.backends /\ q.scheme = p.scheme
      BY <3>1, OwnerNotFound, Zenon
    <3>3. HearsOwner(p, q, m) /\ HearsProbe(p, q, m) /\ HearsValues(p, q, m)
      BY <1>4, <2>4, <3>2 DEF HearsOwner, HearsProbe, HearsValues
    <3>4. HearsCalls(c, d, p, q, m)
      BY <1>3, <1>4, <2>4, <3>1 DEF HearsCalls, KeepsAsking
    <3> QED
      BY <1>3, <3>1, <3>2, <3>3, <3>4 DEF Replied
  <2> QED
    BY <2>3, <2>4
<1>5. CASE m.kind \in {"introspect", "names"}
  <2>1. ~Found(m)
    BY <1>5 DEF Found
  <2>2. CASE ~p.available
    <3>1. q = p /\ c = d
      BY <1>5, <2>2 DEF Reply
    <3>2. HearsOwner(p, q, m) /\ HearsProbe(p, q, m)
      BY <1>5, <2>1, <2>2, <3>1 DEF HearsOwner, HearsProbe
    <3>3. HearsCalls(c, d, p, q, m) 
      BY <1>3, <1>5, <2>1, <2>2, <3>1 DEF HearsCalls, KeepsAsking
    <3>4. HearsValues(p, q, m)
      BY <1>5, <2>2, <3>1 DEF HearsValues
    <3> QED
      BY <1>3, <3>1, <3>2, <3>3, <3>4 DEF Replied
  <2>3. CASE p.available
    <3> DEFINE r == IF m.ok THEN (IF m.kind = "introspect" THEN [portal EXCEPT !.faces = m.value]
                                  ELSE [portal EXCEPT !.backends = m.value]) ELSE portal
    <3>1. ProbeReply(r)
      BY <1>5, <2>3 DEF Reply
    <3>2. /\ m.kind = "introspect" /\ m.ok => m.value \in SUBSET Faces
          /\ m.kind = "names" /\ m.ok => m.value \in SUBSET Backends
      BY <1>1 DEF CarriesWell
    <3>3. /\ r \in Portals /\ r.available = p.available /\ r.scheme = p.scheme /\ r.started = p.started
          /\ r.probing = p.probing /\ r.count = p.count
          /\ r.faces = (IF m.kind = "introspect" /\ m.ok THEN m.value ELSE p.faces)
          /\ r.backends = (IF m.kind = "names" /\ m.ok THEN m.value ELSE p.backends)
      <4>1. CASE ~m.ok
        BY <1>1, <4>1
      <4>2. CASE m.ok /\ m.kind = "introspect"
        <5>1. r = [portal EXCEPT !.faces = m.value]
          BY <4>2
        <5> HIDE DEF r
        <5> QED
          BY <3>2, <4>2, <5>1, FacesRead
      <4>3. CASE m.ok /\ m.kind = "names"
        <5>1. r = [portal EXCEPT !.backends = m.value]
          BY <4>3
        <5> HIDE DEF r
        <5> QED
          BY <3>2, <4>3, <5>1, BackendsRead
      <4> QED
        BY <1>5, <4>1, <4>2, <4>3
    <3> HIDE DEF r
    <3>4. /\ q \in Portals /\ d \in Pendings /\ KeepsAsking(c, d)
          /\ Asked(d.bus, "owner") => Asked(c.bus, "owner")
          /\ q.available = r.available /\ q.faces = r.faces /\ q.backends = r.backends
          /\ q.scheme = r.scheme /\ q.started = r.started
          /\ \/ r.count # 2 /\ ~q.probing /\ q.count = 0
             \/ r.count = 2 /\ q.count = 1 /\ q.probing = r.probing
          /\ r.count # 2 /\ "settings" \in r.faces => Asked(d.broker, "scheme")
      BY <3>1, <3>3, ProbeReplied
    <3>5. HearsOwner(p, q, m)
      BY <1>5, <2>1, <2>3, <3>3, <3>4 DEF HearsOwner
    <3>6. HearsProbe(p, q, m)
      BY <1>5, <2>1, <2>3, <3>3, <3>4 DEF HearsProbe
    <3>7. HearsCalls(c, d, p, q, m)
      BY <1>5, <2>1, <3>3, <3>4 DEF HearsCalls, KeepsAsking
    <3>8. HearsValues(p, q, m)
      BY <1>5, <2>3, <3>3, <3>4 DEF HearsValues
    <3> QED
      BY <3>4, <3>5, <3>6, <3>7, <3>8 DEF Replied, AsksOwner
  <2> QED
    BY <1>2, <2>2, <2>3
<1>6. CASE m.kind = "refresh"
  <2>1. q = (IF m.ok THEN [p EXCEPT !.backends = m.value] ELSE p) /\ c = d
    BY <1>6 DEF Reply
  <2>2. m.ok => m.value \in SUBSET Backends
    BY <1>1, <1>6 DEF CarriesWell
  <2>3. /\ q \in Portals /\ q.faces = p.faces /\ q.probing = p.probing /\ q.count = p.count /\ q.started = p.started
        /\ q.available = p.available /\ q.scheme = p.scheme /\ q.backends = (IF m.ok THEN m.value ELSE p.backends)
    BY <2>1, <2>2, BackendsRead
  <2>4. HearsOwner(p, q, m) /\ HearsProbe(p, q, m) /\ HearsValues(p, q, m)
    BY <1>6, <2>3 DEF HearsOwner, HearsProbe, HearsValues, Found
  <2>5. HearsCalls(c, d, p, q, m)
    BY <1>3, <1>6, <2>1 DEF HearsCalls, KeepsAsking, Found
  <2> QED
    BY <1>3, <2>1, <2>3, <2>4, <2>5 DEF Replied
<1>7. CASE m.kind \in {"scheme", "changed"}
  <2>1. q = (IF m.ok THEN [p EXCEPT !.scheme = m.value] ELSE p) /\ c = d
    <3>1. m.kind = "changed" => m.ok
      BY <1>1 DEF CarriesWell
    <3> QED
      BY <1>7, <3>1 DEF Reply
  <2>2. m.ok => m.value \in Schemes
    BY <1>1, <1>7 DEF CarriesWell
  <2>3. /\ q \in Portals /\ q.faces = p.faces /\ q.probing = p.probing /\ q.count = p.count /\ q.started = p.started
        /\ q.available = p.available /\ q.backends = p.backends /\ q.scheme = (IF m.ok THEN m.value ELSE p.scheme)
    BY <2>1, <2>2, SchemeRead
  <2>4. HearsOwner(p, q, m) /\ HearsProbe(p, q, m) /\ HearsValues(p, q, m)
    BY <1>7, <2>3 DEF HearsOwner, HearsProbe, HearsValues, Found
  <2>5. HearsCalls(c, d, p, q, m)
    BY <1>3, <1>7, <2>1 DEF HearsCalls, KeepsAsking, Found
  <2> QED
    BY <1>3, <2>1, <2>3, <2>4, <2>5 DEF Replied
<1>8. CASE m.kind = "impls"
  <2>1. q = p /\ Calls(<<"refresh">>, <<>>)
    BY <1>8 DEF Reply
  <2>2. <<"refresh">> \in Seq(BusCalls) /\ <<>> \in Seq(BrokerCalls) /\ ~Asked(<<"refresh">>, "owner") /\ Asked(<<"refresh">>, "refresh")
    BY AskedOne DEF BusCalls
  <2>3. d \in Pendings /\ KeepsAsking(c, d) /\ Asked(d.bus, "refresh") /\ AsksOwner(c, d, q)
    BY <2>1, <2>2, CallsGrow DEF KeepsAsking, AsksOwner
  <2>4. HearsOwner(p, q, m) /\ HearsProbe(p, q, m) /\ HearsValues(p, q, m)
    BY <1>8, <2>1 DEF HearsOwner, HearsProbe, HearsValues, Found
  <2>5. HearsCalls(c, d, p, q, m)
    BY <1>8, <2>3 DEF HearsCalls, KeepsAsking, Found
  <2> QED
    BY <2>1, <2>3, <2>4, <2>5 DEF Replied
<1>9. CASE m.kind = "here"
  <2>1. StartProbe
    BY <1>9 DEF Reply
  <2>2. CASE p.probing
    <3>1. q = p /\ c = d
      BY <2>1, <2>2 DEF StartProbe
    <3>2. HearsOwner(p, q, m) /\ HearsProbe(p, q, m) /\ HearsValues(p, q, m)
      BY <1>9, <2>2, <3>1 DEF HearsOwner, HearsProbe, HearsValues, Found
    <3>3. HearsCalls(c, d, p, q, m)
      BY <1>3, <1>9, <2>2, <3>1 DEF HearsCalls, KeepsAsking, Found
    <3> QED
      BY <1>3, <3>1, <3>2, <3>3 DEF Replied
  <2>3. CASE ~p.probing
    <3>1. q = [p EXCEPT !.probing = TRUE, !.count = 0, !.started = TRUE] /\ Calls(<<"owner">>, <<>>)
      BY <2>1, <2>3 DEF StartProbe
    <3>2. /\ q \in Portals /\ q.probing /\ q.count = 0 /\ q.started
          /\ q.available = p.available /\ q.faces = p.faces /\ q.backends = p.backends /\ q.scheme = p.scheme
      BY <3>1, ProbeStarted, Zenon
    <3>3. <<"owner">> \in Seq(BusCalls) /\ <<>> \in Seq(BrokerCalls) /\ Asked(<<"owner">>, "owner")
      BY AskedOne DEF BusCalls
    <3>4. d \in Pendings /\ KeepsAsking(c, d) /\ Asked(d.bus, "owner") /\ AsksOwner(c, d, q)
      BY <3>1, <3>2, <3>3, CallsGrow DEF KeepsAsking, AsksOwner
    <3>5. HearsOwner(p, q, m) /\ HearsProbe(p, q, m) /\ HearsValues(p, q, m)
      BY <1>9, <2>3, <3>2 DEF HearsOwner, HearsProbe, HearsValues, Found
    <3>6. HearsCalls(c, d, p, q, m)
      BY <1>9, <3>4 DEF HearsCalls, KeepsAsking, Found
    <3> QED
      BY <3>2, <3>4, <3>5, <3>6 DEF Replied
  <2> QED
    BY <1>2, <2>2, <2>3
<1>10. CASE m.kind = "gone"
  BY <1>10, BrokerLost, <1>3 DEF Reply, HearsOwner, HearsProbe, HearsValues, Found, HearsCalls, KeepsAsking, Replied
<1> QED
  BY <1>1, <1>4, <1>5, <1>6, <1>7, <1>8, <1>9, <1>10

LEMMA MissedIsHeard ==
  ASSUME NEW m \in Messages, portalMissed \in SUBSET Unread, NEW left, left = Missed(m)
  PROVE  left \in SUBSET Unread /\ HearsMissed(portalMissed, left, m)
BY MessageCarries DEF Missed, Unread, HearsMissed

----------------------------------------------------------------------------
\* The actions.
PortalState(b, impls, c, box, p, missed) ==
  PortalTyped(b, impls, c, box, p, missed) /\ PortalHolds(b, impls, c, box, p, missed) /\ StartFits(c, box, p)

LEMMA PortalInvIs == PortalInv <=> PortalState(portalBroker, portalImpls, portalCalls, portalInbox, portal, portalMissed)
BY DEF PortalInv, PortalState

LEMMA CarriedHas ==
  /\ {} \in Carried
  /\ \A value \in BOOLEAN : value \in Carried
  /\ \A value \in Schemes : value \in Carried
  /\ \A value \in SUBSET Backends : value \in Carried
  /\ \A value \in SUBSET Faces : value \in Carried
BY DEF Carried

LEMMA BoxMore ==
  ASSUME NEW box \in Seq(Messages), NEW m \in Messages, NEW more, more = Append(box, m)
  PROVE  more \in Seq(Messages) /\ \A kind : Comes(more, kind) <=> Comes(box, kind) \/ m.kind = kind
<1>1. <<m>> \in Seq(Messages) /\ \A kind : Comes(<<m>>, kind) <=> m.kind = kind
  BY OneMore
<1>2. more = box \o <<m>> /\ more \in Seq(Messages)
  OBVIOUS
<1>3. Grown(box, <<m>>, more)
  BY <1>1, <1>2, BoxGrows
<1> QED
  BY <1>1, <1>2, <1>3, GrownComes

\* A call that is answered, or a signal: what was asked is asked still or on its way.
LEMMA Answered ==
  ASSUME NEW c \in Pendings, NEW d \in Pendings, NEW box \in Seq(Messages), NEW m \in Messages, NEW more, more = Append(box, m),
         NEW p, StartFits(c, box, p),
         \A kind : Asked(c.bus, kind) => Asked(d.bus, kind) \/ m.kind = kind,
         \A kind : Asked(c.broker, kind) => Asked(d.broker, kind) \/ m.kind = kind,
         Asked(d.bus, "owner") => Asked(c.bus, "owner"),
         m.kind = "owner" => Asked(c.bus, "owner")
  PROVE  KeepsOut(c, box, d, more) /\ more \in Seq(Messages) /\ StartFits(d, more, p)
<1>1. more \in Seq(Messages) /\ \A kind : Comes(more, kind) <=> Comes(box, kind) \/ m.kind = kind
  BY BoxMore
<1>2. KeepsOut(c, box, d, more)
  BY <1>1 DEF KeepsOut, Out
<1>3. StartFits(d, more, p)
  BY <1>1 DEF StartFits
<1> QED
  BY <1>1, <1>2, <1>3

LEMMA BusAnswersStep ==
  ASSUME PortalInv, BusAnswers
  PROVE  PortalInv'
<1> DEFINE kind == Head(portalCalls.bus)
           value == IF kind = "owner" THEN portalBroker.alive ELSE portalImpls
           rest == Tail(portalCalls.bus)
<1>1. PortalState(portalBroker, portalImpls, portalCalls, portalInbox, portal, portalMissed)
  BY PortalInvIs
<1>2. /\ portalBroker \in Brokers /\ portalImpls \in SUBSET Backends /\ portalCalls \in Pendings /\ portalInbox \in Seq(Messages)
      /\ portal \in Portals /\ portalMissed \in SUBSET Unread
      /\ PortalHolds(portalBroker, portalImpls, portalCalls, portalInbox, portal, portalMissed)
      /\ StartFits(portalCalls, portalInbox, portal)
  BY <1>1 DEF PortalState, PortalTyped
<1>3. /\ portalCalls.bus # <<>>
      /\ UNCHANGED <<portalBroker, portalImpls, portal, portalMissed>>
      /\ portalCalls' = [portalCalls EXCEPT !.bus = rest]
  BY DEF BusAnswers
<1>4. /\ portalCalls.bus \in Seq(BusCalls) /\ portalCalls.broker \in Seq(BrokerCalls)
      /\ portalCalls'.bus = rest /\ portalCalls'.broker = portalCalls.broker /\ portalCalls' \in Pendings
  <2>1. portalCalls.bus \in Seq(BusCalls) /\ portalCalls.broker \in Seq(BrokerCalls)
    BY <1>2 DEF Pendings
  <2>2. rest \in Seq(BusCalls)
    BY <1>3, <2>1
  <2> HIDE DEF rest
  <2> QED
    BY <1>2, <1>3, <2>1, <2>2 DEF Pendings
<1>5. \A k : Asked(portalCalls.bus, k) <=> k = kind \/ Asked(rest, k)
  BY <1>3, <1>4, AskedRest
<1>6. kind \in {"owner", "names", "refresh"}
  BY <1>3, <1>4 DEF BusCalls
<1>7. PICK ok \in BOOLEAN : portalInbox' = Append(portalInbox, Message(kind, ok, IF ok THEN value ELSE {}))
  BY DEF BusAnswers
<1> DEFINE carries == IF ok THEN value ELSE {}
           m == Message(kind, ok, carries)
<1>8. portalBroker.alive \in BOOLEAN
  BY <1>2 DEF Brokers
<1>9. carries \in Carried /\ kind \in MessageKinds
  BY <1>2, <1>6, <1>8, CarriedHas DEF MessageKinds, BusCalls
<1>10. CarriesWell(m)
  BY <1>2, <1>6, <1>8 DEF CarriesWell, Message
<1>11. portalInbox' = Append(portalInbox, m)
  BY <1>7
<1> HIDE DEF carries, m
<1>12. m \in Messages /\ m.kind = kind /\ m.ok = ok /\ m.value = carries
  BY <1>9, <1>10, MessageIs DEF m
<1>13. Quiet(portalBroker, portalBroker, portalImpls, portalImpls, m)
  BY <1>6, <1>8, <1>12 DEF Quiet, Found, NotFound, carries
<1> HIDE DEF kind, value, rest
<1>14. KeepsOut(portalCalls, portalInbox, portalCalls', portalInbox') /\ portalInbox' \in Seq(Messages)
       /\ StartFits(portalCalls', portalInbox', portal)
  BY <1>2, <1>4, <1>5, <1>11, <1>12, Answered
<1>15. PortalHolds(portalBroker, portalImpls, portalCalls', portalInbox', portal, portalMissed)
  BY <1>2, <1>11, <1>13, <1>14, QuietStep
<1>16. PortalTyped(portalBroker, portalImpls, portalCalls', portalInbox', portal, portalMissed)
  BY <1>2, <1>4, <1>14 DEF PortalTyped
<1> QED
  BY <1>3, <1>14, <1>15, <1>16 DEF PortalInv

LEMMA BrokerAnswersStep ==
  ASSUME PortalInv, BrokerAnswers
  PROVE  PortalInv'
<1> DEFINE kind == Head(portalCalls.broker)
           value == IF kind = "introspect" THEN portalBroker.faces ELSE portalBroker.scheme
           rest == Tail(portalCalls.broker)
<1>1. PortalState(portalBroker, portalImpls, portalCalls, portalInbox, portal, portalMissed)
  BY PortalInvIs
<1>2. /\ portalBroker \in Brokers /\ portalImpls \in SUBSET Backends /\ portalCalls \in Pendings /\ portalInbox \in Seq(Messages)
      /\ portal \in Portals /\ portalMissed \in SUBSET Unread
      /\ PortalHolds(portalBroker, portalImpls, portalCalls, portalInbox, portal, portalMissed)
      /\ StartFits(portalCalls, portalInbox, portal)
  BY <1>1 DEF PortalState, PortalTyped
<1>3. /\ portalCalls.broker # <<>>
      /\ UNCHANGED <<portalBroker, portalImpls, portal, portalMissed>>
      /\ portalCalls' = [portalCalls EXCEPT !.broker = rest]
  BY DEF BrokerAnswers
<1>4. /\ portalCalls.bus \in Seq(BusCalls) /\ portalCalls.broker \in Seq(BrokerCalls)
      /\ portalCalls'.bus = portalCalls.bus /\ portalCalls'.broker = rest /\ portalCalls' \in Pendings
  <2>1. portalCalls.bus \in Seq(BusCalls) /\ portalCalls.broker \in Seq(BrokerCalls)
    BY <1>2 DEF Pendings
  <2>2. rest \in Seq(BrokerCalls)
    BY <1>3, <2>1
  <2> HIDE DEF rest
  <2> QED
    BY <1>2, <1>3, <2>1, <2>2 DEF Pendings
<1>5. \A k : Asked(portalCalls.broker, k) <=> k = kind \/ Asked(rest, k)
  BY <1>3, <1>4, AskedRest
<1>6. kind \in {"introspect", "scheme"}
  BY <1>3, <1>4 DEF BrokerCalls
<1>7. PICK ok \in {FALSE, portalBroker.alive} :
        portalInbox' = Append(portalInbox, Message(kind, ok, IF ok THEN value ELSE {}))
  BY DEF BrokerAnswers
<1> DEFINE carries == IF ok THEN value ELSE {}
           m == Message(kind, ok, carries)
<1>8. /\ portalBroker.alive \in BOOLEAN /\ portalBroker.faces \in SUBSET Faces /\ portalBroker.scheme \in Schemes
      /\ ok \in BOOLEAN /\ (ok => portalBroker.alive)
  BY <1>2 DEF Brokers
<1>9. carries \in Carried /\ kind \in MessageKinds
  BY <1>6, <1>8, CarriedHas DEF MessageKinds, BrokerCalls
<1>10. CarriesWell(m)
  BY <1>6, <1>8 DEF CarriesWell, Message
<1>11. portalInbox' = Append(portalInbox, m)
  BY <1>7
<1> HIDE DEF carries, m
<1>12. m \in Messages /\ m.kind = kind /\ m.ok = ok /\ m.value = carries
  BY <1>8, <1>9, <1>10, MessageIs DEF m
<1>13. Quiet(portalBroker, portalBroker, portalImpls, portalImpls, m)
  BY <1>6, <1>8, <1>12 DEF Quiet, Found, NotFound, carries
<1>17. m.kind # "owner"
  BY <1>6, <1>12
<1> HIDE DEF kind, value, rest
<1>14. KeepsOut(portalCalls, portalInbox, portalCalls', portalInbox') /\ portalInbox' \in Seq(Messages)
       /\ StartFits(portalCalls', portalInbox', portal)
  BY <1>2, <1>4, <1>5, <1>11, <1>12, <1>17, Answered
<1>15. PortalHolds(portalBroker, portalImpls, portalCalls', portalInbox', portal, portalMissed)
  BY <1>2, <1>11, <1>13, <1>14, QuietStep
<1>16. PortalTyped(portalBroker, portalImpls, portalCalls', portalInbox', portal, portalMissed)
  BY <1>2, <1>4, <1>14 DEF PortalTyped
<1> QED
  BY <1>3, <1>14, <1>15, <1>16 DEF PortalInv

LEMMA SchemeChangesStep ==
  ASSUME PortalInv, NEW color \in Schemes, SchemeChanges(color)
  PROVE  PortalInv'
<1> DEFINE m == Message("changed", TRUE, color)
<1>1. PortalState(portalBroker, portalImpls, portalCalls, portalInbox, portal, portalMissed)
  BY PortalInvIs
<1>2. /\ portalBroker \in Brokers /\ portalImpls \in SUBSET Backends /\ portalCalls \in Pendings /\ portalInbox \in Seq(Messages)
      /\ portal \in Portals /\ portalMissed \in SUBSET Unread
      /\ PortalHolds(portalBroker, portalImpls, portalCalls, portalInbox, portal, portalMissed)
      /\ StartFits(portalCalls, portalInbox, portal)
  BY <1>1 DEF PortalState, PortalTyped
<1>3. /\ portalBroker.alive /\ portalBroker' = [portalBroker EXCEPT !.scheme = color]
      /\ portalInbox' = Append(portalInbox, m)
      /\ UNCHANGED <<portalImpls, portalCalls, portal, portalMissed>>
  BY DEF SchemeChanges
<1>4. CarriesWell(m) /\ "changed" \in MessageKinds /\ color \in Carried
  BY CarriedHas DEF CarriesWell, Message, MessageKinds
<1> HIDE DEF m
<1>5. m \in Messages /\ m.kind = "changed" /\ m.ok /\ m.value = color
  BY <1>4, MessageIs DEF m
<1>6. /\ portalBroker' \in Brokers /\ portalBroker'.scheme = color /\ portalBroker'.alive = portalBroker.alive
      /\ portalBroker'.faces = portalBroker.faces
  BY <1>2, <1>3 DEF Brokers
<1>7. Quiet(portalBroker, portalBroker', portalImpls, portalImpls, m)
  BY <1>3, <1>5, <1>6 DEF Quiet, Found, NotFound
<1>8. KeepsOut(portalCalls, portalInbox, portalCalls, portalInbox') /\ portalInbox' \in Seq(Messages)
      /\ StartFits(portalCalls, portalInbox', portal)
  BY <1>2, <1>3, <1>5, Answered
<1>9. PortalHolds(portalBroker', portalImpls, portalCalls, portalInbox', portal, portalMissed)
  BY <1>2, <1>3, <1>7, <1>8, QuietStep
<1>10. PortalTyped(portalBroker', portalImpls, portalCalls, portalInbox', portal, portalMissed)
  BY <1>2, <1>6, <1>8 DEF PortalTyped
<1> QED
  BY <1>3, <1>8, <1>9, <1>10 DEF PortalInv

LEMMA BackendTurnsStep ==
  ASSUME PortalInv, NEW name \in Backends, BackendTurns(name)
  PROVE  PortalInv'
<1> DEFINE m == Message("impls", TRUE, {})
<1>1. PortalState(portalBroker, portalImpls, portalCalls, portalInbox, portal, portalMissed)
  BY PortalInvIs
<1>2. /\ portalBroker \in Brokers /\ portalImpls \in SUBSET Backends /\ portalCalls \in Pendings /\ portalInbox \in Seq(Messages)
      /\ portal \in Portals /\ portalMissed \in SUBSET Unread
      /\ PortalHolds(portalBroker, portalImpls, portalCalls, portalInbox, portal, portalMissed)
      /\ StartFits(portalCalls, portalInbox, portal)
  BY <1>1 DEF PortalState, PortalTyped
<1>3. /\ portalImpls' \in SUBSET Backends
      /\ portalInbox' = Append(portalInbox, m)
      /\ UNCHANGED <<portalBroker, portalCalls, portal, portalMissed>>
  BY <1>2 DEF BackendTurns
<1>4. CarriesWell(m) /\ "impls" \in MessageKinds /\ {} \in Carried
  BY CarriedHas DEF CarriesWell, Message, MessageKinds
<1> HIDE DEF m
<1>5. m \in Messages /\ m.kind = "impls"
  BY <1>4, MessageIs DEF m
<1>6. Quiet(portalBroker, portalBroker, portalImpls, portalImpls', m)
  BY <1>5 DEF Quiet, Found, NotFound
<1>7. KeepsOut(portalCalls, portalInbox, portalCalls, portalInbox') /\ portalInbox' \in Seq(Messages)
      /\ StartFits(portalCalls, portalInbox', portal)
  BY <1>2, <1>3, <1>5, Answered
<1>8. PortalHolds(portalBroker, portalImpls', portalCalls, portalInbox', portal, portalMissed)
  BY <1>2, <1>3, <1>6, <1>7, QuietStep
<1>9. PortalTyped(portalBroker, portalImpls', portalCalls, portalInbox', portal, portalMissed)
  BY <1>2, <1>3, <1>7 DEF PortalTyped
<1> QED
  BY <1>3, <1>7, <1>8, <1>9 DEF PortalInv

LEMMA BrokerTurnsStep ==
  ASSUME PortalInv, BrokerTurns
  PROVE  PortalInv'
<1> DEFINE n == Len(portalCalls.broker)
           word == IF portalBroker.alive THEN "gone" ELSE "here"
           last == Message(word, TRUE, {})
           failed == [i \in 1..n |-> Message(portalCalls.broker[i], FALSE, {})]
           added == failed \o <<last>>
<1>1. PortalState(portalBroker, portalImpls, portalCalls, portalInbox, portal, portalMissed)
  BY PortalInvIs
<1>2. /\ portalBroker \in Brokers /\ portalImpls \in SUBSET Backends /\ portalCalls \in Pendings /\ portalInbox \in Seq(Messages)
      /\ portal \in Portals /\ portalMissed \in SUBSET Unread
      /\ PortalHolds(portalBroker, portalImpls, portalCalls, portalInbox, portal, portalMissed)
      /\ StartFits(portalCalls, portalInbox, portal)
  BY <1>1 DEF PortalState, PortalTyped
<1>3. /\ portalInbox' = portalInbox \o added
      /\ portalCalls' = [portalCalls EXCEPT !.broker = <<>>]
      /\ UNCHANGED <<portalImpls, portal, portalMissed>>
  BY DEF BrokerTurns
<1>4. /\ portalCalls.bus \in Seq(BusCalls) /\ portalCalls.broker \in Seq(BrokerCalls) /\ n \in Nat
      /\ portalCalls'.bus = portalCalls.bus /\ portalCalls'.broker = <<>> /\ portalCalls' \in Pendings
  <2>1. portalCalls.bus \in Seq(BusCalls) /\ portalCalls.broker \in Seq(BrokerCalls)
    BY <1>2 DEF Pendings
  <2>2. <<>> \in Seq(BrokerCalls) /\ n \in Nat
    BY <2>1
  <2> HIDE DEF n
  <2> DEFINE none == <<>>
  <2> HIDE DEF none
  <2>3. portalCalls' = [portalCalls EXCEPT !.broker = none] /\ none \in Seq(BrokerCalls)
    BY <1>3, <2>2 DEF none
  <2>4. /\ portalCalls'.bus = portalCalls.bus /\ portalCalls'.broker = none /\ portalCalls' \in Pendings
    BY <1>2, <2>1, <2>3 DEF Pendings
  <2> QED
    BY <2>1, <2>2, <2>4 DEF none
<1>5. portalBroker' \in Brokers /\ portalBroker'.alive = ~portalBroker.alive
  <2>1. PICK f \in {Faces, {"files"}}, color \in Schemes :
          portalBroker' = IF portalBroker.alive THEN [portalBroker EXCEPT !.alive = FALSE]
                          ELSE [alive |-> TRUE, faces |-> f, scheme |-> color, turns |-> portalBroker.turns + 1]
    BY DEF BrokerTurns
  <2>2. CASE portalBroker.alive
    BY <1>2, <2>1, <2>2 DEF Brokers
  <2>3. CASE ~portalBroker.alive
    <3>1. portalBroker.turns < MaxTurns
      BY <2>3 DEF BrokerTurns
    <3>2. portalBroker.turns + 1 \in 0..MaxTurns /\ f \in SUBSET Faces
      BY <1>2, <3>1, PortalAssumption DEF Brokers, Faces
    <3> QED
      BY <2>1, <2>3, <3>2 DEF Brokers
  <2> QED
    BY <2>2, <2>3
<1>6. word \in {"gone", "here"} /\ word \in MessageKinds /\ {} \in Carried /\ CarriesWell(last)
  BY CarriedHas DEF CarriesWell, Message, MessageKinds
<1> HIDE DEF last
<1>7. last \in Messages /\ last.kind = word
  BY <1>6, MessageIs DEF last
<1>8. ASSUME NEW i \in 1..n
      PROVE  failed[i] \in Messages /\ failed[i].kind = portalCalls.broker[i] /\ failed[i].kind \in BrokerCalls /\ ~failed[i].ok
  <2> DEFINE kind == portalCalls.broker[i]
             no == FALSE
             m == Message(kind, no, {})
  <2>1. kind \in BrokerCalls /\ kind \in MessageKinds
    BY <1>4 DEF MessageKinds
  <2>2. failed[i] = m
    OBVIOUS
  <2>3. no \in BOOLEAN /\ ~no
    OBVIOUS
  <2> HIDE DEF kind, no
  <2>4. CarriesWell(m)
    BY <2>1, <2>3 DEF CarriesWell, Message, BrokerCalls
  <2> HIDE DEF m, failed
  <2>5. m \in Messages /\ m.kind = kind /\ m.ok = no
    BY <1>6, <2>1, <2>3, <2>4, MessageIs DEF m
  <2> QED
    BY <2>1, <2>2, <2>3, <2>5 DEF kind
<1> HIDE DEF n
<1>9. failed \in Seq(Messages) /\ Len(failed) = n
  <2>1. failed \in [1..n -> Messages]
    BY <1>8
  <2> HIDE DEF failed
  <2> QED
    BY <1>4, <2>1
<1> HIDE DEF failed
<1>10. /\ added \in Seq(Messages) /\ Len(added) = n + 1 /\ added[n + 1] = last
       /\ \A i \in 1..n : added[i] = failed[i]
  BY <1>4, <1>7, <1>9
<1> HIDE DEF added
<1>11. Turned(portalBroker, portalBroker', added)
  BY <1>4, <1>10, <1>2, <1>5, <1>7, <1>8 DEF Turned, Brokers
<1>12. Grown(portalInbox, added, portalInbox')
  BY <1>2, <1>3, <1>10, BoxGrows
<1>13. \A kind : Comes(portalInbox', kind) <=> Comes(portalInbox, kind) \/ Comes(added, kind)
  BY <1>12, GrownComes
<1>14. \A kind : Asked(portalCalls.broker, kind) => Comes(added, kind)
  <2> SUFFICES ASSUME NEW kind, Asked(portalCalls.broker, kind) PROVE Comes(added, kind)
    OBVIOUS
  <2>1. PICK i \in 1..n : portalCalls.broker[i] = kind
    BY DEF Asked, n
  <2>2. i \in 1..Len(added)
    BY <1>4, <1>10
  <2>3. added[i] = failed[i] /\ failed[i].kind = kind
    BY <1>8, <1>10, <2>1
  <2> QED
    BY <2>2, <2>3 DEF Comes
<1>15. ~Comes(added, "owner")
  <2>1. \A i \in 1..Len(added) : i \in 1..n \/ i = n + 1
    BY <1>4, <1>10
  <2> QED
    BY <1>6, <1>7, <1>8, <1>10, <2>1 DEF Comes, BrokerCalls
<1>16. KeepsOut(portalCalls, portalInbox, portalCalls', portalInbox')
  BY <1>4, <1>13, <1>14 DEF KeepsOut, Out
<1>17. StartFits(portalCalls', portalInbox', portal)
  BY <1>2, <1>4, <1>13, <1>15 DEF StartFits
<1>18. portalInbox' \in Seq(Messages)
  BY <1>12 DEF Grown
<1>19. PortalHolds(portalBroker', portalImpls, portalCalls', portalInbox', portal, portalMissed)
  <2>1. /\ portalInbox \in Seq(Messages) /\ portalInbox' = portalInbox \o added
        /\ PortalHolds(portalBroker, portalImpls, portalCalls, portalInbox, portal, portalMissed)
    BY <1>2, <1>3
  <2> HIDE DEF word
  <2> QED
    BY <1>11, <1>16, <2>1, TurnStep
<1>20. PortalTyped(portalBroker', portalImpls, portalCalls', portalInbox', portal, portalMissed)
  BY <1>2, <1>4, <1>5, <1>18 DEF PortalTyped
<1> QED
  BY <1>3, <1>17, <1>19, <1>20 DEF PortalInv

LEMMA PortalStartsStep ==
  ASSUME PortalInv, PortalStarts
  PROVE  PortalInv'
<1>1. PortalState(portalBroker, portalImpls, portalCalls, portalInbox, portal, portalMissed)
  BY PortalInvIs
<1>2. /\ portalBroker \in Brokers /\ portalImpls \in SUBSET Backends /\ portalCalls \in Pendings /\ portalInbox \in Seq(Messages)
      /\ portal \in Portals /\ portalMissed \in SUBSET Unread
      /\ PortalHolds(portalBroker, portalImpls, portalCalls, portalInbox, portal, portalMissed)
      /\ StartFits(portalCalls, portalInbox, portal)
  BY <1>1 DEF PortalState, PortalTyped
<1>3. /\ ~portal.started /\ portal' = [portal EXCEPT !.probing = TRUE, !.count = 0, !.started = TRUE]
      /\ Calls(<<"owner">>, <<>>)
      /\ UNCHANGED <<portalBroker, portalImpls, portalInbox, portalMissed>>
  BY DEF PortalStarts
<1>4. /\ portal' \in Portals /\ portal'.probing /\ portal'.count = 0 /\ portal'.started
      /\ portal'.available = portal.available /\ portal'.faces = portal.faces
  BY <1>2, <1>3, ProbeStarted
<1>5. <<"owner">> \in Seq(BusCalls) /\ <<>> \in Seq(BrokerCalls) /\ Asked(<<"owner">>, "owner")
  BY AskedOne DEF BusCalls
<1>6. portalCalls' \in Pendings /\ Asked(portalCalls'.bus, "owner")
  BY <1>2, <1>3, <1>5, CallsGrow
<1>7. ~portal'.available
  BY <1>2, <1>3, <1>4 DEF StartFits
<1>8. Out(portalCalls', portalInbox, "owner")
  BY <1>6 DEF Out
<1>9. /\ DownFits(portalBroker.alive, portalInbox, portal) /\ UpFits(portalBroker.alive, portalCalls, portalInbox, portal, portalMissed)
      /\ FacesFit(portalBroker, portalCalls, portalInbox, portal, portalMissed)
      /\ SchemeFits(portalBroker, portalCalls, portalInbox, portal, portalMissed)
      /\ NamesFit(portalImpls, portalCalls, portalInbox, portal, portalMissed)
  BY <1>2 DEF PortalHolds
<1>10. ProbeFits(portalCalls', portalInbox, portal')
  BY <1>4, <1>7, <1>8 DEF ProbeFits
<1>11. DownFits(portalBroker.alive, portalInbox, portal')
  BY <1>4, <1>9 DEF DownFits, Down, Lowered
<1>12. UpFits(portalBroker.alive, portalCalls', portalInbox, portal', portalMissed)
  BY <1>4, <1>8, <1>9 DEF UpFits
<1>13. /\ FacesFit(portalBroker, portalCalls', portalInbox, portal', portalMissed)
       /\ SchemeFits(portalBroker, portalCalls', portalInbox, portal', portalMissed)
       /\ NamesFit(portalImpls, portalCalls', portalInbox, portal', portalMissed)
  BY <1>7, <1>9 DEF FacesFit, SchemeFits, NamesFit
<1>14. StartFits(portalCalls', portalInbox, portal')
  BY <1>4 DEF StartFits
<1>15. PortalTyped(portalBroker, portalImpls, portalCalls', portalInbox, portal', portalMissed)
  BY <1>2, <1>4, <1>6 DEF PortalTyped
<1> QED
  BY <1>3, <1>10, <1>11, <1>12, <1>13, <1>14, <1>15 DEF PortalInv, PortalHolds

LEMMA PortalHearsStep ==
  ASSUME PortalInv, PortalHears
  PROVE  PortalInv'
<1> DEFINE m == Head(portalInbox)
           rest == Tail(portalInbox)
<1>1. PortalState(portalBroker, portalImpls, portalCalls, portalInbox, portal, portalMissed)
  BY PortalInvIs
<1>2. /\ portalBroker \in Brokers /\ portalImpls \in SUBSET Backends /\ portalCalls \in Pendings /\ portalInbox \in Seq(Messages)
      /\ portal \in Portals /\ portalMissed \in SUBSET Unread
      /\ PortalHolds(portalBroker, portalImpls, portalCalls, portalInbox, portal, portalMissed)
      /\ StartFits(portalCalls, portalInbox, portal)
  BY <1>1 DEF PortalState, PortalTyped
<1>3. /\ portalInbox # <<>> /\ portalInbox' = rest /\ Reply(m) /\ portalMissed' = Missed(m)
      /\ UNCHANGED <<portalBroker, portalImpls>>
  BY DEF PortalHears
<1>4. HeardFrom(portalInbox, m, rest)
  BY <1>2, <1>3, BoxIsHeard
<1> HIDE DEF m, rest
<1>5. m \in Messages /\ rest \in Seq(Messages)
  BY <1>4 DEF HeardFrom
<1>6. Replied(portalCalls, portalCalls', portal, portal', m)
  BY <1>2, <1>3, <1>5, ReplyIsHeard
<1>7. portalMissed' \in SUBSET Unread /\ HearsMissed(portalMissed, portalMissed', m)
  BY <1>2, <1>3, <1>5, MissedIsHeard
<1>8. portal' \in Portals /\ portalCalls' \in Pendings /\ AsksOwner(portalCalls, portalCalls', portal')
  BY <1>6 DEF Replied
<1>9. Hears(portalCalls, portalCalls', portal, portal', m, portalMissed, portalMissed')
  BY <1>6, <1>7 DEF Replied, Hears
<1>10. portalBroker.alive \in BOOLEAN
  BY <1>2 DEF Brokers
<1>11. PortalHolds(portalBroker, portalImpls, portalCalls', rest, portal', portalMissed')
  BY <1>2, <1>4, <1>8, <1>9, <1>10, HeardStep
<1>12. StartFits(portalCalls', rest, portal')
  BY <1>4, HeardComes, <1>6, <1>2, <1>8 DEF Replied, HearsProbe, HearsOwner, Lowered, StartFits, AsksOwner
<1>13. PortalTyped(portalBroker, portalImpls, portalCalls', rest, portal', portalMissed')
  BY <1>2, <1>5, <1>7, <1>8 DEF PortalTyped
<1> QED
  BY <1>3, <1>11, <1>12, <1>13 DEF PortalInv

----------------------------------------------------------------------------
LEMMA PortalStart == PortalInit => PortalInv
<1> SUFFICES ASSUME PortalInit PROVE PortalInv
  OBVIOUS
<1>1. /\ portalBroker \in [alive : BOOLEAN, faces : {Faces, {"files"}}, scheme : Schemes, turns : {0}]
      /\ portalImpls = {} /\ portalCalls = [bus |-> <<>>, broker |-> <<>>] /\ portalInbox = <<>>
      /\ portal = [available |-> FALSE, faces |-> {}, backends |-> {}, scheme |-> NoScheme,
                   probing |-> FALSE, count |-> 0, started |-> FALSE]
      /\ portalMissed = {}
  BY DEF PortalInit
<1>2. portalBroker \in Brokers
  BY PortalAssumption, <1>1 DEF Faces, Brokers
<1>3. portalCalls \in Pendings /\ portalInbox \in Seq(Messages)
  BY <1>1, AskedOne DEF Pendings
<1>4. portal \in Portals /\ ~portal.available /\ portal.faces = {} /\ ~portal.probing /\ ~portal.started
  BY <1>1 DEF Portals
<1>5. Len(portalInbox) = 0 /\ ~Asked(portalCalls.bus, "owner") /\ ~Comes(portalInbox, "owner")
  BY <1>1, AskedOne DEF Comes
<1>6. PortalTyped(portalBroker, portalImpls, portalCalls, portalInbox, portal, portalMissed)
  BY <1>1, <1>2, <1>3, <1>4 DEF PortalTyped
<1>7. ProbeFits(portalCalls, portalInbox, portal)
  BY <1>4 DEF ProbeFits
<1>8. DownFits(portalBroker.alive, portalInbox, portal)
  BY <1>4, <1>5 DEF DownFits, Down, Lowered
<1>9. UpFits(portalBroker.alive, portalCalls, portalInbox, portal, portalMissed)
  BY <1>4, <1>5 DEF UpFits
<1>10. /\ FacesFit(portalBroker, portalCalls, portalInbox, portal, portalMissed)
       /\ SchemeFits(portalBroker, portalCalls, portalInbox, portal, portalMissed)
       /\ NamesFit(portalImpls, portalCalls, portalInbox, portal, portalMissed)
  BY <1>4, <1>5 DEF FacesFit, SchemeFits, NamesFit
<1> QED
  BY <1>4, <1>5, <1>6, <1>7, <1>8, <1>9, <1>10 DEF PortalInv, PortalHolds, StartFits

LEMMA PortalStep == PortalInv /\ [PortalNext]_portalVars => PortalInv'
BY BrokerTurnsStep, BusAnswersStep, BrokerAnswersStep, PortalStartsStep, PortalHearsStep, SchemeChangesStep,
   BackendTurnsStep DEF portalVars, PortalInv, PortalNext

LEMMA PortalIsSettled == PortalInv => PortalTypeOK /\ PortalSettles
<1> SUFFICES ASSUME PortalInv PROVE PortalTypeOK /\ PortalSettles
  OBVIOUS
<1>1. PortalState(portalBroker, portalImpls, portalCalls, portalInbox, portal, portalMissed)
  BY PortalInvIs
<1>2. /\ portalBroker \in Brokers /\ portalImpls \in SUBSET Backends /\ portalCalls \in Pendings /\ portalInbox \in Seq(Messages)
      /\ portal \in Portals /\ portalMissed \in SUBSET Unread
      /\ PortalHolds(portalBroker, portalImpls, portalCalls, portalInbox, portal, portalMissed)
  BY <1>1 DEF PortalState, PortalTyped
<1>3. PortalTypeOK
  BY <1>2 DEF PortalTypeOK, Brokers, Pendings, BusCalls, BrokerCalls, Portals, Unread
<1>4. ASSUME portal.started, portalInbox = <<>>, portalCalls = [bus |-> <<>>, broker |-> <<>>]
      PROVE  /\ ~portal.probing
             /\ "owner" \notin portalMissed =>
                  portal.available = portalBroker.alive /\ (~portal.available => portal.faces = {})
             /\ portal.available =>
                  /\ "faces" \notin portalMissed => portal.faces = portalBroker.faces
                  /\ {"scheme", "faces"} \cap portalMissed = {} /\ "settings" \in portal.faces
                       => portal.scheme = portalBroker.scheme
                  /\ "names" \notin portalMissed => portal.backends = portalImpls
  BY <1>4, AskedOne, <1>2 DEF Comes, Out, PortalHolds, Portals, Brokers, ProbeFits, GoneBy, DownFits, Down, Lowered,
     UpFits, FacesFit, SchemeFits, NamesFit
<1> QED
  BY <1>3, <1>4 DEF PortalSettles

----------------------------------------------------------------------------
(***************************************************************************)
(* Fetches of a CalDAV account.                                            *)
(***************************************************************************)

Servers == [events : [Calendars -> SUBSET Uids], name : [Calendars -> Names], kind : [Calendars -> {"calendar", "other"}],
            lists : SUBSET Urls, steps : 0..MaxServerSteps]
Fetches == [step : {"idle", "password", "principal", "list", "report", "ended"}, url : {"none", "principal", "configured"},
            left : Seq(Calendars), events : SUBSET Uids, cut : BOOLEAN, answer : {"none", "events", "error"}]
Seens == [selected : SUBSET Calendars, stayed : SUBSET (Calendars \X Uids), been : SUBSET (Calendars \X Uids)]

\* The places noted are those of the server: of the calendars selected now, and of those
\* selected at some time.
SeenFits(s, n) ==
  /\ Selected(s) \subseteq n.selected
  /\ n.stayed \subseteq PlacesIn(s, Selected(s))
  /\ PlacesIn(s, n.selected) \subseteq n.been

\* What is fetched has been somewhere, and what stayed is fetched or in a calendar yet to be asked.
FetchFits(f, n, lists) ==
  /\ f.step \in {"idle", "password", "principal", "list"} => f.events = {} /\ f.left = <<>>
  /\ f.answer # "none" => f.step = "ended"
  /\ \A u \in f.events : \E p \in n.been : p[2] = u
  /\ \A i \in 1..Len(f.left) : f.left[i] \in n.selected
  /\ f.step = "report" /\ f.url \in lists /\ ~f.cut =>
       \A p \in n.stayed : p[2] \in f.events \/ \E i \in 1..Len(f.left) : f.left[i] = p[1]
  /\ f.answer = "events" /\ f.url \in lists /\ ~f.cut => \A p \in n.stayed : p[2] \in f.events

DavInv ==
  /\ server \in Servers /\ fetch \in Fetches /\ seen \in Seens
  /\ fetch.step # "idle" => SeenFits(server, seen)
  /\ FetchFits(fetch, seen, server.lists)

LEMMA DavStart == DavInit => DavInv
BY DavAssumption DEF DavInit, Servers, NoFetch, Fetches, NotSeen, Seens, FetchFits, DavInv

LEMMA PlacesAre ==
  ASSUME NEW s, NEW S \in SUBSET Calendars
  PROVE  /\ PlacesIn(s, S) \subseteq Calendars \X Uids
         /\ \A c \in S, u \in Uids : u \in s.events[c] => <<c, u>> \in PlacesIn(s, S)
         /\ \A p \in PlacesIn(s, S) : p[1] \in S /\ p[2] \in s.events[p[1]]
BY DEF PlacesIn

LEMMA SelectedAre ==
  ASSUME NEW s
  PROVE  Selected(s) \subseteq Calendars
BY DEF Selected

\* A fetch that only goes a step on.
LEMMA FetchGoesOn ==
  ASSUME NEW f \in Fetches, NEW n \in Seens, NEW lists \in SUBSET Urls, FetchFits(f, n, lists),
         f.step \in {"idle", "password", "principal", "list"}, NEW g \in Fetches,
         g.step \in {"password", "principal", "list"}, g.left = f.left, g.events = f.events, g.answer = f.answer
  PROVE  FetchFits(g, n, lists)
BY DEF FetchFits

LEMMA FetchFails ==
  ASSUME NEW f \in Fetches, NEW n \in Seens, NEW lists \in SUBSET Urls, FetchFits(f, n, lists), NEW g \in Fetches,
         g.step = "ended", g.left = f.left, g.events = f.events, g.answer = "error"
  PROVE  FetchFits(g, n, lists)
BY DEF FetchFits

LEMMA DavStep ==
  ASSUME DavInv, [DavNext]_davVars
  PROVE  DavInv'
<1> DEFINE f == fetch
           n == seen
<1>0. /\ server \in Servers /\ f \in Fetches /\ n \in Seens /\ server.lists \in SUBSET Urls
      /\ f.step # "idle" => SeenFits(server, n)
      /\ FetchFits(f, n, server.lists)
  BY DEF DavInv, Servers
<1>e. ASSUME NEW step \in {"password", "principal", "list", "report"} PROVE
        /\ [f EXCEPT !.step = step] \in Fetches /\ [f EXCEPT !.step = step].step = step
        /\ [f EXCEPT !.step = step].left = f.left /\ [f EXCEPT !.step = step].events = f.events
        /\ [f EXCEPT !.step = step].answer = f.answer /\ [f EXCEPT !.step = step].url = f.url /\ [f EXCEPT !.step = step].cut = f.cut
  BY <1>0 DEF Fetches
<1>f. ASSUME NEW answer \in {"events", "error"} PROVE
        LET g == [f EXCEPT !.step = "ended", !.answer = answer] IN
        /\ g \in Fetches /\ g.step = "ended" /\ g.left = f.left /\ g.events = f.events /\ g.answer = answer /\ g.url = f.url /\ g.cut = f.cut
  BY <1>0 DEF Fetches
<1>h. ASSUME f.step # "idle", End("error"), UNCHANGED <<server, davConfig, seen>> PROVE DavInv'
  <2> DEFINE g == [f EXCEPT !.step = "ended", !.answer = "error"]
  <2>1. g \in Fetches /\ g.step = "ended" /\ g.left = f.left /\ g.events = f.events /\ g.answer = "error"
    BY <1>f
  <2>2. fetch' = g
    BY <1>h DEF End
  <2> HIDE DEF g
  <2>3. FetchFits(g, n, server.lists)
    BY <1>0, <2>1, FetchFails
  <2>4. SeenFits(server, n)'
    BY <1>0, <1>h DEF SeenFits, Selected, PlacesIn
  <2> QED
    BY <1>0, <1>h, <2>1, <2>2, <2>3, <2>4 DEF DavInv
<1>1. CASE FetchStarts
  <2> DEFINE S == Selected(server)
             g == [f EXCEPT !.step = "password"]
             m == [selected |-> S, stayed |-> PlacesIn(server, S), been |-> PlacesIn(server, S)]
  <2>1. f.step = "idle" /\ fetch' = g /\ seen' = m /\ UNCHANGED <<server, davConfig>>
    BY <1>1 DEF FetchStarts, Ask
  <2>2. g \in Fetches /\ g.step = "password" /\ g.left = <<>> /\ g.events = {} /\ g.answer = "none" /\ Len(<<>>) = 0
    BY <1>0, <1>e, <2>1 DEF FetchFits, Fetches
  <2> HIDE DEF g
  <2>3. S \subseteq Calendars /\ PlacesIn(server, S) \subseteq Calendars \X Uids
    BY SelectedAre, PlacesAre
  <2>4. m \in Seens /\ m.selected = S /\ m.stayed = PlacesIn(server, S) /\ m.been = PlacesIn(server, S)
    BY <2>3 DEF Seens
  <2> HIDE DEF m
  <2>5. SeenFits(server, m)
    BY <2>4 DEF SeenFits
  <2>6. SeenFits(server, seen)'
    BY <2>1, <2>5 DEF SeenFits, Selected, PlacesIn
  <2>7. FetchFits(g, m, server.lists)
    BY <2>2 DEF FetchFits
  <2> QED
    BY <1>0, <2>1, <2>2, <2>4, <2>6, <2>7 DEF DavInv
<1>2. CASE PasswordFound
  <2>1. f.step = "password" /\ UNCHANGED <<server, davConfig, seen>> /\ (Ask("principal") \/ End("error"))
    BY <1>2 DEF PasswordFound
  <2>2. CASE Ask("principal")
    <3> DEFINE g == [f EXCEPT !.step = "principal"]
    <3>1. fetch' = g
      BY <2>2 DEF Ask
    <3>2. g \in Fetches /\ g.step = "principal" /\ g.left = f.left /\ g.events = f.events /\ g.answer = f.answer
      BY <1>e
    <3> HIDE DEF g
    <3>3. FetchFits(g, n, server.lists)
      BY <1>0, <2>1, <3>2, FetchGoesOn
    <3>4. SeenFits(server, n)'
      BY <1>0, <2>1 DEF SeenFits, Selected, PlacesIn
    <3> QED
      BY <1>0, <2>1, <3>1, <3>2, <3>3, <3>4 DEF DavInv
  <2> QED
    BY <1>h, <2>1, <2>2
<1>3. CASE PrincipalResolved
  <2>1. PICK url \in Urls : fetch' = [f EXCEPT !.step = "list", !.url = url]
    BY <1>3 DEF PrincipalResolved
  <2>2. f.step = "principal" /\ UNCHANGED <<server, davConfig, seen>>
    BY <1>3 DEF PrincipalResolved
  <2>3. fetch' \in Fetches /\ fetch'.step = "list" /\ fetch'.left = f.left /\ fetch'.events = f.events /\ fetch'.answer = f.answer
    BY <1>0, <2>1 DEF Urls, Fetches
  <2> DEFINE g == fetch'
  <2> HIDE DEF g
  <2>4. FetchFits(g, n, server.lists)
    BY <2>3, <1>0, <2>2, FetchGoesOn DEF g
  <2>5. SeenFits(server, n)'
    BY <1>0, <2>2 DEF SeenFits, Selected, PlacesIn
  <2> QED
    BY <1>0, <2>2, <2>3, <2>4, <2>5 DEF DavInv, g
<1>4. CASE CalendarsDiscovered
  <2>1. f.step = "list" /\ UNCHANGED <<server, davConfig, seen>>
    BY <1>4 DEF CalendarsDiscovered
  <2> DEFINE whole == IF f.url \in server.lists THEN Selected(server) ELSE {}
  <2>2. ASSUME NEW asked \in SUBSET whole, NEW order \in [1..Cardinality(asked) -> asked], {order[i] : i \in DOMAIN order} = asked,
               fetch' = [f EXCEPT !.step = "report", !.left = order, !.cut = (asked # whole)]
        PROVE  DavInv'
    <3>1. asked \subseteq Calendars /\ asked \subseteq Selected(server)
      BY SelectedAre
    <3>2. IsFiniteSet(asked) /\ Cardinality(asked) \in Nat
      BY <3>1, DavAssumption, FS_Subset, FS_CardinalityType
    <3> DEFINE cut == asked # whole
    <3>a. cut \in BOOLEAN /\ (~cut <=> asked = whole) /\ fetch' = [f EXCEPT !.step = "report", !.left = order, !.cut = cut]
      BY <2>2
    <3> HIDE DEF cut
    <3>3. order \in Seq(Calendars) /\ Len(order) = Cardinality(asked) /\ DOMAIN order = 1..Len(order)
      BY <2>2, <3>1, <3>2, SeqDef, LenProperties
    <3> DEFINE g == fetch'
    <3> HIDE DEF g
    <3>4. g \in Fetches /\ g.step = "report" /\ g.left = order /\ g.events = f.events /\ g.answer = f.answer /\ g.url = f.url
            /\ g.cut = cut
      BY <1>0, <3>a, <3>3 DEF Fetches, g
    <3>5. f.events = {} /\ f.answer = "none"
      BY <1>0, <2>1 DEF FetchFits, Fetches
    <3>6. SeenFits(server, n)
      BY <1>0, <2>1
    <3>7. \A i \in 1..Len(order) : order[i] \in n.selected
      BY <2>2, <3>1, <3>3, <3>6 DEF SeenFits
    <3>8. ASSUME f.url \in server.lists, ~cut, NEW p \in n.stayed PROVE \E i \in 1..Len(order) : order[i] = p[1]
      BY <3>8, <3>6, <3>a, SelectedAre, PlacesAre, <2>2, <3>3 DEF SeenFits
    <3>9. FetchFits(g, n, server.lists)
      BY <3>4, <3>5, <3>7, <3>8 DEF FetchFits
    <3>10. SeenFits(server, n)'
      BY <3>6, <2>1 DEF SeenFits, Selected, PlacesIn
    <3> QED
      BY <1>0, <2>1, <3>4, <3>9, <3>10 DEF DavInv, g
  <2> QED
    BY <1>4, <1>h, <2>1, <2>2 DEF CalendarsDiscovered
<1>5. CASE CalendarReported
  <2>1. f.step = "report" /\ UNCHANGED <<server, davConfig, seen>>
    BY <1>5 DEF CalendarReported
  <2>0. /\ f.left \in Seq(Calendars) /\ f.events \subseteq Uids /\ SeenFits(server, n)
        /\ server.events \in [Calendars -> SUBSET Uids] /\ n.selected \subseteq Calendars
    BY <1>0, <2>1 DEF Fetches, Servers, Seens
  <2>2. SeenFits(server, n)'
    BY <2>0, <2>1 DEF SeenFits, Selected, PlacesIn
  <2>3. CASE f.left = <<>> /\ End("events")
    BY <2>3, <1>f, <1>0, <2>1, <2>2 DEF End, FetchFits, DavInv
  <2>4. ASSUME f.left # <<>>, NEW got \in SUBSET server.events[Head(f.left)],
               fetch' = [f EXCEPT !.left = Tail(@), !.events = @ \cup got, !.cut = (@ \/ got # server.events[Head(f.left)])]
        PROVE  DavInv'
    <3> DEFINE c == Head(f.left)
               rest == Tail(f.left)
               more == f.events \cup got
               cut == f.cut \/ got # server.events[c]
    <3>1. /\ rest \in Seq(Calendars) /\ c = f.left[1] /\ c \in Calendars
          /\ Len(f.left) \in Nat /\ Len(f.left) > 0 /\ Len(rest) = Len(f.left) - 1
          /\ \A i \in 1..Len(rest) : rest[i] = f.left[i + 1]
      BY <2>0, <2>4
    <3>2. c \in n.selected
      BY <1>0, <3>1 DEF FetchFits
    <3>3. more \subseteq Uids /\ server.events[c] \subseteq Uids /\ got \subseteq server.events[c]
      BY <2>0, <3>1
    <3>c. cut \in BOOLEAN /\ (~cut => ~f.cut /\ got = server.events[c])
      BY <1>0 DEF Fetches
    <3> DEFINE g == fetch'
    <3> HIDE DEF g, rest, c
    <3>0. g = [f EXCEPT !.left = rest, !.events = more, !.cut = cut]
      BY <2>4 DEF g, rest, c
    <3> HIDE DEF more, cut
    <3>4. /\ g \in Fetches /\ g.left = rest /\ g.events = more /\ g.step = f.step /\ g.answer = f.answer /\ g.url = f.url
          /\ g.cut = cut
      BY <1>0, <3>0, <3>1, <3>3, <3>c DEF Fetches
    <3>5. f.answer = "none"
      BY <1>0, <2>1 DEF FetchFits, Fetches
    <3>6. \A u \in more : \E p \in n.been : p[2] = u
      <4> SUFFICES ASSUME NEW u \in more PROVE \E p \in n.been : p[2] = u
        OBVIOUS
      <4>1. CASE u \in f.events
        BY <1>0, <4>1 DEF FetchFits
      <4>2. CASE u \in got
        <5>1. <<c, u>> \in PlacesIn(server, n.selected)
          BY <2>0, <3>2, <3>3, <4>2, PlacesAre
        <5>2. <<c, u>> \in n.been
          BY <2>0, <5>1 DEF SeenFits
        <5>3. <<c, u>>[2] = u
          OBVIOUS
        <5> QED
          BY <5>2, <5>3
      <4> QED
        BY <4>1, <4>2 DEF more
    <3>7. \A i \in 1..Len(rest) : rest[i] \in n.selected
      BY <3>1, <1>0 DEF FetchFits
    <3>8. ASSUME f.url \in server.lists, ~cut, NEW p \in n.stayed
          PROVE  p[2] \in more \/ \E i \in 1..Len(rest) : rest[i] = p[1]
      <4>1. p[2] \in f.events \/ \E i \in 1..Len(f.left) : f.left[i] = p[1]
        BY <1>0, <2>1, <3>8, <3>c DEF FetchFits
      <4>2. CASE p[1] = c
        BY <2>0, <3>8, <3>c, SelectedAre, PlacesAre, <4>2 DEF SeenFits, more
      <4>3. ASSUME NEW i \in 1..Len(f.left), f.left[i] = p[1], p[1] # c PROVE \E j \in 1..Len(rest) : rest[j] = p[1]
        <5>1. i # 1
          BY <3>1, <4>3
        <5>2. i - 1 \in 1..Len(rest) /\ (i - 1) + 1 = i
          BY <3>1, <5>1
        <5>3. rest[i - 1] = f.left[i]
          BY <3>1, <5>2
        <5> QED
          BY <4>3, <5>2, <5>3
      <4> QED
        BY <4>1, <4>2, <4>3 DEF more
    <3>9. FetchFits(g, n, server.lists)
      BY <2>1, <3>4, <3>5, <3>6, <3>7, <3>8 DEF FetchFits
    <3> QED
      BY <1>0, <2>1, <2>2, <3>4, <3>9 DEF DavInv, g
  <2> QED
    BY <1>5, <1>h, <2>1, <2>3, <2>4 DEF CalendarReported
<1>6. CASE FetchTaken
  BY <1>6, <1>0 DEF FetchTaken, NoFetch, Fetches, NotSeen, Seens, FetchFits, DavInv
<1>7. CASE ServerChanges
  <2>1. server' \in Servers /\ server'.lists = server.lists
    <3>0. /\ server.events \in [Calendars -> SUBSET Uids] /\ server.name \in [Calendars -> Names]
          /\ server.steps \in 0..MaxServerSteps /\ server.steps < MaxServerSteps
      BY <1>0, <1>7 DEF Servers, ServerChanges
    <3>1. server.steps + 1 \in 0..MaxServerSteps
      BY <3>0, DavAssumption
    <3>a. ASSUME NEW events \in [Calendars -> SUBSET Uids], server' = [server EXCEPT !.events = events, !.steps = server.steps + 1]
          PROVE  server' \in Servers /\ server'.lists = server.lists
      BY <1>0, <3>1, <3>a DEF Servers
    <3>b. ASSUME NEW names \in [Calendars -> Names], server' = [server EXCEPT !.name = names, !.steps = server.steps + 1]
          PROVE  server' \in Servers /\ server'.lists = server.lists
      BY <1>0, <3>1, <3>b DEF Servers
    <3>2. ASSUME NEW c \in Calendars, NEW u \in Uids,
                 server' = [server EXCEPT !.events[c] = IF u \in @ THEN @ \ {u} ELSE @ \cup {u}, !.steps = @ + 1]
          PROVE  server' \in Servers /\ server'.lists = server.lists
      <4> DEFINE x == IF u \in server.events[c] THEN server.events[c] \ {u} ELSE server.events[c] \cup {u}
                 events == [server.events EXCEPT ![c] = x]
      <4>1. x \subseteq Uids
        BY <3>0
      <4>2. events \in [Calendars -> SUBSET Uids]
        BY <3>0, <4>1
      <4>3. server' = [server EXCEPT !.events = events, !.steps = server.steps + 1]
        BY <1>0, <3>2 DEF Servers
      <4> HIDE DEF events
      <4> QED
        BY <3>a, <4>2, <4>3
    <3>3. ASSUME NEW c \in Calendars, NEW d \in Calendars \ {c}, NEW u \in Uids,
                 server' = [server EXCEPT !.events[c] = @ \ {u}, !.events[d] = @ \cup {u}, !.steps = @ + 1]
          PROVE  server' \in Servers /\ server'.lists = server.lists
      <4> DEFINE events == [[server.events EXCEPT ![c] = server.events[c] \ {u}] EXCEPT ![d] = server.events[d] \cup {u}]
      <4>2. events \in [Calendars -> SUBSET Uids]
        BY <3>0
      <4>3. server' = [server EXCEPT !.events = events, !.steps = server.steps + 1]
        BY <1>0, <3>3, <3>0 DEF Servers
      <4> HIDE DEF events
      <4> QED
        BY <3>a, <4>2, <4>3
    <3>4. ASSUME NEW c \in Calendars, NEW name \in Names, server' = [server EXCEPT !.name[c] = name, !.steps = @ + 1]
          PROVE  server' \in Servers /\ server'.lists = server.lists
      <4> DEFINE names == [server.name EXCEPT ![c] = name]
      <4>2. names \in [Calendars -> Names]
        BY <3>0
      <4>3. server' = [server EXCEPT !.name = names, !.steps = server.steps + 1]
        BY <1>0, <3>4 DEF Servers
      <4> HIDE DEF names
      <4> QED
        BY <3>b, <4>2, <4>3
    <3> QED
      BY <1>7, <3>2, <3>3, <3>4 DEF ServerChanges
  <2> DEFINE S == seen.selected \cup Selected(server')
  <2>2. /\ fetch' = fetch /\ davConfig' = davConfig
        /\ seen' = IF fetch.step = "idle" THEN seen
                   ELSE [selected |-> S, stayed |-> seen.stayed \cap PlacesIn(server', Selected(server')),
                         been |-> seen.been \cup PlacesIn(server', S)]
    BY <1>7 DEF ServerChanges
  <2>3. CASE fetch.step = "idle"
    BY <1>0, <2>1, <2>2, <2>3 DEF DavInv
  <2>4. CASE fetch.step # "idle"
    BY <2>2, <2>4, <1>0, SelectedAre, PlacesAre, <2>1 DEF Seens, SeenFits, Selected, PlacesIn, FetchFits, DavInv
  <2> QED
    BY <2>3, <2>4
<1>8. CASE UNCHANGED davVars
  BY <1>8, <1>0 DEF davVars, SeenFits, Selected, PlacesIn, DavInv
<1> QED
  BY <1>1, <1>2, <1>3, <1>4, <1>5, <1>6, <1>7, <1>8 DEF DavNext

LEMMA FetchesAreComplete ==
  ASSUME DavInv
  PROVE  DavTypeOK /\ FetchIsComplete
BY DEF DavInv, Servers, Fetches, DavTypeOK, FetchFits, FetchIsComplete

----------------------------------------------------------------------------
(***************************************************************************)
(* The calendar's file.  Statements in the order of their ranks: what is   *)
(* dropped is created again, and a version is written only after that.     *)
(***************************************************************************)

Added == {"location", "dtstamp", "alarms"}
Statements ==
  {<<"drop", t>> : t \in Tables} \cup {<<"create", t>> : t \in Tables} \cup {<<"add", c>> : c \in Added}
    \cup {<<"version", "forget">>, <<"version", "write">>, <<"opened">>}

StatementRank(s) ==
  IF s[1] = "drop" THEN 1 ELSE IF s[1] = "create" THEN 2 ELSE IF s[1] = "add" THEN 3 ELSE IF s[1] = "version" THEN 4 ELSE 5

\* Statements of the ranks a to b, in their order; and one of them is in the list.
InRank(s, a, b) ==
  /\ s \in Seq(Statements)
  /\ \A i \in 1..Len(s) : a <= StatementRank(s[i]) /\ StatementRank(s[i]) <= b
  /\ \A i, j \in 1..Len(s) : i < j => StatementRank(s[i]) <= StatementRank(s[j])
Awaits(s, x) == \E i \in 1..Len(s) : s[i] = x

TheDrops == {<<"drop", t>> : t \in Tables}

LEMMA RanksAre ==
  /\ \A t \in Tables : StatementRank(<<"drop", t>>) = 1 /\ StatementRank(<<"create", t>>) = 2
  /\ \A c \in Added : StatementRank(<<"add", c>>) = 3
  /\ StatementRank(<<"version", "forget">>) = 4 /\ StatementRank(<<"version", "write">>) = 4 /\ StatementRank(<<"opened">>) = 5
  /\ \A s \in Statements : StatementRank(s) \in 1..5
BY DEF StatementRank

LEMMA JoinRanked ==
  ASSUME NEW a \in Nat, NEW b \in Nat, NEW c \in Nat, NEW d \in Nat, NEW s, NEW t, InRank(s, a, b), InRank(t, c, d), a <= b, b <= c, c <= d
  PROVE  /\ InRank(s \o t, a, d)
         /\ \A x : Awaits(s \o t, x) <=> Awaits(s, x) \/ Awaits(t, x)
<1> DEFINE r == s \o t
<1>1. /\ s \in Seq(Statements) /\ t \in Seq(Statements) /\ Len(s) \in Nat /\ Len(t) \in Nat
      /\ \A i \in 1..Len(s) : StatementRank(s[i]) \in 1..5
      /\ \A i \in 1..Len(t) : StatementRank(t[i]) \in 1..5
  BY RanksAre DEF InRank
<1>0. \A i \in 1..Len(t) : StatementRank(t[i]) \in Int
  BY <1>1
<1>2. r \in Seq(Statements) /\ Len(r) = Len(s) + Len(t)
  BY <1>1
<1>3. \A i \in 1..Len(s) : r[i] = s[i]
  BY <1>1
<1>4. \A i \in 1..Len(t) : r[Len(s) + i] = t[i]
  BY <1>1
<1>5. \A i \in 1..Len(r) : i \in 1..Len(s) \/ (i - Len(s) \in 1..Len(t) /\ i = Len(s) + (i - Len(s)))
  BY <1>1, <1>2
<1>6. \A i \in 1..Len(s) : i \in 1..Len(r)
  BY <1>1, <1>2
<1>7. \A i \in 1..Len(t) : Len(s) + i \in 1..Len(r)
  BY <1>1, <1>2
<1> HIDE DEF r
<1>8. \A i \in 1..Len(r) : (i \in 1..Len(s) /\ r[i] = s[i]) \/ (i - Len(s) \in 1..Len(t) /\ r[i] = t[i - Len(s)])
  BY <1>3, <1>4, <1>5
<1>9. ASSUME NEW i \in 1..Len(r) PROVE a <= StatementRank(r[i]) /\ StatementRank(r[i]) <= d
  <2>1. CASE i \in 1..Len(s) /\ r[i] = s[i]
    <3>1. a <= StatementRank(s[i]) /\ StatementRank(s[i]) <= b /\ StatementRank(s[i]) \in Int
      BY <1>1, <2>1 DEF InRank
    <3> QED
      BY <2>1, <3>1
  <2>2. CASE i - Len(s) \in 1..Len(t) /\ r[i] = t[i - Len(s)]
    BY <2>2, <1>0, <1>1 DEF InRank
  <2> QED
    BY <1>8, <2>1, <2>2
<1>10. ASSUME NEW i \in 1..Len(r), NEW j \in 1..Len(r), i < j PROVE StatementRank(r[i]) <= StatementRank(r[j])
  <2>0. i \in Int /\ j \in Int
    OBVIOUS
  <2>1. CASE i \in 1..Len(s) /\ r[i] = s[i] /\ j \in 1..Len(s) /\ r[j] = s[j]
    BY <1>10, <2>1 DEF InRank
  <2>2. CASE i \in 1..Len(s) /\ r[i] = s[i] /\ j - Len(s) \in 1..Len(t) /\ r[j] = t[j - Len(s)]
    <3>1. StatementRank(s[i]) <= b /\ StatementRank(s[i]) \in Int
      BY <1>1, <2>2 DEF InRank
    <3> DEFINE k == j - Len(s)
    <3>2. k \in 1..Len(t) /\ r[j] = t[k]
      BY <2>2
    <3> HIDE DEF k
    <3>4. StatementRank(t[k]) \in Int
      BY <1>0, <3>2
    <3>3. c <= StatementRank(t[k]) /\ StatementRank(t[k]) \in Int
      BY <3>2, <3>4 DEF InRank
    <3> QED
      BY <2>2, <3>1, <3>2, <3>3
  <2>3. CASE i - Len(s) \in 1..Len(t) /\ r[i] = t[i - Len(s)] /\ j - Len(s) \in 1..Len(t) /\ r[j] = t[j - Len(s)]
    <3> DEFINE k == i - Len(s)
               l == j - Len(s)
    <3>1. k < l
      BY <1>1, <1>10, <2>0
    <3>2. k \in 1..Len(t) /\ l \in 1..Len(t)
      BY <2>3
    <3> HIDE DEF k, l
    <3>3. StatementRank(t[k]) <= StatementRank(t[l])
      BY <3>1, <3>2 DEF InRank
    <3> QED
      BY <2>3, <3>3 DEF k, l
  <2>4. ~(i - Len(s) \in 1..Len(t) /\ j \in 1..Len(s))
    BY <1>1, <1>10, <2>0
  <2> QED
    BY <1>8, <2>1, <2>2, <2>3, <2>4
<1>11. ASSUME NEW x PROVE Awaits(r, x) <=> Awaits(s, x) \/ Awaits(t, x)
  <2>1. Awaits(r, x) => Awaits(s, x) \/ Awaits(t, x)
    BY <1>8 DEF Awaits
  <2>2. Awaits(s, x) => Awaits(r, x)
    BY <1>3, <1>6 DEF Awaits, r
  <2>3. Awaits(t, x) => Awaits(r, x)
    BY <1>4, <1>7 DEF Awaits, r
  <2> QED
    BY <2>1, <2>2, <2>3
<1>12. InRank(r, a, d)
  BY <1>2, <1>9, <1>10 DEF InRank, r
<1> QED
  BY <1>11, <1>12 DEF r

\* One statement, and none.
LEMMA OneRanked ==
  ASSUME NEW x \in Statements
  PROVE  InRank(<<x>>, StatementRank(x), StatementRank(x)) /\ \A y : Awaits(<<x>>, y) <=> y = x
BY RanksAre DEF InRank, Awaits

LEMMA NoneRanked ==
  ASSUME NEW a, NEW b
  PROVE  InRank(<<>>, a, b) /\ \A y : ~Awaits(<<>>, y)
BY DEF InRank, Awaits

\* What is left when the first statement has run.
LEMMA TailRanked ==
  ASSUME NEW s, InRank(s, 1, 5), s # <<>>
  PROVE  /\ Head(s) \in Statements /\ InRank(Tail(s), 1, 5)
         /\ \A x : Awaits(s, x) <=> x = Head(s) \/ Awaits(Tail(s), x)
         /\ \A x : Awaits(s, x) => x \in Statements /\ StatementRank(Head(s)) <= StatementRank(x)
<1> DEFINE r == Tail(s)
<1>1. s \in Seq(Statements)
  BY DEF InRank
<1>2. /\ Len(s) \in Nat /\ Len(s) > 0 /\ Head(s) = s[1] /\ r \in Seq(Statements) /\ Len(r) = Len(s) - 1
      /\ \A i \in 1..Len(r) : r[i] = s[i + 1] /\ i + 1 \in 1..Len(s)
  BY <1>1
<1>3. \A i \in 1..Len(s) : s[i] \in Statements /\ StatementRank(s[i]) \in Int
  BY <1>1, RanksAre
<1>4. 1 \in 1..Len(s) /\ \A i \in 1..Len(s) : i = 1 \/ (i - 1 \in 1..Len(r) /\ r[i - 1] = s[i])
  BY <1>2
<1> HIDE DEF r
<1>5. InRank(r, 1, 5)
  <2>1. \A i \in 1..Len(r) : 1 <= StatementRank(r[i]) /\ StatementRank(r[i]) <= 5
    BY <1>2 DEF InRank
  <2>2. ASSUME NEW i \in 1..Len(r), NEW j \in 1..Len(r), i < j PROVE StatementRank(r[i]) <= StatementRank(r[j])
    BY <1>2, <2>2 DEF InRank
  <2> QED
    BY <1>2, <2>1, <2>2 DEF InRank
<1>6. ASSUME NEW x PROVE Awaits(s, x) <=> x = Head(s) \/ Awaits(r, x)
  BY <1>2, <1>4 DEF Awaits
<1>7. ASSUME NEW i \in 1..Len(s) PROVE StatementRank(s[1]) <= StatementRank(s[i])
  BY <1>2, <1>3, <1>4 DEF InRank
<1>8. ASSUME NEW x, Awaits(s, x) PROVE x \in Statements /\ StatementRank(Head(s)) <= StatementRank(x)
  BY <1>2, <1>3, <1>7, <1>8 DEF Awaits
<1> QED
  BY <1>2, <1>3, <1>4, <1>5, <1>6, <1>8 DEF r

\* The statements that open a file of each version.
Opening(version) == Append(Migration(version), <<"opened">>)

LEMMA OpeningIs ==
  ASSUME NEW version \in 0..CurrentVersion
  PROVE  /\ InRank(Opening(version), 1, 5)
         /\ version # CurrentVersion => \A t \in Tables : Awaits(Opening(version), <<"create", t>>)
         /\ \A t \in Tables : Awaits(Opening(version), <<"drop", t>>) <=> version = 1
         /\ version = 2 => \A c \in Added : Awaits(Opening(version), <<"add", c>>)
         /\ version = 3 => Awaits(Opening(version), <<"add", "dtstamp">>) /\ Awaits(Opening(version), <<"add", "alarms">>)
         /\ version = 4 => Awaits(Opening(version), <<"add", "alarms">>)
<1> DEFINE drops == IF version = 1 THEN Drops ELSE <<>>
           location == IF version = 2 THEN <<<<"add", "location">>>> ELSE <<>>
           dtstamp == IF version \in {2, 3} THEN <<<<"add", "dtstamp">>>> ELSE <<>>
           alarms == IF version \in 2..4 THEN <<<<"add", "alarms">>>> ELSE <<>>
           write == <<<<"version", "forget">>, <<"version", "write">>>>
           all == drops \o Creates \o location \o dtstamp \o alarms \o write
<1>0. version \in 0..5
  BY DEF CurrentVersion
<1>s. /\ \A t \in Tables : <<"drop", t>> \in Statements /\ <<"create", t>> \in Statements
      /\ \A c \in Added : <<"add", c>> \in Statements
      /\ <<"version", "forget">> \in Statements /\ <<"version", "write">> \in Statements /\ <<"opened">> \in Statements
  BY DEF Statements
<1>t. /\ "accounts" \in Tables /\ "events" \in Tables /\ "sync_state" \in Tables /\ "location" \in Added /\ "dtstamp" \in Added /\ "alarms" \in Added
      /\ Tables = {"accounts", "events", "sync_state"} /\ Added = {"location", "dtstamp", "alarms"}
  BY DEF Tables, Added
<1>a. InRank(drops, 1, 1) /\ \A x : Awaits(drops, x) <=> version = 1 /\ x \in TheDrops
  <2> DEFINE d1 == <<"drop", "events">>
             d2 == <<"drop", "sync_state">>
             d3 == <<"drop", "accounts">>
  <2>1. {d1, d2, d3} = TheDrops /\ d1 \in Statements /\ d2 \in Statements /\ d3 \in Statements
        /\ StatementRank(d1) = 1 /\ StatementRank(d2) = 1 /\ StatementRank(d3) = 1
    BY <1>s, <1>t, RanksAre DEF TheDrops
  <2>2. Drops = <<d1, d2, d3>>
    BY DEF Drops
  <2> HIDE DEF d1, d2, d3
  <2>3. /\ Drops \in Seq(Statements) /\ Len(Drops) = 3 /\ Drops[1] = d1 /\ Drops[2] = d2 /\ Drops[3] = d3
    BY <2>1, <2>2
  <2>4. \A i \in 1..3 : i = 1 \/ i = 2 \/ i = 3
    OBVIOUS
  <2>5. InRank(Drops, 1, 1)
    BY <2>1, <2>3, <2>4 DEF InRank
  <2>6. \A x : Awaits(Drops, x) <=> x \in TheDrops
    BY <2>1, <2>3, <2>4 DEF Awaits
  <2> QED
    BY <2>5, <2>6, NoneRanked
<1>b. InRank(Creates, 2, 2) /\ \A x : Awaits(Creates, x) <=> \E t \in Tables : x = <<"create", t>>
  BY <1>s, <1>t, RanksAre DEF Creates, InRank, Awaits
<1>c. InRank(location, 3, 3) /\ \A x : Awaits(location, x) <=> version = 2 /\ x = <<"add", "location">>
  BY <1>s, <1>t, RanksAre, OneRanked, NoneRanked
<1>d. InRank(dtstamp, 3, 3) /\ \A x : Awaits(dtstamp, x) <=> version \in {2, 3} /\ x = <<"add", "dtstamp">>
  BY <1>s, <1>t, RanksAre, OneRanked, NoneRanked
<1>e. InRank(alarms, 3, 3) /\ \A x : Awaits(alarms, x) <=> version \in 2..4 /\ x = <<"add", "alarms">>
  BY <1>s, <1>t, RanksAre, OneRanked, NoneRanked
<1>f. InRank(write, 4, 4) /\ \A x : Awaits(write, x) <=> x = <<"version", "forget">> \/ x = <<"version", "write">>
  BY <1>s, RanksAre DEF InRank, Awaits
<1> HIDE DEF drops, location, dtstamp, alarms, write
<1> DEFINE s1 == drops \o Creates
           s2 == s1 \o location
           s3 == s2 \o dtstamp
           s4 == s3 \o alarms
           s5 == s4 \o write
<1>1. InRank(s1, 1, 2) /\ \A x : Awaits(s1, x) <=> Awaits(drops, x) \/ Awaits(Creates, x)
  BY <1>a, <1>b, JoinRanked
<1> HIDE DEF s1
<1>2. InRank(s2, 1, 3) /\ \A x : Awaits(s2, x) <=> Awaits(s1, x) \/ Awaits(location, x)
  BY <1>1, <1>c, JoinRanked
<1> HIDE DEF s2
<1>3. InRank(s3, 1, 3) /\ \A x : Awaits(s3, x) <=> Awaits(s2, x) \/ Awaits(dtstamp, x)
  BY <1>2, <1>d, JoinRanked
<1> HIDE DEF s3
<1>4. InRank(s4, 1, 3) /\ \A x : Awaits(s4, x) <=> Awaits(s3, x) \/ Awaits(alarms, x)
  BY <1>3, <1>e, JoinRanked
<1> HIDE DEF s4
<1>5. InRank(s5, 1, 4) /\ \A x : Awaits(s5, x) <=> Awaits(s4, x) \/ Awaits(write, x)
  BY <1>4, <1>f, JoinRanked
<1>6. Migration(version) = IF version = 5 THEN <<>> ELSE s5
  BY DEF Migration, CurrentVersion, drops, location, dtstamp, alarms, write, s1, s2, s3, s4
<1> HIDE DEF s5
<1>7. InRank(Migration(version), 1, 4) /\ \A x : Awaits(Migration(version), x) <=> version # 5 /\ Awaits(s5, x)
  BY <1>5, <1>6, NoneRanked
<1> DEFINE m == Migration(version)
<1> HIDE DEF m
<1>8. m \in Seq(Statements) /\ InRank(m, 1, 4) /\ \A x : Awaits(m, x) <=> version # 5 /\ Awaits(s5, x)
  BY <1>7 DEF m, InRank
<1>9. Append(m, <<"opened">>) = m \o <<<<"opened">>>>
  BY <1>8, <1>s
<1>10. InRank(<<<<"opened">>>>, 5, 5) /\ \A x : Awaits(<<<<"opened">>>>, x) <=> x = <<"opened">>
  BY <1>s, RanksAre, OneRanked
<1>11. InRank(m \o <<<<"opened">>>>, 1, 5) /\ \A x : Awaits(m \o <<<<"opened">>>>, x) <=> Awaits(m, x) \/ x = <<"opened">>
  BY <1>8, <1>10, JoinRanked
<1>12. InRank(Opening(version), 1, 5) /\ \A x : Awaits(Opening(version), x) <=> Awaits(m, x) \/ x = <<"opened">>
  BY <1>9, <1>11 DEF Opening, m
<1>13. /\ \A x : Awaits(Opening(version), x) <=>
            \/ x = <<"opened">>
            \/ version # 5 /\ (Awaits(drops, x) \/ Awaits(Creates, x) \/ Awaits(location, x) \/ Awaits(dtstamp, x) \/ Awaits(alarms, x) \/ Awaits(write, x))
  BY <1>1, <1>2, <1>3, <1>4, <1>5, <1>8, <1>12
<1>14. \A t \in Tables : version # 5 => Awaits(Opening(version), <<"create", t>>)
  BY <1>b, <1>13
<1>15. \A t \in Tables : Awaits(Opening(version), <<"drop", t>>) <=> version = 1
  BY <1>a, <1>b, <1>c, <1>d, <1>e, <1>f, <1>0, <1>13 DEF TheDrops
<1>16. version = 2 => \A c \in Added : Awaits(Opening(version), <<"add", c>>)
  BY <1>c, <1>d, <1>e, <1>13, <1>t
<1>17. version = 3 => Awaits(Opening(version), <<"add", "dtstamp">>) /\ Awaits(Opening(version), <<"add", "alarms">>)
  BY <1>d, <1>e, <1>13
<1>18. version = 4 => Awaits(Opening(version), <<"add", "alarms">>)
  BY <1>e, <1>13
<1> QED
  BY <1>12, <1>14, <1>15, <1>16, <1>17, <1>18 DEF CurrentVersion

----------------------------------------------------------------------------
(***************************************************************************)
(* The invariant.                                                          *)
(***************************************************************************)

\* The columns a file of a version may not have yet.
MissingOf(version) ==
  IF version = 1 THEN Columns ELSE IF version = 2 THEN Added ELSE IF version = 3 THEN {"dtstamp", "alarms"}
  ELSE IF version = 4 THEN {"alarms"} ELSE {}

FileFits(d, left) ==
  /\ d = [version |-> d.version, tables |-> d.tables, columns |-> d.columns, rows |-> d.rows]
  /\ d.version \in 0..5 /\ d.tables \subseteq Tables /\ d.columns \subseteq Columns
  /\ d.version = 5 => d.tables = Tables
  /\ "events" \in d.tables => \A c \in Columns : c \in d.columns \/ c \in left \/ c \in MissingOf(d.version)

OneRow(rows) == \A r, s \in rows : r.uid = s.uid /\ r.account = s.account => r = s
HasRow(rows, u, a) == \E r \in rows : r.uid = u /\ r.account = a
HeldFits(h) == h = [a \in CacheAccounts |-> [least |-> h[a].least, most |-> h[a].most]]
Covers(rows, h) ==
  \A a \in CacheAccounts : /\ \A u \in h[a].least : HasRow(rows, u, a)
                           /\ \A r \in rows : r.account = a => r.uid \in h[a].most
LeastIsNone(h) == \A a \in CacheAccounts : h[a].least = {}

\* What is missing is still to be made, and what is to be dropped is still to be made again.
Migrating(d, s, h, left) ==
  /\ \A t \in Tables : Awaits(s, <<"create", t>>) \/ (t \in d.tables /\ ~Awaits(s, <<"drop", t>>))
  /\ \A c \in Columns : \/ c \in d.columns \/ c \in left \/ (c \in Added /\ Awaits(s, <<"add", c>>))
                        \/ Awaits(s, <<"create", "events">>) /\ ("events" \notin d.tables \/ Awaits(s, <<"drop", "events">>))
  /\ \A t \in Tables : Awaits(s, <<"drop", t>>) => d.version = 1 /\ LeastIsNone(h)

\* The handlers of an open cache, and what is left of them.
ToUpsert == <<<<"upsert">>, <<"reconcile">>, <<"prune">>, <<"state", "ok">>>>
ToReconcile == <<<<"reconcile">>, <<"prune">>, <<"state", "ok">>>>
ToPrune == <<<<"prune">>, <<"state", "ok">>>>
ToStore == <<<<"state", "ok">>>>
ToFail == <<<<"state", "error">>>>
ToClear == <<<<"clear">>>>

KeptAt(t, at) == at >= t - RetainPast /\ at <= t + RetainFuture
KeepsLeast(rows, h, t) == \A b \in CacheAccounts : \A r \in rows : r.account = b /\ r.uid \in h[b].least => KeptAt(t, r.at)
FreshFits(h, a, fresh, t) ==
  h[a].least \subseteq DOMAIN fresh /\ DOMAIN fresh \subseteq h[a].most /\ \A u \in h[a].least : KeptAt(t, fresh[u])
HasFresh(rows, a, fresh) == \A u \in DOMAIN fresh : CachedRow(u, a, fresh[u]) \in rows
HasKept(rows, a, fresh, t) == \A u \in DOMAIN fresh : KeptAt(t, fresh[u]) => CachedRow(u, a, fresh[u]) \in rows
OnlyFresh(rows, a, fresh) == \A r \in rows : r.account = a => r.uid \in DOMAIN fresh

HandlerFits(s, rows, h, a, fresh, t) ==
  /\ s = <<>> \/ (a \in CacheAccounts /\ s \in {ToUpsert, ToReconcile, ToPrune, ToStore, ToFail, ToClear})
  /\ s = ToUpsert => KeepsLeast(rows, h, t) /\ FreshFits(h, a, fresh, t)
  /\ s = ToReconcile => KeepsLeast(rows, h, t) /\ FreshFits(h, a, fresh, t) /\ HasFresh(rows, a, fresh)
  /\ s = ToPrune => KeepsLeast(rows, h, t) /\ HasFresh(rows, a, fresh) /\ OnlyFresh(rows, a, fresh)
  /\ s = ToStore => HasKept(rows, a, fresh, t) /\ OnlyFresh(rows, a, fresh)
  /\ s = ToClear => h[a].least = {}

Whole(d, left) == d.tables = Tables /\ \A c \in Columns : c \in d.columns \/ c \in left

CacheInv ==
  /\ cacheOpen \in BOOLEAN /\ time \in 0..LastTime
  /\ FileFits(database, lost) /\ OneRow(database.rows) /\ HeldFits(held) /\ Covers(database.rows, held)
  /\ ~cacheOpen => InRank(todo, 1, 5) /\ (todo # <<>> => Migrating(database, todo, held, lost))
  /\ cacheOpen => Whole(database, lost)
  /\ cacheOpen => (todo = <<>> \/ HandlerFits(todo, database.rows, held, syncing[1], syncing[2], time))

----------------------------------------------------------------------------
(***************************************************************************)
(* What the transactions do to the rows.                                   *)
(***************************************************************************)

LEMMA UpsertedRows ==
  ASSUME NEW rows, NEW h, NEW a \in CacheAccounts, NEW fresh, NEW t,
         OneRow(rows), Covers(rows, h), KeepsLeast(rows, h, t), FreshFits(h, a, fresh, t)
  PROVE  /\ OneRow(Upserted(rows, a, fresh)) /\ Covers(Upserted(rows, a, fresh), h)
         /\ KeepsLeast(Upserted(rows, a, fresh), h, t) /\ HasFresh(Upserted(rows, a, fresh), a, fresh)
<1> DEFINE new == Upserted(rows, a, fresh)
           New(u) == CachedRow(u, a, fresh[u])
<1>1. /\ \A r \in new : (r \in rows /\ (r.account # a \/ r.uid \notin DOMAIN fresh)) \/ (\E u \in DOMAIN fresh : r = CachedRow(u, a, fresh[u]))
      /\ \A r \in rows : r.account # a \/ r.uid \notin DOMAIN fresh => r \in new
      /\ \A u \in DOMAIN fresh : CachedRow(u, a, fresh[u]) \in new
  BY DEF Upserted
<1>2. \A u : CachedRow(u, a, fresh[u]).uid = u /\ CachedRow(u, a, fresh[u]).account = a /\ CachedRow(u, a, fresh[u]).at = fresh[u]
  BY DEF CachedRow
<1> HIDE DEF new
<1>3. \A r \in new : \/ r \in rows /\ (r.account # a \/ r.uid \notin DOMAIN fresh)
                     \/ r.uid \in DOMAIN fresh /\ r.account = a /\ r.at = fresh[r.uid] /\ r = CachedRow(r.uid, a, fresh[r.uid])
  BY <1>1, <1>2
<1>4. OneRow(new)
  BY <1>3 DEF OneRow
<1>5. HasFresh(new, a, fresh)
  BY <1>1 DEF HasFresh
<1>6. ASSUME NEW b \in CacheAccounts, NEW u \in h[b].least PROVE HasRow(new, u, b)
  BY <1>1, <1>2, <1>6 DEF FreshFits, HasRow, Covers
<1>7. ASSUME NEW b \in CacheAccounts, NEW r \in new, r.account = b PROVE r.uid \in h[b].most
  BY <1>3, <1>7 DEF Covers, FreshFits
<1>8. Covers(new, h)
  BY <1>6, <1>7 DEF Covers
<1>9. KeepsLeast(new, h, t)
  BY <1>3 DEF KeepsLeast, FreshFits
<1> QED
  BY <1>4, <1>5, <1>8, <1>9 DEF new

\* Rows of which some are left.
LEMMA FewerRows ==
  ASSUME NEW rows, NEW some, NEW h, OneRow(rows), Covers(rows, h), some \subseteq rows,
         \A b \in CacheAccounts : \A r \in rows : r.account = b /\ r.uid \in h[b].least => r \in some
  PROVE  OneRow(some) /\ Covers(some, h)
BY DEF OneRow, Covers, HasRow

LEMMA ReconciledRows ==
  ASSUME NEW rows, NEW h, NEW a \in CacheAccounts, NEW fresh, NEW t,
         OneRow(rows), Covers(rows, h), KeepsLeast(rows, h, t), FreshFits(h, a, fresh, t), HasFresh(rows, a, fresh)
  PROVE  /\ OneRow(Reconciled(rows, a, fresh)) /\ Covers(Reconciled(rows, a, fresh), h)
         /\ KeepsLeast(Reconciled(rows, a, fresh), h, t) /\ HasFresh(Reconciled(rows, a, fresh), a, fresh)
         /\ OnlyFresh(Reconciled(rows, a, fresh), a, fresh)
BY FewerRows DEF Reconciled, CachedRow, FreshFits, KeepsLeast, HasFresh, OnlyFresh

LEMMA PrunedRows ==
  ASSUME NEW rows, NEW h, NEW a \in CacheAccounts, NEW fresh,
         OneRow(rows), Covers(rows, h), KeepsLeast(rows, h, time), HasFresh(rows, a, fresh), OnlyFresh(rows, a, fresh)
  PROVE  /\ OneRow(Pruned(rows)) /\ Covers(Pruned(rows), h)
         /\ HasKept(Pruned(rows), a, fresh, time) /\ OnlyFresh(Pruned(rows), a, fresh)
BY FewerRows DEF Pruned, Kept, KeptAt, CachedRow, KeepsLeast, HasFresh, OnlyFresh, HasKept

LEMMA ClearedRows ==
  ASSUME NEW rows, NEW h, NEW a \in CacheAccounts, HeldFits(h), OneRow(rows), Covers(rows, h), h[a].least = {}
  PROVE  /\ OneRow(Cleared(rows, a)) /\ HeldFits([h EXCEPT ![a].most = {}]) /\ Covers(Cleared(rows, a), [h EXCEPT ![a].most = {}])
<1> DEFINE new == Cleared(rows, a)
           g == [h EXCEPT ![a].most = {}]
<1>1. \A r : r \in new <=> r \in rows /\ r.account # a
  BY DEF Cleared
<1>2. /\ g = [b \in CacheAccounts |-> IF b = a THEN [least |-> {}, most |-> {}] ELSE [least |-> h[b].least, most |-> h[b].most]]
  <2>1. DOMAIN h = CacheAccounts /\ \A b \in CacheAccounts : h[b] = [least |-> h[b].least, most |-> h[b].most]
    BY DEF HeldFits
  <2>2. [h[a] EXCEPT !.most = {}] = [least |-> {}, most |-> {}]
    BY <2>1
  <2>3. g = [h EXCEPT ![a] = [h[a] EXCEPT !.most = {}]]
    BY <2>1
  <2>4. h = [b \in CacheAccounts |-> h[b]]
    BY DEF HeldFits
  <2>5. g = [h EXCEPT ![a] = [least |-> {}, most |-> {}]]
    BY <2>2, <2>3
  <2> HIDE DEF g
  <2> QED
    BY <2>1, <2>4, <2>5
<1>3. g[a].least = {} /\ g[a].most = {} /\ \A b \in CacheAccounts : b # a => g[b].least = h[b].least /\ g[b].most = h[b].most
  BY <1>2
<1>4. HeldFits(g)
  BY <1>2, <1>3 DEF HeldFits
<1> HIDE DEF new, g
<1>5. OneRow(new)
  BY <1>1 DEF OneRow
<1>6. ASSUME NEW b \in CacheAccounts, NEW u \in g[b].least PROVE HasRow(new, u, b)
  BY <1>1, <1>3, <1>6 DEF Covers, HasRow
<1>7. ASSUME NEW b \in CacheAccounts, NEW r \in new, r.account = b PROVE r.uid \in g[b].most
  BY <1>1, <1>3, <1>7 DEF Covers
<1> QED
  BY <1>4, <1>5, <1>6, <1>7 DEF Covers, new, g

----------------------------------------------------------------------------
(***************************************************************************)
(* What the statements do to the file.                                     *)
(***************************************************************************)

File(version, tables, columns, rows) == [version |-> version, tables |-> tables, columns |-> columns, rows |-> rows]

LEMMA Dropped ==
  ASSUME NEW d, d = File(d.version, d.tables, d.columns, d.rows), NEW x, NEW t \in Tables, x = <<"drop", t>>
  PROVE  /\ t = "events" => Defined(x, d) = File(d.version, d.tables \ {t}, {}, {})
         /\ t # "events" => Defined(x, d) = File(d.version, d.tables \ {t}, d.columns, d.rows)
<1>1. Defined(x, d) = [d EXCEPT !.tables = @ \ {t}, !.rows = IF t = "events" THEN {} ELSE @, !.columns = IF t = "events" THEN {} ELSE @]
  BY DEF Defined
<1> QED
  BY <1>1 DEF File

LEMMA Created ==
  ASSUME NEW d, d = File(d.version, d.tables, d.columns, d.rows), NEW x, NEW t \in Tables, x = <<"create", t>>
  PROVE  /\ t = "events" /\ "events" \notin d.tables => Defined(x, d) = File(d.version, d.tables \cup {t}, Columns, d.rows)
         /\ ~(t = "events" /\ "events" \notin d.tables) => Defined(x, d) = File(d.version, d.tables \cup {t}, d.columns, d.rows)
<1>1. Defined(x, d) = [d EXCEPT !.tables = @ \cup {t}, !.columns = IF t = "events" /\ "events" \notin d.tables THEN Columns ELSE @]
  BY DEF Defined
<1> QED
  BY <1>1 DEF File

LEMMA ColumnAdded ==
  ASSUME NEW v, NEW ts, NEW cs, NEW rs, NEW c \in Added
  PROVE  Defined(<<"add", c>>, File(v, ts, cs, rs)) = File(v, ts, cs \cup {c}, rs)
BY DEF Defined, File

LEMMA VersionRewritten ==
  ASSUME NEW v, NEW ts, NEW cs, NEW rs
  PROVE  /\ Defined(<<"version", "forget">>, File(v, ts, cs, rs)) = File(0, ts, cs, rs)
         /\ Defined(<<"version", "write">>, File(v, ts, cs, rs)) = File(IF v = 0 THEN 5 ELSE v, ts, cs, rs)
BY DEF Defined, File, CurrentVersion

\* A statement is one of these.
LEMMA StatementIs ==
  ASSUME NEW x \in Statements
  PROVE  \/ \E t \in Tables : x = <<"drop", t>>
         \/ \E t \in Tables : x = <<"create", t>>
         \/ \E c \in Added : x = <<"add", c>>
         \/ x = <<"version", "forget">> \/ x = <<"version", "write">> \/ x = <<"opened">>
BY DEF Statements

\* What is awaited still, by the rank of the first statement.
LEMMA StillAwaited ==
  ASSUME NEW s, InRank(s, 1, 5), s # <<>>, NEW n \in Int, n = StatementRank(Head(s))
  PROVE  /\ \A x : x # Head(s) => (Awaits(Tail(s), x) <=> Awaits(s, x))
         /\ \A x : Awaits(Tail(s), x) => Awaits(s, x)
         /\ n > 1 => \A t \in Tables : ~Awaits(s, <<"drop", t>>)
         /\ n > 2 => \A t \in Tables : ~Awaits(s, <<"create", t>>)
         /\ n > 3 => \A c \in Added : ~Awaits(s, <<"add", c>>)
<1>1. /\ \A x : Awaits(s, x) <=> x = Head(s) \/ Awaits(Tail(s), x)
      /\ \A x : Awaits(s, x) => x \in Statements /\ n <= StatementRank(x)
  BY TailRanked
<1>2. /\ \A t \in Tables : StatementRank(<<"drop", t>>) = 1 /\ StatementRank(<<"create", t>>) = 2
      /\ \A c \in Added : StatementRank(<<"add", c>>) = 3
  BY RanksAre
<1>3. n > 1 => \A t \in Tables : ~Awaits(s, <<"drop", t>>)
  <2> SUFFICES ASSUME NEW t \in Tables, Awaits(s, <<"drop", t>>) PROVE ~(n > 1)
    OBVIOUS
  <2>1. n <= StatementRank(<<"drop", t>>)
    BY <1>1
  <2>2. StatementRank(<<"drop", t>>) = 1
    BY <1>2
  <2> QED
    BY <2>1, <2>2
<1>4. n > 2 => \A t \in Tables : ~Awaits(s, <<"create", t>>)
  <2> SUFFICES ASSUME NEW t \in Tables, Awaits(s, <<"create", t>>) PROVE ~(n > 2)
    OBVIOUS
  <2>1. n <= StatementRank(<<"create", t>>)
    BY <1>1
  <2>2. StatementRank(<<"create", t>>) = 2
    BY <1>2
  <2> QED
    BY <2>1, <2>2
<1>5. n > 3 => \A c \in Added : ~Awaits(s, <<"add", c>>)
  <2> SUFFICES ASSUME NEW c \in Added, Awaits(s, <<"add", c>>) PROVE ~(n > 3)
    OBVIOUS
  <2>1. n <= StatementRank(<<"add", c>>)
    BY <1>1
  <2>2. StatementRank(<<"add", c>>) = 3
    BY <1>2
  <2> QED
    BY <2>1, <2>2
<1> QED
  BY <1>1, <1>3, <1>4, <1>5

FileHolds(d, h, left) == FileFits(d, left) /\ OneRow(d.rows) /\ Covers(d.rows, h)

LEMMA DropRuns ==
  ASSUME NEW d, NEW h, NEW left, NEW s, NEW t \in Tables, InRank(s, 1, 5), s # <<>>, Head(s) = <<"drop", t>>,
         FileHolds(d, h, left), Migrating(d, s, h, left)
  PROVE  FileHolds(Defined(Head(s), d), h, left) /\ Migrating(Defined(Head(s), d), Tail(s), h, left)
BY Dropped, TailRanked DEF FileHolds, FileFits, File, Migrating, MissingOf, OneRow, Covers, LeastIsNone

LEMMA CreateRuns ==
  ASSUME NEW d, NEW h, NEW left, NEW s, NEW t \in Tables, InRank(s, 1, 5), s # <<>>, Head(s) = <<"create", t>>,
         FileHolds(d, h, left), Migrating(d, s, h, left)
  PROVE  FileHolds(Defined(Head(s), d), h, left) /\ Migrating(Defined(Head(s), d), Tail(s), h, left)
<1> DEFINE e == Defined(Head(s), d)
           r == Tail(s)
           v == d.version
           ts == d.tables
           cs == d.columns
           rs == d.rows
<1>0. d = File(d.version, d.tables, d.columns, d.rows)
  BY DEF FileHolds, FileFits, File
<1>1. e = IF t = "events" /\ "events" \notin ts THEN File(v, ts \cup {t}, Columns, rs) ELSE File(v, ts \cup {t}, cs, rs)
  <2>1. /\ t = "events" /\ "events" \notin d.tables => e = File(d.version, d.tables \cup {t}, Columns, d.rows)
        /\ ~(t = "events" /\ "events" \notin d.tables) => e = File(d.version, d.tables \cup {t}, d.columns, d.rows)
    BY <1>0, Created
  <2> QED
    BY <2>1
<1> HIDE DEF v, ts, cs, rs
<1>2. /\ e = [version |-> e.version, tables |-> e.tables, columns |-> e.columns, rows |-> e.rows]
      /\ e.version = v /\ e.tables = ts \cup {t} /\ e.rows = rs
      /\ e.columns = IF t = "events" /\ "events" \notin ts THEN Columns ELSE cs
  BY <1>1 DEF File
<1>3. StatementRank(Head(s)) = 2
  BY RanksAre
<1>4. /\ \A x : x # Head(s) => (Awaits(r, x) <=> Awaits(s, x))
      /\ \A x : Awaits(r, x) => Awaits(s, x)
  BY <1>3, StillAwaited
<1>n. 2 > 1 /\ 2 \in Int
  OBVIOUS
<1>5. \A u \in Tables : ~Awaits(s, <<"drop", u>>)
  BY <1>3, <1>n, StillAwaited
<1>6. v \in 0..5 /\ ts \subseteq Tables /\ cs \subseteq Columns /\ (v = 5 => ts = Tables) /\ OneRow(rs) /\ Covers(rs, h)
  BY DEF FileHolds, FileFits, v, ts, cs, rs
<1>7. "events" \in ts => \A c \in Columns : c \in cs \/ c \in left \/ c \in MissingOf(v)
  BY DEF FileHolds, FileFits, v, ts, cs, rs
<1>8. /\ \A u \in Tables : Awaits(s, <<"create", u>>) \/ u \in ts
      /\ \A c \in Columns : c \in cs \/ c \in left \/ (c \in Added /\ Awaits(s, <<"add", c>>)) \/ "events" \notin ts \/ Awaits(s, <<"drop", "events">>)
  BY DEF Migrating, v, ts, cs, rs
<1>9. "events" \in Tables
  BY DEF Tables
<1> HIDE DEF e, r
<1>10. FileFits(e, left)
  BY <1>2, <1>6, <1>7 DEF FileFits
<1>11. ASSUME NEW u \in Tables PROVE Awaits(r, <<"create", u>>) \/ (u \in e.tables /\ ~Awaits(r, <<"drop", u>>))
  BY <1>4, <1>5, <1>2, <1>8
<1>12. ASSUME NEW c \in Columns
      PROVE  \/ c \in e.columns \/ c \in left \/ (c \in Added /\ Awaits(r, <<"add", c>>))
             \/ Awaits(r, <<"create", "events">>) /\ ("events" \notin e.tables \/ Awaits(r, <<"drop", "events">>))
  BY <1>5, <1>9, <1>4, <1>2, <1>8
<1>13. \A u \in Tables : ~Awaits(r, <<"drop", u>>)
  BY <1>4, <1>5
<1>14. Migrating(e, r, h, left)
  BY <1>11, <1>12, <1>13 DEF Migrating
<1> QED
  BY <1>2, <1>6, <1>10, <1>14 DEF FileHolds, e, r

LEMMA AddRuns ==
  ASSUME NEW d, NEW h, NEW left, NEW s, NEW c \in Added, InRank(s, 1, 5), s # <<>>, Head(s) = <<"add", c>>,
         FileHolds(d, h, left), Migrating(d, s, h, left)
  PROVE  FileHolds(Defined(Head(s), d), h, left) /\ Migrating(Defined(Head(s), d), Tail(s), h, left)
<1> DEFINE e == Defined(Head(s), d)
           r == Tail(s)
           v == d.version
           ts == d.tables
           cs == d.columns
           rs == d.rows
<1>0. d = File(d.version, d.tables, d.columns, d.rows)
  BY DEF FileHolds, FileFits, File
<1>1. e = File(v, ts, cs \cup {c}, rs)
  <2>1. e = Defined(<<"add", c>>, File(d.version, d.tables, d.columns, d.rows))
    BY <1>0
  <2> HIDE DEF e, v, ts, cs, rs
  <2>2. Defined(<<"add", c>>, File(v, ts, cs, rs)) = File(v, ts, cs \cup {c}, rs)
    BY ColumnAdded
  <2> QED
    BY <2>1, <2>2 DEF v, ts, cs, rs
<1> HIDE DEF v, ts, cs, rs
<1>2. /\ e = [version |-> e.version, tables |-> e.tables, columns |-> e.columns, rows |-> e.rows]
      /\ e.version = v /\ e.tables = ts /\ e.rows = rs /\ e.columns = cs \cup {c}
  BY <1>1 DEF File
<1>3. StatementRank(Head(s)) = 3
  BY RanksAre
<1>4. /\ \A x : x # Head(s) => (Awaits(r, x) <=> Awaits(s, x))
      /\ \A x : Awaits(r, x) => Awaits(s, x)
  BY <1>3, StillAwaited
<1>n. 3 > 1 /\ 3 > 2 /\ 3 \in Int
  OBVIOUS
<1>d. \A u \in Tables : ~Awaits(s, <<"drop", u>>)
  BY <1>3, <1>n, StillAwaited
<1>5. \A u \in Tables : ~Awaits(s, <<"drop", u>>) /\ ~Awaits(s, <<"create", u>>)
  <2>1. \A u \in Tables : ~Awaits(s, <<"create", u>>)
    BY <1>3, <1>n, StillAwaited
  <2> QED
    BY <1>d, <2>1
<1>6. v \in 0..5 /\ ts \subseteq Tables /\ cs \subseteq Columns /\ (v = 5 => ts = Tables) /\ OneRow(rs) /\ Covers(rs, h)
  BY DEF FileHolds, FileFits, v, ts, cs, rs
<1>7. "events" \in ts => \A k \in Columns : k \in cs \/ k \in left \/ k \in MissingOf(v)
  BY DEF FileHolds, FileFits, v, ts, cs, rs
<1>8. /\ \A u \in Tables : Awaits(s, <<"create", u>>) \/ u \in ts
      /\ \A k \in Columns : k \in cs \/ k \in left \/ (k \in Added /\ Awaits(s, <<"add", k>>)) \/ Awaits(s, <<"create", "events">>)
  BY DEF Migrating, v, ts, cs, rs
<1>9. "events" \in Tables /\ Added \subseteq Columns
  BY DEF Tables, Added, Columns
<1> HIDE DEF e, r
<1>10. FileFits(e, left)
  BY <1>2, <1>6, <1>9, <1>7 DEF FileFits
<1>11. \A u \in Tables : u \in e.tables /\ ~Awaits(r, <<"drop", u>>)
  BY <1>2, <1>4, <1>5, <1>8
<1>12. ASSUME NEW k \in Columns PROVE k \in e.columns \/ k \in left \/ (k \in Added /\ Awaits(r, <<"add", k>>))
  <2>1. k \in cs \/ k \in left \/ (k \in Added /\ Awaits(s, <<"add", k>>))
    BY <1>5, <1>8, <1>9
  <2>2. CASE k = c
    BY <1>2, <2>2
  <2>3. CASE k # c
    BY <1>2, <1>4, <2>1, <2>3
  <2> QED
    BY <2>2, <2>3
<1>14. Migrating(e, r, h, left)
  BY <1>11, <1>12 DEF Migrating
<1> QED
  BY <1>2, <1>6, <1>10, <1>14 DEF FileHolds, e, r

LEMMA VersionRuns ==
  ASSUME NEW d, NEW h, NEW left, NEW s, InRank(s, 1, 5), s # <<>>, Head(s) = <<"version", "forget">> \/ Head(s) = <<"version", "write">>,
         FileHolds(d, h, left), Migrating(d, s, h, left)
  PROVE  FileHolds(Defined(Head(s), d), h, left) /\ Migrating(Defined(Head(s), d), Tail(s), h, left)
<1> DEFINE e == Defined(Head(s), d)
           r == Tail(s)
           v == d.version
           ts == d.tables
           cs == d.columns
           rs == d.rows
<1>0. d = File(d.version, d.tables, d.columns, d.rows)
  BY DEF FileHolds, FileFits, File
<1>1. e = File(0, ts, cs, rs) \/ e = File(IF v = 0 THEN 5 ELSE v, ts, cs, rs)
  BY <1>0, VersionRewritten DEF v, ts, cs, rs
<1> HIDE DEF v, ts, cs, rs
<1>6. v \in 0..5 /\ ts \subseteq Tables /\ cs \subseteq Columns /\ (v = 5 => ts = Tables) /\ OneRow(rs) /\ Covers(rs, h)
  BY DEF FileHolds, FileFits, v, ts, cs, rs
<1>2. /\ e = [version |-> e.version, tables |-> e.tables, columns |-> e.columns, rows |-> e.rows]
      /\ e.tables = ts /\ e.rows = rs /\ e.columns = cs
      /\ e.version \in 0..5
  BY <1>1, <1>6 DEF File
<1>3. StatementRank(Head(s)) = 4
  BY RanksAre
<1>4. \A x : Awaits(r, x) => Awaits(s, x)
  BY <1>3, StillAwaited
<1>5. (\A u \in Tables : ~Awaits(s, <<"drop", u>>) /\ ~Awaits(s, <<"create", u>>)) /\ \A c \in Added : ~Awaits(s, <<"add", c>>)
  BY <1>3, StillAwaited
<1>8. /\ \A u \in Tables : Awaits(s, <<"create", u>>) \/ u \in ts
      /\ \A k \in Columns : k \in cs \/ k \in left \/ (k \in Added /\ Awaits(s, <<"add", k>>)) \/ Awaits(s, <<"create", "events">>)
  BY DEF Migrating, v, ts, cs, rs
<1>9. "events" \in Tables
  BY DEF Tables
<1>10. ts = Tables /\ \A k \in Columns : k \in cs \/ k \in left
  BY <1>5, <1>6, <1>8, <1>9
<1> HIDE DEF e, r
<1>11. FileFits(e, left)
  BY <1>2, <1>6, <1>10 DEF FileFits
<1>12. \A u \in Tables : ~Awaits(r, <<"drop", u>>)
  BY <1>4, <1>5
<1>14. Migrating(e, r, h, left)
  BY <1>2, <1>10, <1>12 DEF Migrating
<1> QED
  BY <1>2, <1>6, <1>11, <1>14 DEF FileHolds, e, r

\* A statement that fails leaves the file, and its column is counted as left out.
LEMMA StatementFails ==
  ASSUME NEW d, NEW h, NEW left, NEW s, InRank(s, 1, 5), s # <<>>, Head(s)[1] \in {"drop", "create", "add", "version"},
         FileHolds(d, h, left), Migrating(d, s, h, left)
  PROVE  /\ FileHolds(d, h, left \cup (LeftOut(Head(s)) \ d.columns))
         /\ Head(s)[1] # "create" => Migrating(d, Tail(s), h, left \cup (LeftOut(Head(s)) \ d.columns))
BY TailRanked DEF FileHolds, FileFits, Migrating, Tables, LeftOut

----------------------------------------------------------------------------
(***************************************************************************)
(* The steps.                                                              *)
(***************************************************************************)

Plans == {ToUpsert, ToReconcile, ToPrune, ToStore, ToFail, ToClear}

LEMMA PlansAre ==
  /\ Head(ToUpsert)[1] = "upsert" /\ Head(ToReconcile)[1] = "reconcile" /\ Head(ToPrune)[1] = "prune"
  /\ Head(ToStore)[1] = "state" /\ Head(ToFail)[1] = "state" /\ Head(ToClear)[1] = "clear"
  /\ Head(ToStore)[2] = "ok" /\ Head(ToFail)[2] = "error"
  /\ Tail(ToUpsert) = ToReconcile /\ Tail(ToReconcile) = ToPrune /\ Tail(ToPrune) = ToStore /\ Tail(ToClear) = <<>>
  /\ \A s \in Plans : s # <<>> /\ s # <<<<"opened">>>> /\ Head(s)[1] \in {"upsert", "reconcile", "prune", "state", "clear"}
BY DEF ToUpsert, ToReconcile, ToPrune, ToStore, ToFail, ToClear, Plans

\* What runs while the cache is not open, and what its handlers run.
LEMMA StatementsAre ==
  ASSUME NEW s, InRank(s, 1, 5), s # <<>>
  PROVE  /\ Head(s)[1] \notin {"upsert", "reconcile", "prune", "state", "clear"}
         /\ Head(s)[1] = "drop" => \E t \in Tables : Head(s) = <<"drop", t>>
         /\ Head(s)[1] = "create" => \E t \in Tables : Head(s) = <<"create", t>>
         /\ Head(s)[1] = "add" => \E c \in Added : Head(s) = <<"add", c>>
         /\ Head(s)[1] = "version" => Head(s) = <<"version", "forget">> \/ Head(s) = <<"version", "write">>
BY TailRanked, StatementIs

LEMMA CachedUidsAre == \A a, u : u \in CachedUids(a) <=> HasRow(database.rows, u, a)
BY DEF CachedUids, HasRow

LEMMA CacheStart == CacheInit => CacheInv
<1> SUFFICES ASSUME CacheInit PROVE CacheInv
  OBVIOUS
<1>1. /\ cacheOpen = FALSE /\ todo = <<>> /\ time = 0
      /\ held = [a \in CacheAccounts |-> [least |-> CachedUids(a), most |-> CachedUids(a)]]
  BY DEF CacheInit
<1>2. PICK v \in 0..5, rows \in LegacyRows :
        database = [version |-> v, tables |-> IF v = 0 THEN {} ELSE Tables, columns |-> ColumnsOf(v), rows |-> IF v < 2 THEN {} ELSE rows]
  BY DEF CacheInit, CurrentVersion
<1>3. 0 \in 0..LastTime
  BY CacheAssumption
<1>4. v = 0 \/ v = 1 \/ v = 2 \/ v = 3 \/ v = 4 \/ v = 5
  OBVIOUS
<1>5. ColumnsOf(v) \subseteq Columns /\ (v # 0 => \A c \in Columns : c \in ColumnsOf(v) \/ c \in MissingOf(v))
  BY <1>4 DEF ColumnsOf, MissingOf, Columns, Added
<1>6. FileFits(database, lost)
  BY <1>2, <1>5 DEF FileFits
<1>7. OneRow(database.rows)
  BY <1>2, CacheAssumption DEF OneRow
<1>8. \A a \in CacheAccounts : held[a].least = CachedUids(a) /\ held[a].most = CachedUids(a)
  BY <1>1
<1>9. HeldFits(held)
  BY <1>1, <1>8 DEF HeldFits
<1>10. Covers(database.rows, held)
  BY <1>8, CachedUidsAre DEF HasRow, Covers
<1>11. InRank(<<>>, 1, 5)
  BY NoneRanked
<1> QED
  BY <1>1, <1>3, <1>6, <1>7, <1>9, <1>10, <1>11 DEF CacheInv

LEMMA OpenCacheInv == CacheInv /\ OpenCache => CacheInv'
<1> SUFFICES ASSUME CacheInv, OpenCache PROVE CacheInv'
  OBVIOUS
<1> DEFINE version == database.version
           s == Opening(version)
<1>1. /\ ~cacheOpen /\ todo = <<>> /\ todo' = s
      /\ held' = IF version = 1 THEN [a \in CacheAccounts |-> [held[a] EXCEPT !.least = {}]] ELSE held
      /\ database' = database /\ cacheOpen' = cacheOpen /\ time' = time /\ lost' = lost
  BY DEF OpenCache, Opening
<1>2. version \in 0..CurrentVersion /\ FileHolds(database, held, lost) /\ HeldFits(held) /\ time \in 0..LastTime /\ cacheOpen \in BOOLEAN
  BY DEF CacheInv, FileFits, FileHolds, CurrentVersion
<1>3. /\ InRank(s, 1, 5)
      /\ version # 5 => \A t \in Tables : Awaits(s, <<"create", t>>)
      /\ \A t \in Tables : Awaits(s, <<"drop", t>>) <=> version = 1
      /\ version = 2 => \A c \in Added : Awaits(s, <<"add", c>>)
      /\ version = 3 => Awaits(s, <<"add", "dtstamp">>) /\ Awaits(s, <<"add", "alarms">>)
      /\ version = 4 => Awaits(s, <<"add", "alarms">>)
  BY <1>2, OpeningIs DEF CurrentVersion
<1>4. /\ HeldFits(held') /\ Covers(database.rows, held') /\ (version = 1 => LeastIsNone(held'))
  <2>1. CASE version = 1
    <3> DEFINE g == [a \in CacheAccounts |-> [least |-> {}, most |-> held[a].most]]
    <3>1. ASSUME NEW a \in CacheAccounts PROVE [held[a] EXCEPT !.least = {}] = [least |-> {}, most |-> held[a].most]
      BY <1>2 DEF HeldFits
    <3>2. held' = g
      BY <1>1, <2>1, <3>1
    <3>3. HeldFits(g) /\ LeastIsNone(g)
      BY DEF HeldFits, LeastIsNone
    <3>4. Covers(database.rows, g)
      BY <1>2 DEF Covers, FileHolds
    <3> QED
      BY <3>2, <3>3, <3>4
  <2>2. CASE version # 1
    BY <1>1, <1>2, <2>2 DEF FileHolds
  <2> QED
    BY <2>1, <2>2
<1> HIDE DEF s
<1>5. Migrating(database, s, held', lost)
  BY <1>2, <1>3, <1>4 DEF FileHolds, FileFits, Tables, MissingOf, Added, Migrating
<1> QED
  BY <1>1, <1>2, <1>3, <1>4, <1>5 DEF CacheInv, FileHolds

LEMMA DefineInv == CacheInv /\ Define => CacheInv'
<1> SUFFICES ASSUME CacheInv, Define PROVE CacheInv'
  OBVIOUS
<1> DEFINE x == Head(todo)
<1>1. /\ todo # <<>> /\ x[1] \in {"drop", "create", "add", "version"}
      /\ cacheOpen' = cacheOpen /\ time' = time /\ held' = held
  BY DEF Define
<1>2. ~cacheOpen
  BY <1>1, PlansAre DEF CacheInv, HandlerFits, Plans
<1>3. InRank(todo, 1, 5) /\ Migrating(database, todo, held, lost) /\ FileHolds(database, held, lost)
  BY <1>1, <1>2 DEF CacheInv, FileHolds
<1>4. InRank(Tail(todo), 1, 5) /\ InRank(<<>>, 1, 5)
  BY <1>1, <1>3, TailRanked, NoneRanked
<1>5. HeldFits(held) /\ time \in 0..LastTime /\ cacheOpen \in BOOLEAN
  BY DEF CacheInv
<1>6. CASE database' = Defined(x, database) /\ todo' = Tail(todo) /\ lost' = lost
  <2>1. FileHolds(Defined(x, database), held, lost) /\ Migrating(Defined(x, database), Tail(todo), held, lost)
    BY <1>1, <1>3, StatementsAre, DropRuns, CreateRuns, AddRuns, VersionRuns
  <2> QED
    BY <1>1, <1>2, <1>4, <1>5, <1>6, <2>1 DEF CacheInv, FileHolds
<1>7. CASE /\ todo' = (IF x[1] = "create" THEN <<>> ELSE Tail(todo))
           /\ lost' = lost \cup (LeftOut(x) \ database.columns) /\ database' = database
  <2> DEFINE more == lost \cup (LeftOut(x) \ database.columns)
  <2>1. FileHolds(database, held, more) /\ (x[1] # "create" => Migrating(database, Tail(todo), held, more))
    BY <1>1, <1>3, StatementFails
  <2>2. lost' = more
    BY <1>7
  <2> HIDE DEF more
  <2>3. CASE x[1] = "create"
    BY <1>1, <1>2, <1>4, <1>5, <1>7, <2>1, <2>2, <2>3 DEF CacheInv, FileHolds
  <2>4. CASE x[1] # "create"
    BY <1>1, <1>2, <1>4, <1>5, <1>7, <2>1, <2>2, <2>4 DEF CacheInv, FileHolds
  <2> QED
    BY <2>3, <2>4
<1> QED
  BY <1>6, <1>7 DEF Define

LEMMA OpenedInv == CacheInv /\ Opened => CacheInv'
<1> SUFFICES ASSUME CacheInv, Opened PROVE CacheInv'
  OBVIOUS
<1>1. /\ todo = <<<<"opened">>>> /\ cacheOpen' = TRUE /\ todo' = <<>>
      /\ database' = database /\ time' = time /\ held' = held /\ lost' = lost
  BY DEF Opened
<1>2. todo # <<>>
  BY <1>1
<1>3. cacheOpen => todo \in Plans
  BY <1>2 DEF CacheInv, HandlerFits, Plans
<1>4. ~cacheOpen
  BY <1>1, <1>3, PlansAre
<1>5. Migrating(database, todo, held, lost) /\ FileFits(database, lost)
  BY <1>2, <1>4 DEF CacheInv
<1>6. \A y : Awaits(todo, y) <=> y = <<"opened">>
  BY <1>1, OneRanked DEF Statements
<1>7. /\ \A t \in Tables : ~Awaits(todo, <<"create", t>>)
      /\ \A c \in Added : ~Awaits(todo, <<"add", c>>)
  BY <1>6
<1>8. "events" \in Tables
  BY DEF Tables
<1>9. Whole(database, lost)
  BY <1>5, <1>7, <1>8 DEF Migrating, Whole, FileFits
<1> QED
  BY <1>1, <1>9 DEF CacheInv

LEMMA SyncAnsweredInv ==
  ASSUME CacheInv, NEW a \in CacheAccounts, NEW fresh, SyncAnswered(a, fresh) PROVE CacheInv'
<1> DEFINE rows == database.rows
           stays(b) == {u \in held[b].least : \A r \in rows : r.account = b /\ r.uid = u => KeptAt(time, r.at)}
           kept == {u \in stays(a) \cap DOMAIN fresh : KeptAt(time, fresh[u])}
           all == held[a].most \cup DOMAIN fresh
           g == [b \in CacheAccounts |-> IF b # a THEN [least |-> stays(b), most |-> held[b].most] ELSE [least |-> kept, most |-> all]]
<1>1. /\ cacheOpen /\ todo = <<>> /\ syncing' = <<a, fresh>> /\ todo' = ToUpsert
      /\ database' = database /\ cacheOpen' = cacheOpen /\ time' = time /\ lost' = lost
  BY DEF SyncAnswered, ToUpsert
<1>2. /\ FileFits(database, lost) /\ OneRow(rows) /\ HeldFits(held) /\ Covers(rows, held) /\ Whole(database, lost)
      /\ cacheOpen \in BOOLEAN /\ time \in 0..LastTime
  BY <1>1 DEF CacheInv
<1>3. \A at : Kept(at) <=> KeptAt(time, at)
  BY DEF Kept, KeptAt
<1>4. held' = g
  <2> DEFINE old(b) == {u \in held[b].least : \A r \in database.rows : r.account = b /\ r.uid = u => Kept(r.at)}
             one(b) == IF b # a THEN [held[b] EXCEPT !.least = old(b)]
                       ELSE [least |-> {u \in old(b) \cap DOMAIN fresh : Kept(fresh[u])}, most |-> held[a].most \cup DOMAIN fresh]
  <2>1. held' = [b \in CacheAccounts |-> one(b)]
    BY DEF SyncAnswered
  <2>2. ASSUME NEW b \in CacheAccounts
        PROVE  one(b) = IF b # a THEN [least |-> stays(b), most |-> held[b].most] ELSE [least |-> kept, most |-> all]
    <3>1. old(b) = stays(b)
      BY <1>3
    <3>2. CASE b = a
      <4>1. {u \in old(b) \cap DOMAIN fresh : Kept(fresh[u])} = kept
        BY <1>3, <3>1, <3>2
      <4> QED
        BY <3>2, <4>1
    <3>3. CASE b # a
      <4>1. held[b] = [least |-> held[b].least, most |-> held[b].most]
        BY <1>2 DEF HeldFits
      <4> HIDE DEF old, stays
      <4>2. [held[b] EXCEPT !.least = old(b)] = [least |-> stays(b), most |-> held[b].most]
        BY <3>1, <4>1
      <4> QED
        BY <3>3, <4>2
    <3> QED
      BY <3>2, <3>3
  <2> HIDE DEF one, stays, kept, all
  <2> QED
    BY <2>1, <2>2
<1>5. /\ \A b \in CacheAccounts : /\ g[b].least \subseteq held[b].least /\ held[b].most \subseteq g[b].most
                                  /\ \A u \in g[b].least : \A r \in rows : r.account = b /\ r.uid = u => KeptAt(time, r.at)
      /\ g[a].least \subseteq DOMAIN fresh /\ DOMAIN fresh \subseteq g[a].most /\ \A u \in g[a].least : KeptAt(time, fresh[u])
  OBVIOUS
<1>6. HeldFits(g)
  <2> HIDE DEF stays, kept, all
  <2>1. \A b \in CacheAccounts : g[b] = [least |-> g[b].least, most |-> g[b].most]
    OBVIOUS
  <2> QED
    BY <2>1 DEF HeldFits
<1> HIDE DEF g
<1>7. Covers(rows, g)
  BY <1>2, <1>5 DEF Covers
<1>8. KeepsLeast(rows, g, time) /\ FreshFits(g, a, fresh, time)
  BY <1>5 DEF KeepsLeast, FreshFits
<1>9. ToUpsert \in Plans /\ ToUpsert # ToReconcile /\ ToUpsert # ToPrune /\ ToUpsert # ToStore /\ ToUpsert # ToClear
  BY PlansAre DEF Plans
<1>10. HandlerFits(ToUpsert, rows, g, a, fresh, time)
  BY <1>8, <1>9 DEF HandlerFits, Plans
<1>11. syncing'[1] = a /\ syncing'[2] = fresh
  BY <1>1
<1> QED
  BY <1>1, <1>2, <1>4, <1>6, <1>7, <1>10, <1>11 DEF CacheInv

LEMMA AccountRemovedInv ==
  ASSUME CacheInv, NEW a \in CacheAccounts, AccountRemoved(a) PROVE CacheInv'
<1> DEFINE rows == database.rows
           g == [b \in CacheAccounts |-> IF b = a THEN [least |-> {}, most |-> held[b].most] ELSE [least |-> held[b].least, most |-> held[b].most]]
<1>1. /\ cacheOpen /\ todo = <<>> /\ syncing' = <<a, <<>>>> /\ todo' = ToClear
      /\ database' = database /\ cacheOpen' = cacheOpen /\ time' = time /\ lost' = lost
      /\ held' = [held EXCEPT ![a].least = {}]
  BY DEF AccountRemoved, ToClear
<1>2. /\ FileFits(database, lost) /\ OneRow(rows) /\ HeldFits(held) /\ Covers(rows, held) /\ Whole(database, lost)
      /\ cacheOpen \in BOOLEAN /\ time \in 0..LastTime
  BY <1>1 DEF CacheInv
<1>3. held' = g
  <2>1. DOMAIN held = CacheAccounts /\ \A b \in CacheAccounts : held[b] = [least |-> held[b].least, most |-> held[b].most]
    BY <1>2 DEF HeldFits
  <2>2. [held[a] EXCEPT !.least = {}] = [least |-> {}, most |-> held[a].most]
    BY <2>1
  <2>3. held' = [held EXCEPT ![a] = [held[a] EXCEPT !.least = {}]]
    BY <1>1, <2>1
  <2>4. held = [b \in CacheAccounts |-> held[b]]
    BY <1>2 DEF HeldFits
  <2>5. held' = [held EXCEPT ![a] = [least |-> {}, most |-> held[a].most]]
    BY <2>2, <2>3
  <2> QED
    BY <2>1, <2>4, <2>5
<1>4. g[a].least = {} /\ \A b \in CacheAccounts : (b = a \/ g[b].least = held[b].least) /\ g[b].most = held[b].most
  OBVIOUS
<1>5. HeldFits(g)
  BY DEF HeldFits
<1> HIDE DEF g
<1>6. Covers(rows, g)
  BY <1>2, <1>4 DEF Covers
<1>7. ToClear \in Plans /\ ToClear # ToReconcile /\ ToClear # ToPrune /\ ToClear # ToStore /\ ToClear # ToUpsert
  BY PlansAre DEF Plans
<1>8. HandlerFits(ToClear, rows, g, a, <<>>, time)
  BY <1>4, <1>7 DEF HandlerFits, Plans
<1>9. syncing'[1] = a /\ syncing'[2] = <<>>
  BY <1>1
<1> QED
  BY <1>1, <1>2, <1>3, <1>5, <1>6, <1>8, <1>9 DEF CacheInv

LEMMA StoreInv == CacheInv /\ StoreSyncState => CacheInv'
<1> SUFFICES ASSUME CacheInv, StoreSyncState PROVE CacheInv'
  OBVIOUS
<1> DEFINE rows == database.rows
           a == syncing[1]
           fresh == syncing[2]
           kept == {u \in DOMAIN fresh : Kept(fresh[u])}
<1>1. /\ todo # <<>> /\ Head(todo)[1] = "state" /\ todo' = <<>>
      /\ database' = database /\ cacheOpen' = cacheOpen /\ time' = time /\ lost' = lost
      /\ held' = IF Head(todo)[2] = "error" THEN held ELSE [held EXCEPT ![a] = [least |-> kept, most |-> DOMAIN fresh]]
  BY DEF StoreSyncState
<1>2. cacheOpen
  BY <1>1, StatementsAre DEF CacheInv
<1>3. /\ FileFits(database, lost) /\ OneRow(rows) /\ HeldFits(held) /\ Covers(rows, held) /\ Whole(database, lost)
      /\ cacheOpen \in BOOLEAN /\ time \in 0..LastTime /\ HandlerFits(todo, rows, held, a, fresh, time)
  BY <1>1, <1>2 DEF CacheInv
<1>4. a \in CacheAccounts /\ todo \in Plans
  BY <1>1, <1>3 DEF HandlerFits, Plans
<1>5. todo = ToStore \/ todo = ToFail
  BY PlansAre, <1>1, <1>4 DEF Plans
<1>6. HeldFits(held') /\ Covers(rows, held')
  <2>1. CASE todo = ToFail
    BY <1>1, <1>3, <2>1, PlansAre
  <2>2. CASE todo = ToStore
    <3> DEFINE g == [held EXCEPT ![a] = [least |-> kept, most |-> DOMAIN fresh]]
    <3>1. held' = g
      BY <1>1, <2>2, PlansAre
    <3>2. HasKept(rows, a, fresh, time) /\ OnlyFresh(rows, a, fresh)
      BY <1>3, <2>2 DEF HandlerFits
    <3>3. \A u : u \in kept <=> u \in DOMAIN fresh /\ KeptAt(time, fresh[u])
      BY DEF Kept, KeptAt
    <3> HIDE DEF kept, a, fresh
    <3>4. g[a].least = kept /\ g[a].most = DOMAIN fresh /\ \A b \in CacheAccounts : b # a => g[b] = held[b]
      BY <1>3, <1>4 DEF HeldFits
    <3>5. HeldFits(g)
      BY <1>3, <1>4 DEF HeldFits
    <3> HIDE DEF g
    <3>6. \A u : CachedRow(u, a, fresh[u]).uid = u /\ CachedRow(u, a, fresh[u]).account = a
      BY DEF CachedRow
    <3>7. ASSUME NEW b \in CacheAccounts, NEW u \in g[b].least PROVE HasRow(rows, u, b)
      BY <3>2, <3>3, <3>4, <3>6, <3>7, <1>3 DEF HasKept, HasRow, Covers
    <3>8. ASSUME NEW b \in CacheAccounts, NEW r \in rows, r.account = b PROVE r.uid \in g[b].most
      BY <1>3, <3>2, <3>4, <3>8 DEF Covers, OnlyFresh
    <3> QED
      BY <3>1, <3>5, <3>7, <3>8 DEF Covers
  <2> QED
    BY <1>5, <2>1, <2>2
<1> QED
  BY <1>1, <1>2, <1>3, <1>6 DEF CacheInv

LEMMA ChangeRowsInv == CacheInv /\ ChangeRows => CacheInv'
<1> SUFFICES ASSUME CacheInv, ChangeRows PROVE CacheInv'
  OBVIOUS
<1> DEFINE rows == database.rows
           a == syncing[1]
           fresh == syncing[2]
           s == Head(todo)[1]
<1>1. /\ todo # <<>> /\ s \in {"upsert", "reconcile", "prune", "clear"}
      /\ cacheOpen' = cacheOpen /\ time' = time /\ lost' = lost
      /\ syncing' = IF todo' = <<>> THEN <<>> ELSE syncing
  BY DEF ChangeRows
<1>2. cacheOpen
  BY <1>1, StatementsAre DEF CacheInv
<1>3. /\ FileFits(database, lost) /\ OneRow(rows) /\ HeldFits(held) /\ Covers(rows, held) /\ Whole(database, lost)
      /\ cacheOpen \in BOOLEAN /\ time \in 0..LastTime /\ HandlerFits(todo, rows, held, a, fresh, time)
  BY <1>1, <1>2 DEF CacheInv
<1>4. a \in CacheAccounts /\ todo \in Plans
  BY <1>1, <1>3 DEF HandlerFits, Plans
<1>5. \/ todo = ToUpsert /\ s = "upsert"
      \/ todo = ToReconcile /\ s = "reconcile"
      \/ todo = ToPrune /\ s = "prune"
      \/ todo = ToClear /\ s = "clear"
  BY <1>1, <1>4, PlansAre DEF Plans
<1>6. /\ ToFail \in Plans /\ ToFail # ToUpsert /\ ToFail # ToReconcile /\ ToFail # ToPrune /\ ToFail # ToStore /\ ToFail # ToClear
      /\ ToReconcile \in Plans /\ ToReconcile # ToUpsert /\ ToReconcile # ToPrune /\ ToReconcile # ToStore /\ ToReconcile # ToClear
      /\ ToPrune \in Plans /\ ToPrune # ToUpsert /\ ToPrune # ToStore /\ ToPrune # ToClear
      /\ ToStore \in Plans /\ ToStore # ToUpsert /\ ToStore # ToClear
  BY PlansAre DEF Plans
<1>7. \A t \in Plans : t # <<>>
  BY PlansAre
\* A transaction that fails.
<1>8. CASE /\ todo' = (IF s \in {"upsert", "reconcile"} THEN <<<<"state", "error">>>> ELSE Tail(todo))
           /\ database' = database /\ held' = held
  <2>1. CASE s \in {"upsert", "reconcile"}
    BY <1>8, <2>1, <1>4, <1>6, <1>1, <1>7, <1>2, <1>3 DEF ToFail, HandlerFits, Plans, CacheInv
  <2>2. CASE todo = ToPrune /\ s = "prune"
    <3>1. todo' = ToStore
      BY <1>8, <2>2, PlansAre
    <3>2. HasFresh(rows, a, fresh) /\ OnlyFresh(rows, a, fresh)
      BY <1>3, <2>2 DEF HandlerFits
    <3>3. HandlerFits(ToStore, rows, held, a, fresh, time)
      BY <1>4, <1>6, <3>2 DEF HandlerFits, Plans, HasFresh, HasKept
    <3>4. syncing' = syncing
      BY <1>1, <1>6, <1>7, <3>1
    <3> QED
      BY <1>1, <1>2, <1>3, <1>8, <3>1, <3>3, <3>4 DEF CacheInv
  <2>3. CASE todo = ToClear /\ s = "clear"
    BY <1>8, <2>3, PlansAre, <1>1, <1>2, <1>3 DEF CacheInv
  <2> QED
    BY <1>5, <2>1, <2>2, <2>3
\* One that succeeds.
<1>9. CASE /\ database' = [database EXCEPT !.rows = Changed(s, @, a, fresh)] /\ todo' = Tail(todo)
           /\ held' = (IF s = "clear" THEN [held EXCEPT ![a].most = {}] ELSE held)
  <2> DEFINE new == Changed(s, rows, a, fresh)
  <2>1. database' = File(database.version, database.tables, database.columns, new)
    BY <1>3, <1>9 DEF FileFits, File
  <2>2. /\ database'.version = database.version /\ database'.tables = database.tables /\ database'.columns = database.columns
        /\ database'.rows = new
    BY <2>1 DEF File
  <2>3. FileFits(database', lost) /\ Whole(database', lost)
    BY <2>1, <1>3, <2>2 DEF File, FileFits, Whole
  <2>4. CASE todo = ToUpsert /\ s = "upsert"
    <3>1. new = Upserted(rows, a, fresh)
      BY <2>4 DEF Changed
    <3>2. KeepsLeast(rows, held, time) /\ FreshFits(held, a, fresh, time)
      BY <1>3, <2>4 DEF HandlerFits
    <3>3. OneRow(new) /\ Covers(new, held) /\ KeepsLeast(new, held, time) /\ HasFresh(new, a, fresh)
      BY <1>3, <1>4, <3>2, UpsertedRows, <3>1
    <3>4. todo' = ToReconcile
      BY <1>9, <2>4, PlansAre
    <3> HIDE DEF new
    <3>5. HandlerFits(ToReconcile, new, held, a, fresh, time)
      BY <1>4, <1>6, <3>2, <3>3 DEF HandlerFits, Plans
    <3>6. syncing' = syncing /\ held' = held
      BY <1>1, <1>6, <1>7, <1>9, <2>4, <3>4
    <3> QED
      BY <1>1, <1>2, <1>3, <2>2, <2>3, <3>3, <3>4, <3>5, <3>6 DEF CacheInv
  <2>5. CASE todo = ToReconcile /\ s = "reconcile"
    <3>1. new = Reconciled(rows, a, fresh)
      BY <2>5 DEF Changed
    <3>2. KeepsLeast(rows, held, time) /\ FreshFits(held, a, fresh, time) /\ HasFresh(rows, a, fresh)
      BY <1>3, <2>5 DEF HandlerFits
    <3>3. OneRow(new) /\ Covers(new, held) /\ KeepsLeast(new, held, time) /\ HasFresh(new, a, fresh) /\ OnlyFresh(new, a, fresh)
      BY <1>3, <1>4, <3>2, ReconciledRows, <3>1
    <3>4. todo' = ToPrune
      BY <1>9, <2>5, PlansAre
    <3> HIDE DEF new
    <3>5. HandlerFits(ToPrune, new, held, a, fresh, time)
      BY <1>4, <1>6, <3>3 DEF HandlerFits, Plans
    <3>6. syncing' = syncing /\ held' = held
      BY <1>1, <1>6, <1>7, <1>9, <2>5, <3>4
    <3> QED
      BY <1>1, <1>2, <1>3, <2>2, <2>3, <3>3, <3>4, <3>5, <3>6 DEF CacheInv
  <2>6. CASE todo = ToPrune /\ s = "prune"
    <3>1. new = Pruned(rows)
      BY <2>6 DEF Changed
    <3>2. KeepsLeast(rows, held, time) /\ HasFresh(rows, a, fresh) /\ OnlyFresh(rows, a, fresh)
      BY <1>3, <2>6 DEF HandlerFits
    <3>3. OneRow(new) /\ Covers(new, held) /\ HasKept(new, a, fresh, time) /\ OnlyFresh(new, a, fresh)
      BY <1>3, <1>4, <3>2, PrunedRows, <3>1
    <3>4. todo' = ToStore
      BY <1>9, <2>6, PlansAre
    <3> HIDE DEF new
    <3>5. HandlerFits(ToStore, new, held, a, fresh, time)
      BY <1>4, <1>6, <3>3 DEF HandlerFits, Plans
    <3>6. syncing' = syncing /\ held' = held
      BY <1>1, <1>6, <1>7, <1>9, <2>6, <3>4
    <3> QED
      BY <1>1, <1>2, <1>3, <2>2, <2>3, <3>3, <3>4, <3>5, <3>6 DEF CacheInv
  <2>7. CASE todo = ToClear /\ s = "clear"
    <3>1. new = Cleared(rows, a)
      BY <2>7 DEF Changed
    <3>2. held[a].least = {}
      BY <1>3, <2>7 DEF HandlerFits
    <3>3. held' = [held EXCEPT ![a].most = {}]
      BY <1>9, <2>7
    <3>4. OneRow(new) /\ HeldFits(held') /\ Covers(new, held')
      <4> DEFINE h == held
                 b == a
                 r == rows
                 g == [held EXCEPT ![a].most = {}]
      <4>0. g = [h EXCEPT ![b].most = {}]
        OBVIOUS
      <4>1. OneRow(r) /\ Covers(r, h) /\ HeldFits(h) /\ b \in CacheAccounts /\ h[b].least = {}
        BY <1>3, <1>4, <3>2
      <4>3. held' = g
        BY <3>3
      <4> HIDE DEF h, b, r, g
      <4>2. OneRow(Cleared(r, b)) /\ HeldFits([h EXCEPT ![b].most = {}]) /\ Covers(Cleared(r, b), [h EXCEPT ![b].most = {}])
        BY <4>1, ClearedRows
      <4>4. OneRow(Cleared(r, b)) /\ HeldFits(g) /\ Covers(Cleared(r, b), g)
        BY <4>0, <4>2
      <4> QED
        BY <3>1, <4>3, <4>4 DEF b, r
    <3>5. todo' = <<>>
      BY <1>9, <2>7, PlansAre
    <3> HIDE DEF new
    <3> QED
      BY <1>1, <1>2, <1>3, <2>2, <2>3, <3>4, <3>5 DEF CacheInv
  <2> QED
    BY <1>5, <2>4, <2>5, <2>6, <2>7
<1> QED
  BY <1>8, <1>9 DEF ChangeRows

LEMMA CacheStep == CacheInv /\ [CacheNext]_cacheVars => CacheInv'
<1> SUFFICES ASSUME CacheInv, [CacheNext]_cacheVars PROVE CacheInv'
  OBVIOUS
<1>1. CASE TimeGoesOn
  BY <1>1, CacheAssumption DEF TimeGoesOn, CacheInv
<1>2. CASE ShellEnds
  <2>1. cacheOpen' = FALSE /\ todo' = <<>> /\ database' = database /\ time' = time /\ held' = held /\ lost' = lost
    BY <1>2 DEF ShellEnds
  <2>2. InRank(<<>>, 1, 5)
    BY NoneRanked
  <2> QED
    BY <2>1, <2>2 DEF CacheInv
<1>3. CASE UNCHANGED cacheVars
  BY <1>3 DEF cacheVars, CacheInv
<1> QED
  BY <1>1, <1>2, <1>3, OpenCacheInv, DefineInv, OpenedInv, ChangeRowsInv, StoreInv, SyncAnsweredInv, AccountRemovedInv DEF CacheNext

LEMMA CacheIsKept == CacheInv => CacheTypeOK /\ OpenCacheIsWhole /\ SyncDropsOnlyTheGone
BY CachedUidsAre DEF CacheInv, CacheTypeOK, FileFits, OneRow, CurrentVersion, OpenCacheIsWhole, Whole, Covers, HasRow,
   SyncDropsOnlyTheGone

----------------------------------------------------------------------------
(***************************************************************************)
(* Reminders.                                                              *)
(***************************************************************************)

Reminding == Reminded \X (StartMinutes \cup {NoStart}) \X ReminderKinds
Minutes == [at : 0..LastMinute, timer : BOOLEAN, looked : BOOLEAN]
Announcements == [sent : SUBSET Reminding, missed : SUBSET Reminding, moves : 0..MaxMoves]

\* Of those in rec one is of the event's key.
ToldOfKey(rec, e, kind) == \E t \in rec : t[3] = kind /\ Key(t[1]) = Key(e)
Recorded == announced.sent \cup announced.missed

\* What was fired was recorded; what is near was looked at this minute, and what was near
\* or has begun a minute ago was seen in time.
FiredIsRecorded == \A e \in Reminded, kind \in ReminderKinds : <<Key(e), kind>> \in fired => ToldOfKey(Recorded, e, kind)
LookedAt == minute.looked => \A e \in Reminded : InQuery(e) => ToldOfKey(Recorded, e, KindOf(e))
SeenNear == \A e \in Reminded : agenda[e] # NoStart /\ agenda[e] < minute.at + NotifyWindow - 1 => ToldOfKey(Recorded, e, "15min")
SeenBegun == \A e \in Reminded : agenda[e] # NoStart /\ agenda[e] < minute.at => ToldOfKey(Recorded, e, "now")

RemindersInv ==
  /\ agenda \in [Reminded -> StartMinutes \cup {NoStart}] /\ minute \in Minutes /\ announced \in Announcements
  /\ FiredIsRecorded /\ LookedAt /\ SeenNear /\ SeenBegun

LEMMA StartsAreIntegers ==
  /\ NoStart \in Int /\ \A n \in Nat : NoStart < n - 1
  /\ \A s \in StartMinutes \cup {NoStart} : s \in Int
BY RemindersAssumption DEF NoStart

\* What is late for a start is told of.
LEMMA LateIsTold ==
  ASSUME NEW e \in Reminded, NEW start \in StartMinutes, start < minute.at + NotifyWindow, NEW rec, Late(e, start) \subseteq rec
  PROVE  ToldOfKey(rec, e, "15min") /\ ToldOfKey(rec, e, "now")
<1>1. <<e, start, "15min">> \in rec /\ <<e, start, "now">> \in rec
  BY DEF Late, ReminderKinds
<1> QED
  BY <1>1 DEF ToldOfKey

LEMMA LateIsTyped ==
  ASSUME NEW e \in Reminded, NEW start \in StartMinutes \cup {NoStart}
  PROVE  Late(e, start) \subseteq Reminding
BY DEF Late, Reminding

LEMMA DueIsTyped ==
  ASSUME agenda \in [Reminded -> StartMinutes \cup {NoStart}]
  PROVE  Due \subseteq Reminding
BY DEF Due, Reminding, KindOf, ReminderKinds

LEMMA DueIsTold ==
  ASSUME NEW rec, Due \subseteq rec
  PROVE  \A e \in Reminded : InQuery(e) => ToldOfKey(rec, e, KindOf(e))
<1> SUFFICES ASSUME NEW e \in Reminded, InQuery(e) PROVE ToldOfKey(rec, e, KindOf(e))
  OBVIOUS
<1>1. <<e, agenda[e], KindOf(e)>> \in rec
  BY DEF Due
<1> QED
  BY <1>1 DEF ToldOfKey

LEMMA ToldGrows ==
  ASSUME NEW rec, NEW more, rec \subseteq more
  PROVE  \A e \in Reminded, kind \in ReminderKinds : ToldOfKey(rec, e, kind) => ToldOfKey(more, e, kind)
BY DEF ToldOfKey

LEMMA RemindersStart == ReminderInit => RemindersInv
BY RemindersAssumption, LateIsTyped, LateIsTold, StartsAreIntegers DEF ReminderInit, Minutes, Announcements, Recorded,
   SeenNear, SeenBegun, FiredIsRecorded, LookedAt, RemindersInv

\* Of what is due and was not fired, one of the key is announced.
LEMMA DueIsAnnounced ==
  ASSUME RemindersInv, NEW e \in Reminded, InQuery(e), <<Key(e), KindOf(e)>> \notin fired
  PROVE  \E t \in Announces : t[3] = KindOf(e) /\ Key(t[1]) = Key(e)
<1> DEFINE kind == KindOf(e)
           alike == {x \in Reminded : InQuery(x) /\ Key(x) = Key(e) /\ KindOf(x) = kind}
           starts == {agenda[x] + 1 : x \in alike}
<1> USE RemindersAssumption
<1>0. minute.at \in Nat
  BY DEF RemindersInv, Minutes
<1>1. minute.at \in Nat /\ \A x \in Reminded : agenda[x] \in Int
  BY <1>0, StartsAreIntegers DEF RemindersInv
<1>2. \A x \in alike : agenda[x] + 1 \in Nat
  BY <1>1 DEF InQuery
<1>3. e \in alike
  OBVIOUS
<1>4. starts \subseteq Nat /\ starts # {}
  BY <1>2, <1>3
<1> HIDE DEF alike
<1>5. PICK k \in starts : \A l \in starts : k <= l
  BY <1>4, LeastOf
<1>6. PICK x \in alike : k = agenda[x] + 1
  BY <1>5
<1>7. \A y \in alike : agenda[x] <= agenda[y]
  <2> SUFFICES ASSUME NEW y \in alike PROVE agenda[x] <= agenda[y]
    OBVIOUS
  <2>1. agenda[x] + 1 <= agenda[y] + 1
    BY <1>5, <1>6
  <2>2. agenda[x] \in Int /\ agenda[y] \in Int
    BY <1>1 DEF alike
  <2> QED
    BY <2>1, <2>2
<1> DEFINE t == <<x, agenda[x], kind>>
<1>8. x \in Reminded /\ InQuery(x) /\ Key(x) = Key(e) /\ KindOf(x) = kind
  BY DEF alike
<1>9. t \in Due
  BY <1>8 DEF Due
<1>10. ASSUME NEW s \in Due, Key(s[1]) = Key(t[1]), s[3] = t[3] PROVE t[2] <= s[2]
  BY <1>8, <1>10, <1>7 DEF Due, alike
<1>11. t \in Announces
  BY <1>8, <1>9, <1>10 DEF Announces
<1> QED
  BY <1>8, <1>11

LEMMA RemindersStep ==
  ASSUME RemindersInv, [ReminderNext]_reminderVars
  PROVE  RemindersInv'
<1> USE RemindersAssumption
<1>0. /\ agenda \in [Reminded -> StartMinutes \cup {NoStart}] /\ minute \in Minutes /\ announced \in Announcements
      /\ FiredIsRecorded /\ LookedAt /\ SeenNear /\ SeenBegun
  BY DEF RemindersInv
<1>t. minute.at \in 0..LastMinute /\ minute.looked \in BOOLEAN /\ minute.timer \in BOOLEAN
  BY <1>0 DEF Minutes
<1>u. \A n \in 0..LastMinute : n \in Nat
  OBVIOUS
<1>v. announced.sent \subseteq Reminding /\ announced.missed \subseteq Reminding /\ announced.moves \in 0..MaxMoves
  BY <1>0 DEF Announcements
<1>1. /\ minute.at \in 0..LastMinute /\ minute.at \in Nat /\ minute.looked \in BOOLEAN /\ minute.timer \in BOOLEAN
      /\ \A e \in Reminded : agenda[e] \in Int /\ agenda[e] \in StartMinutes \cup {NoStart}
      /\ announced.sent \subseteq Reminding /\ announced.missed \subseteq Reminding /\ announced.moves \in 0..MaxMoves
  BY <1>0, <1>t, <1>u, <1>v, StartsAreIntegers
\* What is recorded stays; where the agenda and the clock do, too, so does all that was seen.
<1>a. ASSUME agenda' = agenda, Recorded \subseteq Recorded', minute'.at = minute.at,
             fired' \subseteq fired, minute'.looked = minute.looked, minute' \in Minutes, announced' \in Announcements
      PROVE  RemindersInv'
  BY <1>a, ToldGrows, <1>0 DEF ReminderKinds, KindOf, FiredIsRecorded, InQuery, LookedAt, SeenNear, SeenBegun,
     RemindersInv
\* Everything due is recorded, and the minute counts as looked at.
<1>b. ASSUME agenda' = agenda, Recorded \subseteq Recorded', minute'.at = minute.at,
             \A e \in Reminded : InQuery(e) => ToldOfKey(Recorded', e, KindOf(e)),
             FiredIsRecorded', minute' \in Minutes, announced' \in Announcements
      PROVE  RemindersInv'
  BY <1>b, ToldGrows, <1>0 DEF ReminderKinds, InQuery, KindOf, LookedAt, SeenNear, SeenBegun, RemindersInv
<1>2. CASE DispatchNotifications
  <2>1. PICK told \in SUBSET Announces :
          /\ \A t \in Announces : \E s \in told : Key(s[1]) = Key(t[1]) /\ s[3] = t[3]
          /\ fired' = fired \cup {<<Key(t[1]), t[3]>> : t \in told}
          /\ \/ announced' = [announced EXCEPT !.sent = @ \cup told]
             \/ announced' = [announced EXCEPT !.missed = @ \cup told]
    BY <1>2 DEF DispatchNotifications
  <2>2. agenda' = agenda /\ minute' = [minute EXCEPT !.looked = TRUE]
    BY <1>2 DEF DispatchNotifications
  <2>3. told \subseteq Reminding
    BY <1>0, <2>1, DueIsTyped DEF Announces
  <2>4. announced' \in Announcements /\ Recorded' = Recorded \cup told
    BY <1>0, <1>1, <2>3, <2>1 DEF Announcements, Recorded
  <2>5. minute' \in Minutes /\ minute'.at = minute.at
    BY <1>0, <2>2 DEF Minutes
  <2>6. FiredIsRecorded'
    BY <1>0, <2>4, ToldGrows, <2>1 DEF FiredIsRecorded, ToldOfKey
  <2>7. ASSUME NEW e \in Reminded, InQuery(e) PROVE ToldOfKey(Recorded', e, KindOf(e))
    <3>0. KindOf(e) \in ReminderKinds
      BY DEF KindOf, ReminderKinds
    <3>1. CASE <<Key(e), KindOf(e)>> \in fired
      BY <1>0, <3>0, <3>1, <2>4, ToldGrows DEF FiredIsRecorded
    <3>2. CASE <<Key(e), KindOf(e)>> \notin fired
      BY <2>7, <3>2, DueIsAnnounced, <2>1, <2>4 DEF ToldOfKey
    <3> QED
      BY <3>1, <3>2
  <2> QED
    BY <1>b, <2>2, <2>4, <2>5, <2>6, <2>7
<1>3. CASE MinutePasses
  <2>1. /\ minute.at < LastMinute /\ (minute.timer => minute.looked) /\ agenda' = agenda /\ fired' = fired
        /\ minute' = [minute EXCEPT !.at = minute.at + 1, !.looked = FALSE]
        /\ announced' = IF minute.timer THEN announced ELSE [announced EXCEPT !.missed = announced.missed \cup Due]
    BY <1>3 DEF MinutePasses
  <2>2. minute' \in Minutes /\ minute'.at = minute.at + 1 /\ ~minute'.looked
    <3>1. minute.at + 1 \in 0..LastMinute
      BY <1>1, <2>1
    <3> QED
      BY <1>0, <2>1, <3>1 DEF Minutes
  <2>3. /\ announced' \in Announcements /\ Recorded \subseteq Recorded'
        /\ \A e \in Reminded : InQuery(e) => ToldOfKey(Recorded', e, KindOf(e))
    <3>1. CASE minute.timer
      BY <1>0, <2>1, <3>1 DEF LookedAt, Recorded
    <3>2. CASE ~minute.timer
      BY <1>0, <2>1, <3>2, DueIsTyped, <1>1, DueIsTold DEF Announcements, Recorded
    <3> QED
      BY <3>1, <3>2
  <2>4. \A e \in Reminded, kind \in ReminderKinds : ToldOfKey(Recorded, e, kind) => ToldOfKey(Recorded', e, kind)
    BY <2>3, ToldGrows
  <2>5. FiredIsRecorded' /\ LookedAt'
    BY <1>0, <2>1, <2>2, <2>4 DEF FiredIsRecorded, LookedAt
  <2>6. SeenNear'
    BY <2>1, <2>2, <1>0, <2>4, <1>1, <2>3 DEF SeenNear, ReminderKinds, InQuery, KindOf
  <2>7. SeenBegun'
    BY <2>1, <2>2, <1>0, <2>4, <1>1, <2>3 DEF SeenBegun, ReminderKinds, InQuery, KindOf
  <2> QED
    BY <1>0, <2>1, <2>2, <2>3, <2>5, <2>6, <2>7 DEF RemindersInv
<1>4. CASE TimerStarted
  <2>1. /\ agenda' = agenda /\ fired' = fired /\ minute' = [minute EXCEPT !.timer = TRUE, !.looked = TRUE]
        /\ announced' = [announced EXCEPT !.missed = announced.missed \cup Due]
    BY <1>4 DEF TimerStarted
  <2>2. minute' \in Minutes /\ minute'.at = minute.at
    BY <1>0, <2>1 DEF Minutes
  <2>0. Due \subseteq Reminding
    BY <1>0, DueIsTyped
  <2> DEFINE due == Due
  <2> HIDE DEF due
  <2>3. announced' \in Announcements /\ announced'.missed = announced.missed \cup due /\ announced'.sent = announced.sent
    BY <1>0, <1>1, <2>0, <2>1 DEF Announcements, due
  <2>4. Recorded \subseteq Recorded' /\ Due \subseteq Recorded'
    BY <2>3 DEF Recorded, due
  <2>5. \A e \in Reminded : InQuery(e) => ToldOfKey(Recorded', e, KindOf(e))
    BY <2>4, DueIsTold
  <2>6. FiredIsRecorded'
    BY <1>0, <2>1, <2>4, ToldGrows DEF FiredIsRecorded
  <2> QED
    BY <1>b, <2>1, <2>2, <2>3, <2>4, <2>5, <2>6
<1>5. CASE TimerStopped
  <2>1. UNCHANGED <<agenda, fired, announced>> /\ minute' = [minute EXCEPT !.timer = FALSE]
    BY <1>5 DEF TimerStopped
  <2>2. minute' \in Minutes /\ minute'.at = minute.at /\ minute'.looked = minute.looked
    BY <1>0, <2>1 DEF Minutes
  <2>3. Recorded' = Recorded
    BY <2>1 DEF Recorded
  <2> QED
    BY <1>0, <1>a, <2>1, <2>2, <2>3
<1>6. CASE RemindersRestart
  <2>1. /\ fired' = {} /\ agenda' = agenda /\ minute' = [minute EXCEPT !.timer = FALSE]
        /\ announced.moves < MaxMoves /\ announced' = [announced EXCEPT !.moves = announced.moves + 1]
    BY <1>6 DEF RemindersRestart
  <2>2. minute' \in Minutes /\ minute'.at = minute.at /\ minute'.looked = minute.looked
    BY <1>0, <2>1 DEF Minutes
  <2>3. announced' \in Announcements /\ announced'.missed = announced.missed /\ announced'.sent = announced.sent
    BY <1>1, <2>1, <1>0 DEF Announcements
  <2>4. Recorded' = Recorded
    BY <2>3 DEF Recorded
  <2> QED
    BY <1>a, <2>1, <2>2, <2>3, <2>4
<1>7. ASSUME NEW e \in Reminded, NEW start \in StartMinutes \cup {NoStart}, AgendaChanged(e, start) PROVE RemindersInv'
  <2>1. /\ announced.moves < MaxMoves /\ agenda' = [agenda EXCEPT ![e] = start] /\ minute' = minute /\ fired' = fired
        /\ announced' = [announced EXCEPT !.moves = announced.moves + 1, !.missed = announced.missed \cup Late(e, start)]
    BY <1>7 DEF AgendaChanged
  <2> DEFINE late == Late(e, start)
  <2>2. late \subseteq Reminding
    BY <1>7, LateIsTyped
  <2>0. announced.moves + 1 \in 0..MaxMoves /\ announced' = [announced EXCEPT !.moves = announced.moves + 1, !.missed = announced.missed \cup late]
    BY <1>1, <2>1
  <2> HIDE DEF late
  <2>3. /\ announced' \in Announcements /\ announced'.missed = announced.missed \cup late
        /\ announced'.sent = announced.sent
    BY <1>0, <1>1, <2>0, <2>2 DEF Announcements
  <2>4. Recorded \subseteq Recorded' /\ late \subseteq Recorded'
    BY <2>3 DEF Recorded
  <2>5. \A x \in Reminded, kind \in ReminderKinds : ToldOfKey(Recorded, x, kind) => ToldOfKey(Recorded', x, kind)
    BY <2>4, ToldGrows
  <2>6. agenda' \in [Reminded -> StartMinutes \cup {NoStart}] /\ agenda'[e] = start /\ \A x \in Reminded \ {e} : agenda'[x] = agenda[x]
    BY <1>0, <1>7, <2>1
  <2>7. start # NoStart /\ start < minute.at + NotifyWindow => ToldOfKey(Recorded', e, "15min") /\ ToldOfKey(Recorded', e, "now")
    BY <1>7, <2>4, LateIsTold DEF late
  <2>8. FiredIsRecorded'
    BY <1>0, <2>1, <2>5 DEF FiredIsRecorded
  <2>9. start \in Int /\ NoStart \in Int /\ ~(NoStart >= minute.at - 1)
    BY <1>1, <1>7, StartsAreIntegers
  <2>10. LookedAt'
    BY <2>1, <2>6, <2>9, <2>7, <1>0, <2>5 DEF LookedAt, InQuery, KindOf, ReminderKinds
  <2>11. SeenNear' /\ SeenBegun'
    BY <1>0, <2>5, <2>6, <1>1, <2>9, <2>1, <2>7 DEF ReminderKinds, SeenNear, SeenBegun
  <2> QED
    BY <1>0, <2>1, <2>3, <2>6, <2>8, <2>10, <2>11 DEF RemindersInv
<1>8. CASE UNCHANGED reminderVars
  BY <1>8, <1>0, <1>a DEF reminderVars, Recorded
<1> QED
  BY <1>2, <1>3, <1>4, <1>5, <1>6, <1>7, <1>8 DEF ReminderNext

LEMMA RemindersAreGiven ==
  ASSUME RemindersInv
  PROVE  ReminderTypeOK /\ RemindedUnlessMoved
<1> USE RemindersAssumption
<1>1. /\ minute.at \in Nat /\ \A e \in Reminded : agenda[e] \in Int
      /\ Recorded \subseteq Reminding
  <2>1. minute.at \in 0..LastMinute /\ announced.sent \subseteq Reminding /\ announced.missed \subseteq Reminding
    BY DEF RemindersInv, Minutes, Announcements
  <2>2. minute.at \in Nat
    BY <2>1
  <2> QED
    BY <2>1, <2>2, StartsAreIntegers DEF RemindersInv, Recorded
<1>2. ReminderTypeOK
  BY DEF RemindersInv, Minutes, Announcements, ReminderTypeOK
<1>3. RemindedUnlessMoved
  BY <1>1 DEF RemindedUnlessMoved, Recorded, RemindersInv, SeenNear, SeenBegun, ReminderKinds, ToldOfKey, Reminding
<1> QED
  BY <1>2, <1>3

----------------------------------------------------------------------------
(* The launcher.                                                           *)

\* Until a scan has read the directory one is due when it has changed, and a scan that
\* has read it and is to be shown either found what is there or is followed by another.
ScanIsDue ==
  /\ launcherScan.rerun => launcherScan.future # "idle"
  /\ launcherScan.future \in {"read", "ended"} =>
       launcherScan.found = appDisk \/ launcherScan.debounce \/ launcherScan.later \/ launcherScan.rerun
  /\ launcherScan.future = "idle" =>
       launcher.entries = Sorted(appDisk) \/ launcherScan.debounce \/ launcherScan.later

RowsAreTheEntries(l) ==
  /\ l.rows = RowsOf(l.entries, l.query)
  /\ l.selected \in (IF l.rows = <<>> THEN {0} ELSE 1..Len(l.rows))
  /\ Len(l.entries) <= Len(AppOrder)

RecentIsKept == IsInjective(recentApps) /\ Len(recentApps) <= MaxRecent

\* The launcher at rest between two steps.
LauncherInv ==
  /\ LauncherTypeOK
  /\ ~launcher.started => launcher = Stopped /\ launcherScan = ScanAtRest
  /\ launcher.started => ScanIsDue
  /\ RowsAreTheEntries(launcher)
  /\ RecentIsKept

\* The names in their order, as many as there are at most.
LEMMA SortedIsAList ==
  ASSUME NEW apps
  PROVE  Sorted(apps) \in Seq(Apps) /\ Len(Sorted(apps)) \in Nat /\ Len(Sorted(apps)) <= Len(AppOrder) /\ Len(AppOrder) \in Nat
BY LauncherAssumption, ElementsInProperties DEF Sorted

\* The rows of a list: each of an entry of it, at most two of each.
LEMMA RowsAreRows ==
  ASSUME NEW entries \in Seq(Apps), Len(entries) <= Len(AppOrder), NEW query \in BOOLEAN
  PROVE  /\ RowsOf(entries, query) \in Seq(Rows) /\ Len(RowsOf(entries, query)) \in Nat
         /\ Len(RowsOf(entries, query)) <= 2 * Len(AppOrder)
<1> DEFINE n == Len(entries)
           places == [i \in 1..Len(entries) |-> i]
           found == {i \in 1..Len(entries) : query => entries[i] \in Matching}
           withAction == {i \in 1..Len(entries) : query /\ entries[i] \in WithAction}
           shown == ElementsIn(places, found)
           acting == ElementsIn(shown, withAction)
<1>1. n \in Nat /\ Len(AppOrder) \in Nat /\ n <= Len(AppOrder)
  BY LauncherAssumption
<1>2. places \in Seq(1..n) /\ Len(places) = n
  BY <1>1
<1>3. shown \in Seq(1..n) /\ Len(shown) \in Nat /\ Len(shown) <= n
  <2> HIDE DEF places, found
  <2> QED BY <1>2, ElementsInProperties
<1>4. acting \in Seq(1..n) /\ Len(acting) \in Nat /\ Len(acting) <= n
  BY <1>3, ElementsInProperties
<1> DEFINE upper == [i \in 1..Len(shown) |-> [entry |-> shown[i], action |-> FALSE]]
           lower == [i \in 1..Len(acting) |-> [entry |-> acting[i], action |-> TRUE]]
<1>5. RowsOf(entries, query) = upper \o lower
  BY DEF RowsOf
<1> HIDE DEF places, found, withAction, shown, acting
<1>6. upper \in Seq(Rows) /\ Len(upper) = Len(shown)
  BY <1>1, <1>3 DEF Rows
<1>7. lower \in Seq(Rows) /\ Len(lower) = Len(acting)
  BY <1>1, <1>4 DEF Rows
<1> HIDE DEF upper, lower
<1>8. upper \o lower \in Seq(Rows) /\ Len(upper \o lower) = Len(upper) + Len(lower)
  BY <1>6, <1>7
<1> QED
  BY <1>1, <1>3, <1>4, <1>5, <1>6, <1>7, <1>8

\* What is kept of a list without repetition has none.
LEMMA KeptAreDistinct ==
  ASSUME NEW T, NEW s \in Seq(T), IsInjective(s), NEW E
  PROVE  IsInjective(ElementsIn(s, E))
<1> DEFINE t == ElementsIn(s, E)
<1>1. /\ t \in Seq(T) /\ Len(t) \in Nat
      /\ \A k, l \in 1..Len(t) : k < l => \E i, j \in 1..Len(s) : i < j /\ t[k] = s[i] /\ t[l] = s[j]
  BY ElementsInProperties
<1>2. \A i, j \in 1..Len(s) : i < j => s[i] # s[j]
  BY DEF IsInjective
<1> HIDE DEF t
<1>3. \A k, l \in 1..Len(t) : k < l => t[k] # t[l]
  BY <1>1, <1>2
<1>4. \A k, l \in 1..Len(t) : t[k] = t[l] => k = l
  BY <1>1, <1>3
<1>5. DOMAIN t = 1..Len(t)
  BY <1>1
<1>6. IsInjective(t)
  BY <1>4, <1>5 DEF IsInjective
<1> QED BY <1>6 DEF t

LEMMA RecentIsCut ==
  ASSUME RecentIsKept, recentApps \in Seq(Apps), NEW E, recentApps' = ElementsIn(recentApps, E)
  PROVE  recentApps' \in Seq(Apps) /\ RecentIsKept'
BY ElementsInProperties, KeptAreDistinct, LauncherAssumption DEF RecentIsKept

\* What is launched is the last of the remembered, and there once.
LEMMA RememberedIsKept ==
  ASSUME RecentIsKept, recentApps \in Seq(Apps), NEW a \in Apps
  PROVE  /\ Remembered(a) \in Seq(Apps) /\ IsInjective(Remembered(a)) /\ Len(Remembered(a)) <= MaxRecent
<1> DEFINE others == ElementsIn(recentApps, Apps \ {a})
           recent == Append(others, a)
<1>1. /\ others \in Seq(Apps) /\ Len(others) \in Nat /\ Len(others) <= Len(recentApps)
      /\ \A k \in 1..Len(others) : others[k] \in Apps \ {a}
  BY ElementsInProperties
<1>2. IsInjective(others)
  BY KeptAreDistinct DEF RecentIsKept
<1>3. Remembered(a) = IF Len(recent) > MaxRecent THEN Tail(recent) ELSE recent
  BY DEF Remembered
<1> HIDE DEF others
<1>4. \A k \in 1..Len(others) : others[k] # a
  BY <1>1
<1>5. /\ recent \in Seq(Apps) /\ Len(recent) = Len(others) + 1
      /\ recent[Len(others) + 1] = a
      /\ \A k \in 1..Len(others) : recent[k] = others[k]
  BY <1>1
<1> HIDE DEF recent
<1>6. \A k, l \in 1..Len(others) : others[k] = others[l] => k = l
  BY <1>1, <1>2 DEF IsInjective
<1>7. \A k, l \in 1..Len(recent) : recent[k] = recent[l] => k = l
  <2> SUFFICES ASSUME NEW k \in 1..Len(recent), NEW l \in 1..Len(recent), recent[k] = recent[l] PROVE k = l
    OBVIOUS
  <2>1. CASE k = Len(others) + 1 /\ l = Len(others) + 1
    BY <2>1
  <2>2. CASE k = Len(others) + 1 /\ l # Len(others) + 1
    BY <2>2, <1>1, <1>5
  <2>3. CASE k # Len(others) + 1 /\ l = Len(others) + 1
    BY <2>3, <1>1, <1>5
  <2>4. CASE k # Len(others) + 1 /\ l # Len(others) + 1
    <3>1. k \in 1..Len(others) /\ l \in 1..Len(others)
      BY <2>4, <1>1, <1>5
    <3> QED BY <3>1, <1>5, <1>6
  <2> QED BY <2>1, <2>2, <2>3, <2>4
<1>8. MaxRecent \in Nat /\ Len(recentApps) <= MaxRecent /\ Len(recentApps) \in Nat /\ Len(recent) \in Nat
  BY LauncherAssumption, <1>5, <1>1 DEF RecentIsKept
<1>9. CASE Len(recent) > MaxRecent
  BY <1>5, <1>8, <1>1, <1>7, <1>3, <1>9 DEF IsInjective
<1>10. CASE ~(Len(recent) > MaxRecent)
  <2>1. Remembered(a) = recent
    BY <1>3, <1>10
  <2>2. IsInjective(recent)
    BY <1>5, <1>7 DEF IsInjective
  <2> QED BY <2>1, <2>2, <1>5, <1>8, <1>10
<1> QED BY <1>9, <1>10

LauncherRecord(l) ==
  /\ l.started \in BOOLEAN /\ l.entries \in Seq(Apps) /\ l.rows \in Seq(Rows) /\ l.query \in BOOLEAN
  /\ l.selected \in 0..2 * Len(AppOrder) /\ l.launching \in Apps \cup {"none"}
  /\ l = [started |-> l.started, entries |-> l.entries, rows |-> l.rows, query |-> l.query, selected |-> l.selected,
          launching |-> l.launching]

LEMMA RecordIsTyped ==
  ASSUME NEW l
  PROVE  LauncherRecord(l) <=>
           l \in [started : BOOLEAN, entries : Seq(Apps), rows : Seq(Rows), query : BOOLEAN,
                  selected : 0..2 * Len(AppOrder), launching : Apps \cup {"none"}]
BY DEF LauncherRecord

\* Whatever was selected, the first row, the same one or the last is.
LEMMA ReselectedInRange ==
  ASSUME NEW l, LauncherRecord(l), NEW entries \in Seq(Apps), Len(entries) <= Len(AppOrder)
  PROVE  Reselected(entries, l) \in (IF RowsOf(entries, l.query) = <<>> THEN {0} ELSE 1..Len(RowsOf(entries, l.query)))
<1> DEFINE old == l.rows[l.selected]
           rows == RowsOf(entries, l.query)
           same == {i \in 1..Len(rows) : entries[rows[i].entry] = entries[old.entry] /\ rows[i].action = old.action}
<1>1. l.query \in BOOLEAN /\ l.selected \in Nat
  BY SortedIsAList DEF LauncherRecord
<1>2. rows \in Seq(Rows) /\ Len(rows) \in Nat
  BY <1>1, RowsAreRows
<1>3. Reselected(entries, l) =
        IF l.selected = 0 \/ rows = <<>> THEN FirstRow(rows)
        ELSE IF old.entry > Len(entries) \/ (old.action /\ entries[old.entry] \notin WithAction) THEN 1
        ELSE IF same # {} THEN CHOOSE i \in same : \A j \in same : i <= j
        ELSE IF l.selected <= Len(rows) THEN l.selected ELSE Len(rows)
  BY DEF Reselected
<1>4. same \subseteq 1..Len(rows)
  OBVIOUS
<1> HIDE DEF same, rows, old
<1>5. rows # <<>> => 1 \in 1..Len(rows) /\ Len(rows) \in 1..Len(rows)
  BY <1>2
<1>6. same # {} => (CHOOSE i \in same : \A j \in same : i <= j) \in same
  <2>1. same \subseteq Nat
    BY <1>4, <1>2
  <2> QED BY <2>1, LeastOf
<1>7. CASE rows = <<>>
  BY <1>7, <1>3 DEF FirstRow, rows
<1>8. CASE rows # <<>>
  <2>1. Reselected(entries, l) \in 1..Len(rows)
    <3>1. CASE l.selected = 0
      BY <3>1, <1>3, <1>5, <1>8 DEF FirstRow
    <3>2. CASE l.selected # 0 /\ same # {}
      BY <3>2, <1>3, <1>4, <1>5, <1>6, <1>8
    <3>3. CASE l.selected # 0 /\ same = {}
      <4>1. l.selected <= Len(rows) => l.selected \in 1..Len(rows)
        BY <1>1, <1>2, <3>3
      <4> QED BY <3>3, <4>1, <1>3, <1>5, <1>8
    <3> QED BY <3>1, <3>2, <3>3
  <2> QED BY <2>1, <1>8 DEF rows
<1> QED BY <1>7, <1>8

\* setEntries: the rows are those of the new list.
LEMMA EntriesAreSet ==
  ASSUME NEW apps, NEW l, LauncherRecord(l), SetEntries(apps, l), RecentIsKept, recentApps \in Seq(Apps)
  PROVE  /\ LauncherRecord(launcher') /\ launcher'.entries = Sorted(apps) /\ launcher'.started = l.started
         /\ RowsAreTheEntries(launcher')
         /\ recentApps' \in Seq(Apps) /\ RecentIsKept'
<1> DEFINE entries == Sorted(apps)
           rows == RowsOf(entries, l.query)
           selected == Reselected(entries, l)
<1>1. entries \in Seq(Apps) /\ Len(entries) <= Len(AppOrder) /\ Len(AppOrder) \in Nat /\ l.query \in BOOLEAN
  BY SortedIsAList DEF LauncherRecord
<1>2. rows \in Seq(Rows) /\ Len(rows) \in Nat /\ Len(rows) <= 2 * Len(AppOrder)
  <2> HIDE DEF entries
  <2> QED BY <1>1, RowsAreRows
<1>3. selected \in (IF rows = <<>> THEN {0} ELSE 1..Len(rows))
  <2> HIDE DEF entries
  <2> QED BY <1>1, ReselectedInRange
<1>4. launcher' = [l EXCEPT !.entries = entries, !.rows = rows, !.selected = selected]
  BY DEF SetEntries
<1>5. recentApps' = ElementsIn(recentApps, apps)
  BY DEF SetEntries
<1> HIDE DEF rows, selected, entries
<1>6. selected \in 0..2 * Len(AppOrder)
  BY <1>1, <1>2, <1>3
<1>7. launcher' = [started |-> l.started, entries |-> entries, rows |-> rows, query |-> l.query, selected |-> selected,
                   launching |-> l.launching]
  BY <1>4 DEF LauncherRecord
<1>8. LauncherRecord(launcher')
  BY <1>1, <1>2, <1>6, <1>7 DEF LauncherRecord
<1>9. RowsAreTheEntries(launcher')
  BY <1>1, <1>3, <1>7 DEF RowsAreTheEntries, rows
<1> QED
  BY <1>5, <1>7, <1>8, <1>9, RecentIsCut DEF entries

ScanRecord(v) ==
  /\ v.future \in {"idle", "running", "read", "ended"} /\ v.found \in SUBSET Apps /\ v.rerun \in BOOLEAN
  /\ v.later \in BOOLEAN /\ v.debounce \in BOOLEAN
  /\ v = [future |-> v.future, found |-> v.found, rerun |-> v.rerun, later |-> v.later, debounce |-> v.debounce]

LauncherTyped ==
  /\ appDisk \in SUBSET Apps /\ appCache \in SUBSET Apps
  /\ LauncherRecord(launcher) /\ ScanRecord(launcherScan) /\ recentApps \in Seq(Apps)

LEMMA LauncherIsTyped == LauncherTypeOK <=> LauncherTyped
<1>1. launcherScan \in [future : {"idle", "running", "read", "ended"}, found : SUBSET Apps, rerun : BOOLEAN,
                        later : BOOLEAN, debounce : BOOLEAN] <=> ScanRecord(launcherScan)
  BY DEF ScanRecord
<1> QED BY <1>1, RecordIsTyped DEF LauncherTypeOK, LauncherTyped

\* A scan begins, or another is wanted when it ends.
LEMMA ValidatorRuns ==
  ASSUME NEW v, ScanRecord(v)
  PROVE  /\ ScanRecord(RunValidator(v))
         /\ RunValidator(v).later = v.later /\ RunValidator(v).debounce = v.debounce
         /\ RunValidator(v).future # "idle"
         /\ RunValidator(v).future \in {"read", "ended"} => RunValidator(v).rerun
         /\ RunValidator(v).rerun => RunValidator(v).future # "idle"
<1>1. CASE v.future \in {"running", "read"}
  <2>1. RunValidator(v) = [future |-> v.future, found |-> v.found, rerun |-> TRUE, later |-> v.later, debounce |-> v.debounce]
    BY <1>1 DEF RunValidator, ScanRecord
  <2> QED BY <2>1, <1>1 DEF ScanRecord
<1>2. CASE v.future \notin {"running", "read"}
  <2>1. RunValidator(v) = [future |-> "running", found |-> {}, rerun |-> v.rerun, later |-> v.later, debounce |-> v.debounce]
    BY <1>2 DEF RunValidator, ScanRecord
  <2> QED BY <2>1 DEF ScanRecord
<1> QED BY <1>1, <1>2

\* Without entries there are no rows.
LEMMA NoEntriesNoRows ==
  ASSUME NEW query \in BOOLEAN
  PROVE  RowsOf(<<>>, query) = <<>>
<1> DEFINE none == <<>>
           found == {i \in 1..Len(none) : query => none[i] \in Matching}
           withAction == {i \in 1..Len(none) : query /\ none[i] \in WithAction}
           places == [i \in 1..Len(none) |-> i]
           shown == ElementsIn(places, found)
           acting == ElementsIn(shown, withAction)
<1>1. places \in Seq(Nat) /\ Len(places) = 0
  OBVIOUS
<1>2. shown \in Seq(Nat) /\ Len(shown) \in Nat /\ Len(shown) <= Len(places)
  <2> HIDE DEF places, found
  <2> QED BY <1>1, ElementsInProperties
<1>3. acting \in Seq(Nat) /\ Len(acting) \in Nat /\ Len(acting) <= Len(shown)
  <2> HIDE DEF shown, withAction
  <2> QED BY <1>2, ElementsInProperties
<1> DEFINE upper == [i \in 1..Len(shown) |-> [entry |-> shown[i], action |-> FALSE]]
           lower == [i \in 1..Len(acting) |-> [entry |-> acting[i], action |-> TRUE]]
<1>4. RowsOf(none, query) = upper \o lower
  BY DEF RowsOf
<1> HIDE DEF shown, acting, places
<1>5. Len(shown) = 0 /\ Len(acting) = 0
  BY <1>1, <1>2, <1>3
<1>6. upper = <<>> /\ lower = <<>>
  BY <1>5
<1> HIDE DEF upper, lower
<1>7. upper \o lower = <<>>
  BY <1>6
<1> QED BY <1>4, <1>7

LEMMA StoppedIsWhole ==
  /\ LauncherRecord(Stopped) /\ ScanRecord(ScanAtRest) /\ RowsAreTheEntries(Stopped) /\ ~Stopped.started
<1>1. Len(AppOrder) \in Nat
  BY LauncherAssumption
<1>2. /\ <<>> \in Seq(Apps) /\ <<>> \in Seq(Rows) /\ Len(<<>>) = 0
  OBVIOUS
<1>3. LauncherRecord(Stopped)
  BY <1>1, <1>2 DEF LauncherRecord, Stopped
<1>4. ScanRecord(ScanAtRest)
  BY DEF ScanRecord, ScanAtRest
<1>5. RowsOf(<<>>, Stopped.query) = <<>>
  BY NoEntriesNoRows DEF Stopped
<1>6. RowsAreTheEntries(Stopped)
  <2>1. Stopped.rows = <<>> /\ Stopped.entries = <<>> /\ Stopped.selected = 0
    BY DEF Stopped
  <2> QED BY <1>1, <1>2, <1>5, <2>1 DEF RowsAreTheEntries
<1> QED BY <1>3, <1>4, <1>6 DEF Stopped

LEMMA LauncherBegins == LauncherInit => LauncherInv
<1> SUFFICES ASSUME LauncherInit PROVE LauncherInv
  OBVIOUS
<1>1. LauncherTyped
  BY StoppedIsWhole DEF LauncherInit, LauncherTyped
<1>2. RecentIsKept
  BY LauncherAssumption DEF LauncherInit, RecentIsKept, IsInjective
<1> QED BY <1>1, <1>2, LauncherIsTyped, StoppedIsWhole DEF LauncherInit, LauncherInv

----------------------------------------------------------------------------
(* What holds before a step, and what it has to keep.                      *)

LauncherHeld ==
  /\ LauncherTyped /\ RowsAreTheEntries(launcher) /\ RecentIsKept
  /\ ~launcher.started => launcher = Stopped /\ launcherScan = ScanAtRest
  /\ launcher.started => ScanIsDue

LEMMA LauncherIsHeld == LauncherInv <=> LauncherHeld
BY LauncherIsTyped DEF LauncherInv, LauncherHeld

LEMMA LauncherIsHeldNext == LauncherInv' <=> LauncherHeld'
BY LauncherIsHeld, PTL

LEMMA LauncherStartKeeps == ASSUME LauncherHeld, LauncherStart PROVE LauncherHeld'
<1>1. /\ ~launcher.started /\ launcher = Stopped /\ launcherScan = ScanAtRest
      /\ launcherScan' = RunValidator(launcherScan) /\ appDisk' = appDisk
  BY DEF LauncherHeld, LauncherStart
<1>0. PICK l : l = [launcher EXCEPT !.started = TRUE]
  OBVIOUS
<1>2. LauncherRecord(l) /\ l.started
  <2>1. l = [started |-> TRUE, entries |-> launcher.entries, rows |-> launcher.rows, query |-> launcher.query,
             selected |-> launcher.selected, launching |-> launcher.launching]
    BY <1>0 DEF LauncherHeld, LauncherTyped, LauncherRecord
  <2> QED BY <2>1 DEF LauncherHeld, LauncherTyped, LauncherRecord
<1>3. \E apps \in SUBSET Apps : SetEntries(apps, l)
  BY <1>0 DEF LauncherStart, LauncherHeld, LauncherTyped
<1>4. appCache' \in SUBSET Apps
  BY DEF LauncherStart, LauncherHeld, LauncherTyped
<1>5. /\ LauncherRecord(launcher') /\ launcher'.started
      /\ RowsAreTheEntries(launcher') /\ recentApps' \in Seq(Apps) /\ RecentIsKept'
  <2> PICK apps \in SUBSET Apps : SetEntries(apps, l)
    BY <1>3
  <2> QED BY <1>2, EntriesAreSet DEF LauncherHeld, LauncherTyped
<1>6. /\ ScanRecord(launcherScan') /\ launcherScan'.future # "idle"
      /\ launcherScan'.future \in {"read", "ended"} => launcherScan'.rerun
  BY <1>1, ValidatorRuns DEF LauncherHeld, LauncherTyped
<1>7. ScanIsDue'
  BY <1>6 DEF ScanIsDue
<1> QED BY <1>1, <1>4, <1>5, <1>6, <1>7 DEF LauncherHeld, LauncherTyped

LEMMA DiskChangesKeeps == ASSUME LauncherHeld, NEW a \in Apps, DiskChanges(a) PROVE LauncherHeld'
<1>1. /\ appDisk' \in SUBSET Apps /\ UNCHANGED <<appCache, launcher, recentApps>>
      /\ launcherScan' = [launcherScan EXCEPT !.debounce = @ \/ launcher.started]
  BY DEF DiskChanges, LauncherHeld, LauncherTyped
<1>2. launcher.started \in BOOLEAN
  BY DEF LauncherHeld, LauncherTyped, LauncherRecord
<1>3. CASE launcher.started
  <2>1. launcherScan' = [future |-> launcherScan.future, found |-> launcherScan.found, rerun |-> launcherScan.rerun,
                         later |-> launcherScan.later, debounce |-> TRUE]
    BY <1>1, <1>3 DEF LauncherHeld, LauncherTyped, ScanRecord
  <2>2. ScanRecord(launcherScan') /\ ScanIsDue'
    BY <2>1, <1>1, <1>3 DEF LauncherHeld, LauncherTyped, ScanRecord, ScanIsDue
  <2> QED BY <1>1, <1>3, <2>2 DEF LauncherHeld, LauncherTyped, RecentIsKept
<1>4. CASE ~launcher.started
  <2>1. launcherScan' = [future |-> launcherScan.future, found |-> launcherScan.found, rerun |-> launcherScan.rerun,
                         later |-> launcherScan.later, debounce |-> launcherScan.debounce]
    BY <1>1, <1>4 DEF LauncherHeld, LauncherTyped, ScanRecord
  <2>2. launcherScan' = launcherScan
    BY <2>1 DEF LauncherHeld, LauncherTyped, ScanRecord
  <2> QED BY <1>1, <1>4, <2>2 DEF LauncherHeld, LauncherTyped, RecentIsKept
<1> QED BY <1>2, <1>3, <1>4

\* A timer starts the validator.
LEMMA ValidatorKeeps ==
  ASSUME LauncherHeld, launcher.started, NEW v, ScanRecord(v), launcherScan' = RunValidator(v),
         UNCHANGED <<appDisk, appCache, launcher, recentApps>>
  PROVE  LauncherHeld'
<1>1. /\ ScanRecord(launcherScan') /\ launcherScan'.future # "idle"
      /\ launcherScan'.future \in {"read", "ended"} => launcherScan'.rerun
  BY ValidatorRuns
<1>2. ScanIsDue'
  BY <1>1 DEF ScanIsDue
<1> QED BY <1>1, <1>2 DEF LauncherHeld, LauncherTyped, RecentIsKept

LEMMA DebounceTimeoutKeeps == ASSUME LauncherHeld, DebounceTimeout PROVE LauncherHeld'
<1>0. PICK v : v = [launcherScan EXCEPT !.debounce = FALSE]
  OBVIOUS
<1>1. launcher.started
  BY DEF LauncherHeld, DebounceTimeout, ScanAtRest
<1>2. ScanRecord(v)
  <2>1. v = [future |-> launcherScan.future, found |-> launcherScan.found, rerun |-> launcherScan.rerun,
             later |-> launcherScan.later, debounce |-> FALSE]
    BY <1>0 DEF LauncherHeld, LauncherTyped, ScanRecord
  <2> QED BY <2>1 DEF LauncherHeld, LauncherTyped, ScanRecord
<1>3. launcherScan' = RunValidator(v) /\ UNCHANGED <<appDisk, appCache, launcher, recentApps>>
  BY <1>0 DEF DebounceTimeout
<1> QED BY <1>1, <1>2, <1>3, ValidatorKeeps

LEMMA RerunTimeoutKeeps == ASSUME LauncherHeld, RerunTimeout PROVE LauncherHeld'
<1>0. PICK v : v = [launcherScan EXCEPT !.later = FALSE]
  OBVIOUS
<1>1. launcher.started
  BY DEF LauncherHeld, RerunTimeout, ScanAtRest
<1>2. ScanRecord(v)
  <2>1. v = [future |-> launcherScan.future, found |-> launcherScan.found, rerun |-> launcherScan.rerun,
             later |-> FALSE, debounce |-> launcherScan.debounce]
    BY <1>0 DEF LauncherHeld, LauncherTyped, ScanRecord
  <2> QED BY <2>1 DEF LauncherHeld, LauncherTyped, ScanRecord
<1>3. launcherScan' = RunValidator(v) /\ UNCHANGED <<appDisk, appCache, launcher, recentApps>>
  BY <1>0 DEF RerunTimeout
<1> QED BY <1>1, <1>2, <1>3, ValidatorKeeps

LEMMA WorkerScansKeeps == ASSUME LauncherHeld, WorkerScans PROVE LauncherHeld'
<1>1. launcher.started /\ UNCHANGED <<appDisk, appCache, launcher, recentApps>>
  BY DEF LauncherHeld, WorkerScans, ScanAtRest
<1>2. launcherScan' = [future |-> "read", found |-> appDisk, rerun |-> launcherScan.rerun, later |-> launcherScan.later,
                       debounce |-> launcherScan.debounce]
  BY DEF WorkerScans, LauncherHeld, LauncherTyped, ScanRecord
<1>3. ScanRecord(launcherScan') /\ ScanIsDue'
  BY <1>1, <1>2 DEF LauncherHeld, LauncherTyped, ScanRecord, ScanIsDue
<1> QED BY <1>1, <1>3 DEF LauncherHeld, LauncherTyped, RecentIsKept

LEMMA WorkerEndsKeeps == ASSUME LauncherHeld, WorkerEnds PROVE LauncherHeld'
<1>1. launcher.started /\ UNCHANGED <<appDisk, launcher, recentApps>> /\ launcherScan.future = "read"
  BY DEF LauncherHeld, WorkerEnds, ScanAtRest
<1>2. launcherScan' = [future |-> "ended", found |-> launcherScan.found, rerun |-> launcherScan.rerun,
                       later |-> launcherScan.later, debounce |-> launcherScan.debounce]
  BY DEF WorkerEnds, LauncherHeld, LauncherTyped, ScanRecord
<1>3. appCache' \in SUBSET Apps
  BY DEF WorkerEnds, LauncherHeld, LauncherTyped, ScanRecord
<1>4. ScanRecord(launcherScan') /\ ScanIsDue'
  BY <1>1, <1>2 DEF LauncherHeld, LauncherTyped, ScanRecord, ScanIsDue
<1> QED BY <1>1, <1>3, <1>4 DEF LauncherHeld, LauncherTyped, RecentIsKept

LEMMA ValidatorFinishedKeeps == ASSUME LauncherHeld, ValidatorFinished PROVE LauncherHeld'
<1>1. launcher.started /\ UNCHANGED <<appDisk, appCache>> /\ launcherScan.future = "ended"
  BY DEF LauncherHeld, ValidatorFinished, ScanAtRest
<1>2. launcherScan' = [future |-> "idle", found |-> {}, rerun |-> FALSE, later |-> launcherScan.later \/ launcherScan.rerun,
                       debounce |-> launcherScan.debounce]
  BY DEF ValidatorFinished, LauncherHeld, LauncherTyped, ScanRecord
<1>3. /\ LauncherRecord(launcher') /\ launcher'.started = launcher.started
      /\ launcher'.entries = Sorted(launcherScan.found)
      /\ RowsAreTheEntries(launcher') /\ recentApps' \in Seq(Apps) /\ RecentIsKept'
  BY EntriesAreSet DEF LauncherHeld, LauncherTyped, ValidatorFinished
<1>4. launcherScan.found = appDisk \/ launcherScan.debounce \/ launcherScan.later \/ launcherScan.rerun
  BY <1>1 DEF LauncherHeld, ScanIsDue
<1>5. ScanRecord(launcherScan')
  <2> DEFINE later == launcherScan.later \/ launcherScan.rerun
  <2>1. later \in BOOLEAN
    OBVIOUS
  <2>2. launcherScan' = [future |-> "idle", found |-> {}, rerun |-> FALSE, later |-> later, debounce |-> launcherScan.debounce]
    BY <1>2
  <2> HIDE DEF later
  <2> QED BY <2>1, <2>2 DEF ScanRecord, LauncherHeld, LauncherTyped
<1>6. /\ launcherScan'.future = "idle" /\ ~launcherScan'.rerun
      /\ (launcherScan.later \/ launcherScan.rerun) => launcherScan'.later
      /\ launcherScan.debounce => launcherScan'.debounce
  BY <1>2
<1>7. ScanIsDue'
  BY <1>1, <1>3, <1>4, <1>6 DEF ScanIsDue
<1> QED BY <1>1, <1>3, <1>5, <1>7 DEF LauncherHeld, LauncherTyped

\* What the user does leaves the entries and the scan alone.
LEMMA UserKeeps ==
  ASSUME LauncherHeld, launcher.started, LauncherRecord(launcher'), RowsAreTheEntries(launcher'), launcher'.started,
         launcher'.entries = launcher.entries,
         recentApps' \in Seq(Apps), RecentIsKept', UNCHANGED <<appDisk, appCache, launcherScan>>
  PROVE  LauncherHeld'
<1>1. ScanIsDue'
  BY DEF LauncherHeld, ScanIsDue
<1> QED BY <1>1 DEF LauncherHeld, LauncherTyped

LEMMA SetQueryKeeps == ASSUME LauncherHeld, SetQuery PROVE LauncherHeld'
<1> DEFINE rows == RowsOf(launcher.entries, ~launcher.query)
<1>1. /\ launcher.started /\ launcher.query \in BOOLEAN /\ (~launcher.query) \in BOOLEAN /\ launcher.entries \in Seq(Apps)
      /\ Len(launcher.entries) <= Len(AppOrder) /\ Len(AppOrder) \in Nat
  BY LauncherAssumption DEF SetQuery, LauncherHeld, LauncherTyped, LauncherRecord, RowsAreTheEntries
<1>2. rows \in Seq(Rows) /\ Len(rows) \in Nat /\ Len(rows) <= 2 * Len(AppOrder)
  BY <1>1, RowsAreRows
<1> DEFINE other == ~launcher.query
<1>3. launcher' = [launcher EXCEPT !.query = other, !.rows = rows, !.selected = FirstRow(rows)]
  BY DEF SetQuery
<1>4. rows = RowsOf(launcher.entries, other) /\ other \in BOOLEAN
  BY <1>1
<1> HIDE DEF rows, other
<1>5. FirstRow(rows) \in (IF rows = <<>> THEN {0} ELSE 1..Len(rows)) /\ FirstRow(rows) \in 0..2 * Len(AppOrder)
  BY <1>1, <1>2 DEF FirstRow
<1>6. launcher' = [started |-> launcher.started, entries |-> launcher.entries, rows |-> rows, query |-> other,
                   selected |-> FirstRow(rows), launching |-> launcher.launching]
  BY <1>3 DEF LauncherHeld, LauncherTyped, LauncherRecord
<1>7. LauncherRecord(launcher')
  BY <1>1, <1>2, <1>4, <1>5, <1>6 DEF LauncherHeld, LauncherTyped, LauncherRecord
<1>8. RowsAreTheEntries(launcher')
  BY <1>1, <1>4, <1>5, <1>6 DEF RowsAreTheEntries
<1>9. recentApps' \in Seq(Apps) /\ RecentIsKept'
  BY RecentIsCut DEF SetQuery, LauncherHeld, LauncherTyped
<1> QED BY <1>1, <1>6, <1>7, <1>8, <1>9, UserKeeps DEF SetQuery

LEMMA SelectRowKeeps == ASSUME LauncherHeld, SelectRow PROVE LauncherHeld'
<1>1. launcher.started
  BY DEF LauncherHeld, SelectRow, Stopped
<1>2. PICK i \in 1..Len(launcher.rows) : launcher' = [launcher EXCEPT !.selected = i]
  BY DEF SelectRow
<1>3. launcher' = [started |-> launcher.started, entries |-> launcher.entries, rows |-> launcher.rows, query |-> launcher.query,
                   selected |-> i, launching |-> launcher.launching]
  BY <1>2 DEF LauncherHeld, LauncherTyped, LauncherRecord
<1>4. /\ launcher.rows = RowsOf(launcher.entries, launcher.query) /\ launcher.query \in BOOLEAN
      /\ launcher.entries \in Seq(Apps) /\ Len(launcher.entries) <= Len(AppOrder) /\ Len(AppOrder) \in Nat
  BY LauncherAssumption DEF LauncherHeld, LauncherTyped, LauncherRecord, RowsAreTheEntries
<1>5. Len(launcher.rows) \in Nat /\ Len(launcher.rows) <= 2 * Len(AppOrder)
  BY <1>4, RowsAreRows
<1>6. i \in 0..2 * Len(AppOrder) /\ launcher.rows # <<>>
  BY <1>4, <1>5 DEF SelectRow
<1>7. LauncherRecord(launcher')
  BY <1>3, <1>6 DEF LauncherHeld, LauncherTyped, LauncherRecord
<1>8. RowsAreTheEntries(launcher')
  BY <1>3, <1>4, <1>6 DEF RowsAreTheEntries
<1>9. recentApps' \in Seq(Apps) /\ RecentIsKept'
  BY DEF SelectRow, LauncherHeld, LauncherTyped, RecentIsKept
<1> QED BY <1>1, <1>3, <1>7, <1>8, <1>9, UserKeeps DEF SelectRow

\* The application that is being started.
LEMMA LaunchingKeeps ==
  ASSUME LauncherHeld, launcher.started, NEW a \in Apps \cup {"none"}, launcher' = [launcher EXCEPT !.launching = a],
         recentApps' \in Seq(Apps), RecentIsKept', UNCHANGED <<appDisk, appCache, launcherScan>>
  PROVE  LauncherHeld'
<1>1. launcher' = [started |-> launcher.started, entries |-> launcher.entries, rows |-> launcher.rows, query |-> launcher.query,
                   selected |-> launcher.selected, launching |-> a]
  BY DEF LauncherHeld, LauncherTyped, LauncherRecord
<1>2. LauncherRecord(launcher')
  BY <1>1 DEF LauncherHeld, LauncherTyped, LauncherRecord
<1>3. RowsAreTheEntries(launcher')
  BY <1>1 DEF LauncherHeld, RowsAreTheEntries
<1> QED BY <1>1, <1>2, <1>3, UserKeeps

LEMMA LaunchKeeps == ASSUME LauncherHeld, Launch PROVE LauncherHeld'
<1>1. PICK a \in ToSet(launcher.entries) : launcher' = [launcher EXCEPT !.launching = a]
  BY DEF Launch
<1>2. launcher.entries \in Seq(Apps)
  BY DEF LauncherHeld, LauncherTyped, LauncherRecord
<1>3. PICK i \in DOMAIN launcher.entries : a = launcher.entries[i]
  BY <1>1 DEF ToSet
<1>4. a \in Apps
  BY <1>2, <1>3
<1>5. launcher.started
  <2>1. Stopped.entries = <<>>
    BY DEF Stopped
  <2>2. launcher.entries # <<>>
    BY <1>3
  <2> QED BY <2>1, <2>2 DEF LauncherHeld
<1>6. recentApps' \in Seq(Apps) /\ RecentIsKept' /\ UNCHANGED <<appDisk, appCache, launcherScan>>
  BY DEF Launch, LauncherHeld, LauncherTyped, RecentIsKept
<1> QED BY <1>1, <1>4, <1>5, <1>6, LaunchingKeeps

LEMMA LaunchEndsKeeps == ASSUME LauncherHeld, LaunchEnds PROVE LauncherHeld'
<1>1. /\ launcher.launching # "none" /\ launcher' = [launcher EXCEPT !.launching = "none"]
      /\ recentApps' \in {recentApps, Remembered(launcher.launching)} /\ UNCHANGED <<appDisk, appCache, launcherScan>>
  BY DEF LaunchEnds
<1>2. launcher.launching \in Apps /\ recentApps \in Seq(Apps) /\ RecentIsKept
  BY <1>1 DEF LauncherHeld, LauncherTyped, LauncherRecord
<1>3. launcher.started
  BY <1>1 DEF LauncherHeld, Stopped
<1>4. /\ Remembered(launcher.launching) \in Seq(Apps) /\ IsInjective(Remembered(launcher.launching))
      /\ Len(Remembered(launcher.launching)) <= MaxRecent
  BY <1>2, RememberedIsKept
<1>5. recentApps' \in Seq(Apps) /\ RecentIsKept'
  BY <1>1, <1>2, <1>4 DEF RecentIsKept
<1> QED BY <1>1, <1>3, <1>5, LaunchingKeeps

LEMMA ShellRestartsKeeps == ASSUME LauncherHeld, ShellRestarts PROVE LauncherHeld'
<1>1. launcher' = Stopped /\ launcherScan' = ScanAtRest /\ UNCHANGED <<appDisk, appCache, recentApps>>
  BY DEF ShellRestarts
<1> QED BY <1>1, StoppedIsWhole DEF LauncherHeld, LauncherTyped, RecentIsKept

LEMMA LauncherStep == LauncherInv /\ [LauncherNext]_launcherVars => LauncherInv'
<1> SUFFICES ASSUME LauncherHeld, [LauncherNext]_launcherVars PROVE LauncherHeld'
  BY LauncherIsHeld, LauncherIsHeldNext
<1>1. ASSUME NEW a \in Apps, DiskChanges(a) PROVE LauncherHeld'
  BY <1>1, DiskChangesKeeps
<1>2. CASE UNCHANGED launcherVars
  BY <1>2 DEF launcherVars, LauncherHeld, LauncherTyped, RecentIsKept, ScanIsDue
<1> QED
  BY <1>1, <1>2, LauncherStartKeeps, DebounceTimeoutKeeps, WorkerScansKeeps, WorkerEndsKeeps, ValidatorFinishedKeeps,
     RerunTimeoutKeeps, SetQueryKeeps, SelectRowKeeps, LaunchKeeps, LaunchEndsKeeps, ShellRestartsKeeps
     DEF LauncherNext

LEMMA LauncherCatchesUp == LauncherInv => LauncherIsCurrent
<1> SUFFICES ASSUME LauncherHeld, launcher.started
             PROVE  /\ launcher.entries = Sorted(appDisk)
                       \/ launcherScan.debounce \/ launcherScan.later \/ launcherScan.rerun \/ launcherScan.future = "running"
                       \/ (launcherScan.future \in {"read", "ended"} /\ launcherScan.found = appDisk)
                    /\ launcherScan.rerun => launcherScan.future # "idle"
  BY LauncherIsHeld DEF LauncherIsCurrent, LauncherHeld, RowsAreTheEntries, RecentIsKept
<1>1. launcherScan.future \in {"idle", "running", "read", "ended"}
  BY DEF LauncherHeld, LauncherTyped, ScanRecord
<1> QED BY <1>1 DEF LauncherHeld, ScanIsDue

\* The launcher shows what is on the disk or a scan that will is due, selects a row that
\* is there, and remembers each application once: in every behaviour of it.
THEOREM LauncherAlwaysCatchesUp ==
  LauncherInit /\ [][LauncherNext]_launcherVars => [](LauncherTypeOK /\ LauncherIsCurrent)
<1>1. LauncherInv => LauncherTypeOK /\ LauncherIsCurrent
  BY LauncherCatchesUp DEF LauncherInv
<1> QED
  BY <1>1, LauncherBegins, LauncherStep, PTL

----------------------------------------------------------------------------
(* The entries.                                                            *)

EntryIn(files, p) == IF files[p] = Absent THEN {} ELSE EntryOf(EntryTexts[files[p].text], FALSE)

StandsIn(files, p) ==
  /\ EntryIn(files, p) # {}
  /\ \A q \in DesktopPaths : DesktopId[q] = DesktopId[p] /\ DirectoryOf[q] < DirectoryOf[p] => EntryIn(files, q) = {}

\* The stamps: 0 for no file, and none later than the last change.
FilesHold(files, changed) ==
  /\ files \in [DesktopPaths -> [text : DOMAIN EntryTexts \cup {"absent"}, stamp : 0..MaxFileChanges + 1]]
  /\ changed.count \in 0..MaxFileChanges
  /\ changed = [count |-> changed.count, begun |-> changed.begun, read |-> changed.read, overtaken |-> changed.overtaken]
  /\ \A p \in DesktopPaths : files[p].stamp <= 1 + changed.count /\ (files[p].stamp = 0 => files[p] = Absent)

\* A row that has the stamp of its file says what the file does, but for what the code cannot know.
RowHolds(files, db, changed, p) ==
  LET row == db.rows[p] IN
  /\ row.stamp \in 0..1 + changed.count /\ row.current \in BOOLEAN
  /\ row.stamp = files[p].stamp => row.entry \in EntryIn(files, p) \/ p \in changed.overtaken \/ ~row.current
  /\ ~row.current => db.kept \/ db.version = "old"
  /\ row.stamp = 0 => p \in changed.overtaken

DbTyped(db) ==
  /\ db.version \in {"none", "old", "current"} /\ db.kept \in BOOLEAN
  /\ DOMAIN db.rows \subseteq DesktopPaths /\ db.rows = [p \in DOMAIN db.rows |-> db.rows[p]]
  /\ db = [version |-> db.version, rows |-> db.rows, kept |-> db.kept]
  /\ \A p, q \in DOMAIN db.rows : DesktopId[p] = DesktopId[q] => p = q

DbHolds(files, db, changed) ==
  /\ DbTyped(db) /\ changed.overtaken \subseteq DOMAIN db.rows
  /\ \A p \in DOMAIN db.rows : RowHolds(files, db, changed, p)

ScanTyped(scan) ==
  /\ scan.step \in {"off", "scan", "open", "reopen", "persist", "ended", "idle"} /\ scan.rebuild \in BOOLEAN
  /\ scan.left \subseteq DesktopPaths /\ scan.saved \in BOOLEAN
  /\ scan = [step |-> scan.step, rebuild |-> scan.rebuild, left |-> scan.left, found |-> scan.found, saved |-> scan.saved]
  /\ scan.left = {} \/ scan.step = "scan"

\* What is found: of each application one file, that is not to come any more, and its entry is
\* what the file said.
FoundHolds(files, scan, changed) ==
  /\ \A f \in scan.found :
       f = [path |-> f.path, entry |-> f.entry] /\ f.path \in DesktopPaths /\ f.path \notin scan.left
  /\ \A f, g \in scan.found : DesktopId[f.path] = DesktopId[g.path] => f = g
  /\ \A f \in scan.found : f.path \notin changed.read => f.entry \in EntryIn(files, f.path)

\* Without a change since the scan began: what is found stands for its application, and no
\* application of a file that was come to is missing.
FoundIsTheFiles(files, scan) ==
  /\ \A f \in scan.found : f.entry \in EntryIn(files, f.path) /\ StandsIn(files, f.path)
  /\ scan.step # "off" =>
       \A q \in DesktopPaths \ scan.left : EntryIn(files, q) # {} => \E f \in scan.found : DesktopId[f.path] = DesktopId[q]

SavedHolds(files, db, scan, changed) ==
  /\ scan.saved => scan.step \in {"ended", "idle"} /\ db.version = "current"
  /\ scan.step = "persist" => db.version = "current"
  /\ scan.saved /\ changed.begun = {} =>
       DOMAIN db.rows = {f.path : f \in scan.found} /\ \A p \in DOMAIN db.rows : db.rows[p].stamp = files[p].stamp

EntriesHeld(files, db, scan, shown, changed) ==
  /\ FilesHold(files, changed) /\ DbHolds(files, db, changed) /\ ScanTyped(scan)
  /\ FoundHolds(files, scan, changed) /\ (changed.begun = {} => FoundIsTheFiles(files, scan))
  /\ SavedHolds(files, db, scan, changed)
  /\ scan.step = "idle" => shown = scan.found

EntriesInv == EntriesHeld(desktopFiles, desktopDb, desktopScan, desktopShown, desktopChanged)

\* A file lists one entry or none.
LEMMA OneEntryOfAFile ==
  ASSUME NEW files, NEW p, NEW d \in EntryIn(files, p), NEW e \in EntryIn(files, p)
  PROVE  d = e
BY DEF EntryIn, EntryOf

LEMMA NoRowsAreNone ==
  /\ DOMAIN NoRows = {} /\ NoRows = [p \in DOMAIN NoRows |-> NoRows[p]]
BY DEF NoRows

\* A file without rows.
LEMMA EmptyDbHolds ==
  ASSUME NEW files, NEW db, NEW changed, db.version \in {"none", "old", "current"}, db.kept \in BOOLEAN, db.rows = NoRows,
         db = [version |-> db.version, rows |-> db.rows, kept |-> db.kept], changed.overtaken \subseteq DOMAIN db.rows
  PROVE  DbHolds(files, db, changed)
<1>1. DOMAIN db.rows = {} /\ db.rows = [p \in DOMAIN db.rows |-> db.rows[p]]
  BY NoRowsAreNone
<1>2. DbTyped(db)
  BY <1>1 DEF DbTyped
<1> QED BY <1>1, <1>2 DEF DbHolds

LEMMA NoDbHolds ==
  ASSUME NEW files, NEW changed, changed.overtaken \subseteq DOMAIN NoDb.rows
  PROVE  DbHolds(files, NoDb, changed)
<1>1. /\ NoDb.version = "none" /\ NoDb.kept = FALSE /\ NoDb.rows = NoRows
      /\ NoDb = [version |-> NoDb.version, rows |-> NoDb.rows, kept |-> NoDb.kept]
  BY DEF NoDb
<1>2. NoDb.kept \in BOOLEAN
  BY DEF NoDb
<1> QED BY <1>1, <1>2, EmptyDbHolds

\* What the opening leaves of the file: its rows, or none; rows of an old version are known to be.
LEMMA OpenedHolds ==
  ASSUME NEW files, NEW db, NEW changed, NEW later, DbHolds(files, db, changed),
         NEW o \in CacheOpened(db), later.count = changed.count, later.overtaken = changed.overtaken \cap DOMAIN o.db.rows
  PROVE  DbHolds(files, o.db, later) /\ (o.ok => o.db.version = "current")
<1>1. /\ db = [version |-> db.version, rows |-> db.rows, kept |-> db.kept] /\ db.kept \in BOOLEAN
      /\ db.version \in {"none", "old", "current"} /\ DbTyped(db)
  BY DEF DbHolds, DbTyped
<1>2. \/ o.db = db /\ (o.ok => db.version = "current")
      \/ /\ o.db = [version |-> "current", rows |-> NoRows, kept |-> db.kept]
      \/ /\ o.db = [version |-> "current", rows |-> db.rows, kept |-> db.rows # NoRows]
      \/ /\ o.db = [version |-> db.version, rows |-> NoRows, kept |-> db.kept] /\ ~o.ok
  <2>1. PICK dropped : dropped = [db EXCEPT !.rows = NoRows]
    OBVIOUS
  <2>2. dropped = [version |-> db.version, rows |-> NoRows, kept |-> db.kept]
    BY <1>1, <2>1
  <2>3. PICK renewed : renewed = [dropped EXCEPT !.version = "current"]
    OBVIOUS
  <2>4. renewed = [version |-> "current", rows |-> NoRows, kept |-> db.kept]
    BY <2>2, <2>3
  <2>5. PICK kept : kept = [db EXCEPT !.version = "current", !.kept = db.rows # NoRows]
    OBVIOUS
  <2>6. kept = [version |-> "current", rows |-> db.rows, kept |-> db.rows # NoRows]
    BY <1>1, <2>5
  <2>7. o \in (IF db.version = "current" THEN {[ok |-> TRUE, db |-> db], [ok |-> FALSE, db |-> db]}
               ELSE {[ok |-> TRUE, db |-> renewed], [ok |-> TRUE, db |-> kept],
                     [ok |-> FALSE, db |-> dropped], [ok |-> FALSE, db |-> db]})
    BY <2>1, <2>3, <2>5 DEF CacheOpened
  <2>8. CASE db.version = "current"
    BY <2>7, <2>8
  <2>9. CASE db.version # "current"
    <3>1. \/ o = [ok |-> TRUE, db |-> renewed] \/ o = [ok |-> TRUE, db |-> kept]
          \/ o = [ok |-> FALSE, db |-> dropped] \/ o = [ok |-> FALSE, db |-> db]
      BY <2>7, <2>9
    <3> QED BY <3>1, <2>2, <2>4, <2>6
  <2> QED BY <2>8, <2>9
<1>3. CASE o.db = db /\ (o.ok => db.version = "current")
  <2>1. later.overtaken = changed.overtaken
    BY <1>3 DEF DbHolds
  <2> QED BY <1>3, <2>1 DEF DbHolds, RowHolds
<1>4. CASE o.db = [version |-> "current", rows |-> NoRows, kept |-> db.kept]
  <2>1. /\ o.db.version = "current" /\ o.db.kept \in BOOLEAN /\ o.db.rows = NoRows
        /\ o.db = [version |-> o.db.version, rows |-> o.db.rows, kept |-> o.db.kept]
    BY <1>1, <1>4
  <2> QED BY <2>1, EmptyDbHolds
<1>5. CASE o.db = [version |-> "current", rows |-> db.rows, kept |-> db.rows # NoRows]
  <2>1. PICK kept \in BOOLEAN : kept = (db.rows # NoRows)
    OBVIOUS
  <2>2. o.db = [version |-> "current", rows |-> db.rows, kept |-> kept]
    BY <1>5, <2>1
  <2>3. DbTyped(o.db) /\ o.db.rows = db.rows /\ o.db.kept = kept /\ o.db.version = "current"
    BY <2>2, <1>1 DEF DbTyped
  <2>4. later.overtaken = changed.overtaken
    BY <2>3 DEF DbHolds
  <2>5. ASSUME NEW p \in DOMAIN db.rows PROVE RowHolds(files, o.db, later, p)
    <3>1. o.db.kept
      BY <2>1, <2>3, NoRowsAreNone
    <3>2. RowHolds(files, db, changed, p)
      BY DEF DbHolds
    <3> QED BY <3>1, <3>2, <2>3, <2>4 DEF RowHolds
  <2>6. changed.overtaken \subseteq DOMAIN db.rows
    BY DEF DbHolds
  <2> QED BY <2>3, <2>4, <2>5, <2>6 DEF DbHolds
<1>6. CASE o.db = [version |-> db.version, rows |-> NoRows, kept |-> db.kept] /\ ~o.ok
  <2>1. /\ o.db.version \in {"none", "old", "current"} /\ o.db.kept \in BOOLEAN /\ o.db.rows = NoRows
        /\ o.db = [version |-> o.db.version, rows |-> o.db.rows, kept |-> o.db.kept]
    BY <1>1, <1>6
  <2> QED BY <1>6, <2>1, EmptyDbHolds
<1> QED BY <1>2, <1>3, <1>4, <1>5, <1>6

LEMMA EntriesTypes ==
  ASSUME NEW files, NEW db, NEW scan, NEW shown, NEW changed, EntriesHeld(files, db, scan, shown, changed)
  PROVE  /\ FilesHold(files, changed) /\ DbHolds(files, db, changed) /\ ScanTyped(scan)
         /\ FoundHolds(files, scan, changed) /\ (changed.begun = {} => FoundIsTheFiles(files, scan))
         /\ SavedHolds(files, db, scan, changed)
         /\ scan.step = "idle" => shown = scan.found
BY DEF EntriesHeld

\* A scan that begins has found nothing, and has everything before it.
LEMMA BeginningHolds ==
  ASSUME NEW files, NEW db, NEW scan, NEW shown, NEW changed, FilesHold(files, changed), DbHolds(files, db, changed),
         NEW rebuild \in BOOLEAN, scan = ScanBegins(rebuild)
  PROVE  EntriesHeld(files, db, scan, shown, changed)
<1>1. scan = [step |-> "scan", rebuild |-> rebuild, left |-> DesktopPaths, found |-> {}, saved |-> FALSE]
  BY DEF ScanBegins
<1>2. ScanTyped(scan) /\ scan.step = "scan" /\ scan.saved = FALSE /\ scan.left = DesktopPaths /\ scan.found = {}
  BY <1>1 DEF ScanTyped
<1>3. FoundHolds(files, scan, changed)
  BY <1>2 DEF FoundHolds
<1>4. FoundIsTheFiles(files, scan)
  BY <1>2 DEF FoundIsTheFiles
<1>5. SavedHolds(files, db, scan, changed)
  BY <1>2 DEF SavedHolds
<1> QED BY <1>2, <1>3, <1>4, <1>5 DEF EntriesHeld

LEMMA OffHolds ==
  ASSUME NEW files, NEW db, NEW shown, NEW changed, FilesHold(files, changed), DbHolds(files, db, changed)
  PROVE  EntriesHeld(files, db, Off, shown, changed)
<1>1. ScanTyped(Off) /\ Off.step = "off" /\ Off.saved = FALSE /\ Off.left = {} /\ Off.found = {}
  BY DEF ScanTyped, Off
<1>2. FoundHolds(files, Off, changed)
  BY <1>1 DEF FoundHolds
<1>3. FoundIsTheFiles(files, Off)
  BY <1>1 DEF FoundIsTheFiles
<1>4. SavedHolds(files, db, Off, changed)
  BY <1>1 DEF SavedHolds
<1> QED BY <1>1, <1>2, <1>3, <1>4 DEF EntriesHeld

LEMMA EntriesBegin == DesktopInit => EntriesInv
<1> SUFFICES ASSUME DesktopInit PROVE EntriesHeld(desktopFiles, desktopDb, desktopScan, desktopShown, desktopChanged)
  BY DEF EntriesInv
<1>1. MaxFileChanges \in Nat
  BY DesktopAssumption
<1>2. /\ desktopChanged = [count |-> 0, begun |-> {}, read |-> {}, overtaken |-> {}]
      /\ desktopScan = Off
  BY DEF DesktopInit
<1>3. ASSUME NEW p \in DesktopPaths
      PROVE  /\ desktopFiles[p] \in [text : DOMAIN EntryTexts \cup {"absent"}, stamp : 0..MaxFileChanges + 1]
             /\ desktopFiles[p].stamp <= 1 /\ (desktopFiles[p].stamp = 0 => desktopFiles[p] = Absent)
  <2>1. PICK t \in DOMAIN EntryTexts \cup {"absent"} : desktopFiles[p] = FilesAt(t)
    BY DEF DesktopInit
  <2>2. CASE t = "absent"
    <3>1. desktopFiles[p] = [text |-> "absent", stamp |-> 0]
      BY <2>1, <2>2 DEF FilesAt, Absent
    <3> QED BY <3>1, <1>1 DEF Absent
  <2>3. CASE t # "absent"
    <3>1. desktopFiles[p] = [text |-> t, stamp |-> 1]
      BY <2>1, <2>3 DEF FilesAt
    <3> QED BY <3>1, <1>1
  <2> QED BY <2>2, <2>3
<1>4. FilesHold(desktopFiles, desktopChanged)
  <2>1. desktopFiles \in [DesktopPaths -> {FilesAt(t) : t \in DOMAIN EntryTexts \cup {"absent"}}]
    BY DEF DesktopInit
  <2>2. desktopFiles \in [DesktopPaths -> [text : DOMAIN EntryTexts \cup {"absent"}, stamp : 0..MaxFileChanges + 1]]
    BY <1>3, <2>1
  <2>3. desktopChanged.count = 0
    BY <1>2
  <2> QED BY <1>1, <1>2, <1>3, <2>2, <2>3 DEF FilesHold
<1>5. DbHolds(desktopFiles, desktopDb, desktopChanged)
  <2>1. CASE desktopDb = NoDb
    BY <2>1, <1>2, NoDbHolds
  <2>2. CASE desktopDb # NoDb
    <3>0. PICK q \in DesktopPaths, e \in UNION {EntryAt(p) : p \in DesktopPaths} : desktopDb = OldDb(q, e)
      BY <2>2 DEF DesktopInit
    <3>1. desktopDb = [version |-> "old", kept |-> FALSE, rows |-> [p \in {q} |-> ListedRow(e, 1, FALSE)]]
      BY <3>0 DEF OldDb
    <3>2. PICK rows : rows = [p \in {q} |-> ListedRow(e, 1, FALSE)]
      OBVIOUS
    <3>3. /\ desktopDb.version = "old" /\ desktopDb.kept = FALSE /\ desktopDb.rows = rows
          /\ desktopDb = [version |-> desktopDb.version, rows |-> desktopDb.rows, kept |-> desktopDb.kept]
      BY <3>1, <3>2
    <3>4. desktopDb.kept \in BOOLEAN
      BY <3>3
    <3>5. DOMAIN rows = {q} /\ rows[q] = [entry |-> e, stamp |-> 1, current |-> FALSE] /\ rows = [p \in DOMAIN rows |-> rows[p]]
      BY <3>2 DEF ListedRow
    <3>6. DbTyped(desktopDb)
      BY <3>3, <3>4, <3>5 DEF DbTyped
    <3>7. desktopChanged.count = 0 /\ desktopChanged.overtaken = {}
      BY <1>2
    <3>8. RowHolds(desktopFiles, desktopDb, desktopChanged, q)
      BY <3>3, <3>5, <3>7 DEF RowHolds
    <3> QED BY <3>3, <3>5, <3>6, <3>7, <3>8 DEF DbHolds
  <2> QED BY <2>1, <2>2
<1> QED BY <1>2, <1>4, <1>5, OffHolds

----------------------------------------------------------------------------
(* Each step.                                                              *)

EntriesNow == EntriesHeld(desktopFiles, desktopDb, desktopScan, desktopShown, desktopChanged)

\* The ghosts of a scan that begins.
GhostsRestarted(changed, later) == later = [changed EXCEPT !.begun = {}, !.read = {}]

LEMMA ChangesCleared ==
  ASSUME NEW files, NEW db, NEW changed, NEW later, FilesHold(files, changed), DbHolds(files, db, changed),
         GhostsRestarted(changed, later)
  PROVE  FilesHold(files, later) /\ DbHolds(files, db, later)
<1>1. later = [count |-> changed.count, begun |-> {}, read |-> {}, overtaken |-> changed.overtaken]
  BY DEF FilesHold, GhostsRestarted
<1>2. /\ later.count = changed.count /\ later.overtaken = changed.overtaken
      /\ later = [count |-> later.count, begun |-> later.begun, read |-> later.read, overtaken |-> later.overtaken]
  BY <1>1
<1>3. FilesHold(files, later)
  BY <1>2 DEF FilesHold
<1>4. DbHolds(files, db, later)
  BY <1>2 DEF DbHolds, RowHolds
<1> QED BY <1>3, <1>4

LEMMA OvertakenCut ==
  ASSUME NEW files, NEW changed, NEW rows, NEW later, FilesHold(files, changed),
         later = [changed EXCEPT !.overtaken = @ \cap DOMAIN rows]
  PROVE  /\ FilesHold(files, later) /\ later.count = changed.count /\ later.begun = changed.begun /\ later.read = changed.read
         /\ later.overtaken = changed.overtaken \cap DOMAIN rows
<1>1. later = [count |-> changed.count, begun |-> changed.begun, read |-> changed.read,
               overtaken |-> changed.overtaken \cap DOMAIN rows]
  BY DEF FilesHold
<1>2. /\ later.count = changed.count /\ later.begun = changed.begun /\ later.read = changed.read
      /\ later.overtaken = changed.overtaken \cap DOMAIN rows
      /\ later = [count |-> later.count, begun |-> later.begun, read |-> later.read, overtaken |-> later.overtaken]
  BY <1>1
<1> QED BY <1>2 DEF FilesHold

LEMMA EntriesStartKeeps == ASSUME EntriesNow, EntriesStart PROVE EntriesNow'
<1>1. FilesHold(desktopFiles, desktopChanged) /\ DbHolds(desktopFiles, desktopDb, desktopChanged)
  BY EntriesTypes DEF EntriesNow
<1>2. /\ desktopFiles' = desktopFiles
      /\ desktopScan' = ScanBegins(desktopShown' = {})
      /\ desktopChanged' = [desktopChanged EXCEPT !.begun = {}, !.read = {}, !.overtaken = @ \cap DOMAIN desktopDb'.rows]
      /\ \E o \in IF desktopDb = NoDb THEN {[ok |-> FALSE, db |-> NoDb]} ELSE CacheOpened(desktopDb) :
           desktopDb' = IF o.ok THEN o.db ELSE NoDb
  BY DEF EntriesStart
<1>3. desktopChanged' = [count |-> desktopChanged.count, begun |-> {}, read |-> {},
                         overtaken |-> desktopChanged.overtaken \cap DOMAIN desktopDb'.rows]
  BY <1>1, <1>2 DEF FilesHold
<1>4. /\ desktopChanged'.count = desktopChanged.count
      /\ desktopChanged'.overtaken = desktopChanged.overtaken \cap DOMAIN desktopDb'.rows
      /\ desktopChanged' = [count |-> desktopChanged'.count, begun |-> desktopChanged'.begun, read |-> desktopChanged'.read,
                            overtaken |-> desktopChanged'.overtaken]
  BY <1>3
<1>5. FilesHold(desktopFiles', desktopChanged')
  BY <1>1, <1>2, <1>4 DEF FilesHold
<1>6. DbHolds(desktopFiles', desktopDb', desktopChanged')
  <2>1. CASE desktopDb' = NoDb
    BY <2>1, <1>4, NoDbHolds
  <2>2. CASE desktopDb' # NoDb
    <3>1. PICK o \in CacheOpened(desktopDb) : desktopDb' = o.db
      BY <1>2, <2>2
    <3>2. DbHolds(desktopFiles, o.db, desktopChanged')
      BY <3>1, <1>1, <1>4, OpenedHolds
    <3> QED BY <3>1, <3>2, <1>2
  <2> QED BY <2>1, <2>2
<1>7. PICK rebuild \in BOOLEAN : rebuild = (desktopShown' = {})
  OBVIOUS
<1>8. desktopScan' = ScanBegins(rebuild)
  BY <1>2, <1>7
<1> QED BY <1>5, <1>6, <1>8, BeginningHolds DEF EntriesNow

LEMMA RescanKeeps == ASSUME EntriesNow, Rescan PROVE EntriesNow'
<1>1. FilesHold(desktopFiles, desktopChanged) /\ DbHolds(desktopFiles, desktopDb, desktopChanged)
  BY EntriesTypes DEF EntriesNow
<1>2. /\ UNCHANGED <<desktopFiles, desktopDb, desktopShown>> /\ desktopScan' = ScanBegins(FALSE)
      /\ desktopChanged' = [desktopChanged EXCEPT !.begun = {}, !.read = {}]
  BY DEF Rescan
<1>3. FilesHold(desktopFiles, desktopChanged') /\ DbHolds(desktopFiles, desktopDb, desktopChanged')
  <2>1. GhostsRestarted(desktopChanged, desktopChanged')
    BY <1>2 DEF GhostsRestarted
  <2> QED
    BY <1>1, <2>1, ChangesCleared
<1>4. FilesHold(desktopFiles', desktopChanged') /\ DbHolds(desktopFiles', desktopDb', desktopChanged')
  BY <1>2, <1>3
<1> QED BY <1>2, <1>4, BeginningHolds DEF EntriesNow

LEMMA EntriesKilledKeeps == ASSUME EntriesNow, EntriesKilled PROVE EntriesNow'
<1>1. FilesHold(desktopFiles, desktopChanged) /\ DbHolds(desktopFiles, desktopDb, desktopChanged)
  BY EntriesTypes DEF EntriesNow
<1>2. UNCHANGED <<desktopFiles, desktopDb, desktopChanged>> /\ desktopScan' = Off
  BY DEF EntriesKilled
<1> QED BY <1>1, <1>2, OffHolds DEF EntriesNow

\* The steps of a scan that has found what it will.
LEMMA ScanMovesOn ==
  ASSUME NEW files, NEW db, NEW scan, NEW shown, NEW changed, EntriesHeld(files, db, scan, shown, changed),
         scan.step # "off", NEW step \in {"open", "reopen", "persist", "ended", "idle"}, NEW saved \in BOOLEAN, NEW next,
         next = [step |-> step, rebuild |-> scan.rebuild, left |-> scan.left, found |-> scan.found, saved |-> saved],
         scan.left = {}
  PROVE  ScanTyped(next) /\ FoundHolds(files, next, changed) /\ (changed.begun = {} => FoundIsTheFiles(files, next))
BY EntriesTypes DEF ScanTyped, FoundHolds, FoundIsTheFiles

LEMMA ScanEndsKeeps == ASSUME EntriesNow, ScanEnds PROVE EntriesNow'
<1>1. /\ FilesHold(desktopFiles, desktopChanged) /\ DbHolds(desktopFiles, desktopDb, desktopChanged)
      /\ SavedHolds(desktopFiles, desktopDb, desktopScan, desktopChanged) /\ ScanTyped(desktopScan)
  BY EntriesTypes DEF EntriesNow
<1>2. /\ UNCHANGED <<desktopFiles, desktopDb, desktopChanged>>
      /\ desktopScan.step = "scan" /\ desktopScan.left = {} /\ desktopScan' = [desktopScan EXCEPT !.step = "open"]
  BY DEF ScanEnds
<1>3. /\ desktopScan' = [step |-> "open", rebuild |-> desktopScan.rebuild, left |-> desktopScan.left,
                         found |-> desktopScan.found, saved |-> desktopScan.saved]
      /\ desktopScan.saved = FALSE /\ desktopScan.saved \in BOOLEAN /\ desktopScan.step # "off"
  BY <1>1, <1>2 DEF ScanTyped, SavedHolds
<1>4. /\ ScanTyped(desktopScan') /\ FoundHolds(desktopFiles, desktopScan', desktopChanged)
      /\ (desktopChanged.begun = {} => FoundIsTheFiles(desktopFiles, desktopScan'))
  <2>1. EntriesHeld(desktopFiles, desktopDb, desktopScan, desktopShown, desktopChanged)
    BY DEF EntriesNow
  <2>2. desktopScan.left = {}
    BY <1>2
  <2>3. "open" \in {"open", "reopen", "persist", "ended", "idle"}
    OBVIOUS
  <2> QED BY <1>3, <2>1, <2>2, <2>3, ScanMovesOn
<1>5. SavedHolds(desktopFiles, desktopDb, desktopScan', desktopChanged) /\ desktopScan'.step = "open"
  BY <1>3 DEF SavedHolds
<1> QED BY <1>1, <1>2, <1>4, <1>5 DEF EntriesNow, EntriesHeld

LEMMA OpenEntryCacheKeeps == ASSUME EntriesNow, OpenEntryCache PROVE EntriesNow'
<1>1. /\ FilesHold(desktopFiles, desktopChanged) /\ DbHolds(desktopFiles, desktopDb, desktopChanged)
      /\ SavedHolds(desktopFiles, desktopDb, desktopScan, desktopChanged) /\ ScanTyped(desktopScan)
  BY EntriesTypes DEF EntriesNow
<1> DEFINE removed(o) == ~o.ok /\ desktopScan.step = "open" /\ ~desktopScan.rebuild
<1>2. PICK o \in CacheOpened(desktopDb) :
        /\ desktopDb' = IF removed(o) THEN NoDb ELSE o.db
        /\ desktopScan' = [desktopScan EXCEPT !.step = IF o.ok THEN "persist" ELSE IF removed(o) THEN "reopen" ELSE "ended"]
        /\ desktopChanged' = [desktopChanged EXCEPT !.overtaken = @ \cap DOMAIN desktopDb'.rows]
  BY DEF OpenEntryCache
<1>3. UNCHANGED <<desktopFiles, desktopShown>> /\ desktopScan.step \in {"open", "reopen"}
  BY DEF OpenEntryCache
<1>4. /\ FilesHold(desktopFiles, desktopChanged') /\ desktopChanged'.count = desktopChanged.count
      /\ desktopChanged'.begun = desktopChanged.begun /\ desktopChanged'.read = desktopChanged.read
      /\ desktopChanged'.overtaken = desktopChanged.overtaken \cap DOMAIN desktopDb'.rows
  BY <1>1, <1>2, OvertakenCut
<1>5. DbHolds(desktopFiles, desktopDb', desktopChanged') /\ (o.ok => desktopDb'.version = "current")
  <2>1. CASE removed(o)
    <3>1. desktopDb' = NoDb /\ ~o.ok
      BY <2>1, <1>2
    <3> QED BY <3>1, <1>4, NoDbHolds
  <2>2. CASE ~removed(o)
    <3>1. desktopDb' = o.db
      BY <2>2, <1>2
    <3> QED BY <3>1, <1>1, <1>4, OpenedHolds
  <2> QED BY <2>1, <2>2
<1>6. PICK step \in {"reopen", "persist", "ended"} :
        desktopScan' = [desktopScan EXCEPT !.step = step] /\ (step = "persist" => o.ok)
  BY <1>2
<1>7. /\ desktopScan' = [step |-> step, rebuild |-> desktopScan.rebuild, left |-> desktopScan.left,
                         found |-> desktopScan.found, saved |-> desktopScan.saved]
      /\ desktopScan.saved = FALSE /\ desktopScan.left = {}
  BY <1>1, <1>3, <1>6 DEF ScanTyped, SavedHolds
<1>8. /\ ScanTyped(desktopScan') /\ FoundHolds(desktopFiles, desktopScan', desktopChanged)
      /\ (desktopChanged.begun = {} => FoundIsTheFiles(desktopFiles, desktopScan'))
  BY <1>3, <1>7, ScanMovesOn DEF EntriesNow
<1>9. SavedHolds(desktopFiles, desktopDb', desktopScan', desktopChanged')
  BY <1>5, <1>6, <1>7 DEF SavedHolds
<1>10. FoundHolds(desktopFiles, desktopScan', desktopChanged')
  BY <1>4, <1>8 DEF FoundHolds
<1>11. desktopScan'.step # "idle"
  BY <1>7
<1> QED BY <1>3, <1>4, <1>5, <1>8, <1>9, <1>10, <1>11 DEF EntriesNow, EntriesHeld

LEMMA ReportKeeps == ASSUME EntriesNow, Report PROVE EntriesNow'
<1>1. /\ FilesHold(desktopFiles, desktopChanged) /\ DbHolds(desktopFiles, desktopDb, desktopChanged)
      /\ SavedHolds(desktopFiles, desktopDb, desktopScan, desktopChanged) /\ ScanTyped(desktopScan)
  BY EntriesTypes DEF EntriesNow
<1>2. /\ UNCHANGED <<desktopFiles, desktopDb>> /\ desktopShown' = desktopScan.found /\ desktopScan.step = "ended"
  BY DEF Report
<1>3. CASE desktopScan.rebuild
  <2>1. desktopScan' = ScanBegins(FALSE) /\ desktopChanged' = [desktopChanged EXCEPT !.begun = {}, !.read = {}]
    BY <1>3 DEF Report
  <2>2. FilesHold(desktopFiles, desktopChanged') /\ DbHolds(desktopFiles, desktopDb, desktopChanged')
    <3>1. GhostsRestarted(desktopChanged, desktopChanged')
      BY <2>1 DEF GhostsRestarted
    <3> QED
      BY <1>1, <3>1, ChangesCleared
  <2>3. FilesHold(desktopFiles', desktopChanged') /\ DbHolds(desktopFiles', desktopDb', desktopChanged')
    BY <1>2, <2>2
  <2> QED BY <2>1, <2>3, BeginningHolds DEF EntriesNow
<1>4. CASE ~desktopScan.rebuild
  <2>1. desktopScan' = [desktopScan EXCEPT !.step = "idle"] /\ UNCHANGED desktopChanged
    BY <1>4 DEF Report
  <2>2. /\ desktopScan' = [step |-> "idle", rebuild |-> desktopScan.rebuild, left |-> desktopScan.left,
                           found |-> desktopScan.found, saved |-> desktopScan.saved]
        /\ desktopScan.left = {} /\ desktopScan.saved \in BOOLEAN
    BY <1>1, <1>2, <2>1 DEF ScanTyped
  <2>3. /\ ScanTyped(desktopScan') /\ FoundHolds(desktopFiles, desktopScan', desktopChanged)
        /\ (desktopChanged.begun = {} => FoundIsTheFiles(desktopFiles, desktopScan'))
    BY <1>2, <2>2, ScanMovesOn DEF EntriesNow
  <2>4. desktopScan'.step = "idle" /\ desktopScan'.found = desktopScan.found /\ desktopScan'.saved = desktopScan.saved
    BY <2>2
  <2>5. SavedHolds(desktopFiles, desktopDb, desktopScan', desktopChanged)
    BY <1>1, <2>4 DEF SavedHolds
  <2> QED BY <1>1, <1>2, <2>1, <2>3, <2>4, <2>5 DEF EntriesNow, EntriesHeld
<1> QED BY <1>3, <1>4

\* A file that is come to is found if none of its name is: it stands for its application, for
\* those before it in the directories have been come to.
FirstLeft(scan, p) == p \in scan.left /\ \A q \in scan.left : DirectoryOf[p] <= DirectoryOf[q]

FoundSince(files, scan, changed) == changed.begun = {} => FoundIsTheFiles(files, scan)

\* What finding a file adds to what was found.
Gained(files, found, p, added) ==
  /\ \A f \in added : f = [path |-> p, entry |-> f.entry] /\ f.entry \in EntryIn(files, p)
                       /\ \A g \in found : DesktopId[g.path] # DesktopId[p]
  /\ EntryIn(files, p) # {} => \E f \in found \cup added : DesktopId[f.path] = DesktopId[p]

LEMMA FileFoundHolds ==
  ASSUME NEW files, NEW scan, NEW next, NEW changed, NEW later, ScanTyped(scan), scan.step = "scan",
         FoundHolds(files, scan, changed), FoundSince(files, scan, changed), NEW p, FirstLeft(scan, p),
         next.left = scan.left \ {p}, next.step = "scan",
         NEW added, next.found = scan.found \cup added, Gained(files, scan.found, p, added),
         later.read = changed.read \ {p}, later.begun = changed.begun
  PROVE  FoundHolds(files, next, later) /\ FoundSince(files, next, later)
<1>0. /\ p \in scan.left /\ \A q \in scan.left : DirectoryOf[p] <= DirectoryOf[q]
      /\ changed.begun = {} => FoundIsTheFiles(files, scan)
      /\ \A f \in added : f = [path |-> p, entry |-> f.entry] /\ f.entry \in EntryIn(files, p)
                           /\ \A g \in scan.found : DesktopId[g.path] # DesktopId[p]
      /\ EntryIn(files, p) # {} => \E f \in next.found : DesktopId[f.path] = DesktopId[p]
  BY DEF FirstLeft, FoundSince, Gained
<1>1. /\ p \in DesktopPaths /\ scan.left \subseteq DesktopPaths
      /\ \A f \in added : f.path = p
  BY <1>0 DEF ScanTyped
<1>2. ASSUME NEW f \in next.found
      PROVE  f = [path |-> f.path, entry |-> f.entry] /\ f.path \in DesktopPaths /\ f.path \notin next.left
  BY <1>0, <1>1 DEF FoundHolds
<1>3. ASSUME NEW f \in next.found, NEW g \in next.found, DesktopId[f.path] = DesktopId[g.path]
      PROVE  f = g
  BY <1>3, <1>0, OneEntryOfAFile, <1>1 DEF FoundHolds
<1>4. ASSUME NEW f \in next.found, f.path \notin later.read
      PROVE  f.entry \in EntryIn(files, f.path)
  <2>1. CASE f \in added
    BY <1>0, <2>1, <1>1
  <2>2. CASE f \in scan.found
    <3>1. f.path # p
      BY <1>0, <2>2 DEF FoundHolds
    <3> QED BY <3>1, <2>2, <1>4 DEF FoundHolds
  <2> QED BY <2>1, <2>2
<1>5. FoundHolds(files, next, later)
  BY <1>2, <1>3, <1>4 DEF FoundHolds
<1>6. ASSUME later.begun = {} PROVE FoundIsTheFiles(files, next)
  <2>1. FoundIsTheFiles(files, scan)
    BY <1>0, <1>6
  <2>2. ASSUME NEW f \in added PROVE StandsIn(files, p)
    <3>1. EntryIn(files, p) # {} /\ \A g \in scan.found : DesktopId[g.path] # DesktopId[p]
      BY <1>0, <2>2
    <3>2. ASSUME NEW q \in DesktopPaths, DesktopId[q] = DesktopId[p], DirectoryOf[q] < DirectoryOf[p]
          PROVE  EntryIn(files, q) = {}
      BY <1>1, DesktopAssumption, <1>0, <3>2, <2>1 DEF FoundIsTheFiles
    <3> QED BY <3>1, <3>2 DEF StandsIn
  <2>3. ASSUME NEW f \in next.found PROVE f.entry \in EntryIn(files, f.path) /\ StandsIn(files, f.path)
    BY <1>0, <2>1, <2>2, <1>1 DEF FoundIsTheFiles
  <2>4. ASSUME NEW q \in DesktopPaths \ next.left, EntryIn(files, q) # {}
        PROVE  \E f \in next.found : DesktopId[f.path] = DesktopId[q]
    BY <1>0, <2>4, <2>1 DEF FoundIsTheFiles
  <2> QED BY <2>3, <2>4 DEF FoundIsTheFiles
<1> QED BY <1>5, <1>6 DEF FoundSince

LEMMA ScanFileKeeps == ASSUME EntriesNow, ScanFile PROVE EntriesNow'
<1>1. /\ FilesHold(desktopFiles, desktopChanged) /\ DbHolds(desktopFiles, desktopDb, desktopChanged)
      /\ SavedHolds(desktopFiles, desktopDb, desktopScan, desktopChanged) /\ ScanTyped(desktopScan)
      /\ FoundHolds(desktopFiles, desktopScan, desktopChanged)
      /\ desktopChanged.begun = {} => FoundIsTheFiles(desktopFiles, desktopScan)
  BY EntriesTypes DEF EntriesNow
<1>2. PICK p \in desktopScan.left :
        /\ \A q \in desktopScan.left : DirectoryOf[p] <= DirectoryOf[q]
        /\ desktopScan' = [desktopScan EXCEPT !.left = @ \ {p},
             !.found = @ \cup (IF DesktopId[p] \in FoundIds THEN {} ELSE {[path |-> p, entry |-> e] : e \in EntryAt(p)})]
        /\ desktopChanged' = [desktopChanged EXCEPT !.read = @ \ {p}]
  BY DEF ScanFile
<1>3. desktopScan.step = "scan" /\ UNCHANGED <<desktopFiles, desktopDb, desktopShown>>
  BY DEF ScanFile
<1> DEFINE files == {[path |-> p, entry |-> e] : e \in EntryIn(desktopFiles, p)}
           added == IF DesktopId[p] \in FoundIds THEN {} ELSE files
<1>4. desktopScan' = [desktopScan EXCEPT !.left = @ \ {p}, !.found = @ \cup added]
  BY <1>2 DEF EntryAt, EntryIn
<1>5. /\ added = {} \/ added = files
      /\ added # {} => DesktopId[p] \notin FoundIds
      /\ DesktopId[p] \notin FoundIds => added = files
  OBVIOUS
<1>6. \A f \in files : \E e \in EntryIn(desktopFiles, p) : f = [path |-> p, entry |-> e]
  OBVIOUS
<1>7. \A e \in EntryIn(desktopFiles, p) : [path |-> p, entry |-> e] \in files
  OBVIOUS
<1> HIDE DEF added, files
<1>8. \A f \in desktopScan.found : DesktopId[f.path] \in FoundIds
  BY DEF FoundIds, FoundPaths
<1>9. DesktopId[p] \in FoundIds => \E f \in desktopScan.found : DesktopId[f.path] = DesktopId[p]
  BY DEF FoundIds, FoundPaths
<1>10. /\ desktopScan' = [step |-> "scan", rebuild |-> desktopScan.rebuild, left |-> desktopScan.left \ {p},
                          found |-> desktopScan.found \cup added, saved |-> desktopScan.saved]
       /\ desktopScan.saved = FALSE
  BY <1>1, <1>3, <1>4 DEF ScanTyped, SavedHolds
<1>11. /\ desktopScan'.step = "scan" /\ desktopScan'.rebuild = desktopScan.rebuild /\ desktopScan'.saved = desktopScan.saved
       /\ desktopScan'.left = desktopScan.left \ {p} /\ desktopScan'.found = desktopScan.found \cup added
       /\ desktopScan' = [step |-> desktopScan'.step, rebuild |-> desktopScan'.rebuild, left |-> desktopScan'.left,
                          found |-> desktopScan'.found, saved |-> desktopScan'.saved]
  BY <1>10
<1>12. ScanTyped(desktopScan')
  BY <1>1, <1>11 DEF ScanTyped
<1>13. desktopChanged' = [count |-> desktopChanged.count, begun |-> desktopChanged.begun, read |-> desktopChanged.read \ {p},
                          overtaken |-> desktopChanged.overtaken]
  BY <1>1, <1>2 DEF FilesHold
<1>14. /\ desktopChanged'.count = desktopChanged.count /\ desktopChanged'.overtaken = desktopChanged.overtaken
       /\ desktopChanged'.begun = desktopChanged.begun /\ desktopChanged'.read = desktopChanged.read \ {p}
       /\ desktopChanged' = [count |-> desktopChanged'.count, begun |-> desktopChanged'.begun, read |-> desktopChanged'.read,
                             overtaken |-> desktopChanged'.overtaken]
  BY <1>13
<1>15. FilesHold(desktopFiles, desktopChanged') /\ DbHolds(desktopFiles, desktopDb, desktopChanged')
  BY <1>1, <1>14 DEF FilesHold, DbHolds, RowHolds
<1>16. Gained(desktopFiles, desktopScan.found, p, added)
  <2>1. ASSUME NEW f \in added
        PROVE  /\ f = [path |-> p, entry |-> f.entry] /\ f.entry \in EntryIn(desktopFiles, p)
               /\ \A g \in desktopScan.found : DesktopId[g.path] # DesktopId[p]
    <3>1. PICK e \in EntryIn(desktopFiles, p) : f = [path |-> p, entry |-> e]
      BY <1>5, <1>6
    <3>2. f.entry = e
      BY <3>1
    <3> QED BY <3>1, <3>2, <1>5, <1>8
  <2>2. ASSUME NEW e \in EntryIn(desktopFiles, p)
        PROVE  \E f \in desktopScan.found \cup added : DesktopId[f.path] = DesktopId[p]
    <3>1. CASE DesktopId[p] \in FoundIds
      BY <3>1, <1>9
    <3>2. CASE DesktopId[p] \notin FoundIds
      <4>1. [path |-> p, entry |-> e] \in desktopScan.found \cup added
        BY <3>2, <1>5, <1>7
      <4>2. [path |-> p, entry |-> e].path = p
        OBVIOUS
      <4> QED BY <4>1, <4>2
    <3> QED BY <3>1, <3>2
  <2> QED BY <2>1, <2>2 DEF Gained
<1>17. FirstLeft(desktopScan, p) /\ FoundSince(desktopFiles, desktopScan, desktopChanged)
  BY <1>1, <1>2 DEF FirstLeft, FoundSince
<1>18. /\ FoundHolds(desktopFiles, desktopScan', desktopChanged')
       /\ desktopChanged'.begun = {} => FoundIsTheFiles(desktopFiles, desktopScan')
  <2>1. FoundHolds(desktopFiles, desktopScan', desktopChanged') /\ FoundSince(desktopFiles, desktopScan', desktopChanged')
    BY <1>1, <1>3, <1>11, <1>14, <1>16, <1>17, FileFoundHolds
  <2> QED BY <2>1 DEF FoundSince
<1>19. SavedHolds(desktopFiles, desktopDb, desktopScan', desktopChanged')
  BY <1>10, <1>11 DEF SavedHolds
<1> QED BY <1>3, <1>11, <1>12, <1>15, <1>18, <1>19 DEF EntriesNow, EntriesHeld

\* The row a found file gets: it has the stamp of the file; its entry is what the file says, unless
\* the file was rewritten since it was read.
LEMMA RowForHolds ==
  ASSUME EntriesNow, NEW p \in FoundPaths, NEW later, later.count = desktopChanged.count,
         p \in later.overtaken <=> (IF RowIsOfStamp(p) THEN p \in desktopChanged.overtaken ELSE p \in desktopChanged.read),
         NEW db, db.rows[p] = RowFor(p), db.kept = desktopDb.kept, desktopDb.version = "current"
  PROVE  RowHolds(desktopFiles, db, later, p) /\ db.rows[p].stamp = desktopFiles[p].stamp
<1>1. /\ FilesHold(desktopFiles, desktopChanged) /\ DbHolds(desktopFiles, desktopDb, desktopChanged)
      /\ FoundHolds(desktopFiles, desktopScan, desktopChanged)
  BY EntriesTypes DEF EntriesNow
<1>2. p \in DesktopPaths
  BY <1>1 DEF FoundPaths, FoundHolds
<1>3. CASE RowIsOfStamp(p)
  <2>1. /\ p \in DOMAIN desktopDb.rows /\ desktopDb.rows[p].stamp = desktopFiles[p].stamp /\ db.rows[p] = desktopDb.rows[p]
        /\ p \in later.overtaken <=> p \in desktopChanged.overtaken
    BY <1>3 DEF RowIsOfStamp, RowFor
  <2>2. RowHolds(desktopFiles, desktopDb, desktopChanged, p)
    BY <1>1, <2>1 DEF DbHolds
  <2> QED BY <2>1, <2>2 DEF RowHolds
<1>4. CASE ~RowIsOfStamp(p)
  <2> DEFINE f == CHOOSE g \in desktopScan.found : g.path = p
  <2>1. f \in desktopScan.found /\ f.path = p
    BY DEF FoundPaths
  <2>2. EntryFound(p) = f.entry
    BY DEF EntryFound
  <2> HIDE DEF f
  <2>3. db.rows[p] = [entry |-> f.entry, stamp |-> desktopFiles[p].stamp, current |-> TRUE]
    BY <1>4, <2>2 DEF RowFor, ListedRow
  <2>4. db.rows[p].entry = f.entry /\ db.rows[p].stamp = desktopFiles[p].stamp /\ db.rows[p].current = TRUE
    BY <2>3
  <2>5. p \notin later.overtaken => f.entry \in EntryIn(desktopFiles, p)
    BY <1>1, <1>4, <2>1 DEF FoundHolds
  <2>6. desktopFiles[p].stamp = 0 => EntryIn(desktopFiles, p) = {}
    BY <1>1, <1>2 DEF FilesHold, EntryIn
  <2>7. desktopFiles[p].stamp \in 0..1 + later.count
    BY <1>1, <1>2, DesktopAssumption DEF FilesHold
  <2>8. db.rows[p].current \in BOOLEAN /\ (~db.rows[p].current => FALSE)
    BY <2>3
  <2> QED BY <2>4, <2>5, <2>6, <2>7, <2>8 DEF RowHolds
<1> QED BY <1>3, <1>4

LEMMA PersistKeeps == ASSUME EntriesNow, Persist PROVE EntriesNow'
<1>1. /\ FilesHold(desktopFiles, desktopChanged) /\ DbHolds(desktopFiles, desktopDb, desktopChanged)
      /\ SavedHolds(desktopFiles, desktopDb, desktopScan, desktopChanged) /\ ScanTyped(desktopScan)
      /\ FoundHolds(desktopFiles, desktopScan, desktopChanged)
  BY EntriesTypes DEF EntriesNow
<1>2. PICK committed \in BOOLEAN :
        /\ desktopScan' = [desktopScan EXCEPT !.step = "ended", !.saved = committed]
        /\ desktopDb' = IF committed THEN [desktopDb EXCEPT !.rows = RowsOfScan] ELSE desktopDb
        /\ desktopChanged' = IF ~committed THEN desktopChanged
                             ELSE [desktopChanged EXCEPT !.overtaken =
                                     {p \in FoundPaths : IF RowIsOfStamp(p) THEN p \in @ ELSE p \in desktopChanged.read}]
  BY DEF Persist
<1>3. UNCHANGED <<desktopFiles, desktopShown>> /\ desktopScan.step = "persist"
  BY DEF Persist
<1>4. /\ desktopScan' = [step |-> "ended", rebuild |-> desktopScan.rebuild, left |-> desktopScan.left,
                         found |-> desktopScan.found, saved |-> committed]
      /\ desktopScan.left = {} /\ desktopDb.version = "current"
  BY <1>1, <1>2, <1>3 DEF ScanTyped, SavedHolds
<1>5. /\ ScanTyped(desktopScan') /\ FoundHolds(desktopFiles, desktopScan', desktopChanged)
      /\ (desktopChanged.begun = {} => FoundIsTheFiles(desktopFiles, desktopScan'))
  <2>1. EntriesHeld(desktopFiles, desktopDb, desktopScan, desktopShown, desktopChanged) /\ desktopScan.step # "off"
    BY <1>3 DEF EntriesNow
  <2>2. "ended" \in {"open", "reopen", "persist", "ended", "idle"}
    OBVIOUS
  <2> QED BY <1>4, <2>1, <2>2, ScanMovesOn
<1>6. /\ desktopScan'.step = "ended" /\ desktopScan'.found = desktopScan.found /\ desktopScan'.saved = committed
  BY <1>4
<1>7. CASE ~committed
  <2>1. desktopDb' = desktopDb /\ desktopChanged' = desktopChanged
    BY <1>2, <1>7
  <2>2. SavedHolds(desktopFiles, desktopDb, desktopScan', desktopChanged)
    BY <1>6, <1>7 DEF SavedHolds
  <2> QED BY <1>1, <1>3, <1>5, <1>6, <2>1, <2>2 DEF EntriesNow, EntriesHeld
<1>8. CASE committed
  <2> DEFINE over == {p \in FoundPaths : IF RowIsOfStamp(p) THEN p \in desktopChanged.overtaken ELSE p \in desktopChanged.read}
  <2>1. desktopDb' = [desktopDb EXCEPT !.rows = RowsOfScan] /\ desktopChanged' = [desktopChanged EXCEPT !.overtaken = over]
    BY <1>2, <1>8
  <2>2. \A p \in FoundPaths :
          p \in over <=> (IF RowIsOfStamp(p) THEN p \in desktopChanged.overtaken ELSE p \in desktopChanged.read)
    OBVIOUS
  <2>3. over \subseteq FoundPaths
    OBVIOUS
  <2> HIDE DEF over
  <2>4. /\ desktopDb' = [version |-> desktopDb.version, rows |-> RowsOfScan, kept |-> desktopDb.kept]
        /\ desktopDb.kept \in BOOLEAN
    BY <1>1, <2>1 DEF DbHolds, DbTyped
  <2>5. desktopChanged' = [count |-> desktopChanged.count, begun |-> desktopChanged.begun, read |-> desktopChanged.read,
                           overtaken |-> over]
    BY <1>1, <2>1 DEF FilesHold
  <2>6. /\ DOMAIN RowsOfScan = FoundPaths /\ RowsOfScan = [p \in DOMAIN RowsOfScan |-> RowsOfScan[p]]
        /\ \A p \in FoundPaths : RowsOfScan[p] = RowFor(p)
    BY DEF RowsOfScan
  <2>7. /\ desktopDb'.version = "current" /\ desktopDb'.rows = RowsOfScan /\ desktopDb'.kept = desktopDb.kept
        /\ desktopDb' = [version |-> desktopDb'.version, rows |-> desktopDb'.rows, kept |-> desktopDb'.kept]
    BY <1>4, <2>4
  <2>8. /\ desktopChanged'.count = desktopChanged.count /\ desktopChanged'.overtaken = over
        /\ desktopChanged'.begun = desktopChanged.begun /\ desktopChanged'.read = desktopChanged.read
        /\ desktopChanged' = [count |-> desktopChanged'.count, begun |-> desktopChanged'.begun, read |-> desktopChanged'.read,
                              overtaken |-> desktopChanged'.overtaken]
    BY <2>5
  <2>9. ASSUME NEW p \in FoundPaths
        PROVE  RowHolds(desktopFiles, desktopDb', desktopChanged', p) /\ desktopDb'.rows[p].stamp = desktopFiles[p].stamp
    <3>1. p \in desktopChanged'.overtaken <=>
            (IF RowIsOfStamp(p) THEN p \in desktopChanged.overtaken ELSE p \in desktopChanged.read)
      BY <2>2, <2>8
    <3>2. desktopDb'.rows[p] = RowFor(p) /\ desktopDb'.kept = desktopDb.kept
      BY <2>6, <2>7
    <3> QED BY <1>4, <2>8, <3>1, <3>2, RowForHolds
  <2>10. DbTyped(desktopDb')
    <3>1. \A p \in FoundPaths : p \in DesktopPaths
      BY <1>1 DEF FoundPaths, FoundHolds
    <3>2. \A p, q \in FoundPaths : DesktopId[p] = DesktopId[q] => p = q
      BY <1>1 DEF FoundPaths, FoundHolds
    <3> QED BY <2>4, <2>6, <2>7, <3>1, <3>2 DEF DbTyped
  <2>11. DbHolds(desktopFiles, desktopDb', desktopChanged')
    BY <2>3, <2>6, <2>7, <2>8, <2>9, <2>10 DEF DbHolds
  <2>12. FilesHold(desktopFiles, desktopChanged')
    BY <1>1, <2>8 DEF FilesHold
  <2>13. FoundPaths = {f.path : f \in desktopScan'.found}
    BY <1>6 DEF FoundPaths
  <2>14. SavedHolds(desktopFiles, desktopDb', desktopScan', desktopChanged')
    BY <1>6, <2>6, <2>7, <2>9, <2>13 DEF SavedHolds
  <2>15. FoundHolds(desktopFiles, desktopScan', desktopChanged')
    BY <1>5, <2>8 DEF FoundHolds
  <2> QED BY <1>3, <1>5, <1>6, <2>8, <2>11, <2>12, <2>14, <2>15 DEF EntriesNow, EntriesHeld
<1> QED BY <1>7, <1>8

\* A file's new stamp is none that a row has, unless it is gone.
LEMMA DesktopFileChangesKeeps == ASSUME EntriesNow, NEW p \in DesktopPaths, DesktopFileChanges(p) PROVE EntriesNow'
<1>1. /\ FilesHold(desktopFiles, desktopChanged) /\ DbHolds(desktopFiles, desktopDb, desktopChanged)
      /\ SavedHolds(desktopFiles, desktopDb, desktopScan, desktopChanged) /\ ScanTyped(desktopScan)
      /\ FoundHolds(desktopFiles, desktopScan, desktopChanged)
      /\ desktopScan.step = "idle" => desktopShown = desktopScan.found
  BY EntriesTypes DEF EntriesNow
<1>2. PICK t \in DOMAIN EntryTexts \cup {"absent"} :
        desktopFiles' = [desktopFiles EXCEPT ![p] =
          IF t = "absent" THEN Absent ELSE [text |-> t, stamp |-> 2 + desktopChanged.count]]
  BY DEF DesktopFileChanges
<1>3. /\ desktopChanged' = [desktopChanged EXCEPT !.count = @ + 1, !.begun = @ \cup {p}, !.read = @ \cup {p}]
      /\ UNCHANGED <<desktopDb, desktopScan, desktopShown>> /\ desktopChanged.count < MaxFileChanges
  BY DEF DesktopFileChanges
<1>4. desktopChanged' = [count |-> desktopChanged.count + 1, begun |-> desktopChanged.begun \cup {p},
                         read |-> desktopChanged.read \cup {p}, overtaken |-> desktopChanged.overtaken]
  BY <1>1, <1>3 DEF FilesHold
<1>5. /\ desktopChanged'.count = desktopChanged.count + 1 /\ desktopChanged'.overtaken = desktopChanged.overtaken
      /\ p \in desktopChanged'.begun /\ desktopChanged'.read = desktopChanged.read \cup {p}
      /\ desktopChanged' = [count |-> desktopChanged'.count, begun |-> desktopChanged'.begun, read |-> desktopChanged'.read,
                            overtaken |-> desktopChanged'.overtaken]
  BY <1>4
<1> DEFINE n == desktopChanged.count
           file == IF t = "absent" THEN Absent ELSE [text |-> t, stamp |-> 2 + n]
<1>6. n \in Nat /\ MaxFileChanges \in Nat /\ n + 1 <= MaxFileChanges
  BY <1>1, <1>3, DesktopAssumption DEF FilesHold
<1>7. desktopFiles' = [desktopFiles EXCEPT ![p] = file]
  BY <1>2
<1>8. /\ file \in [text : DOMAIN EntryTexts \cup {"absent"}, stamp : 0..MaxFileChanges + 1]
      /\ file.stamp <= 2 + n /\ (file.stamp = 0 => file = Absent) /\ file.stamp \in {0, 2 + n}
  BY <1>6 DEF Absent
<1> HIDE DEF file
<1>9. desktopFiles \in [DesktopPaths -> [text : DOMAIN EntryTexts \cup {"absent"}, stamp : 0..MaxFileChanges + 1]]
  BY <1>1 DEF FilesHold
<1>10. /\ desktopFiles'[p] = file /\ \A q \in DesktopPaths : q # p => desktopFiles'[q] = desktopFiles[q]
       /\ desktopFiles' \in [DesktopPaths -> [text : DOMAIN EntryTexts \cup {"absent"}, stamp : 0..MaxFileChanges + 1]]
  BY <1>7, <1>8, <1>9
<1>11. FilesHold(desktopFiles', desktopChanged')
  BY <1>6, <1>8, <1>10, <1>1, <1>9, <1>5 DEF FilesHold
<1>12. ASSUME NEW q \in DesktopPaths, q # p PROVE EntryIn(desktopFiles', q) = EntryIn(desktopFiles, q)
  BY <1>10, <1>12 DEF EntryIn
<1>13. ASSUME NEW q \in DOMAIN desktopDb.rows PROVE RowHolds(desktopFiles', desktopDb, desktopChanged', q)
  <2>1. RowHolds(desktopFiles, desktopDb, desktopChanged, q) /\ q \in DesktopPaths
    BY <1>1 DEF DbHolds, DbTyped
  <2>2. CASE q # p
    <3>1. desktopFiles'[q] = desktopFiles[q] /\ EntryIn(desktopFiles', q) = EntryIn(desktopFiles, q)
      BY <2>1, <2>2, <1>10, <1>12
    <3>2. desktopDb.rows[q].stamp \in 0..1 + n => desktopDb.rows[q].stamp \in 0..1 + (n + 1)
      BY <1>6
    <3> QED BY <2>1, <3>1, <3>2, <1>5 DEF RowHolds
  <2>3. CASE q = p
    <3>1. desktopDb.rows[q].stamp \in 0..1 + n
      BY <2>1 DEF RowHolds
    <3>2. desktopDb.rows[q].stamp \in 0..1 + (n + 1) /\ desktopDb.rows[q].stamp # 2 + n
      BY <3>1, <1>6
    <3>3. desktopDb.rows[q].stamp = desktopFiles'[q].stamp => desktopDb.rows[q].stamp = 0
      BY <2>3, <3>2, <1>8, <1>10
    <3> QED BY <2>1, <3>2, <3>3, <1>5 DEF RowHolds
  <2> QED BY <2>2, <2>3
<1>14. DbHolds(desktopFiles', desktopDb, desktopChanged')
  BY <1>1, <1>5, <1>13 DEF DbHolds
<1>15. FoundHolds(desktopFiles', desktopScan, desktopChanged')
  <2>1. ASSUME NEW f \in desktopScan.found, f.path \notin desktopChanged'.read PROVE f.entry \in EntryIn(desktopFiles', f.path)
    <3>1. f.path \notin desktopChanged.read /\ f.path # p /\ f.path \in DesktopPaths
      BY <2>1, <1>1, <1>5 DEF FoundHolds
    <3>2. f.entry \in EntryIn(desktopFiles, f.path)
      BY <3>1, <1>1 DEF FoundHolds
    <3> QED BY <3>1, <3>2, <1>12
  <2> QED BY <2>1, <1>1 DEF FoundHolds
<1>16. desktopChanged'.begun # {}
  BY <1>5
<1>17. SavedHolds(desktopFiles', desktopDb, desktopScan, desktopChanged')
  BY <1>1, <1>16 DEF SavedHolds
<1> QED BY <1>1, <1>3, <1>11, <1>14, <1>15, <1>16, <1>17 DEF EntriesNow, EntriesHeld

LEMMA EntriesStep == EntriesInv /\ [EntriesNext]_desktopVars => EntriesInv'
BY DesktopFileChangesKeeps, EntriesStartKeeps, ScanFileKeeps, ScanEndsKeeps, OpenEntryCacheKeeps, PersistKeeps,
   ReportKeeps, RescanKeeps, EntriesKilledKeeps DEF EntriesInv, EntriesNow, desktopVars, EntriesNext

LEMMA EntriesWellTyped == EntriesInv => EntriesTypeOK
<1> SUFFICES ASSUME EntriesNow PROVE EntriesTypeOK
  BY DEF EntriesInv, EntriesNow
<1>1. /\ FilesHold(desktopFiles, desktopChanged) /\ DbHolds(desktopFiles, desktopDb, desktopChanged)
      /\ ScanTyped(desktopScan) /\ FoundHolds(desktopFiles, desktopScan, desktopChanged)
  BY EntriesTypes DEF EntriesNow
<1>2. FoundPaths \subseteq DesktopPaths
  BY <1>1 DEF FoundPaths, FoundHolds
<1> QED BY <1>1, <1>2 DEF EntriesTypeOK, FilesHold, DbHolds, DbTyped, ScanTyped

LEMMA EntriesSettle == EntriesInv => EntriesAreTheFiles
<1> SUFFICES ASSUME EntriesNow PROVE EntriesAreTheFiles
  BY DEF EntriesInv, EntriesNow
<1>1. /\ DbHolds(desktopFiles, desktopDb, desktopChanged) /\ ScanTyped(desktopScan)
      /\ FoundHolds(desktopFiles, desktopScan, desktopChanged)
      /\ desktopChanged.begun = {} => FoundIsTheFiles(desktopFiles, desktopScan)
      /\ SavedHolds(desktopFiles, desktopDb, desktopScan, desktopChanged)
      /\ desktopScan.step = "idle" => desktopShown = desktopScan.found
  BY EntriesTypes DEF EntriesNow
<1>2. \A p, q \in DOMAIN desktopDb.rows : DesktopId[p] = DesktopId[q] => p = q
  BY <1>1 DEF DbHolds, DbTyped
<1>3. \A p \in DesktopPaths : EntryAt(p) = EntryIn(desktopFiles, p) /\ (Stands(p) <=> StandsIn(desktopFiles, p))
  BY DEF EntryAt, EntryIn, Stands, StandsIn
<1>4. ASSUME desktopScan.step = "idle", desktopChanged.begun = {}
      PROVE  /\ desktopShown = Listed
             /\ desktopScan.saved =>
                  DOMAIN desktopDb.rows = {f.path : f \in Listed} /\ \A p \in DOMAIN desktopDb.rows : RowIsTheFiles(p)
  <2>1. FoundIsTheFiles(desktopFiles, desktopScan) /\ desktopShown = desktopScan.found /\ desktopScan.left = {}
    BY <1>1, <1>4 DEF ScanTyped
  <2>2. ASSUME NEW f \in desktopScan.found PROVE f \in Listed
    <3>1. f = [path |-> f.path, entry |-> f.entry] /\ f.path \in DesktopPaths
      BY <1>1 DEF FoundHolds
    <3>2. f.entry \in EntryAt(f.path) /\ Stands(f.path)
      BY <2>1, <3>1, <1>3 DEF FoundIsTheFiles
    <3>3. f \in {[path |-> f.path, entry |-> e] : e \in EntryAt(f.path)}
      BY <3>1, <3>2
    <3>4. f.path \in {q \in DesktopPaths : Stands(q)}
      BY <3>1, <3>2
    <3> QED BY <3>3, <3>4 DEF Listed
  <2>3. ASSUME NEW f \in Listed PROVE f \in desktopScan.found
    BY <1>3, <1>4, <2>1, <1>1, DesktopAssumption, OneEntryOfAFile DEF Listed, FoundHolds, FoundIsTheFiles, StandsIn
  <2>4. desktopScan.found = Listed
    BY <2>2, <2>3
  <2>5. ASSUME desktopScan.saved
        PROVE  DOMAIN desktopDb.rows = {f.path : f \in Listed} /\ \A p \in DOMAIN desktopDb.rows : RowIsTheFiles(p)
    <3>1. /\ DOMAIN desktopDb.rows = {f.path : f \in desktopScan.found} /\ desktopDb.version = "current"
          /\ \A p \in DOMAIN desktopDb.rows : desktopDb.rows[p].stamp = desktopFiles[p].stamp
      BY <1>1, <1>4, <2>5 DEF SavedHolds
    <3>2. ASSUME NEW p \in DOMAIN desktopDb.rows PROVE RowIsTheFiles(p)
      <4>1. RowHolds(desktopFiles, desktopDb, desktopChanged, p) /\ p \in DesktopPaths
        BY <1>1 DEF DbHolds, DbTyped
      <4> QED BY <3>1, <4>1, <1>3 DEF RowHolds, RowIsTheFiles
    <3> QED BY <2>4, <3>1, <3>2
  <2> QED BY <2>1, <2>4, <2>5
<1> QED BY <1>2, <1>4 DEF EntriesAreTheFiles

\* When nothing has changed since a scan began, what is listed are the first files of each
\* application that list it, and the rows that were kept are those files: in every behaviour of the scan.
THEOREM EntriesAlwaysSettle ==
  DesktopInit /\ [][EntriesNext]_desktopVars => [](EntriesTypeOK /\ EntriesAreTheFiles)
<1>1. EntriesInv => EntriesTypeOK /\ EntriesAreTheFiles
  BY EntriesWellTyped, EntriesSettle
<1> QED
  BY <1>1, EntriesBegin, EntriesStep, PTL

----------------------------------------------------------------------------
(* The feed.                                                               *)

LEMMA FeedStart == FeedInit => FeedTypeOK
BY FeedAssumption DEF FeedInit, FeedTypeOK, NotFetched

LEMMA FeedStep == FeedTypeOK /\ [FeedNext]_feedVars => FeedTypeOK'
<1> SUFFICES ASSUME FeedTypeOK, [FeedNext]_feedVars PROVE FeedTypeOK'
  OBVIOUS
<1>1. CASE FeedAnswers
  BY <1>1 DEF FeedAnswers, FeedTypeOK
<1>2. CASE FeedFails
  BY <1>2 DEF FeedFails, FeedTypeOK
<1>3. CASE FeedTaken
  BY <1>3 DEF FeedTaken, FeedTypeOK, NotFetched
<1>4. CASE UNCHANGED feedVars
  BY <1>4 DEF feedVars, FeedTypeOK
<1> QED BY <1>1, <1>2, <1>3, <1>4 DEF FeedNext

----------------------------------------------------------------------------
(***************************************************************************)
(* The services, each alone.                                               *)
(***************************************************************************)


\* Who asks for an application to be started is told once, and what became of it.
THEOREM LaunchesAreAlwaysHonest == LaunchInit /\ [][LaunchNext]_launchVars => [](LaunchTypeOK /\ LaunchIsHonest)
<1>1. LaunchInit => LaunchInv
  BY LaunchStart
<1>2. LaunchInv /\ [LaunchNext]_launchVars => LaunchInv'
  BY LaunchStep
<1>3. LaunchInv => LaunchTypeOK /\ LaunchIsHonest
  BY LaunchesAreHonest
<1> QED
  BY <1>1, <1>2, <1>3, PTL

\* A guarded process that times out, fails and exits is told of once.
THEOREM ProcessesAlwaysAnswerOnce == GuardedInit /\ [][GuardedNext]_guardedVars => [](GuardedTypeOK /\ GuardedAnswersOnce)
<1>1. GuardedInit => GuardedInv
  BY GuardedStart
<1>2. GuardedInv /\ [GuardedNext]_guardedVars => GuardedInv'
  BY GuardedStep
<1>3. GuardedInv => GuardedTypeOK /\ GuardedAnswersOnce
  BY ProcessesAnswerOnce
<1> QED
  BY <1>1, <1>2, <1>3, PTL

\* The configuration at rest is the file's, an accepted document keeps its entries, and
\* the writer's means the same but for the logo and the names that need quotes.
THEOREM ConfigurationIsAlwaysKept ==
  ConfigInit /\ [][ConfigNext]_configVars => [](ConfigTypeOK /\ ConfigIsTheFiles /\ AcceptedIsKept /\ SavingKeepsMeaning)
BY ConfigStart, ConfigStep, ConfigurationIsKept, PTL

\* The default shown is the file's once every query has ended.
THEOREM DefaultsAlwaysSettle == MimeInit /\ [][MimeNext]_mimeVars => [](MimeTypeOK /\ MimeDefaultsSettle)
BY MimeStart, MimeStep, DefaultsSettle, PTL

\* The report on the session is that of the facts once what reads them is at rest.
THEOREM ReportIsAlwaysCurrent ==
  IntegrationInit /\ [][IntegrationNext]_integrationVars => [](IntegrationTypeOK /\ IntegrationIsCurrent)
BY IntegrationStart, IntegrationStep, ReportIsCurrent, PTL

\* The portal is that of the bus once every call is answered and every signal heard.
THEOREM PortalAlwaysSettles == PortalInit /\ [][PortalNext]_portalVars => [](PortalTypeOK /\ PortalSettles)
BY PortalStart, PortalStep, PortalIsSettled, PTL

\* A fetch returns what was in the selected calendars throughout, and nothing that never was.
THEOREM FetchesAreAlwaysComplete == DavInit /\ [][DavNext]_davVars => [](DavTypeOK /\ FetchIsComplete)
<1>1. DavInit => DavInv
  BY DavStart
<1>2. DavInv /\ [DavNext]_davVars => DavInv'
  BY DavStep
<1>3. DavInv => DavTypeOK /\ FetchIsComplete
  BY FetchesAreComplete
<1> QED
  BY <1>1, <1>2, <1>3, PTL

\* An open cache is whole, and a sync that is cut off drops only what is gone.
THEOREM CacheIsAlwaysKept == CacheInit /\ [][CacheNext]_cacheVars => [](CacheTypeOK /\ OpenCacheIsWhole /\ SyncDropsOnlyTheGone)
BY CacheStart, CacheStep, CacheIsKept, PTL

\* An event that stays where it was is reminded of.
THEOREM RemindersAreAlwaysGiven == ReminderInit /\ [][ReminderNext]_reminderVars => [](ReminderTypeOK /\ RemindedUnlessMoved)
<1>1. ReminderInit => RemindersInv
  BY RemindersStart
<1>2. RemindersInv /\ [ReminderNext]_reminderVars => RemindersInv'
  BY RemindersStep
<1>3. RemindersInv => ReminderTypeOK /\ RemindedUnlessMoved
  BY RemindersAreGiven
<1> QED
  BY <1>1, <1>2, <1>3, PTL

----------------------------------------------------------------------------
(***************************************************************************)
(* The services together: of the one that is used its invariant holds.     *)
(***************************************************************************)

UsedInv ==
  /\ used \in {"launcher", "mime", "integration", "launch", "process", "portal", "config", "cache", "feed",
               "caldav", "reminders", "entries"}
  /\ used = "launch" => LaunchInv
  /\ used = "process" => GuardedInv
  /\ used = "config" => ConfigInv
  /\ used = "mime" => MimeInv
  /\ used = "integration" => IntegrationInv
  /\ used = "portal" => PortalInv
  /\ used = "caldav" => DavInv
  /\ used = "cache" => CacheInv
  /\ used = "reminders" => RemindersInv
  /\ used = "launcher" => LauncherInv
  /\ used = "entries" => EntriesInv
  /\ used = "feed" => FeedTypeOK

LEMMA UsedStarts ==
  ASSUME MCInit
  PROVE  /\ used \in {"launcher", "mime", "integration", "launch", "process", "portal", "config", "cache", "feed",
                      "caldav", "reminders", "entries"}
         /\ used = "launch" => LaunchInit
         /\ used = "process" => GuardedInit
         /\ used = "config" => ConfigInit
         /\ used = "mime" => MimeInit
         /\ used = "integration" => IntegrationInit
         /\ used = "portal" => PortalInit
         /\ used = "caldav" => DavInit
         /\ used = "cache" => CacheInit
         /\ used = "reminders" => ReminderInit
         /\ used = "launcher" => LauncherInit
         /\ used = "entries" => DesktopInit
         /\ used = "feed" => FeedInit
BY DEF MCInit

\* Every step of the program is one of each service, or leaves it alone.
LEMMA UsedSteps ==
  ASSUME [MCNext]_allVars
  PROVE  /\ UNCHANGED used
         /\ [LaunchNext]_launchVars /\ [GuardedNext]_guardedVars /\ [ConfigNext]_configVars /\ [MimeNext]_mimeVars
         /\ [IntegrationNext]_integrationVars /\ [PortalNext]_portalVars /\ [DavNext]_davVars
         /\ [CacheNext]_cacheVars /\ [ReminderNext]_reminderVars
         /\ [LauncherNext]_launcherVars /\ [EntriesNext]_desktopVars /\ [FeedNext]_feedVars
BY DEF MCNext, allVars

LEMMA UsedInvHolds == MCSpec => []UsedInv
<1>1. ASSUME MCInit PROVE UsedInv
  BY <1>1, UsedStarts, LaunchStart, GuardedStart, ConfigStart, MimeStart, IntegrationStart, PortalStart, DavStart,
     CacheStart, RemindersStart, LauncherBegins, EntriesBegin, FeedStart DEF UsedInv
<1>2. ASSUME UsedInv, [MCNext]_allVars PROVE UsedInv'
  <2>1. /\ UNCHANGED used
        /\ [LaunchNext]_launchVars /\ [GuardedNext]_guardedVars /\ [ConfigNext]_configVars /\ [MimeNext]_mimeVars
        /\ [IntegrationNext]_integrationVars /\ [PortalNext]_portalVars /\ [DavNext]_davVars
        /\ [CacheNext]_cacheVars /\ [ReminderNext]_reminderVars
        /\ [LauncherNext]_launcherVars /\ [EntriesNext]_desktopVars /\ [FeedNext]_feedVars
    BY <1>2, UsedSteps
  <2> QED
    BY <1>2, <2>1, LaunchStep, GuardedStep, ConfigStep, MimeStep, IntegrationStep, PortalStep, DavStep, CacheStep,
       RemindersStep, LauncherStep, EntriesStep, FeedStep DEF UsedInv
<1> QED
  BY <1>1, <1>2, PTL DEF MCSpec

\* The configuration published is that of the file at rest, nothing accepted is repaired
\* or dropped, and what the writer makes of it means the same, with the exceptions that
\* ConfigurationHolds names: in every behaviour.
THEOREM ConfigurationAlwaysHolds == MCSpec => []ConfigurationHolds
<1>1. UsedInv => ConfigurationHolds
  BY ConfigurationIsKept DEF UsedInv, ConfigurationHolds
<1> QED
  BY <1>1, UsedInvHolds, PTL

\* What the launcher lists, the default applications, the report on the session and the
\* portal are those of the files and the bus, once what reads them has come to rest, and
\* whoever asks for an application or a command to be started is told once and truly: in
\* every behaviour.
THEOREM ApplicationsAreAlwaysServed == MCSpec => []ApplicationsAreServed
<1>1. ASSUME UsedInv PROVE ApplicationsAreServed
  <2>1. /\ used = "launcher" => LauncherIsCurrent
        /\ used = "entries" => EntriesAreTheFiles
        /\ used = "mime" => MimeDefaultsSettle
        /\ used = "integration" => IntegrationIsCurrent
    BY <1>1, DefaultsSettle, ReportIsCurrent, LauncherCatchesUp, EntriesSettle DEF UsedInv
  <2>2. /\ used = "portal" => PortalSettles
        /\ used = "launch" => LaunchIsHonest
        /\ used = "process" => GuardedAnswersOnce
    BY <1>1, PortalIsSettled, LaunchesAreHonest, ProcessesAnswerOnce DEF UsedInv
  <2> QED
    BY <2>1, <2>2 DEF ApplicationsAreServed
<1>2. UsedInv => ApplicationsAreServed
  BY <1>1
<1> QED
  BY <1>2, UsedInvHolds, PTL

\* What a server holds is what the fetch returns, what it returns replaces what is cached,
\* and what is cached is reminded of: in every behaviour.
THEOREM CalendarIsAlwaysPassedOn == MCSpec => []CalendarIsPassedOn
<1>1. UsedInv => CalendarIsPassedOn
  BY FetchesAreComplete, CacheIsKept, RemindersAreGiven DEF UsedInv, CalendarIsPassedOn
<1> QED
  BY <1>1, UsedInvHolds, PTL

\* The state of every service is well formed: in every behaviour.
THEOREM ServicesAreAlwaysTyped == MCSpec => []TypesOK
<1>1. ASSUME UsedInv PROVE TypesOK
  <2>1. /\ used = "launch" => LaunchTypeOK
        /\ used = "process" => GuardedTypeOK
        /\ used = "config" => ConfigTypeOK
        /\ used = "mime" => MimeTypeOK
    BY <1>1, LaunchesAreHonest, ProcessesAnswerOnce, ConfigurationIsKept, DefaultsSettle DEF UsedInv
  <2>2. /\ used = "integration" => IntegrationTypeOK
        /\ used = "portal" => PortalTypeOK
        /\ used = "caldav" => DavTypeOK
        /\ used = "cache" => CacheTypeOK
    BY <1>1, ReportIsCurrent, PortalIsSettled, FetchesAreComplete, CacheIsKept DEF UsedInv
  <2>3. /\ used = "reminders" => ReminderTypeOK
        /\ used = "launcher" => LauncherTypeOK
        /\ used = "entries" => EntriesTypeOK
        /\ used = "feed" => FeedTypeOK
    BY <1>1, RemindersAreGiven, EntriesWellTyped DEF UsedInv, LauncherInv
  <2> QED
    BY <2>1, <2>2, <2>3 DEF TypesOK
<1>2. UsedInv => TypesOK
  BY <1>1
<1> QED
  BY <1>2, UsedInvHolds, PTL
=============================================================================
