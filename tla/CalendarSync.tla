---------------------------- MODULE CalendarSync ----------------------------
(***************************************************************************)
(* CalendarService and its CalendarSyncManager: accounts that come and go  *)
(* with the configuration, one fetch worker per account on the thread      *)
(* pool, back-off, the event cache and the upcoming-events model, and the  *)
(* three reasons to pause polling: user idle, lid closed, battery low.     *)
(* The three polling timers are started and stopped together and are one   *)
(* variable here.  An event is a model value; an account's cache is the    *)
(* set of its events.  What the clock decides, whether a stored            *)
(* next_sync_time has passed, is a flag that time flips.  upcomingState     *)
(* and lastError only repeat the last result and are left out; the         *)
(* reminders the notification timer sends are in CalendarCache.            *)
(***************************************************************************)
EXTENDS Integers, FiniteSets

CONSTANTS Accounts,    \* (provider type, account name) keys, complete in the config
          CalDav,      \* those of provider type caldav; the others are ics
          Events,      \* events an account may have on its server
          MaxConfigs,  \* bound: changes of the configured accounts
          MaxBackoff   \* kBackoffCalDavMaxMs and kBackoffIcsMaxMs in steps of kBackoffInitialMs

ASSUME AccountsAssumption == CalDav \subseteq Accounts
ASSUME MaxConfigsAssumption == MaxConfigs \in Nat
ASSUME MaxBackoffAssumption == MaxBackoff \in Nat \ {0}

VARIABLES
  configs,       \* configuration changes so far
  known,         \* known_account_keys_
  providers,     \* the accounts sync_manager_ was created with, {} while it is null
  testing,       \* runTestConnections: none, posted, running, done
  timers,        \* caldav_timer_, ics_timer_ and notification_timer_ are active
  idle,          \* IdleService::is_idle_
  battery,       \* what battery_service_ reports, "none" when it is null
  timersPaused,  \* timers_paused_
  idlePaused,    \* idle_paused_
  lidPaused,     \* lid_paused_
  workers,       \* account -> fetches in flight on the thread pool
  inProgress,    \* in_progress_
  backoff,       \* backoff_: backoff_ms, in steps of kBackoffInitialMs
  waiting,       \* the stored next_sync_time is still to come
  cache,         \* the CalendarCache's events
  model,         \* the CalendarEventModel's events
  removed        \* accounts that were ever removed, for the properties

config == <<configs, known, providers, removed>>
pauses == <<idle, battery, timersPaused, idlePaused, lidPaused>>
syncs == <<workers, inProgress>>
view == <<cache, model>>
vars == <<config, testing, timers, pauses, syncs, backoff, waiting, view>>

Levels == {"low", "middle", "good"}  \* below 10 % discharging; neither; charging or 20 % up

TypeOK ==
  /\ configs \in 0..MaxConfigs
  /\ known \subseteq Accounts /\ providers \subseteq Accounts /\ removed \subseteq Accounts
  /\ testing \in {"none", "posted", "running", "done"}
  /\ timers \in BOOLEAN
  /\ idle \in BOOLEAN
  /\ battery \in Levels \cup {"none"}
  /\ timersPaused \in BOOLEAN /\ idlePaused \in BOOLEAN /\ lidPaused \in BOOLEAN
  /\ workers \in [Accounts -> 0..MaxConfigs]
  /\ inProgress \in [Accounts -> BOOLEAN]
  /\ backoff \in [Accounts -> 0..MaxBackoff]
  /\ waiting \in [Accounts -> BOOLEAN]
  /\ cache \in [Accounts -> SUBSET Events]
  /\ model \in [Accounts -> SUBSET Events]

\* The cache file survives from earlier runs of the shell.
Init ==
  /\ configs = 0
  /\ known = {} /\ providers = {} /\ removed = {}
  /\ testing = "none"
  /\ timers = FALSE
  /\ idle = FALSE
  /\ battery = "none"
  /\ timersPaused = FALSE /\ idlePaused = FALSE /\ lidPaused = FALSE
  /\ workers = [a \in Accounts |-> 0]
  /\ inProgress = [a \in Accounts |-> FALSE]
  /\ backoff = [a \in Accounts |-> 0]
  /\ waiting = [a \in Accounts |-> FALSE]
  /\ cache \in [Accounts -> SUBSET Events]
  /\ model = [a \in Accounts |-> {}]

----------------------------------------------------------------------------
Exists == providers # {}

BatteryLow == battery = "low"

\* Now is before the account's backoff_until, which is stored as next_sync_time.
BackingOff(a) == backoff[a] > 0 /\ waiting[a]

\* Mutant: a fetch starts beside one in progress.
StartsAlways(a) == ~BatteryLow /\ ~BackingOff(a)

\* The early returns of runProviderSync.
MayStart(a) == ~BatteryLow /\ ~inProgress[a] /\ ~BackingOff(a)

\* runProviderSync for each account of S.
StartSyncs(S) ==
  LET started == {a \in S : MayStart(a)} IN
  /\ workers' = [a \in Accounts |-> workers[a] + IF a \in started THEN 1 ELSE 0]
  /\ inProgress' = [a \in Accounts |-> inProgress[a] \/ a \in started]

\* Mutant: the doubled back-off is not capped.
Doubled(b) == IF b = 0 THEN 1 ELSE 2 * b

\* handle_error's next back-off after b: initial, then doubled up to the cap.
Longer(b) ==
  IF b = 0 THEN 1 ELSE IF 2 * b > MaxBackoff THEN MaxBackoff ELSE 2 * b

\* refreshModel, on the cache's contents c; its window of a week and its limit of
\* three events are left out.
Refresh(c) == model' = c

\* No reason to pause is left.
Unpaused(t, i, l) == ~t /\ ~i /\ ~l

----------------------------------------------------------------------------
\* onCalendarConfigChanged, in the constructor and at every change: accounts
\* that went are cleared, unless the cache cannot be written, and a sync manager
\* is created once, for the accounts there are then.  battery_service_ is looked
\* up through the QML engine, which may not know the service yet.
ConfigChanged(A) ==
  /\ configs < MaxConfigs
  /\ configs' = configs + 1
  /\ known' = A
  /\ LET gone == known \ A IN
     \/ /\ Exists
        /\ removed' = removed \cup gone
        /\ inProgress' = [a \in Accounts |-> inProgress[a] /\ a \notin gone]
        /\ backoff' = [a \in Accounts |-> IF a \in gone THEN 0 ELSE backoff[a]]
        /\ cache' \in {cache, [a \in Accounts |-> IF a \in gone THEN {} ELSE cache[a]]}
        /\ IF gone # {} THEN Refresh(cache') ELSE UNCHANGED model
        /\ UNCHANGED <<providers, testing, battery>>
     \/ /\ ~Exists
        /\ A # {}
        /\ providers' = A
        /\ testing' = "posted"
        /\ battery' \in Levels \cup {"none"}
        /\ UNCHANGED <<removed, inProgress, backoff, cache, model>>
     \/ /\ ~Exists
        /\ A = {}
        /\ UNCHANGED <<removed, inProgress, backoff, cache, model, providers, testing, battery>>
  /\ UNCHANGED <<timers, idle, timersPaused, idlePaused, lidPaused, workers, waiting>>

\* runTestConnections starts its worker.
TestConnections ==
  /\ testing = "posted"
  /\ testing' = "running"
  /\ UNCHANGED <<config, timers, pauses, syncs, backoff, waiting, view>>

\* The test worker has finished: whatever it found, polling starts and every
\* account is synced.
TestsFinished ==
  /\ testing = "running"
  /\ testing' = "done"
  /\ timers' = (timers \/ ~timersPaused)
  /\ StartSyncs(providers)
  /\ UNCHANGED <<config, pauses, backoff, waiting, cache, model>>

\* onCalDavTimer, onIcsTimer
Tick(kind) ==
  /\ timers
  /\ StartSyncs(providers \cap kind)
  /\ UNCHANGED <<config, testing, timers, pauses, backoff, waiting, view>>

\* A next_sync_time, or the back-off it holds, passes.
TimePasses(a) ==
  /\ waiting[a]
  /\ waiting' = [waiting EXCEPT ![a] = FALSE]
  /\ UNCHANGED <<config, testing, timers, pauses, syncs, backoff, view>>

\* notifySidebarOpened
SidebarOpened ==
  /\ Exists
  /\ Refresh(cache)
  /\ StartSyncs({a \in providers : ~waiting[a]})
  /\ UNCHANGED <<config, testing, timers, pauses, backoff, waiting, cache>>

\* The watcher of a finished fetch is gone and the account may be fetched again.
Ended(a) ==
  /\ workers' = [workers EXCEPT ![a] = @ - 1]
  /\ inProgress' = [inProgress EXCEPT ![a] = FALSE]

\* onSyncFinished with an error of the fetch, of the upsert (nothing stored) or
\* of the reconciliation (fresh events stored, stale ones left).
SyncFailed(a, upserted) ==
  /\ workers[a] > 0
  /\ Ended(a)
  /\ backoff' = [backoff EXCEPT ![a] = Longer(@)]
  /\ waiting' = [waiting EXCEPT ![a] = TRUE]
  /\ cache' = [cache EXCEPT ![a] = @ \cup upserted]
  /\ UNCHANGED <<config, testing, timers, pauses, model>>

\* onSyncFinished with the account's events.
SyncSucceeded(a, fresh) ==
  /\ workers[a] > 0
  /\ Ended(a)
  /\ backoff' = [backoff EXCEPT ![a] = 0]
  /\ waiting' = [waiting EXCEPT ![a] = TRUE]
  /\ cache' = [cache EXCEPT ![a] = fresh]
  /\ Refresh(cache')
  /\ UNCHANGED <<config, testing, timers, pauses>>

\* Polling pauses, or resumes with a sync of every account when no other reason
\* to pause is left.
PauseOrResume(pause, resume) ==
  \/ /\ pause
     /\ timers' = FALSE
     /\ UNCHANGED syncs
  \/ /\ ~pause /\ resume
     /\ timers' = TRUE
     /\ StartSyncs(providers)
  \/ /\ ~pause /\ ~resume
     /\ UNCHANGED <<timers, syncs>>

\* IdleService::idleChanged: setIdlePaused, once there is a sync manager.
IdleChanged ==
  /\ idle' = ~idle
  /\ \/ /\ Exists /\ idlePaused # idle'
        /\ idlePaused' = idle'
        /\ PauseOrResume(idle', Unpaused(timersPaused, FALSE, lidPaused))
     \/ /\ ~Exists \/ idlePaused = idle'
        /\ UNCHANGED <<idlePaused, timers, syncs>>
  /\ UNCHANGED <<config, testing, battery, timersPaused, lidPaused, backoff, waiting, view>>

\* LidStateMonitor::lidStateChanged, through the activity gate: pauseActivity
\* and resumeActivity, whose repetition has no effect.
LidChanged ==
  /\ Exists
  /\ lidPaused' = ~lidPaused
  /\ PauseOrResume(lidPaused', Unpaused(timersPaused, idlePaused, FALSE))
  /\ UNCHANGED <<config, testing, idle, battery, timersPaused, idlePaused, backoff, waiting, view>>

\* onBatteryChanged: polling stops below the low mark and starts again, without
\* a sync, above the resume mark.
BatteryChanged(b) ==
  /\ battery \notin {"none", b}
  /\ battery' = b
  /\ \/ /\ ~timersPaused /\ b = "low"
        /\ timersPaused' = TRUE
        /\ timers' = FALSE
     \/ /\ timersPaused /\ b = "good"
        /\ timersPaused' = FALSE
        /\ timers' = (timers \/ Unpaused(FALSE, idlePaused, lidPaused))
     \/ /\ IF timersPaused THEN b # "good" ELSE b # "low"
        /\ UNCHANGED <<timersPaused, timers>>
  /\ UNCHANGED <<config, testing, idle, idlePaused, lidPaused, syncs, backoff, waiting, view>>

Next ==
  \/ \E A \in SUBSET Accounts : ConfigChanged(A)
  \/ TestConnections
  \/ TestsFinished
  \/ \E kind \in {CalDav, Accounts \ CalDav} : Tick(kind)
  \/ \E a \in Accounts : TimePasses(a)
  \/ SidebarOpened
  \/ \E a \in Accounts, upserted \in SUBSET Events : SyncFailed(a, upserted)
  \/ \E a \in Accounts, fresh \in SUBSET Events : SyncSucceeded(a, fresh)
  \/ IdleChanged
  \/ LidChanged
  \/ \E b \in Levels : BatteryChanged(b)

Spec == Init /\ [][Next]_vars

----------------------------------------------------------------------------
(* Properties.                                                             *)

\* One fetch per account at a time, whatever starts them: the first sync, a
\* timer, a resume or the sidebar.  Only an account that was removed, which
\* forgets its fetch in progress, may get a second worker.
OneSyncPerAccount ==
  \A a \in Accounts \ removed : workers[a] <= 1 /\ (inProgress[a] <=> workers[a] = 1)

\* The popup lists only events that are still cached, even after a sync failed
\* half way or an account was removed.
ModelShowsOnlyCached ==
  \A a \in Accounts : model[a] \subseteq cache[a]

\* Once the connections are tested, polling is on whenever no reason to pause
\* is left, in whatever order idle, lid and battery came and went.
UnpausedPolls ==
  testing = "done" /\ Unpaused(timersPaused, idlePaused, lidPaused) => timers

\* Fetches, cache, popup and timers are of the same accounts and events, however
\* fetches, failures, removals and pauses interleave.
CalendarAgrees == OneSyncPerAccount /\ ModelShowsOnlyCached /\ UnpausedPolls

\* Polling is paused while the user is idle.
IdleStopsPolling == Exists /\ idle => ~timers
=============================================================================
