---------------------------- MODULE CalendarCache ----------------------------
(***************************************************************************)
(* The calendar's SQLite file: its opening with the migration of the file  *)
(* an earlier shell left, what a sync, a removed account and the window of *)
(* kept days do to its rows.  Every statement outside a transaction and    *)
(* every transaction is one step that may fail; the shell may end between  *)
(* two of them.  The handlers that issue them are synchronous.  A row is a *)
(* uid, its account and its start.  The accounts table, which only tests   *)
(* fill, and the sync_state table, which is the waiting of CalendarSync,   *)
(* have no rows here.                                                      *)
(***************************************************************************)
EXTENDS Integers, Sequences, FiniteSets

CONSTANTS CacheAccounts,  \* [type, name] of every account the shell may have
          Answers,        \* what a server may answer: functions from uids to starts
          LegacyRows,     \* sets of rows a file of version 2 to 5 may hold
          LastTime,       \* bound of the clock
          RetainPast, RetainFuture   \* kRetainPastDays, kRetainFutureDays

VARIABLES
  database,    \* version (0 without a row), tables, columns and rows of events
  cacheOpen,   \* open_
  todo,        \* the statements the handler under way has yet to run
  syncing,     \* its account, and the events onSyncFinished was given
  time,
  held,        \* account -> the uids that must and that may be cached, for the properties
  lost         \* the columns that failed statements left out, for the properties

cacheVars == <<database, cacheOpen, todo, syncing, time, held, lost>>

Tables == {"accounts", "events", "sync_state"}
Columns == {"title", "location", "dtstamp", "alarms"}   \* of the 32, the last that each version added
CurrentVersion == 5

CachedRow(u, a, at) == [uid |-> u, account |-> a, at |-> at]

\* The uid and the account are the primary key of a row.
ASSUME CacheAssumption ==
  /\ LastTime \in Nat
  /\ \A rows \in LegacyRows : \A r, s \in rows : r.uid = s.uid /\ r.account = s.account => r = s

CachedUids(a) == {r.uid : r \in {x \in database.rows : x.account = a}}
Usable == "events" \in database.tables /\ database.columns = Columns

CacheTypeOK ==
  /\ database.version \in 0..CurrentVersion /\ database.tables \subseteq Tables
  /\ database.columns \subseteq Columns
  /\ \A r, s \in database.rows : r.uid = s.uid /\ r.account = s.account => r = s
  /\ cacheOpen \in BOOLEAN /\ time \in 0..LastTime

\* The columns of the events table as each version made it.
ColumnsOf(version) ==
  CASE version \in {0, 1} -> {}
    [] version = 2 -> {"title"}
    [] version = 3 -> {"title", "location"}
    [] version = 4 -> {"title", "location", "dtstamp"}
    [] version = 5 -> Columns

\* No file, or the one a shell of some version closed.
CacheInit ==
  /\ \E v \in 0..CurrentVersion, rows \in LegacyRows :
       database = [version |-> v, tables |-> IF v = 0 THEN {} ELSE Tables, columns |-> ColumnsOf(v),
                   rows |-> IF v < 2 THEN {} ELSE rows]
  /\ cacheOpen = FALSE /\ todo = <<>> /\ syncing = <<>>
  /\ time = 0
  /\ held = [a \in CacheAccounts |-> [least |-> CachedUids(a), most |-> CachedUids(a)]]
  /\ lost = {}

----------------------------------------------------------------------------
(* Opening.                                                                *)

\* migrateToV2 and createSchemaV2
Drops == <<<<"drop", "events">>, <<"drop", "sync_state">>, <<"drop", "accounts">>>>
Creates == <<<<"create", "accounts">>, <<"create", "events">>, <<"create", "sync_state">>>>

\* initOrMigrate: a file of the first version is emptied, the columns of later versions
\* are added to a file of the others, and the version is replaced in two statements.
Migration(version) ==
  IF version = CurrentVersion THEN <<>>
  ELSE (IF version = 1 THEN Drops ELSE <<>>) \o Creates
         \o (IF version = 2 THEN <<<<"add", "location">>>> ELSE <<>>)
         \o (IF version \in {2, 3} THEN <<<<"add", "dtstamp">>>> ELSE <<>>)
         \o (IF version \in 2..4 THEN <<<<"add", "alarms">>>> ELSE <<>>)
         \o <<<<"version", "forget">>, <<"version", "write">>>>

\* CalendarCache::open
OpenCache ==
  /\ ~cacheOpen /\ todo = <<>>
  /\ todo' = Append(Migration(database.version), <<"opened">>)
  /\ held' = IF database.version = 1 THEN [a \in CacheAccounts |-> [held[a] EXCEPT !.least = {}]] ELSE held
  /\ UNCHANGED <<database, cacheOpen, syncing, time, lost>>

\* What is there already is left as it is; a version beside one that could not be
\* deleted is never read.
Defined(s, d) ==
  CASE s[1] = "drop" -> [d EXCEPT !.tables = @ \ {s[2]}, !.rows = IF s[2] = "events" THEN {} ELSE @,
                                  !.columns = IF s[2] = "events" THEN {} ELSE @]
    [] s[1] = "create" -> [d EXCEPT !.tables = @ \cup {s[2]},
                                    !.columns = IF s[2] = "events" /\ "events" \notin d.tables THEN Columns ELSE @]
    [] s[1] = "add" -> [d EXCEPT !.columns = @ \cup {s[2]}]
    [] s = <<"version", "forget">> -> [d EXCEPT !.version = 0]
    [] s = <<"version", "write">> -> [d EXCEPT !.version = IF @ = 0 THEN CurrentVersion ELSE @]

\* The columns a failed statement leaves out, the version being written all the same.
LeftOut(s) == CASE s[1] = "add" -> {s[2]} [] s = <<"drop", "events">> -> Columns [] OTHER -> {}

\* execDdl and writeSchemaVersion: only a table that is not created ends the opening.
Define ==
  /\ todo # <<>> /\ Head(todo)[1] \in {"drop", "create", "add", "version"}
  /\ LET s == Head(todo) IN
     \/ /\ database' = Defined(s, database)
        /\ todo' = Tail(todo)
        /\ UNCHANGED lost
     \/ /\ todo' = IF s[1] = "create" THEN <<>> ELSE Tail(todo)
        /\ lost' = lost \cup (LeftOut(s) \ database.columns)
        /\ UNCHANGED database
  /\ UNCHANGED <<cacheOpen, syncing, time, held>>

Opened ==
  /\ todo = <<<<"opened">>>>
  /\ cacheOpen' = TRUE /\ todo' = <<>>
  /\ UNCHANGED <<database, syncing, time, held, lost>>

----------------------------------------------------------------------------
(* Syncs.                                                                  *)

Kept(at) == at >= time - RetainPast /\ at <= time + RetainFuture

\* upsertEvents, reconcileAccountEvents, pruneExpired and clearAccountEvents.
\* Mutant, ReconciledAll: the rows of other accounts are reconciled as well.
Upserted(rows, a, fresh) ==
  {r \in rows : r.account # a \/ r.uid \notin DOMAIN fresh} \cup {CachedRow(u, a, fresh[u]) : u \in DOMAIN fresh}
ReconciledAll(rows, a, fresh) == {r \in rows : r.uid \in DOMAIN fresh}
Reconciled(rows, a, fresh) == {r \in rows : r.account = a => r.uid \in DOMAIN fresh}
Pruned(rows) == {r \in rows : Kept(r.at)}
Cleared(rows, a) == {r \in rows : r.account # a}

\* onSyncFinished with the events of account a
SyncAnswered(a, fresh) ==
  /\ cacheOpen /\ todo = <<>>
  /\ syncing' = <<a, fresh>>
  /\ todo' = <<<<"upsert">>, <<"reconcile">>, <<"prune">>, <<"state", "ok">>>>
  /\ held' = [b \in CacheAccounts |->
       LET stays == {u \in held[b].least : \A r \in database.rows : r.account = b /\ r.uid = u => Kept(r.at)} IN
       IF b # a THEN [held[b] EXCEPT !.least = stays]
       ELSE [least |-> {u \in stays \cap DOMAIN fresh : Kept(fresh[u])}, most |-> held[a].most \cup DOMAIN fresh]]
  /\ UNCHANGED <<database, cacheOpen, time, lost>>

\* removeAccount
AccountRemoved(a) ==
  /\ cacheOpen /\ todo = <<>>
  /\ syncing' = <<a, <<>>>>
  /\ todo' = <<<<"clear">>>>
  /\ held' = [held EXCEPT ![a].least = {}]
  /\ UNCHANGED <<database, cacheOpen, time, lost>>

Changed(s, rows, a, fresh) ==
  CASE s = "upsert" -> Upserted(rows, a, fresh)
    [] s = "reconcile" -> Reconciled(rows, a, fresh)
    [] s = "prune" -> Pruned(rows)
    [] s = "clear" -> Cleared(rows, a)

\* One transaction on the rows.  A failed upsert or reconciliation makes the sync a failed one.
ChangeRows ==
  /\ todo # <<>> /\ Head(todo)[1] \in {"upsert", "reconcile", "prune", "clear"}
  /\ LET s == Head(todo)[1]  a == syncing[1]  fresh == syncing[2] IN
     \/ /\ Usable
        /\ database' = [database EXCEPT !.rows = Changed(s, @, a, fresh)]
        /\ todo' = Tail(todo)
        /\ held' = IF s = "clear" THEN [held EXCEPT ![a].most = {}] ELSE held
     \/ /\ todo' = IF s \in {"upsert", "reconcile"} THEN <<<<"state", "error">>>> ELSE Tail(todo)
        /\ UNCHANGED <<database, held>>
  /\ syncing' = IF todo' = <<>> THEN <<>> ELSE syncing
  /\ UNCHANGED <<cacheOpen, time, lost>>

\* storeSyncState, successful or not, and the end of the handler
StoreSyncState ==
  /\ todo # <<>> /\ Head(todo)[1] = "state"
  /\ LET a == syncing[1]  fresh == syncing[2] IN
     held' = IF Head(todo)[2] = "error" THEN held
                 ELSE [held EXCEPT ![a] = [least |-> {u \in DOMAIN fresh : Kept(fresh[u])}, most |-> DOMAIN fresh]]
  /\ todo' = <<>> /\ syncing' = <<>>
  /\ UNCHANGED <<database, cacheOpen, time, lost>>

----------------------------------------------------------------------------
(* The clock, and the end of the shell.                                    *)

TimeGoesOn ==
  /\ todo = <<>> /\ time < LastTime
  /\ time' = time + 1
  /\ UNCHANGED <<database, cacheOpen, todo, syncing, held, lost>>

\* Between any two statements.
ShellEnds ==
  /\ cacheOpen' = FALSE /\ todo' = <<>> /\ syncing' = <<>>
  /\ UNCHANGED <<database, time, held, lost>>

CacheNext ==
  \/ OpenCache \/ Define \/ Opened \/ ChangeRows \/ StoreSyncState
  \/ \E a \in CacheAccounts : AccountRemoved(a) \/ \E fresh \in Answers : SyncAnswered(a, fresh)
  \/ TimeGoesOn \/ ShellEnds

----------------------------------------------------------------------------
(* Properties.                                                             *)

\* Whatever version made the file, and wherever an earlier opening was cut off, an open
\* cache has all its tables, and every column but those a failed statement left out.
OpenCacheIsWhole ==
  cacheOpen => /\ database.tables = Tables
               /\ Columns \ lost \subseteq database.columns

\* A sync drops only what its answer lacks, and nothing of another account: cut off or
\* failed between any two statements it leaves every event that both the last complete
\* answer and its own hold, and none that no answer ever held.
SyncDropsOnlyTheGone ==
  \A a \in CacheAccounts : held[a].least \subseteq CachedUids(a) /\ CachedUids(a) \subseteq held[a].most

----------------------------------------------------------------------------
(***************************************************************************)
(* The reminders of what is cached, with a state of their own: the         *)
(* notification timer looks every minute for the events that are near, and *)
(* remembers of which it has told, by uid and account name and not by      *)
(* start.  The cache changes under it, the timer is stopped by the pauses  *)
(* of CalendarSync, and the notification service may not be there.  Time   *)
(* is counted in minutes.                                                  *)
(***************************************************************************)

CONSTANTS Reminded,      \* events that may be cached: [uid, type, account]
          StartMinutes,        \* minutes at which an event may start
          LastMinute,    \* bound of the clock
          NotifyWindow,  \* kNotifyWindowSecs
          MaxMoves       \* bound: changes of the cache

NoStart == -99

\* The window is longer than the timer's minute.
ASSUME RemindersAssumption ==
  /\ StartMinutes \subseteq Int /\ NoStart \notin StartMinutes
  /\ LastMinute \in Nat /\ MaxMoves \in Nat /\ NotifyWindow \in Nat /\ NotifyWindow > 1

VARIABLES
  agenda,    \* event -> its start in the cache, or NoStart
  minute,    \* the clock, whether the timer is active, whether it has looked in this minute
  fired,     \* fired_notifications_
  announced  \* for the properties: the <<event, start, kind>> that were sent, those that the
             \* timer may have missed, and the changes so far

reminderVars == <<agenda, minute, fired, announced>>

ReminderKinds == {"15min", "now"}

\* dedup_key, which has no provider type and no start.
Key(e) == <<e.uid, e.account>>

\* What is set to a start that is near or past may be seen late or never.
Late(e, start) == IF start \in StartMinutes /\ start < minute.at + NotifyWindow THEN {<<e, start, kind>> : kind \in ReminderKinds} ELSE {}

ReminderInit ==
  /\ agenda \in [Reminded -> StartMinutes \cup {NoStart}]
  /\ minute = [at |-> 0, timer |-> FALSE, looked |-> FALSE]
  /\ fired = {}
  /\ announced = [sent |-> {}, missed |-> UNION {Late(e, agenda[e]) : e \in Reminded}, moves |-> 0]

ReminderTypeOK ==
  /\ agenda \in [Reminded -> StartMinutes \cup {NoStart}]
  /\ minute.at \in 0..LastMinute /\ {minute.timer, minute.looked} \subseteq BOOLEAN
  /\ announced.moves \in 0..MaxMoves

\* What queryRange(now - 60 s, now + window) returns, and which reminder is due for it.
InQuery(e) == agenda[e] >= minute.at - 1 /\ agenda[e] < minute.at + NotifyWindow
KindOf(e) == IF agenda[e] > minute.at THEN "15min" ELSE "now"
Due == {<<e, agenda[e], KindOf(e)>> : e \in {x \in Reminded : InQuery(x)}}

\* Of the events of one key the first in the order of the query is told of.
Announces ==
  {t \in Due : /\ <<Key(t[1]), t[3]>> \notin fired
               /\ \A s \in Due : Key(s[1]) = Key(t[1]) /\ s[3] = t[3] => t[2] <= s[2]}

\* dispatchNotifications; of two that start together one is told of. The keys are fired
\* whether a notification service is there or not.
DispatchNotifications ==
  /\ minute.timer /\ ~minute.looked
  /\ \E told \in SUBSET Announces :
       /\ \A s, t \in told : Key(s[1]) = Key(t[1]) /\ s[3] = t[3] => s = t
       /\ \A t \in Announces : \E s \in told : Key(s[1]) = Key(t[1]) /\ s[3] = t[3]
       /\ fired' = fired \cup {<<Key(t[1]), t[3]>> : t \in told}
       /\ \/ announced' = [announced EXCEPT !.sent = @ \cup told]
          \/ announced' = [announced EXCEPT !.missed = @ \cup told]
  /\ minute' = [minute EXCEPT !.looked = TRUE]
  /\ UNCHANGED agenda

\* The timer fires once a minute while it is active.
MinutePasses ==
  /\ minute.at < LastMinute
  /\ minute.timer => minute.looked
  /\ minute' = [minute EXCEPT !.at = @ + 1, !.looked = FALSE]
  /\ announced' = IF minute.timer THEN announced ELSE [announced EXCEPT !.missed = @ \cup Due]
  /\ UNCHANGED <<agenda, fired>>

\* The end of the connection tests or a resume, after which the timer fires in a minute, and a pause.
TimerStarted ==
  /\ ~minute.timer
  /\ minute' = [minute EXCEPT !.timer = TRUE, !.looked = TRUE]
  /\ announced' = [announced EXCEPT !.missed = @ \cup Due]
  /\ UNCHANGED <<agenda, fired>>

TimerStopped ==
  /\ minute.timer
  /\ minute' = [minute EXCEPT !.timer = FALSE]
  /\ UNCHANGED <<agenda, fired, announced>>

\* A sync, or the removal of an account, changes the cache.
AgendaChanged(e, start) ==
  /\ announced.moves < MaxMoves
  /\ agenda[e] # start
  /\ agenda' = [agenda EXCEPT ![e] = start]
  /\ announced' = [announced EXCEPT !.moves = @ + 1, !.missed = @ \cup Late(e, start)]
  /\ UNCHANGED <<minute, fired>>

\* The shell starts again, with nothing fired.
RemindersRestart ==
  /\ announced.moves < MaxMoves
  /\ fired' = {}
  /\ minute' = [minute EXCEPT !.timer = FALSE]
  /\ announced' = [announced EXCEPT !.moves = @ + 1]
  /\ UNCHANGED agenda

ReminderNext ==
  \/ DispatchNotifications \/ MinutePasses \/ TimerStarted \/ TimerStopped \/ RemindersRestart
  \/ \E e \in Reminded, start \in StartMinutes \cup {NoStart} : AgendaChanged(e, start)

----------------------------------------------------------------------------
(* Properties of the reminders.                                            *)

\* An event that was in the cache with its start before it was near, while the timer ran
\* and somebody could be told, has been told of twice by the minute after its start,
\* unless another event of its key, or itself at an earlier start, was told of instead.
RemindedUnlessMoved ==
  \A e \in Reminded, kind \in ReminderKinds :
    agenda[e] # NoStart /\ minute.at > agenda[e] + 1 =>
      \/ <<e, agenda[e], kind>> \in announced.sent \cup announced.missed
      \/ \E t \in announced.sent \cup announced.missed :
           t[3] = kind /\ Key(t[1]) = Key(e) /\ <<t[1], t[2]>> # <<e, agenda[e]>>
=============================================================================
