------------------------ MODULE NotificationHistory ------------------------
(***************************************************************************)
(* NotificationService's history, the NotificationStore that persists it   *)
(* and its worker thread.  The service and the store run on the Qt main    *)
(* thread; one write at a time runs on the global thread pool, whose end   *)
(* QFutureWatcher reports back as an event (WriteFinished).                *)
(* An entry is its serial number and read flag; the rest of its data is    *)
(* carried along.  Age is a property of the serials, since entries are     *)
(* appended in the order of their time stamps.                             *)
(***************************************************************************)
EXTENDS Integers, SequencesExt, FiniteSetsExt, Subsequences

CONSTANTS MaxRecords,  \* bound: notifications recorded, over all restarts
          ItemLimits   \* values max_items may take

ASSUME MaxRecordsAssumption == MaxRecords \in Nat
ASSUME ItemLimitsAssumption == ItemLimits # {} /\ ItemLimits \subseteq Nat \ {0}

VARIABLES
  running,   \* a shell process runs
  config,    \* history_config_, and the store's copy of it
  store,     \* store_ exists
  history,   \* history_
  unread,    \* unread_count_
  writer,    \* write_in_flight_, and whether the worker has returned
  inflight,  \* what the worker is writing
  dirty,     \* write_dirty_
  pending,   \* pending_snapshot_
  disk,      \* history.json
  recorded,  \* serial of the newest entry ever recorded
  aged,      \* entries up to this serial are older than max_age_days
  asked,     \* history when persist was last called (or loaded)
  failed     \* the last write did not reach the disk

main == <<running, config, store, history, unread>>
files == <<writer, inflight, dirty, pending, disk, asked, failed>>
historyVars == <<main, files, recorded, aged>>

Configs == [enabled : BOOLEAN, max : ItemLimits]
Entries == [serial : 1..MaxRecords, read : BOOLEAN]

HistoryTypeOK ==
  /\ running \in BOOLEAN
  /\ config \in Configs
  /\ store \in BOOLEAN
  /\ history \in Seq(Entries)
  /\ unread \in 0..MaxRecords
  /\ writer \in {"idle", "writing", "done"}
  /\ inflight \in Seq(Entries)
  /\ dirty \in BOOLEAN
  /\ pending \in Seq(Entries)
  /\ disk \in Seq(Entries)
  /\ recorded \in 0..MaxRecords
  /\ aged \in 0..recorded
  /\ asked \in Seq(Entries)
  /\ failed \in BOOLEAN

HistoryInit ==
  /\ running = FALSE
  /\ config \in Configs
  /\ store = FALSE
  /\ history = <<>>
  /\ unread = 0
  /\ writer = "idle"
  /\ inflight = <<>>
  /\ dirty = FALSE
  /\ pending = <<>>
  /\ disk = <<>>
  /\ recorded = 0
  /\ aged = 0
  /\ asked = <<>>
  /\ failed = FALSE

----------------------------------------------------------------------------
\* Mutant: eviction by age only.
EvictedByAge(h, c, old) == SubSeqAt(h, {k \in DOMAIN h : h[k].serial > old})

\* runEviction on h: by age, then the oldest beyond max_items.
Evicted(h, c, old) ==
  LET young == SubSeqAt(h, {k \in DOMAIN h : h[k].serial > old})
      surplus == Max({0, Len(young) - c.max}) IN
  SubSeq(young, surplus + 1, Len(young))

\* runEviction returns true.
Evicts(h, c, old) == Len(Evicted(h, c, old)) # Len(h)

AllRead(h) == [k \in DOMAIN h |-> [h[k] EXCEPT !.read = TRUE]]

\* recomputeUnreadCount
UnreadIn(h) == Cardinality({k \in DOMAIN h : ~h[k].read})

\* Mutant: write_dirty_ is not reset.
LaunchKeepsDirty(h) ==
  /\ writer' = "writing"
  /\ inflight' = h
  /\ dirty' = dirty

\* launchWrite of snapshot h.
Launch(h) ==
  /\ writer' = "writing"
  /\ inflight' = h
  /\ dirty' = FALSE

\* Mutant: a snapshot that comes while a write is in flight is dropped.
PersistDrops(h) ==
  /\ asked' = h
  /\ \/ /\ writer # "idle"
        /\ UNCHANGED <<writer, inflight, dirty, pending>>
     \/ /\ writer = "idle"
        /\ Launch(h)
        /\ UNCHANGED pending
  /\ UNCHANGED <<disk, failed>>

\* persist: buffered while a write is in flight, else launched.
Persist(h) ==
  /\ asked' = h
  /\ \/ /\ writer # "idle"
        /\ dirty' = TRUE
        /\ pending' = h
        /\ UNCHANGED <<writer, inflight>>
     \/ /\ writer = "idle"
        /\ Launch(h)
        /\ UNCHANGED pending
  /\ UNCHANGED <<disk, failed>>

----------------------------------------------------------------------------
\* The process starts with configuration c: the constructor loads the file,
\* evicts by age and count, and marks what is left read.
Start(c) ==
  /\ ~running
  /\ running' = TRUE
  /\ config' = c
  /\ store' = c.enabled
  /\ unread' = 0
  /\ LET loaded == IF c.enabled THEN disk ELSE <<>> IN
       /\ history' = AllRead(Evicted(loaded, c, aged))
       /\ \/ /\ Evicts(loaded, c, aged)
             /\ Persist(AllRead(Evicted(loaded, c, aged)))
          \/ /\ ~Evicts(loaded, c, aged)
             /\ asked' = disk
             /\ UNCHANGED <<writer, inflight, dirty, pending, disk, failed>>
  /\ UNCHANGED <<recorded, aged>>

\* closeNotification of one that is recorded: not transient, Expired or Closed,
\* history enabled.
CloseNotification ==
  /\ running
  /\ config.enabled /\ store
  /\ recorded < MaxRecords
  /\ recorded' = recorded + 1
  /\ LET h == Evicted(Append(history, [serial |-> recorded + 1, read |-> FALSE]),
                      config, aged) IN
       /\ history' = h
       /\ unread' = UnreadIn(h)
       /\ Persist(h)
  /\ UNCHANGED <<running, config, store, aged>>

\* onSidebarOpened
SidebarOpened ==
  /\ running
  /\ unread # 0
  /\ history' = AllRead(history)
  /\ unread' = 0
  /\ IF store THEN Persist(AllRead(history)) ELSE UNCHANGED files
  /\ UNCHANGED <<running, config, store, recorded, aged>>

\* notificationHistoryChanged: a store is created, and the file loaded, when
\* history is enabled for the first time.  max_age_days moves the age limit.
HistoryConfigChanged(c, old) ==
  /\ running
  /\ c # config \/ old # aged
  /\ old <= recorded
  /\ config' = c
  /\ aged' = old
  /\ store' = (store \/ c.enabled)
  /\ LET h == IF c.enabled /\ ~store THEN disk ELSE history IN
     \/ /\ Evicts(h, c, old)
        /\ history' = Evicted(h, c, old)
        /\ unread' = UnreadIn(Evicted(h, c, old))
        /\ Persist(Evicted(h, c, old))
     \/ /\ ~Evicts(h, c, old)
        /\ history' = h
        /\ UNCHANGED <<unread, files>>
  /\ UNCHANGED <<running, recorded>>

\* The worker thread: writeHistoryToDisk commits the file or leaves the old one.
WriterRuns(ok) ==
  /\ running
  /\ writer = "writing"
  /\ writer' = "done"
  /\ disk' = IF ok THEN inflight ELSE disk
  /\ failed' = ~ok
  /\ UNCHANGED <<main, inflight, dirty, pending, asked, recorded, aged>>

\* onWriteFinished: writeCompleted evicts and persists, which starts a write of
\* its own; else a buffered snapshot is written.
WriteFinished ==
  /\ running
  /\ writer = "done"
  /\ LET h == Evicted(history, config, aged) IN
     \/ /\ Evicts(history, config, aged)
        /\ history' = h
        /\ unread' = UnreadIn(h)
        /\ asked' = h
        /\ Launch(h)
        /\ UNCHANGED pending
     \/ /\ ~Evicts(history, config, aged)
        /\ dirty
        /\ Launch(pending)
        /\ pending' = <<>>
        /\ UNCHANGED <<history, unread, asked>>
     \/ /\ ~Evicts(history, config, aged)
        /\ ~dirty
        /\ writer' = "idle"
        /\ UNCHANGED <<history, unread, inflight, dirty, pending, asked>>
  /\ UNCHANGED <<running, config, store, disk, failed, recorded, aged>>

\* Time makes the oldest entries older than max_age_days.
Age ==
  /\ aged < recorded
  /\ aged' = aged + 1
  /\ UNCHANGED <<main, files, recorded>>

\* The process ends, by quitting or by a signal: a write in flight completes or
\* is lost with the worker, the buffered snapshot is lost.
End(commits) ==
  /\ running
  /\ running' = FALSE
  /\ commits => writer = "writing"
  /\ disk' = IF commits THEN inflight ELSE disk
  /\ store' = FALSE
  /\ history' = <<>>
  /\ unread' = 0
  /\ writer' = "idle"
  /\ inflight' = <<>>
  /\ dirty' = FALSE
  /\ pending' = <<>>
  /\ UNCHANGED <<config, asked, failed, recorded, aged>>

HistoryNext ==
  \/ \E c \in Configs : Start(c)
  \/ CloseNotification
  \/ SidebarOpened
  \/ \E c \in Configs, old \in 0..MaxRecords : HistoryConfigChanged(c, old)
  \/ \E ok \in BOOLEAN : WriterRuns(ok)
  \/ WriteFinished
  \/ Age
  \/ \E commits \in BOOLEAN : End(commits)

\* The thread pool runs the write and the event loop handles its end.
Fairness == WF_historyVars(\E ok \in BOOLEAN : WriterRuns(ok)) /\ WF_historyVars(WriteFinished)

HistorySpec == HistoryInit /\ [][HistoryNext]_historyVars
FairSpec == HistorySpec /\ Fairness

----------------------------------------------------------------------------
(* Properties.                                                             *)

Serials(h) == {h[k].serial : k \in DOMAIN h}
ReadIn(h) == {h[k].serial : k \in {l \in DOMAIN h : h[l].read}}

\* The history never holds more than the configured number of entries, whether
\* they were loaded, appended or outlived a lowered limit, and it is in the
\* order the notifications were closed.
HistoryIsBounded ==
  running =>
    /\ Len(history) <= config.max
    /\ \A j, k \in DOMAIN history : j < k => history[j].serial < history[k].serial

\* When no write is in flight and the last one succeeded, the file holds what
\* the service last asked to persist, which is the history it now has: no
\* snapshot is forgotten in the buffer and no eviction goes unsaved.
QuietDiskIsCurrent ==
  running /\ store /\ writer = "idle" /\ ~failed =>
    /\ ~dirty
    /\ disk = asked
    /\ Serials(disk) = Serials(history)

\* What the user keeps of the notifications, in memory and on the disk, is the
\* bounded history and the same.
HistoryIsKept == HistoryIsBounded /\ QuietDiskIsCurrent

\* Snapshots reach the file in the order they were taken: an evicted entry never
\* comes back and a read one never turns unread.
DiskNeverGoesBack ==
  [][LET old == disk
         new == disk'
         seen == {s \in 1..MaxRecords : \E t \in Serials(old) : s <= t} IN
     /\ Serials(new) \cap seen \subseteq Serials(old)
     /\ \A s \in ReadIn(old) : s \in Serials(new) => s \in ReadIn(new)]_historyVars

\* What is asked to be persisted gets written, or the write fails, or the
\* process ends first: the two flags of the store never leave a snapshot behind.
AskedIsWritten ==
  (running /\ store /\ disk # asked)
    ~> (disk = asked \/ failed \/ ~running)

\* The badge counts the unread entries of the history.
UnreadIsCounted == running => unread = UnreadIn(history)
=============================================================================
