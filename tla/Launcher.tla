------------------------------- MODULE Launcher -------------------------------
(***************************************************************************)
(* LauncherService, LauncherModel, DesktopEntryCache and RecentAppsTracker:*)
(* the applications on the disk, the cache they are first shown from, the  *)
(* validator that scans in a worker, the rows the user selects in and the  *)
(* launches that are remembered.  One watched directory; a file is added   *)
(* or removed, never rewritten; a scan sees the directory at one moment.   *)
(***************************************************************************)
EXTENDS Naturals, FiniteSets, SequencesExt, Subsequences

CONSTANTS AppOrder,     \* the applications by name
          WithAction,   \* those with an action, one each
          Matching,     \* those the query finds
          MaxRecent     \* kMaxEntries

Apps == ToSet(AppOrder)

ASSUME LauncherAssumption == AppOrder \in Seq(Apps) /\ MaxRecent \in Nat

VARIABLES
  appDisk,       \* desktop files
  appCache,      \* launcher.db: the entries it holds, {} also when it cannot be opened
  launcher,      \* LauncherService and LauncherModel
  launcherScan,  \* the validator: its future, the timers and flags that start it
  recentApps     \* RecentAppsTracker::entries_, oldest last_used first, and
                 \* launch-history.json, which every change is written to

launcherVars == <<appDisk, appCache, launcher, launcherScan, recentApps>>

\* A result row shows an entry, by its index in entries_, or the entry's action.
Rows == [entry : 1..Len(AppOrder), action : BOOLEAN]

LauncherTypeOK ==
  /\ appDisk \subseteq Apps /\ appCache \subseteq Apps
  /\ launcher \in [started : BOOLEAN, entries : Seq(Apps), rows : Seq(Rows), query : BOOLEAN,
                   selected : 0..2 * Len(AppOrder), launching : Apps \cup {"none"}]
  /\ launcherScan \in [future : {"idle", "running", "read", "ended"}, found : SUBSET Apps, rerun : BOOLEAN,
                       later : BOOLEAN, debounce : BOOLEAN]
  /\ recentApps \in Seq(Apps)

ScanAtRest == [future |-> "idle", found |-> {}, rerun |-> FALSE, later |-> FALSE, debounce |-> FALSE]
Stopped == [started |-> FALSE, entries |-> <<>>, rows |-> <<>>, query |-> FALSE, selected |-> 0, launching |-> "none"]

LauncherInit ==
  /\ appDisk \in SUBSET Apps /\ appCache \in SUBSET Apps
  /\ launcher = Stopped /\ launcherScan = ScanAtRest
  /\ recentApps = <<>>

----------------------------------------------------------------------------
(* The model.  Rows are numbered from 1, selected_index_ -1 is 0.          *)

Sorted(apps) == ElementsIn(AppOrder, apps)

\* rebuildResults: all entries, or the entries found and then their actions.
RowsOf(entries, query) ==
  LET shown == ElementsIn([i \in 1..Len(entries) |-> i], {i \in 1..Len(entries) : query => entries[i] \in Matching})
      acting == ElementsIn(shown, {i \in 1..Len(entries) : query /\ entries[i] \in WithAction}) IN
  [i \in 1..Len(shown) |-> [entry |-> shown[i], action |-> FALSE]]
    \o [i \in 1..Len(acting) |-> [entry |-> acting[i], action |-> TRUE]]

FirstRow(rows) == IF rows = <<>> THEN 0 ELSE 1

\* captureSelectionBeforeModelReset and refreshSelectionAfterModelReset: when the
\* selection is captured entries_ is the new list already and results_ still the
\* old one.
Reselected(entries, l) ==
  LET old == l.rows[l.selected]
      rows == RowsOf(entries, l.query)
      same == {i \in 1..Len(rows) : entries[rows[i].entry] = entries[old.entry] /\ rows[i].action = old.action} IN
  IF l.selected = 0 \/ rows = <<>> THEN FirstRow(rows)
  ELSE IF old.entry > Len(entries) \/ (old.action /\ entries[old.entry] \notin WithAction) THEN 1
  ELSE IF same # {} THEN CHOOSE i \in same : \A j \in same : i <= j
  ELSE IF l.selected <= Len(rows) THEN l.selected ELSE Len(rows)

\* setEntries with what is connected to the reset: the recent ones that are gone
\* are dropped and written.
SetEntries(apps, l) ==
  LET entries == Sorted(apps) IN
  /\ launcher' = [l EXCEPT !.entries = entries, !.rows = RowsOf(entries, l.query), !.selected = Reselected(entries, l)]
  /\ recentApps' = ElementsIn(recentApps, apps)

----------------------------------------------------------------------------
(* The validator.                                                          *)

\* Mutant: a request while a scan runs is lost.
ValidatorOnce(v) ==
  IF v.future \in {"running", "read"} THEN v ELSE [v EXCEPT !.future = "running", !.found = {}]

\* runValidator.  A future that has ended is replaced, and its finished signal, if still
\* queued, dropped.
RunValidator(v) ==
  IF v.future \in {"running", "read"} THEN [v EXCEPT !.rerun = TRUE]
  ELSE [v EXCEPT !.future = "running", !.found = {}]

\* start: from the cache, or from a scan the cache is rebuilt with.
LauncherStart ==
  /\ ~launcher.started
  /\ IF appCache # {} THEN SetEntries(appCache, [launcher EXCEPT !.started = TRUE]) /\ UNCHANGED appCache
     ELSE /\ SetEntries(appDisk, [launcher EXCEPT !.started = TRUE])
          /\ appCache' \in {appCache, appDisk}
  /\ launcherScan' = RunValidator(launcherScan)
  /\ UNCHANGED appDisk

\* The package manager; directoryChanged starts the debounce timer.
DiskChanges(a) ==
  /\ appDisk' = IF a \in appDisk THEN appDisk \ {a} ELSE appDisk \cup {a}
  /\ launcherScan' = [launcherScan EXCEPT !.debounce = @ \/ launcher.started]
  /\ UNCHANGED <<appCache, launcher, recentApps>>

DebounceTimeout ==
  /\ launcherScan.debounce
  /\ launcherScan' = RunValidator([launcherScan EXCEPT !.debounce = FALSE])
  /\ UNCHANGED <<appDisk, appCache, launcher, recentApps>>

\* validateAgainstCache: the directory is read.
WorkerScans ==
  /\ launcherScan.future = "running"
  /\ launcherScan' = [launcherScan EXCEPT !.future = "read", !.found = appDisk]
  /\ UNCHANGED <<appDisk, appCache, launcher, recentApps>>

\* persistValidationResult: the cache is written in one transaction, or not at all.
WorkerEnds ==
  /\ launcherScan.future = "read"
  /\ launcherScan' = [launcherScan EXCEPT !.future = "ended"]
  /\ appCache' \in {appCache, launcherScan.found}
  /\ UNCHANGED <<appDisk, launcher, recentApps>>

\* finished of the future: the entries are set, and a rerun is queued.
ValidatorFinished ==
  /\ launcherScan.future = "ended"
  /\ SetEntries(launcherScan.found, launcher)
  /\ launcherScan' = [launcherScan EXCEPT !.future = "idle", !.found = {}, !.later = @ \/ launcherScan.rerun, !.rerun = FALSE]
  /\ UNCHANGED <<appDisk, appCache>>

RerunTimeout ==
  /\ launcherScan.later
  /\ launcherScan' = RunValidator([launcherScan EXCEPT !.later = FALSE])
  /\ UNCHANGED <<appDisk, appCache, launcher, recentApps>>

----------------------------------------------------------------------------
(* The user.                                                               *)

\* setQuery: without a rescan the first row is selected.
SetQuery ==
  /\ launcher.started
  /\ LET rows == RowsOf(launcher.entries, ~launcher.query) IN
     launcher' = [launcher EXCEPT !.query = ~@, !.rows = rows, !.selected = FirstRow(rows)]
  /\ recentApps' = ElementsIn(recentApps, ToSet(launcher.entries))
  /\ UNCHANGED <<appDisk, appCache, launcherScan>>

\* setSelectedIndex and moveSelection
SelectRow ==
  /\ launcher.rows # <<>>
  /\ \E i \in 1..Len(launcher.rows) : launcher' = [launcher EXCEPT !.selected = i]
  /\ UNCHANGED <<appDisk, appCache, launcherScan, recentApps>>

\* launch, launchAction, launchDesktopFile; submitLaunch takes one at a time.
Launch ==
  /\ launcher.launching = "none"
  /\ \E a \in ToSet(launcher.entries) : launcher' = [launcher EXCEPT !.launching = a]
  /\ UNCHANGED <<appDisk, appCache, launcherScan, recentApps>>

\* recordLaunch
Remembered(a) ==
  LET used == Append(ElementsIn(recentApps, Apps \ {a}), a) IN
  IF Len(used) > MaxRecent THEN Tail(used) ELSE used

\* The completion of the launch
LaunchEnds ==
  /\ launcher.launching # "none"
  /\ launcher' = [launcher EXCEPT !.launching = "none"]
  /\ recentApps' \in {recentApps, Remembered(launcher.launching)}
  /\ UNCHANGED <<appDisk, appCache, launcherScan>>

\* The shell ends at any time, and starts again; a worker's transaction is whole or
\* undone.
ShellRestarts ==
  /\ launcher.started
  /\ launcher' = Stopped /\ launcherScan' = ScanAtRest
  /\ UNCHANGED <<appDisk, appCache, recentApps>>

LauncherNext ==
  \/ LauncherStart \/ DebounceTimeout \/ WorkerScans \/ WorkerEnds \/ ValidatorFinished \/ RerunTimeout
  \/ SetQuery \/ SelectRow \/ Launch \/ LaunchEnds \/ ShellRestarts
  \/ \E a \in Apps : DiskChanges(a)

----------------------------------------------------------------------------
(* Properties.                                                             *)

\* While the launcher does not show what is on the disk a scan is due that has not
\* read the directory yet: no change is lost between a scan, a change that comes
\* during it and its end.  Its rows are those of its entries and the selected one
\* is among them.
LauncherIsCurrent ==
  launcher.started =>
    /\ launcher.entries = Sorted(appDisk)
       \/ launcherScan.debounce \/ launcherScan.later \/ launcherScan.rerun \/ launcherScan.future = "running"
       \/ (launcherScan.future \in {"read", "ended"} /\ launcherScan.found = appDisk)
    /\ launcherScan.rerun => launcherScan.future # "idle"
    /\ launcher.rows = RowsOf(launcher.entries, launcher.query)
    /\ launcher.selected \in (IF launcher.rows = <<>> THEN {0} ELSE 1..Len(launcher.rows))
    /\ IsInjective(recentApps) /\ Len(recentApps) <= MaxRecent

\* A rescan leaves the selection on the application it was on, as long as that is
\* still listed.
SelectionSurvivesRescan ==
  [][ValidatorFinished /\ launcher.selected # 0 =>
       LET old == launcher.rows[launcher.selected]
           app == launcher.entries[old.entry]
           new == launcher'.rows IN
       (\E i \in 1..Len(new) : launcher'.entries[new[i].entry] = app /\ new[i].action = old.action)
         => launcher'.entries[new[launcher'.selected].entry] = app]_launcherVars
=============================================================================
