------------------------------ MODULE Network ------------------------------
(***************************************************************************)
(* NetworkService and its QtNetworkManagerBackend beside a NetworkManager  *)
(* that changes, stops and starts on its own.  The service reads it on the *)
(* main thread, whose reads another process may change or fail between;    *)
(* the backend reads it on a worker thread, one property after the other;  *)
(* operations run on workers and post a refresh when they are done.        *)
(***************************************************************************)
EXTENDS Naturals, FiniteSetsExt, SequencesExt

CONSTANTS AccessPoints,
          Ssid,          \* the name of each, numbered in the order of the alphabet
          Secured,       \* the access points that want a password
          Wired, NoConnection,
          MaxChanges     \* bound: changes of NetworkManager

ASSUME NetworkAssumption ==
  /\ IsFiniteSet(AccessPoints) /\ MaxChanges \in Nat
  /\ Wired \notin AccessPoints /\ NoConnection \notin AccessPoints \cup {Wired}

VARIABLES
  networkManager,  \* the external service; version counts its changes
  networkState,    \* what NetworkService shows of its own reading
  networkBackend,  \* what it shows of the backend's
  networkQuery,    \* doQueryState: query_in_progress_, query_queued_ and the worker
  networkOp        \* the user's operation: the password dialog with the row and the
                   \* name it was opened for, the call on a worker, its posted refresh

networkVars == <<networkManager, networkState, networkBackend, networkQuery, networkOp>>

Connections == {NoConnection, Wired} \cup AccessPoints
NetworkNames == {Ssid[a] : a \in AccessPoints}
NoName == 0
Kinds == {"none", "wired", "wifi"}

Managers == [up : BOOLEAN, radio : BOOLEAN, primary : Connections, visible : SUBSET AccessPoints,
             strong : SUBSET AccessPoints, saved : SUBSET NetworkNames, version : 0..MaxChanges]
WifiRows == [ssid : NetworkNames, known : BOOLEAN, connected : BOOLEAN, strong : BOOLEAN,
             ap : AccessPoints]
BackendStates == [radio : BOOLEAN, path : Connections, rows : Seq(WifiRows), version : 0..MaxChanges]
Operations == [do : {"none", "ask", "radio", "activate", "add", "disconnect", "refresh"}, row : 0..Cardinality(AccessPoints),
               target : Connections, asked : NetworkNames \cup {NoName}, version : 0..MaxChanges]

NetworkTypeOK ==
  /\ networkManager \in Managers
  /\ networkState \in [started : BOOLEAN, available : BOOLEAN, subscribed : BOOLEAN,
                       signalled : BOOLEAN, online : BOOLEAN, type : Kinds, ssid : NetworkNames \cup {NoName},
                       ap : AccessPoints \cup {NoConnection}, version : 0..MaxChanges]
  /\ networkBackend \in BackendStates
  /\ networkQuery \in [phase : {"idle", "head", "active", "networks", "finished"}, queued : BOOLEAN,
                       up : BOOLEAN, read : BackendStates]
  /\ networkOp \in Operations

NothingRead == [radio |-> FALSE, path |-> NoConnection, rows |-> <<>>, version |-> 0]
NoOperation == [do |-> "none", row |-> 0, target |-> NoConnection, asked |-> NoName, version |-> 0]

NetworkInit ==
  /\ networkManager \in {n \in Managers : n.up /\ n.radio /\ n.primary = NoConnection /\ n.visible = AccessPoints
                           /\ n.strong = {} /\ n.saved = {} /\ n.version = 0}
  /\ networkState = [started |-> FALSE, available |-> FALSE, subscribed |-> FALSE, signalled |-> FALSE, online |-> FALSE,
                     type |-> "none", ssid |-> NoName, ap |-> NoConnection, version |-> 0]
  /\ networkBackend = NothingRead
  /\ networkQuery = [phase |-> "idle", queued |-> FALSE, up |-> FALSE, read |-> NothingRead]
  /\ networkOp = NoOperation

----------------------------------------------------------------------------
(* NetworkManager and what can be read of it.                              *)

Lost(n) == IF n.primary \in n.visible \cup {Wired} THEN n ELSE [n EXCEPT !.primary = NoConnection]

NetworkChanged(n) == {[m EXCEPT !.version = @ + 1] : m \in
       {[n EXCEPT !.up = ~@]}
  \cup {[n EXCEPT !.primary = c] : c \in {NoConnection, Wired} \cup n.visible}
  \cup {Lost([n EXCEPT !.visible = @ \ {a}]) : a \in n.visible}
  \cup {[n EXCEPT !.strong = SymDiff(@, {a})] : a \in n.visible}}

KindOf(c) == IF c = Wired THEN "wired" ELSE IF c \in AccessPoints THEN "wifi" ELSE "none"

\* The values NetworkService::queryAll collects, an optional one a set of at
\* most one: the reads after the first depth have failed.
Snapshot(n, depth) ==
  [state     |-> IF depth >= 1 THEN {n.primary # NoConnection} ELSE {},
   primary   |-> IF depth >= 2 THEN {n.primary} ELSE {},
   kind      |-> IF depth >= 3 THEN {KindOf(n.primary)} ELSE {},
   specific  |-> IF depth >= 4 THEN {n.primary} ELSE {},
   apRead    |-> depth >= 5]

\* buildNetworkStateUpdate: what is left out stays as it is shown.
BuildUpdate(s) ==
  LET Cleared(type) == [type |-> {type}, ssid |-> {NoName}, ap |-> {NoConnection}]
      Kept(type)    == [type |-> {type}, ssid |-> {}, ap |-> {}] IN
  CASE s.primary \in {{}, {NoConnection}}            -> Cleared("none")
    [] s.primary \notin {{}, {NoConnection}} /\ s.kind = {} -> Kept("none")
    [] s.kind = {"wired"}                            -> Cleared("wired")
    [] s.kind = {"wifi"} /\ s.specific = {}          -> Kept("wifi")
    [] s.kind = {"wifi"} /\ s.specific # {}          ->
         [type |-> {"wifi"}, ap |-> s.specific,
          ssid |-> IF s.apRead THEN {Ssid[a] : a \in s.specific} ELSE {}]

\* What was read, or what is shown.
ReadOr(new, old) == IF new = {} THEN old ELSE CHOOSE v \in new : TRUE

\* applyStateUpdate
Applied(st, s) ==
  LET u == BuildUpdate(s) IN
  [st EXCEPT !.online = ReadOr(s.state, @), !.type = ReadOr(u.type, @), !.ssid = ReadOr(u.ssid, @), !.ap = ReadOr(u.ap, @)]

\* queryAll, which takes the version it reads at: NetworkManager may change before the reads are through.
QueryAll(st) ==
  \/ /\ networkState' = [Applied(st, Snapshot(networkManager, IF networkManager.up THEN 5 ELSE 0))
                          EXCEPT !.version = networkManager.version]
     /\ UNCHANGED networkManager
  \/ /\ networkManager.up /\ networkManager.version < MaxChanges
     /\ networkManager' \in NetworkChanged(networkManager)
     /\ \E depth \in 0..4 : networkState' = Applied(st, Snapshot(networkManager, depth))

\* Mutant: a refresh asked for while a query runs is dropped.
RefreshDrops(q) ==
  IF q.phase # "idle" THEN q ELSE [q EXCEPT !.phase = "head", !.queued = FALSE]

\* refresh, on the main thread.
RefreshQuery(q) ==
  IF q.phase # "idle" THEN [q EXCEPT !.queued = TRUE]
  ELSE [q EXCEPT !.phase = "head", !.queued = FALSE]

----------------------------------------------------------------------------
(* NetworkService.                                                         *)

\* connectToNm and the backend's start, or both waiting for the next poll.
NetworkStart ==
  /\ ~networkState.started
  /\ \/ /\ networkManager.up
        /\ QueryAll([networkState EXCEPT !.started = TRUE, !.available = TRUE, !.subscribed = TRUE])
        /\ networkQuery' = RefreshQuery(networkQuery)
     \/ /\ ~networkManager.up
        /\ networkState' = [networkState EXCEPT !.started = TRUE]
        /\ UNCHANGED <<networkManager, networkQuery>>
  /\ UNCHANGED <<networkBackend, networkOp>>

\* onPollTimer: only a service that is not available looks for NetworkManager.
NetworkPoll ==
  /\ networkState.started
  /\ \/ /\ networkState.available
        /\ QueryAll(networkState)
     \/ /\ ~networkState.available /\ networkManager.up
        /\ QueryAll([networkState EXCEPT !.available = TRUE, !.subscribed = TRUE])
  /\ networkQuery' = RefreshQuery(networkQuery)
  /\ UNCHANGED <<networkBackend, networkOp>>

\* QtNetworkManagerBackend::onPollTimer
BackendPoll ==
  /\ networkState.started
  /\ networkQuery' = RefreshQuery(networkQuery)
  /\ UNCHANGED <<networkManager, networkState, networkBackend, networkOp>>

\* A change of NetworkManager, which tells those who subscribed.
ManagerChanges ==
  /\ networkManager.version < MaxChanges
  /\ networkManager' \in NetworkChanged(networkManager)
  /\ networkState' = [networkState EXCEPT !.signalled =
       @ \/ (networkState.subscribed /\ networkManager'.up /\ networkManager'.primary # networkManager.primary)]
  /\ UNCHANGED <<networkBackend, networkQuery, networkOp>>

\* onNmStateChanged of the service and of the backend.
NmStateChanged ==
  /\ networkState.signalled
  /\ QueryAll([networkState EXCEPT !.signalled = FALSE])
  /\ networkQuery' = RefreshQuery(networkQuery)
  /\ UNCHANGED <<networkBackend, networkOp>>

----------------------------------------------------------------------------
(* doQueryState on its worker thread.                                      *)

\* isServiceRegistered, the radio and the state.
QueryHead ==
  /\ networkQuery.phase = "head"
  /\ networkQuery' = [networkQuery EXCEPT
       !.phase = IF networkManager.up THEN "active" ELSE "finished", !.up = networkManager.up,
       !.read = [NothingRead EXCEPT !.radio = networkManager.up /\ networkManager.radio,
                                    !.version = networkManager.version]]
  /\ UNCHANGED <<networkManager, networkState, networkBackend, networkOp>>

\* updateActiveConnectionState
QueryActive ==
  /\ networkQuery.phase = "active"
  /\ networkQuery' = [networkQuery EXCEPT !.phase = "networks",
       !.read.path = IF networkManager.up THEN networkManager.primary ELSE NoConnection]
  /\ UNCHANGED <<networkManager, networkState, networkBackend, networkOp>>

\* networkFromAccessPoint: the access point of the connection read before is
\* read again now, and counts as connected, or the connection's name does.
Row(n, a, path) ==
  [ssid |-> Ssid[a], known |-> Ssid[a] \in n.saved, strong |-> a \in n.strong, ap |-> a,
   connected |-> \/ path = n.primary /\ path = a
                 \/ path \in AccessPoints /\ Ssid[path] = Ssid[a]]

\* updateVisibleWifiNetworks: of the access points of one network the strongest.
Merged(n, path) ==
  LET rows == {Row(n, a, path) : a \in n.visible}
      Better(r, s) == r.ssid = s.ssid /\ (r.ap \in Secured <=> s.ap \in Secured)
                        /\ r.strong /\ ~s.strong
  IN {r \in rows : ~\E s \in rows : Better(s, r)}

\* Of equally strong ones the first that is listed.
Distinct(rows) ==
  {S \in SUBSET rows : /\ \A r, s \in S : r.ssid = s.ssid /\ (r.ap \in Secured <=> s.ap \in Secured) => r = s
                       /\ \A r \in rows : \E s \in S : r.ssid = s.ssid /\ (r.ap \in Secured <=> s.ap \in Secured)}

\* sortNetworks: which of equal rows comes first is left to the sort.
SortedRows(S) ==
  LET Before(r, s) == \/ r.connected /\ ~s.connected
                      \/ r.connected = s.connected /\ r.strong /\ ~s.strong
                      \/ r.connected = s.connected /\ r.strong = s.strong /\ r.ssid < s.ssid IN
  {rows \in [1..Cardinality(S) -> S] :
     /\ IsInjective(rows)
     /\ \A i, j \in DOMAIN rows : Before(rows[i], rows[j]) => i < j}

QueryNetworks ==
  /\ networkQuery.phase = "networks"
  /\ \E S \in Distinct(IF networkManager.up THEN Merged(networkManager, networkQuery.read.path) ELSE {}) :
       \E rows \in SortedRows(S) :
         networkQuery' = [networkQuery EXCEPT !.phase = "finished", !.read.rows = rows]
  /\ UNCHANGED <<networkManager, networkState, networkBackend, networkOp>>

\* onQueryFinished, NetworkService::onBackendStateChanged and the queued query.
QueryFinished ==
  /\ networkQuery.phase = "finished"
  /\ LET q == [networkQuery EXCEPT !.phase = "idle", !.up = FALSE, !.read = NothingRead] IN
     networkQuery' = IF q.queued THEN RefreshQuery(q) ELSE q
  /\ networkBackend' = networkQuery.read
  /\ networkState' = [networkState EXCEPT !.available = @ \/ networkQuery.up]
  /\ UNCHANGED <<networkManager, networkOp>>

----------------------------------------------------------------------------
(* The user's operations.                                                  *)

Begin(do, target, asked) ==
  /\ networkState.started
  /\ networkOp' = [networkOp EXCEPT !.do = do, !.row = 0, !.target = target, !.asked = asked]
  /\ UNCHANGED <<networkManager, networkState, networkBackend, networkQuery>>

\* setWifiEnabled; rescanWifi runs like an operation that is refused.
SetWifiEnabled ==
  /\ networkOp.do = "none"
  /\ Begin("radio", NoConnection, NoName)

\* connectNetwork, from a click on a row: known or open networks.
ConnectNetwork(row) ==
  LET r == networkBackend.rows[row] IN
  /\ networkOp.do = "none"
  /\ r.known \/ r.ap \notin Secured
  /\ Begin(IF r.known THEN "activate" ELSE "add", r.ap, r.ssid)

\* A click on a secured unknown row opens the dialog for that row and name.
AskPassword(row) ==
  LET r == networkBackend.rows[row] IN
  /\ networkOp.do = "none"
  /\ r.ap \in Secured /\ ~r.known /\ ~r.connected
  /\ networkOp' = [networkOp EXCEPT !.do = "ask", !.row = row, !.asked = r.ssid]
  /\ UNCHANGED <<networkManager, networkState, networkBackend, networkQuery>>

\* connectNetworkWithPassword: networkAt may have no such row any more.
ConnectWithPassword ==
  /\ networkOp.do = "ask"
  /\ \/ /\ networkOp.row \in DOMAIN networkBackend.rows
        /\ Begin("add", networkBackend.rows[networkOp.row].ap, networkOp.asked)
     \/ /\ networkOp.row \notin DOMAIN networkBackend.rows
        /\ Begin("none", NoConnection, NoName)

\* disconnectActive, of the connection the backend has shown.
DisconnectActive ==
  /\ networkOp.do = "none"
  /\ networkBackend.path # NoConnection
  /\ Begin("disconnect", networkBackend.path, NoName)

\* What NetworkManager makes of an operation; an object that is gone is refused.
Effect(n, op) ==
  CASE op.do = "radio" -> Lost([n EXCEPT !.radio = ~@, !.visible = IF n.radio THEN {} ELSE AccessPoints])
    [] op.do \in {"activate", "add"} /\ op.target \in n.visible ->
         [n EXCEPT !.primary = op.target, !.saved = @ \cup {Ssid[op.target]}]
    [] op.do = "disconnect" /\ n.primary = op.target -> [n EXCEPT !.primary = NoConnection]
    [] OTHER -> n

\* The blocking call on the worker, and the refresh it posts whatever came of it.
OperationRuns ==
  /\ networkOp.do \in {"radio", "activate", "add", "disconnect"}
  /\ \/ /\ networkManager.up /\ networkManager.version < MaxChanges
        /\ networkManager' = [Effect(networkManager, networkOp) EXCEPT !.version = @ + 1]
     \/ UNCHANGED networkManager
  /\ networkOp' = [NoOperation EXCEPT !.do = "refresh", !.version = networkManager'.version]
  /\ UNCHANGED <<networkState, networkBackend, networkQuery>>

\* The posted refresh is delivered.
OperationRefreshes ==
  /\ networkOp.do = "refresh"
  /\ networkOp' = [networkOp EXCEPT !.do = "none"]
  /\ networkQuery' = RefreshQuery(networkQuery)
  /\ UNCHANGED <<networkManager, networkState, networkBackend>>

NetworkNext ==
  \/ NetworkStart \/ NetworkPoll \/ BackendPoll \/ ManagerChanges \/ NmStateChanged
  \/ QueryHead \/ QueryActive \/ QueryNetworks \/ QueryFinished
  \/ SetWifiEnabled \/ DisconnectActive \/ ConnectWithPassword
  \/ \E row \in DOMAIN networkBackend.rows : ConnectNetwork(row) \/ AskPassword(row)
  \/ OperationRuns \/ OperationRefreshes

----------------------------------------------------------------------------
(* Properties.                                                             *)

\* What an operation did to NetworkManager is read again: until the lists show a
\* reading begun after it, its refresh is posted, or queued behind the reading
\* under way, or that reading was begun after it (refresh, onQueryFinished).
NoEffectIsForgotten ==
  networkOp.version > networkBackend.version =>
    \/ networkOp.do = "refresh"
    \/ networkQuery.queued
    \/ networkQuery.phase = "head"
    \/ networkQuery.phase # "idle" /\ networkQuery.read.version >= networkOp.version

\* A reading begun after the last change shows NetworkManager as it is, whatever
\* an interrupted one or one of an older moment had left: the reading of the main
\* thread, which keeps what it could not read, and the one of the worker, which
\* puts the connection and the access points together from several moments.
WholeReadingIsCurrent ==
  networkManager.up =>
    /\ networkState.available /\ networkState.version = networkManager.version =>
         /\ networkState.online = (networkManager.primary # NoConnection)
         /\ networkState.type = KindOf(networkManager.primary)
         /\ networkState.ap = IF networkState.type = "wifi" THEN networkManager.primary ELSE NoConnection
         /\ networkState.ssid = IF networkState.type = "wifi" THEN Ssid[networkManager.primary] ELSE NoName
    /\ networkState.available /\ networkBackend.version = networkManager.version /\ networkManager.version > 0 =>
         /\ networkBackend.path = networkManager.primary
         /\ {r.ssid : r \in ToSet(networkBackend.rows)} = {Ssid[a] : a \in networkManager.visible}
         /\ \A r \in ToSet(networkBackend.rows) :
              r.connected <=> networkManager.primary \in AccessPoints /\ r.ssid = Ssid[networkManager.primary]
=============================================================================
