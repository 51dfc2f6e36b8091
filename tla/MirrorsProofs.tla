--------------------------- MODULE MirrorsProofs ----------------------------
(***************************************************************************)
(* What the shell mirrors of other programs is what they are: the network, *)
(* the tray and its menu, the players and their covers, and Bluetooth.     *)
(* Each is proved of its own module, from an inductive invariant that says *)
(* what is still under way; the last part is about them together.          *)
(***************************************************************************)
EXTENDS MirrorsMC, SequenceTheorems, FiniteSetTheorems, TLAPS

----------------------------------------------------------------------------
(***************************************************************************)
(* Lists.                                                                  *)
(***************************************************************************)

\* What is left of a list at some of its indices.
Restricts(a, S, b, T) ==
  /\ b \in Seq(T)
  /\ ToSet(b) = {a[i] : i \in S}
  /\ IsInjective(a) => IsInjective(b)

LEMMA ListRestricted ==
  ASSUME NEW T, NEW a \in Seq(T), NEW S \in SUBSET (DOMAIN a)
  PROVE  Restricts(a, S, SubSeqAt(a, S), T)
<1> DEFINE b == SubSeqAt(a, S)
<1>1. S \in SUBSET (1..Len(a))
  OBVIOUS
<1>2. /\ b \in Seq(T)
      /\ \A k \in 1..Len(b) : IndexAt(S, k) \in S /\ b[k] = a[IndexAt(S, k)]
      /\ \A k, l \in 1..Len(b) : k < l => IndexAt(S, k) < IndexAt(S, l)
      /\ \A i \in S : \E k \in 1..Len(b) : b[k] = a[i]
  BY <1>1, SubSeqAtProperties, Zenon
<1> HIDE DEF b
<1>3. DOMAIN b = 1..Len(b) /\ S \subseteq Int
  BY <1>1, <1>2
<1>4. ToSet(b) = {a[i] : i \in S}
  <2>1. \A k \in DOMAIN b : b[k] \in {a[i] : i \in S}
    BY <1>2, <1>3
  <2>2. \A x \in {a[i] : i \in S} : \E k \in DOMAIN b : b[k] = x
    BY <1>2, <1>3
  <2> QED
    BY <2>1, <2>2 DEF ToSet
<1>5. ASSUME IsInjective(a), NEW k \in DOMAIN b, NEW l \in DOMAIN b, b[k] = b[l] PROVE k = l
  BY <1>1, <1>2, <1>3, <1>5 DEF IsInjective
<1> QED
  BY <1>2, <1>4, <1>5 DEF IsInjective, b, Restricts

----------------------------------------------------------------------------
(***************************************************************************)
(* The network.                                                            *)
(***************************************************************************)

NetworkStates == [started : BOOLEAN, available : BOOLEAN, subscribed : BOOLEAN,
                  signalled : BOOLEAN, online : BOOLEAN, type : Kinds, ssid : NetworkNames \cup {NoName},
                  ap : AccessPoints \cup {NoConnection}, version : 0..MaxChanges]
Queries == [phase : {"idle", "head", "active", "networks", "finished"}, queued : BOOLEAN,
            up : BOOLEAN, read : BackendStates]

\* Only NetworkManager itself and its changes count the version.
LEMMA ManagerMoves ==
  ASSUME NEW n \in Managers, n.version < MaxChanges, NEW m \in NetworkChanged(n)
  PROVE  m \in Managers /\ m.version = n.version + 1
<1>1. n.version \in 0..MaxChanges /\ n.version + 1 \in 0..MaxChanges /\ n.primary \in Connections
      /\ n.visible \in SUBSET AccessPoints /\ n.strong \in SUBSET AccessPoints /\ n.up \in BOOLEAN
  BY NetworkAssumption DEF Managers
<1>2. ASSUME NEW k \in Managers, k.version = n.version
      PROVE  [k EXCEPT !.version = @ + 1] \in Managers /\ [k EXCEPT !.version = @ + 1].version = n.version + 1
  BY <1>1, <1>2 DEF Managers
<1>3. ASSUME NEW k \in Managers, k.version = n.version PROVE Lost(k) \in Managers /\ Lost(k).version = n.version
  BY <1>3 DEF Lost, Managers, Connections
<1>4. [n EXCEPT !.up = ~@] \in Managers /\ [n EXCEPT !.up = ~@].version = n.version
  BY <1>1 DEF Managers
<1>5. ASSUME NEW c \in {NoConnection, Wired} \cup n.visible
      PROVE  [n EXCEPT !.primary = c] \in Managers /\ [n EXCEPT !.primary = c].version = n.version
  BY <1>1 DEF Connections, Managers
<1>6. ASSUME NEW a \in n.visible
      PROVE  [n EXCEPT !.visible = @ \ {a}] \in Managers /\ [n EXCEPT !.visible = @ \ {a}].version = n.version
  BY <1>1 DEF Managers
<1>7. ASSUME NEW a \in n.visible
      PROVE  [n EXCEPT !.strong = SymDiff(@, {a})] \in Managers /\ [n EXCEPT !.strong = SymDiff(@, {a})].version = n.version
  BY <1>1 DEF SymDiff, Managers
<1>8. PICK k : /\ m = [k EXCEPT !.version = @ + 1]
               /\ k \in {[n EXCEPT !.up = ~@]}
                    \cup {[n EXCEPT !.primary = c] : c \in {NoConnection, Wired} \cup n.visible}
                    \cup {Lost([n EXCEPT !.visible = @ \ {a}]) : a \in n.visible}
                    \cup {[n EXCEPT !.strong = SymDiff(@, {a})] : a \in n.visible}
  BY DEF NetworkChanged
<1>9. k \in Managers /\ k.version = n.version
  BY <1>3, <1>4, <1>5, <1>6, <1>7, <1>8
<1> QED
  BY <1>2, <1>8, <1>9

LEMMA EffectTyped ==
  ASSUME NEW n \in Managers, NEW op \in Operations, n.version < MaxChanges
  PROVE  /\ [Effect(n, op) EXCEPT !.version = @ + 1] \in Managers
         /\ [Effect(n, op) EXCEPT !.version = @ + 1].version = n.version + 1
<1> DEFINE k == Effect(n, op)
<1>1. n.version \in 0..MaxChanges /\ n.version + 1 \in 0..MaxChanges
      /\ n.visible \in SUBSET AccessPoints /\ n.radio \in BOOLEAN /\ n.saved \in SUBSET NetworkNames
  BY NetworkAssumption DEF Managers
<1>2. CASE op.do = "radio"
  <2> DEFINE l == [n EXCEPT !.radio = ~@, !.visible = IF n.radio THEN {} ELSE AccessPoints]
  <2>1. l \in Managers /\ l.version = n.version
    BY <1>1 DEF Managers
  <2>2. k = Lost(l)
    BY <1>2 DEF Effect
  <2> HIDE DEF l
  <2>3. k \in Managers /\ k.version = n.version
    BY <2>1, <2>2 DEF Lost, Managers, Connections
  <2> HIDE DEF k
  <2>4. [k EXCEPT !.version = @ + 1] \in Managers /\ [k EXCEPT !.version = @ + 1].version = n.version + 1
    BY <1>1, <2>3 DEF Managers
  <2> QED
    BY <2>4 DEF k
<1>3. CASE op.do \in {"activate", "add"} /\ op.target \in n.visible
  <2>1. k = [n EXCEPT !.primary = op.target, !.saved = @ \cup {Ssid[op.target]}]
    BY <1>3 DEF Effect
  <2>2. op.target \in Connections /\ Ssid[op.target] \in NetworkNames
    BY <1>1, <1>3 DEF Connections, NetworkNames
  <2>5. n.saved \cup {Ssid[op.target]} \in SUBSET NetworkNames
    BY <1>1, <2>2
  <2>3. k \in Managers /\ k.version = n.version
    BY <2>1, <2>2, <2>5 DEF Managers
  <2> HIDE DEF k
  <2>4. [k EXCEPT !.version = @ + 1] \in Managers /\ [k EXCEPT !.version = @ + 1].version = n.version + 1
    BY <1>1, <2>3 DEF Managers
  <2> QED
    BY <2>4 DEF k
<1>4. CASE op.do = "disconnect" /\ n.primary = op.target
  <2>1. k = [n EXCEPT !.primary = NoConnection]
    BY <1>4 DEF Effect
  <2>3. k \in Managers /\ k.version = n.version
    BY <1>1, <2>1 DEF Managers, Connections
  <2> HIDE DEF k
  <2>4. [k EXCEPT !.version = @ + 1] \in Managers /\ [k EXCEPT !.version = @ + 1].version = n.version + 1
    BY <1>1, <2>3 DEF Managers
  <2> QED
    BY <2>4 DEF k
<1>5. CASE ~(op.do = "radio") /\ ~(op.do \in {"activate", "add"} /\ op.target \in n.visible)
           /\ ~(op.do = "disconnect" /\ n.primary = op.target)
  BY <1>5, <1>1 DEF Effect, Managers, k
<1> QED
  BY <1>2, <1>3, <1>4, <1>5

\* What the service shows after a reading that came as far as depth: a whole one
\* is shown as it is.
ShowsAll(st, n) ==
  /\ st.online = (n.primary # NoConnection)
  /\ st.type = KindOf(n.primary)
  /\ st.ap = IF st.type = "wifi" THEN n.primary ELSE NoConnection
  /\ st.ssid = IF st.type = "wifi" THEN Ssid[n.primary] ELSE NoName

ReadInto(st, n, depth, u) ==
  /\ u \in NetworkStates
  /\ u.started = st.started /\ u.available = st.available /\ u.subscribed = st.subscribed
  /\ u.signalled = st.signalled /\ u.version = st.version
  /\ depth = 5 => ShowsAll(u, n)

LEMMA KindOfConnection ==
  ASSUME NEW c \in Connections
  PROVE  /\ KindOf(c) \in Kinds
         /\ KindOf(c) = "none" <=> c = NoConnection
         /\ KindOf(c) = "wired" <=> c = Wired
         /\ KindOf(c) = "wifi" <=> c \in AccessPoints
BY NetworkAssumption DEF KindOf, Kinds, Connections

LEMMA AppliedReads ==
  ASSUME NEW st \in NetworkStates, NEW n \in Managers, NEW depth \in 0..5
  PROVE  ReadInto(st, n, depth, Applied(st, Snapshot(n, depth)))
<1> DEFINE s == Snapshot(n, depth)
           p == n.primary
           b == BuildUpdate(s)
           u == Applied(st, s)
           online == ReadOr(s.state, st.online)
           type == ReadOr(b.type, st.type)
           ssid == ReadOr(b.ssid, st.ssid)
           ap == ReadOr(b.ap, st.ap)
<1>1. \A old : ReadOr({}, old) = old
  BY DEF ReadOr
<1>2. \A x, old : ReadOr({x}, old) = x
  BY DEF ReadOr
<1>3. u = [st EXCEPT !.online = online, !.type = type, !.ssid = ssid, !.ap = ap]
  BY DEF Applied, NetworkStates
<1>4. p \in Connections
  BY DEF Managers
<1>5. /\ s.state = IF depth >= 1 THEN {p # NoConnection} ELSE {}
      /\ s.primary = IF depth >= 2 THEN {p} ELSE {}
      /\ s.kind = IF depth >= 3 THEN {KindOf(p)} ELSE {}
      /\ s.specific = IF depth >= 4 THEN {p} ELSE {}
  BY DEF Snapshot
<1>10. (depth = 5 => s.apRead = TRUE) /\ (depth # 5 => s.apRead = FALSE)
  <2> DEFINE whole == depth >= 5
  <2>1. s.apRead = whole
    BY DEF Snapshot
  <2>2. (depth = 5 => whole = TRUE) /\ (depth # 5 => whole = FALSE)
    OBVIOUS
  <2> HIDE DEF whole, s
  <2> QED
    BY <2>1, <2>2, Zenon
<1>6. st.online \in BOOLEAN /\ st.type \in Kinds /\ st.ssid \in NetworkNames \cup {NoName}
      /\ st.ap \in AccessPoints \cup {NoConnection}
  BY DEF NetworkStates
<1> HIDE DEF s, u
<1>11. \A x, y, z : b = [type |-> x, ssid |-> y, ap |-> z] =>
         type = ReadOr(x, st.type) /\ ssid = ReadOr(y, st.ssid) /\ ap = ReadOr(z, st.ap)
  OBVIOUS
<1>7. online \in BOOLEAN /\ (depth = 5 => online = (p # NoConnection))
  <2>1. CASE depth >= 1
    <3>1. s.state = {p # NoConnection}
      BY <1>5, <2>1
    <3>2. online = (p # NoConnection)
      BY <1>2, <3>1
    <3> QED
      BY <3>2
  <2>2. CASE ~(depth >= 1)
    BY <1>1, <1>5, <2>2, <1>6
  <2> QED
    BY <2>1, <2>2
<1> HIDE DEF type, ssid, ap
<1>8. /\ type \in Kinds /\ ssid \in NetworkNames \cup {NoName} /\ ap \in AccessPoints \cup {NoConnection}
      /\ depth = 5 => /\ type = KindOf(p)
                      /\ ap = IF type = "wifi" THEN p ELSE NoConnection
                      /\ ssid = IF type = "wifi" THEN Ssid[p] ELSE NoName
  <2>1. CASE s.primary \in {{}, {NoConnection}}
    <3>1. b = [type |-> {"none"}, ssid |-> {NoName}, ap |-> {NoConnection}]
      BY <1>5, <2>1, <1>4, KindOfConnection DEF BuildUpdate
    <3>5. type = ReadOr({"none"}, st.type) /\ ssid = ReadOr({NoName}, st.ssid) /\ ap = ReadOr({NoConnection}, st.ap)
      BY <1>11, <3>1
    <3>2. type = "none" /\ ssid = NoName /\ ap = NoConnection
      BY <1>2, <3>5
    <3>3. depth = 5 => p = NoConnection
      BY <1>5, <2>1
    <3> QED
      BY <1>4, <3>2, <3>3, KindOfConnection DEF Kinds
  <2>2. CASE s.primary \notin {{}, {NoConnection}} /\ s.kind = {}
    <3>1. b = [type |-> {"none"}, ssid |-> {}, ap |-> {}]
      BY <2>2 DEF BuildUpdate
    <3>5. type = ReadOr({"none"}, st.type) /\ ssid = ReadOr({}, st.ssid) /\ ap = ReadOr({}, st.ap)
      BY <1>11, <3>1
    <3>6. depth # 5
      BY <1>5, <2>2
    <3>2. type = "none" /\ ssid = st.ssid /\ ap = st.ap
      BY <1>1, <1>2, <3>5
    <3> QED
      BY <1>6, <3>2, <3>6 DEF Kinds
  <2>3. CASE s.primary \notin {{}, {NoConnection}} /\ s.kind = {"wired"}
    <3>1. b = [type |-> {"wired"}, ssid |-> {NoName}, ap |-> {NoConnection}]
      BY <2>3 DEF BuildUpdate
    <3>5. type = ReadOr({"wired"}, st.type) /\ ssid = ReadOr({NoName}, st.ssid) /\ ap = ReadOr({NoConnection}, st.ap)
      BY <1>11, <3>1
    <3>2. type = "wired" /\ ssid = NoName /\ ap = NoConnection
      BY <1>2, <3>5
    <3>3. depth = 5 => {KindOf(p)} = {"wired"}
      BY <1>5, <2>3
    <3>4. depth = 5 => KindOf(p) = "wired"
      BY <3>3
    <3> QED
      BY <3>2, <3>4 DEF Kinds
  <2>4. CASE s.primary \notin {{}, {NoConnection}} /\ s.kind = {"wifi"}
    <3>1. KindOf(p) = "wifi"
      BY <1>5, <2>4
    <3>2. p \in AccessPoints /\ Ssid[p] \in NetworkNames
      BY <1>4, <3>1, KindOfConnection DEF NetworkNames
    <3>3. CASE depth >= 4
      <4>1. s.specific = {p}
        BY <1>5, <3>3
      <4>2. b = [type |-> {"wifi"}, ssid |-> IF s.apRead THEN {Ssid[a] : a \in {p}} ELSE {}, ap |-> {p}]
        BY <2>4, <4>1 DEF BuildUpdate
      <4>3. {Ssid[a] : a \in {p}} = {Ssid[p]}
        OBVIOUS
      <4>7. type = ReadOr({"wifi"}, st.type) /\ ap = ReadOr({p}, st.ap)
        BY <1>11, <4>2
      <4>4. type = "wifi" /\ ap = p
        BY <1>2, <4>7
      <4>5. CASE depth = 5
        <5>1. b.ssid = {Ssid[p]}
          BY <1>10, <4>2, <4>3, <4>5
        <5>2. ssid = Ssid[p]
          BY <1>2, <1>11, <4>2, <5>1
        <5> QED
          BY <3>1, <3>2, <4>4, <5>2 DEF Kinds
      <4>6. CASE depth # 5
        BY <1>10, <4>6, <4>2, <1>1, <1>11, <1>6, <3>2, <4>4 DEF Kinds
      <4> QED
        BY <4>5, <4>6
    <3>4. CASE ~(depth >= 4)
      <4>1. s.specific = {} /\ depth # 5
        BY <1>5, <3>4
      <4>2. b = [type |-> {"wifi"}, ssid |-> {}, ap |-> {}]
        BY <2>4, <4>1 DEF BuildUpdate
      <4>4. type = ReadOr({"wifi"}, st.type) /\ ssid = ReadOr({}, st.ssid) /\ ap = ReadOr({}, st.ap)
        BY <1>11, <4>2
      <4>3. type = "wifi" /\ ssid = st.ssid /\ ap = st.ap
        BY <1>1, <1>2, <4>4
      <4> QED
        BY <1>6, <4>1, <4>3 DEF Kinds
    <3> QED
      BY <3>3, <3>4
  <2>5. s.primary \notin {{}, {NoConnection}} => s.kind \in {{}, {"wired"}, {"wifi"}}
    BY <1>5, <1>4, KindOfConnection DEF Kinds
  <2> QED
    BY <2>1, <2>2, <2>3, <2>4, <2>5
<1> HIDE DEF online, type, ssid, ap, b
<1>9. /\ u \in NetworkStates /\ u.started = st.started /\ u.available = st.available /\ u.subscribed = st.subscribed
      /\ u.signalled = st.signalled /\ u.version = st.version
      /\ u.online = online /\ u.type = type /\ u.ssid = ssid /\ u.ap = ap
  BY <1>3, <1>7, <1>8 DEF NetworkStates
<1> QED
  BY <1>7, <1>8, <1>9 DEF ReadInto, ShowsAll, s, u

----------------------------------------------------------------------------
RowsShow(rows, n) ==
  /\ {r.ssid : r \in ToSet(rows)} = {Ssid[a] : a \in n.visible}
  /\ \A r \in ToSet(rows) : r.connected <=> n.primary \in AccessPoints /\ r.ssid = Ssid[n.primary]

ManagerFits(n) == n \in Managers /\ (n.version = 0 => n.primary = NoConnection)

\* A reading of the version that is shown NetworkManager as it is.
ServiceFits(n, st) ==
  /\ st \in NetworkStates
  /\ st.version <= n.version
  /\ st.subscribed \/ st.signalled => st.available
  /\ ~st.available => st.version = 0
  /\ n.up /\ st.version = n.version => ShowsAll(st, n)

WorkerFits(n, q) ==
  /\ q \in Queries
  /\ q.read.version <= n.version /\ Len(q.read.rows) <= Cardinality(AccessPoints)
  /\ q.phase \in {"active", "networks", "finished"} /\ q.read.version = n.version /\ n.up =>
       /\ q.up
       /\ q.phase # "active" => q.read.path = n.primary
       /\ q.phase = "finished" => RowsShow(q.read.rows, n)

ListsFit(n, b) ==
  /\ b \in BackendStates
  /\ b.version <= n.version /\ Len(b.rows) <= Cardinality(AccessPoints)
  /\ n.up /\ b.version = n.version /\ n.version > 0 => b.path = n.primary /\ RowsShow(b.rows, n)

\* Nothing is forgotten, and a reading under way is not older than the lists.
EffectsFit(n, b, q, op) ==
  /\ op \in Operations /\ op.version <= n.version
  /\ q.phase \in {"active", "networks", "finished"} => b.version <= q.read.version
  /\ op.version > b.version =>
       \/ op.do = "refresh"
       \/ q.queued
       \/ q.phase = "head"
       \/ q.phase # "idle" /\ q.read.version >= op.version

NetworkInv ==
  /\ ManagerFits(networkManager)
  /\ ServiceFits(networkManager, networkState)
  /\ WorkerFits(networkManager, networkQuery)
  /\ ListsFit(networkManager, networkBackend)
  /\ EffectsFit(networkManager, networkBackend, networkQuery, networkOp)

\* Once NetworkManager has changed nothing shown or under way is of its version.
LEMMA OlderFits ==
  ASSUME NEW n, NEW m, ManagerFits(n), m \in Managers, m.version = n.version + 1
  PROVE  /\ ManagerFits(m)
         /\ \A st : ServiceFits(n, st) => ServiceFits(m, st)
         /\ \A q : WorkerFits(n, q) => WorkerFits(m, q)
         /\ \A b : ListsFit(n, b) => ListsFit(m, b)
         /\ \A b, q, op : EffectsFit(n, b, q, op) => EffectsFit(m, b, q, op)
BY NetworkAssumption DEF ManagerFits, Managers, ServiceFits, NetworkStates, WorkerFits, Queries, BackendStates,
   ListsFit, EffectsFit, Operations

\* A refresh is never lost: it starts a reading or is queued behind the one under way.
LEMMA RefreshFits ==
  ASSUME NEW n, ManagerFits(n), NEW q, WorkerFits(n, q)
  PROVE  /\ WorkerFits(n, RefreshQuery(q))
         /\ \A b, op : EffectsFit(n, b, q, op) => EffectsFit(n, b, RefreshQuery(q), op)
         /\ RefreshQuery(q).queued \/ RefreshQuery(q).phase = "head"
         /\ RefreshQuery(q).read = q.read
         /\ RefreshQuery(q).phase \in {"active", "networks", "finished"} => RefreshQuery(q).phase = q.phase
<1> DEFINE r == RefreshQuery(q)
<1>1. q \in Queries
  BY DEF WorkerFits
<1>2. CASE q.phase # "idle"
  <2>1. r = [q EXCEPT !.queued = TRUE]
    BY <1>2 DEF RefreshQuery
  <2>2. r \in Queries /\ r.queued = TRUE /\ r.phase = q.phase /\ r.up = q.up /\ r.read = q.read
    BY <1>1, <2>1 DEF Queries
  <2> HIDE DEF r
  <2>3. WorkerFits(n, r)
    BY <2>2 DEF WorkerFits
  <2>4. \A b, op : EffectsFit(n, b, q, op) => EffectsFit(n, b, r, op)
    BY <2>2 DEF EffectsFit
  <2> QED
    BY <2>2, <2>3, <2>4 DEF r
<1>3. CASE q.phase = "idle"
  <2>1. r = [q EXCEPT !.phase = "head", !.queued = FALSE]
    BY <1>3 DEF RefreshQuery
  <2>2. r \in Queries /\ r.queued = FALSE /\ r.phase = "head" /\ r.up = q.up /\ r.read = q.read
    BY <1>1, <2>1 DEF Queries
  <2> HIDE DEF r
  <2>3. WorkerFits(n, r)
    BY <2>2 DEF WorkerFits
  <2>4. \A b, op : EffectsFit(n, b, q, op) => EffectsFit(n, b, r, op)
    BY <2>2 DEF EffectsFit
  <2> QED
    BY <2>2, <2>3, <2>4 DEF r
<1> QED
  BY <1>2, <1>3

\* The reading of the main thread, whole or overtaken by a change.
LEMMA QueryAllFits ==
  ASSUME NetworkInv, NEW st \in NetworkStates, st.available, st.version = networkState.version, QueryAll(st)
  PROVE  /\ ManagerFits(networkManager') /\ ServiceFits(networkManager', networkState')
         /\ networkManager' = networkManager \/ networkManager'.version = networkManager.version + 1
<1>1. /\ ManagerFits(networkManager) /\ networkManager \in Managers /\ networkManager.up \in BOOLEAN
      /\ networkManager.version \in 0..MaxChanges /\ st.version <= networkManager.version /\ st.version \in 0..MaxChanges
  BY DEF NetworkInv, ManagerFits, ServiceFits, Managers, NetworkStates
<1>2. CASE /\ networkState' = [Applied(st, Snapshot(networkManager, IF networkManager.up THEN 5 ELSE 0))
                                 EXCEPT !.version = networkManager.version]
           /\ UNCHANGED networkManager
  <2> DEFINE depth == IF networkManager.up THEN 5 ELSE 0
             u == Applied(st, Snapshot(networkManager, depth))
  <2>1. depth \in 0..5 /\ (networkManager.up => depth = 5)
    OBVIOUS
  <2>2. networkState' = [u EXCEPT !.version = networkManager.version]
    BY <1>2
  <2> HIDE DEF depth
  <2>3. ReadInto(st, networkManager, depth, u)
    BY <1>1, <2>1, AppliedReads
  <2> HIDE DEF u
  <2>4. u \in NetworkStates /\ u.available = st.available /\ (networkManager.up => ShowsAll(u, networkManager))
    BY <2>1, <2>3 DEF ReadInto
  <2>5. /\ networkState' \in NetworkStates /\ networkState'.version = networkManager.version
        /\ networkState'.available = u.available /\ networkState'.online = u.online /\ networkState'.type = u.type
        /\ networkState'.ap = u.ap /\ networkState'.ssid = u.ssid
    BY <1>1, <2>2, <2>4 DEF NetworkStates
  <2>6. networkManager.up => ShowsAll(networkState', networkManager)
    BY <2>4, <2>5 DEF ShowsAll
  <2>7. ServiceFits(networkManager, networkState')
    BY <1>1, <2>4, <2>5, <2>6 DEF ServiceFits
  <2> QED
    BY <1>1, <1>2, <2>7
<1>3. ASSUME networkManager.version < MaxChanges, networkManager' \in NetworkChanged(networkManager),
             NEW depth \in 0..4, networkState' = Applied(st, Snapshot(networkManager, depth))
      PROVE  /\ ManagerFits(networkManager') /\ ServiceFits(networkManager', networkState')
             /\ networkManager'.version = networkManager.version + 1
  <2>1. networkManager' \in Managers /\ networkManager'.version = networkManager.version + 1
    BY <1>1, <1>3, ManagerMoves
  <2>2. ReadInto(st, networkManager, depth, networkState')
    BY <1>1, <1>3, AppliedReads
  <2>3. ManagerFits(networkManager')
    BY <1>1, <2>1, OlderFits
  <2>4. /\ networkState'.version <= networkManager'.version /\ networkState'.version # networkManager'.version
        /\ networkState'.available /\ networkState' \in NetworkStates
    BY <1>1, <2>1, <2>2, NetworkAssumption DEF ReadInto
  <2> QED
    BY <2>1, <2>3, <2>4 DEF ServiceFits
<1> QED
  BY <1>2, <1>3 DEF QueryAll


\* The rows of a reading: one of each network that is visible.
LEMMA RowsRight ==
  ASSUME NEW n \in Managers, NEW path \in Connections,
         NEW S \in Distinct(IF n.up THEN Merged(n, path) ELSE {}), NEW rows \in SortedRows(S)
  PROVE  /\ rows \in Seq(WifiRows) /\ Len(rows) <= Cardinality(AccessPoints)
         /\ n.up /\ path = n.primary => RowsShow(rows, n)
<1> DEFINE all == {Row(n, a, path) : a \in n.visible}
           M == IF n.up THEN Merged(n, path) ELSE {}
<1>1. n.visible \subseteq AccessPoints /\ n.primary \in Connections
  BY DEF Managers
<1>2. ASSUME NEW a \in n.visible
      PROVE  /\ Row(n, a, path) \in WifiRows /\ Row(n, a, path).ap = a /\ Row(n, a, path).ssid = Ssid[a]
             /\ Row(n, a, path).strong \in BOOLEAN
             /\ path = n.primary => (Row(n, a, path).connected <=> n.primary \in AccessPoints /\ Ssid[a] = Ssid[n.primary])
  BY <1>1 DEF NetworkNames, Row, WifiRows
<1>3. Merged(n, path) \subseteq all
  BY DEF Merged
<1>4. S \subseteq M /\ \A r \in M : \E s \in S : r.ssid = s.ssid
  BY DEF Distinct
<1>5. \A r \in S : \E a \in n.visible : r = Row(n, a, path)
  BY <1>3, <1>4
<1> HIDE DEF M
<1>6. IsFiniteSet(S) /\ Cardinality(S) <= Cardinality(AccessPoints) /\ Cardinality(S) \in Nat
  <2> DEFINE f == [r \in S |-> r.ap]
  <2>1. \A r \in S : r.ap \in AccessPoints /\ r = Row(n, r.ap, path)
    BY <1>1, <1>2, <1>5
  <2>2. f \in [S -> AccessPoints]
    BY <2>1
  <2>3. \A r, s \in S : f[r] = f[s] => r = s
    BY <2>1
  <2> HIDE DEF f
  <2>4. f \in Injection(S, AccessPoints)
    BY <2>2, <2>3 DEF Injection, IsInjective
  <2>5. IsFiniteSet(S) /\ Cardinality(S) <= Cardinality(AccessPoints)
    BY <2>4, NetworkAssumption, FS_Injection
  <2> QED
    BY <2>5, FS_CardinalityType
<1>7. rows \in [1..Cardinality(S) -> S] /\ IsInjective(rows)
  BY DEF SortedRows
<1>8. S \subseteq WifiRows
  BY <1>2, <1>5
<1>9. rows \in Seq(WifiRows) /\ Len(rows) = Cardinality(S) /\ DOMAIN rows = 1..Cardinality(S)
  BY <1>7, <1>8, <1>6, SeqDef
<1>10. ToSet(rows) = S
  <2>1. rows \in Injection(1..Cardinality(S), S)
    BY <1>7 DEF Injection, IsInjective
  <2>2. Cardinality(1..Cardinality(S)) = Cardinality(S)
    BY <1>6, FS_Interval
  <2>3. rows \in Surjection(1..Cardinality(S), S)
    BY <1>6, <2>1, <2>2, FS_Injection
  <2> QED
    BY <1>7, <2>3 DEF Surjection, ToSet
<1>11. ASSUME n.up, path = n.primary PROVE RowsShow(rows, n)
  BY <1>11, <1>2, <1>5, <1>4, <1>10 DEF M, Merged, RowsShow
<1> QED
  BY <1>6, <1>9, <1>11

\* The steps of a reading on the worker.
LEMMA WorkerSteps ==
  ASSUME NetworkInv, QueryHead \/ QueryActive \/ QueryNetworks
  PROVE  NetworkInv'
<1> DEFINE n == networkManager
           q == networkQuery
           r == networkQuery'
<1>1. /\ ManagerFits(n) /\ n \in Managers /\ n.version \in Nat /\ n.version \in 0..MaxChanges /\ n.up \in BOOLEAN
      /\ n.radio \in BOOLEAN /\ n.primary \in Connections
      /\ WorkerFits(n, q) /\ q \in Queries /\ q.read \in BackendStates /\ q.queued \in BOOLEAN /\ q.up \in BOOLEAN
      /\ q.read.version \in Nat /\ q.read.path \in Connections
      /\ ListsFit(n, networkBackend) /\ networkBackend.version \in Nat
      /\ EffectsFit(n, networkBackend, q, networkOp) /\ networkOp.version \in Nat
  BY NetworkAssumption DEF NetworkInv, ManagerFits, WorkerFits, Queries, Managers, BackendStates, ListsFit, EffectsFit, Operations
<1>2. UNCHANGED <<networkManager, networkState, networkBackend, networkOp>>
  BY DEF QueryHead, QueryActive, QueryNetworks
<1>3. ASSUME WorkerFits(n, r), EffectsFit(n, networkBackend, r, networkOp) PROVE NetworkInv'
  BY <1>2, <1>3 DEF NetworkInv
<1>4. ASSUME QueryHead PROVE NetworkInv'
  <2> DEFINE radio == n.up /\ n.radio
             read == [NothingRead EXCEPT !.radio = radio, !.version = n.version]
             phase == IF n.up THEN "active" ELSE "finished"
  <2>2. r = [q EXCEPT !.phase = phase, !.up = n.up, !.read = read]
    BY <1>4 DEF QueryHead
  <2>3. radio \in BOOLEAN /\ phase \in {"active", "finished"} /\ (n.up => phase = "active")
    BY <1>1
  <2> HIDE DEF radio, phase
  <2>1. NothingRead \in BackendStates /\ Len(NothingRead.rows) = 0
    BY NetworkAssumption DEF NothingRead, BackendStates, Connections
  <2>4. read \in BackendStates /\ read.rows = NothingRead.rows /\ read.version = n.version
    BY <1>1, <2>1, <2>3 DEF BackendStates
  <2> HIDE DEF read
  <2>5. r \in Queries /\ r.phase = phase /\ r.up = n.up /\ r.read = read /\ r.queued = q.queued
    BY <1>1, <2>2, <2>3, <2>4 DEF Queries
  <2> HIDE DEF r
  <2>6. 0 <= Cardinality(AccessPoints)
    BY NetworkAssumption, FS_CardinalityType
  <2>7. WorkerFits(n, r)
    BY <1>1, <2>1, <2>3, <2>4, <2>5, <2>6 DEF WorkerFits
  <2>8. EffectsFit(n, networkBackend, r, networkOp)
    BY <1>1, <2>3, <2>4, <2>5 DEF EffectsFit, ListsFit
  <2> QED
    BY <1>3, <2>7, <2>8 DEF r
<1>5. ASSUME QueryActive PROVE NetworkInv'
  <2> DEFINE path == IF n.up THEN n.primary ELSE NoConnection
  <2>1. q.phase = "active" /\ r = [q EXCEPT !.phase = "networks", !.read.path = path]
    BY <1>5 DEF QueryActive
  <2>2. path \in Connections /\ (n.up => path = n.primary)
    BY <1>1 DEF Connections
  <2> HIDE DEF path
  <2>3. r = [q EXCEPT !.phase = "networks", !.read = [q.read EXCEPT !.path = path]]
    BY <1>1, <2>1 DEF Queries
  <2>4. /\ [q.read EXCEPT !.path = path] \in BackendStates /\ [q.read EXCEPT !.path = path].path = path
        /\ [q.read EXCEPT !.path = path].version = q.read.version /\ [q.read EXCEPT !.path = path].rows = q.read.rows
    BY <1>1, <2>2 DEF BackendStates
  <2>5. /\ r \in Queries /\ r.phase = "networks" /\ r.up = q.up /\ r.queued = q.queued
        /\ r.read.path = path /\ r.read.version = q.read.version /\ r.read.rows = q.read.rows
    BY <1>1, <2>3, <2>4 DEF Queries
  <2> HIDE DEF r
  <2>6. WorkerFits(n, r)
    BY <1>1, <2>1, <2>2, <2>5 DEF WorkerFits
  <2>7. EffectsFit(n, networkBackend, r, networkOp)
    BY <1>1, <2>1, <2>5 DEF EffectsFit
  <2> QED
    BY <1>3, <2>6, <2>7 DEF r
<1>6. ASSUME QueryNetworks PROVE NetworkInv'
  <2>1. PICK S \in Distinct(IF n.up THEN Merged(n, q.read.path) ELSE {}) :
          \E rows \in SortedRows(S) : r = [q EXCEPT !.phase = "finished", !.read.rows = rows]
    BY <1>6 DEF QueryNetworks
  <2>2. PICK rows \in SortedRows(S) : r = [q EXCEPT !.phase = "finished", !.read.rows = rows]
    BY <2>1
  <2>3. q.phase = "networks"
    BY <1>6 DEF QueryNetworks
  <2>4. /\ rows \in Seq(WifiRows) /\ Len(rows) <= Cardinality(AccessPoints)
        /\ n.up /\ q.read.path = n.primary => RowsShow(rows, n)
    BY <1>1, RowsRight
  <2>5. r = [q EXCEPT !.phase = "finished", !.read = [q.read EXCEPT !.rows = rows]]
    BY <1>1, <2>2 DEF Queries
  <2>6. /\ [q.read EXCEPT !.rows = rows] \in BackendStates /\ [q.read EXCEPT !.rows = rows].path = q.read.path
        /\ [q.read EXCEPT !.rows = rows].version = q.read.version /\ [q.read EXCEPT !.rows = rows].rows = rows
    BY <1>1, <2>4 DEF BackendStates
  <2>7. /\ r \in Queries /\ r.phase = "finished" /\ r.up = q.up /\ r.queued = q.queued
        /\ r.read.path = q.read.path /\ r.read.version = q.read.version /\ r.read.rows = rows
    BY <1>1, <2>5, <2>6 DEF Queries
  <2> HIDE DEF r
  <2>8. WorkerFits(n, r)
    BY <1>1, <2>3, <2>4, <2>7 DEF WorkerFits
  <2>9. EffectsFit(n, networkBackend, r, networkOp)
    BY <1>1, <2>3, <2>7 DEF EffectsFit
  <2> QED
    BY <1>3, <2>8, <2>9 DEF r
<1> QED
  BY <1>4, <1>5, <1>6

LEMMA FinishedFits ==
  ASSUME NetworkInv, QueryFinished
  PROVE  NetworkInv'
<1> DEFINE n == networkManager
           q == networkQuery
           idle == [q EXCEPT !.phase = "idle", !.up = FALSE, !.read = NothingRead]
           available == networkState.available \/ q.up
<1>1. /\ ManagerFits(n) /\ n.version \in Nat /\ n.version \in 0..MaxChanges
      /\ WorkerFits(n, q) /\ q \in Queries /\ q.read \in BackendStates /\ q.queued \in BOOLEAN
      /\ q.read.version \in Nat /\ q.read.version <= n.version /\ Len(q.read.rows) <= Cardinality(AccessPoints)
      /\ ServiceFits(n, networkState) /\ networkState \in NetworkStates
      /\ ListsFit(n, networkBackend) /\ networkBackend.version \in Nat
      /\ EffectsFit(n, networkBackend, q, networkOp) /\ networkOp.version \in Nat
      /\ networkState.available \in BOOLEAN /\ q.up \in BOOLEAN
  BY NetworkAssumption DEF NetworkInv, ManagerFits, WorkerFits, Queries, Managers, BackendStates, ListsFit, EffectsFit,
     Operations, ServiceFits, NetworkStates
<1>2. /\ q.phase = "finished" /\ networkQuery' = IF q.queued THEN RefreshQuery(idle) ELSE idle
      /\ networkBackend' = q.read /\ networkState' = [networkState EXCEPT !.available = available]
      /\ UNCHANGED <<networkManager, networkOp>>
  BY DEF QueryFinished
<1>3. available \in BOOLEAN /\ (networkState.available => available)
  BY <1>1
<1> HIDE DEF available
<1>4. ServiceFits(n, networkState')
  BY <1>1, <1>2, <1>3 DEF NetworkStates, ServiceFits, ShowsAll
<1>5. ListsFit(n, q.read)
  BY <1>1, <1>2 DEF ListsFit, WorkerFits
<1>6. /\ idle \in Queries /\ idle.phase = "idle" /\ idle.queued = q.queued /\ idle.read.version = 0
      /\ Len(idle.read.rows) = 0
  <2>1. NothingRead \in BackendStates /\ NothingRead.version = 0 /\ Len(NothingRead.rows) = 0
    BY NetworkAssumption DEF NothingRead, BackendStates, Connections
  <2> QED
    BY <1>1, <2>1 DEF Queries
<1> HIDE DEF idle
<1>7. WorkerFits(n, idle)
  BY NetworkAssumption, FS_CardinalityType, <1>1, <1>6 DEF WorkerFits
<1>8. CASE q.queued
  BY <1>2, <1>8, <1>1, <1>7, RefreshFits, <1>6, <1>4, <1>5 DEF EffectsFit, NetworkInv
<1>9. CASE ~q.queued
  BY <1>2, <1>9, <1>1, <1>6, <1>4, <1>5, <1>7 DEF EffectsFit, NetworkInv
<1> QED
  BY <1>8, <1>9


\* A step of the user or a poll that changes what the service shows or the query.
LEMMA ServiceSteps ==
  ASSUME NetworkInv, NetworkStart \/ NetworkPoll \/ BackendPoll \/ NmStateChanged
  PROVE  NetworkInv'
<1> DEFINE n == networkManager
           q == networkQuery
<1>1. /\ ManagerFits(n) /\ WorkerFits(n, q) /\ ServiceFits(n, networkState) /\ ListsFit(n, networkBackend)
      /\ EffectsFit(n, networkBackend, q, networkOp) /\ networkState \in NetworkStates
  BY DEF NetworkInv, ServiceFits
<1>2. UNCHANGED <<networkBackend, networkOp>>
  BY DEF NetworkStart, NetworkPoll, BackendPoll, NmStateChanged
<1>3. WorkerFits(n, RefreshQuery(q)) /\ EffectsFit(n, networkBackend, RefreshQuery(q), networkOp)
  BY <1>1, RefreshFits
<1>4. ASSUME NEW st \in NetworkStates, st.available, st.version = networkState.version, QueryAll(st),
             networkQuery' = RefreshQuery(q)
      PROVE  NetworkInv'
  BY <1>4, QueryAllFits, <1>1, <1>2, <1>3, OlderFits DEF NetworkInv, ManagerFits
<1>5. ASSUME NetworkStart PROVE NetworkInv'
  <2>1. CASE /\ QueryAll([networkState EXCEPT !.started = TRUE, !.available = TRUE, !.subscribed = TRUE])
             /\ networkQuery' = RefreshQuery(q)
    <3> DEFINE st == [networkState EXCEPT !.started = TRUE, !.available = TRUE, !.subscribed = TRUE]
    <3>1. st \in NetworkStates /\ st.available /\ st.version = networkState.version
      BY <1>1 DEF NetworkStates
    <3>2. QueryAll(st)
      BY <2>1
    <3> HIDE DEF st
    <3> QED
      BY <1>4, <2>1, <3>1, <3>2
  <2>2. CASE /\ networkState' = [networkState EXCEPT !.started = TRUE]
             /\ UNCHANGED <<networkManager, networkQuery>>
    <3>1. /\ networkState' \in NetworkStates /\ networkState'.version = networkState.version
          /\ networkState'.available = networkState.available /\ networkState'.subscribed = networkState.subscribed
          /\ networkState'.signalled = networkState.signalled /\ networkState'.online = networkState.online
          /\ networkState'.type = networkState.type /\ networkState'.ap = networkState.ap
          /\ networkState'.ssid = networkState.ssid
      BY <1>1, <2>2 DEF NetworkStates
    <3>2. ServiceFits(n, networkState')
      BY <1>1, <3>1 DEF ServiceFits, ShowsAll
    <3> QED
      BY <1>1, <1>2, <2>2, <3>2 DEF NetworkInv
  <2> QED
    BY <1>5, <2>1, <2>2 DEF NetworkStart
<1>6. ASSUME NetworkPoll PROVE NetworkInv'
  <2>1. CASE networkState.available /\ QueryAll(networkState)
    BY <1>1, <1>4, <1>6, <2>1 DEF NetworkPoll
  <2>2. CASE QueryAll([networkState EXCEPT !.available = TRUE, !.subscribed = TRUE])
    <3> DEFINE st == [networkState EXCEPT !.available = TRUE, !.subscribed = TRUE]
    <3>1. st \in NetworkStates /\ st.available /\ st.version = networkState.version
      BY <1>1 DEF NetworkStates
    <3>2. QueryAll(st)
      BY <2>2
    <3> HIDE DEF st
    <3> QED
      BY <1>4, <1>6, <3>1, <3>2 DEF NetworkPoll
  <2> QED
    BY <1>6, <2>1, <2>2 DEF NetworkPoll
<1>7. ASSUME BackendPoll PROVE NetworkInv'
  BY <1>1, <1>2, <1>3, <1>7 DEF BackendPoll, NetworkInv
<1>8. ASSUME NmStateChanged PROVE NetworkInv'
  <2> DEFINE st == [networkState EXCEPT !.signalled = FALSE]
  <2>1. networkState.available
    BY <1>1, <1>8 DEF NmStateChanged, ServiceFits
  <2>2. st \in NetworkStates /\ st.available = networkState.available /\ st.version = networkState.version
    BY <1>1 DEF NetworkStates
  <2>3. QueryAll(st) /\ networkQuery' = RefreshQuery(q)
    BY <1>8 DEF NmStateChanged
  <2> HIDE DEF st
  <2> QED
    BY <1>4, <2>1, <2>2, <2>3
<1> QED
  BY <1>5, <1>6, <1>7, <1>8

LEMMA ManagerSteps ==
  ASSUME NetworkInv, ManagerChanges
  PROVE  NetworkInv'
BY ManagerMoves, OlderFits DEF NetworkInv, ServiceFits, ManagerFits, ManagerChanges, NetworkStates, ShowsAll

\* What the user has done is told with the version it made, and read again.
LEMMA OperationSteps ==
  ASSUME NetworkInv,
         \/ SetWifiEnabled \/ DisconnectActive \/ ConnectWithPassword \/ OperationRuns \/ OperationRefreshes
         \/ \E row \in DOMAIN networkBackend.rows : ConnectNetwork(row) \/ AskPassword(row)
  PROVE  NetworkInv'
<1> DEFINE n == networkManager
           q == networkQuery
           op == networkOp
           b == networkBackend
<1>1. /\ ManagerFits(n) /\ n \in Managers /\ n.version \in 0..MaxChanges /\ WorkerFits(n, q) /\ ServiceFits(n, networkState)
      /\ ListsFit(n, b) /\ EffectsFit(n, b, q, op) /\ op \in Operations /\ op.version \in 0..MaxChanges
      /\ op.version <= n.version /\ b.version \in 0..MaxChanges /\ op.target \in Connections
      /\ op.row \in 0..Cardinality(AccessPoints) /\ op.asked \in NetworkNames \cup {NoName}
  BY DEF NetworkInv, ManagerFits, Managers, EffectsFit, ListsFit, Operations, BackendStates
<1>2. /\ b \in BackendStates /\ b.rows \in Seq(WifiRows) /\ b.path \in Connections
      /\ DOMAIN b.rows \subseteq 0..Cardinality(AccessPoints)
      /\ \A row \in DOMAIN b.rows : b.rows[row].ap \in Connections /\ b.rows[row].ssid \in NetworkNames
  <2>1. Cardinality(AccessPoints) \in Nat
    BY NetworkAssumption, FS_CardinalityType
  <2>2. b \in BackendStates /\ b.rows \in Seq(WifiRows) /\ b.path \in Connections /\ Len(b.rows) <= Cardinality(AccessPoints)
    BY <1>1 DEF ListsFit, BackendStates
  <2>3. DOMAIN b.rows = 1..Len(b.rows) /\ Len(b.rows) \in Nat /\ \A row \in DOMAIN b.rows : b.rows[row] \in WifiRows
    BY <2>2
  <2>4. DOMAIN b.rows \subseteq 0..Cardinality(AccessPoints)
    BY <2>1, <2>2, <2>3
  <2> QED
    BY <2>2, <2>3, <2>4 DEF WifiRows, Connections
<1>3. 0 \in 0..Cardinality(AccessPoints) /\ NoConnection \in Connections /\ NoName \in NetworkNames \cup {NoName}
  BY NetworkAssumption, FS_CardinalityType DEF Connections
\* The operation changes, its version and the rest do not.
<1>4. ASSUME UNCHANGED <<networkManager, networkState, networkBackend, networkQuery>>, networkOp' \in Operations,
             networkOp'.version = op.version, op.do # "refresh"
      PROVE  NetworkInv'
  BY <1>1, <1>4 DEF EffectsFit, NetworkInv
<1>5. ASSUME NEW do \in {"none", "ask", "radio", "activate", "add", "disconnect"}, NEW row \in 0..Cardinality(AccessPoints),
             NEW target \in Connections, NEW asked \in NetworkNames \cup {NoName},
             networkOp' = [networkOp EXCEPT !.do = do, !.row = row, !.target = target, !.asked = asked]
      PROVE  networkOp' \in Operations /\ networkOp'.version = op.version
  BY <1>1, <1>5 DEF Operations
<1>6. ASSUME NEW do \in {"none", "radio", "activate", "add", "disconnect"}, NEW target \in Connections,
             NEW asked \in NetworkNames \cup {NoName}, Begin(do, target, asked), op.do # "refresh"
      PROVE  NetworkInv'
  BY <1>3, <1>4, <1>5, <1>6 DEF Begin
<1>7. CASE SetWifiEnabled
  BY <1>3, <1>6, <1>7 DEF SetWifiEnabled
<1>8. CASE DisconnectActive
  BY <1>2, <1>3, <1>6, <1>8 DEF DisconnectActive
<1>9. CASE ConnectWithPassword
  BY <1>1, <1>2, <1>3, <1>6, <1>9 DEF ConnectWithPassword
<1>10. ASSUME NEW row \in DOMAIN b.rows, ConnectNetwork(row) PROVE NetworkInv'
  BY <1>10, <1>2, <1>6 DEF ConnectNetwork
<1>11. ASSUME NEW row \in DOMAIN b.rows, AskPassword(row) PROVE NetworkInv'
  <2>1. /\ op.do = "none" /\ networkOp' = [networkOp EXCEPT !.do = "ask", !.row = row, !.asked = b.rows[row].ssid]
        /\ UNCHANGED <<networkManager, networkState, networkBackend, networkQuery>>
    BY <1>11 DEF AskPassword
  <2>2. networkOp' \in Operations /\ networkOp'.version = op.version
    BY <1>1, <1>2, <1>11, <2>1 DEF Operations
  <2> QED
    BY <1>4, <2>1, <2>2
<1>12. CASE OperationRuns
  <2>1. networkOp' = [NoOperation EXCEPT !.do = "refresh", !.version = networkManager'.version]
        /\ UNCHANGED <<networkState, networkBackend, networkQuery>>
    BY <1>12 DEF OperationRuns
  <2>2. ASSUME networkManager' \in Managers, networkManager'.version \in 0..MaxChanges
        PROVE  networkOp' \in Operations /\ networkOp'.version = networkManager'.version /\ networkOp'.do = "refresh"
    BY <1>3, <2>1, <2>2 DEF NoOperation, Operations
  <2>3. CASE UNCHANGED networkManager
    BY <1>1, <2>2, <2>3, <2>1 DEF EffectsFit, NetworkInv
  <2>4. CASE /\ n.version < MaxChanges
             /\ networkManager' = [Effect(networkManager, networkOp) EXCEPT !.version = @ + 1]
    BY <1>1, <2>4, EffectTyped, OlderFits, <2>2, <2>1 DEF Managers, EffectsFit, NetworkInv
  <2> QED
    BY <1>12, <2>3, <2>4 DEF OperationRuns
<1>13. CASE OperationRefreshes
  BY <1>13, <1>1, RefreshFits DEF OperationRefreshes, Operations, EffectsFit, NetworkInv
<1> QED
  BY <1>7, <1>8, <1>9, <1>10, <1>11, <1>12, <1>13

LEMMA NetworkStarts ==
  ASSUME NetworkInit
  PROVE  NetworkInv
<1>1. /\ networkManager \in Managers /\ networkManager.up /\ networkManager.primary = NoConnection
      /\ networkManager.version = 0
  BY DEF NetworkInit
<1>2. 0 \in 0..MaxChanges /\ NoConnection \in Connections /\ 0 \in 0..Cardinality(AccessPoints)
      /\ 0 <= Cardinality(AccessPoints)
  BY NetworkAssumption, FS_CardinalityType DEF Connections
<1>3. ManagerFits(networkManager)
  BY <1>1 DEF ManagerFits
<1>4. networkState \in NetworkStates
  BY <1>2 DEF NetworkInit, NetworkStates, Kinds
<1>5. ServiceFits(networkManager, networkState)
  <2>1. /\ networkState.version = 0 /\ networkState.online = FALSE /\ networkState.type = "none"
        /\ networkState.ap = NoConnection /\ networkState.ssid = NoName /\ networkState.available = FALSE
        /\ networkState.subscribed = FALSE /\ networkState.signalled = FALSE
    BY DEF NetworkInit
  <2>2. KindOf(NoConnection) = "none"
    BY <1>2, KindOfConnection
  <2>3. ShowsAll(networkState, networkManager)
    BY <1>1, <2>1, <2>2 DEF ShowsAll
  <2> QED
    BY <1>1, <1>4, <2>1, <2>3 DEF ServiceFits
<1>6. NothingRead \in BackendStates /\ NothingRead.version = 0 /\ Len(NothingRead.rows) = 0
  BY <1>2 DEF NothingRead, BackendStates
<1>7. networkQuery \in Queries /\ networkQuery.phase = "idle" /\ networkQuery.read = NothingRead
  BY <1>6 DEF NetworkInit, Queries
<1>8. WorkerFits(networkManager, networkQuery)
  BY <1>1, <1>2, <1>6, <1>7 DEF WorkerFits
<1>9. ListsFit(networkManager, networkBackend)
  BY <1>1, <1>2, <1>6 DEF NetworkInit, ListsFit
<1>10. networkOp \in Operations /\ networkOp.version = 0
  BY <1>2 DEF NetworkInit, NoOperation, Operations
<1>11. EffectsFit(networkManager, networkBackend, networkQuery, networkOp)
  BY <1>6, <1>1, <1>7, <1>10 DEF NetworkInit, EffectsFit
<1> QED
  BY <1>3, <1>5, <1>8, <1>9, <1>11 DEF NetworkInv

LEMMA NetworkInvHolds == NetworkInit /\ [][NetworkNext]_networkVars => []NetworkInv
<1>1. ASSUME NetworkInv, [NetworkNext]_networkVars PROVE NetworkInv'
  BY <1>1, WorkerSteps, FinishedFits, ServiceSteps, ManagerSteps, OperationSteps DEF NetworkNext, networkVars,
     NetworkInv
<1> QED
  BY <1>1, NetworkStarts, PTL

\* What the user's operations did to NetworkManager is always read again, and a
\* reading of its newest state shows it as it is, however many changes, lost
\* readings and queued refreshes there were: for every finite set of access points.
THEOREM NetworkIsFollowed ==
  NetworkInit /\ [][NetworkNext]_networkVars => [](NetworkTypeOK /\ NoEffectIsForgotten /\ WholeReadingIsCurrent)
<1>1. ASSUME NetworkInv PROVE NetworkTypeOK /\ NoEffectIsForgotten /\ WholeReadingIsCurrent
  <2>1. NetworkTypeOK
    BY <1>1 DEF NetworkInv, ManagerFits, ServiceFits, WorkerFits, ListsFit, EffectsFit, NetworkTypeOK, NetworkStates, Queries
  <2>2. NoEffectIsForgotten
    BY <1>1 DEF NetworkInv, EffectsFit, NoEffectIsForgotten
  <2>3. WholeReadingIsCurrent
    BY <1>1 DEF NetworkInv, ServiceFits, ListsFit, ShowsAll, RowsShow, WholeReadingIsCurrent
  <2> QED
    BY <2>1, <2>2, <2>3
<1> QED
  BY <1>1, NetworkInvHolds, PTL

----------------------------------------------------------------------------
(***************************************************************************)
(* The system tray.                                                        *)
(***************************************************************************)

\* A set that is finite as a sequence.
LEMMA SetAsSeq ==
  ASSUME NEW T, NEW S \in SUBSET T, IsFiniteSet(S)
  PROVE  /\ SetToSeq(S) \in Seq(T)
         /\ IsInjective(SetToSeq(S))
         /\ ToSet(SetToSeq(S)) = S
<1> DEFINE n == Cardinality(S)
<1>1. n \in Nat /\ ExistsBijection(1..n, S)
  BY FS_CardinalityType
<1>2. PICK g \in [1..n -> S] : IsInjective(g)
  BY <1>1 DEF ExistsBijection, Bijection, Injection, Surjection, IsInjective
<1> DEFINE e == SetToSeq(S)
<1>3. e \in [1..n -> S] /\ IsInjective(e)
  BY <1>2 DEF SetToSeq
<1> HIDE DEF e
<1>4. e \in Injection(1..n, S)
  BY <1>3 DEF Injection, IsInjective
<1>5. IsFiniteSet(1..n) /\ Cardinality(1..n) = n
  BY <1>1, FS_Interval
<1>6. e \in Surjection(1..n, S)
  BY <1>4, <1>5, FS_Injection
<1>7. ToSet(e) = S
  BY <1>3, <1>6 DEF Surjection, ToSet
<1>8. e \in Seq(T)
  BY <1>1, <1>3, SeqDef
<1> QED
  BY <1>3, <1>7, <1>8 DEF e

\* Two lists of different elements.
LEMMA ListsJoined ==
  ASSUME NEW T, NEW a \in Seq(T), NEW b \in Seq(T)
  PROVE  /\ a \o b \in Seq(T)
         /\ ToSet(a \o b) = ToSet(a) \cup ToSet(b)
         /\ IsInjective(a) /\ IsInjective(b) /\ ToSet(a) \cap ToSet(b) = {} => IsInjective(a \o b)
<1>1. a \o b \in Seq(T) /\ Len(a \o b) = Len(a) + Len(b) /\ DOMAIN (a \o b) = 1..Len(a) + Len(b)
  OBVIOUS
<1>2. \A i \in DOMAIN a : i \in DOMAIN (a \o b) /\ (a \o b)[i] = a[i]
  OBVIOUS
<1>3. \A i \in DOMAIN b : Len(a) + i \in DOMAIN (a \o b) /\ (a \o b)[Len(a) + i] = b[i]
  OBVIOUS
<1>4. \A i \in DOMAIN (a \o b) : \/ i \in DOMAIN a /\ (a \o b)[i] = a[i]
                                 \/ i - Len(a) \in DOMAIN b /\ (a \o b)[i] = b[i - Len(a)]
  OBVIOUS
<1> DEFINE c == a \o b
<1> HIDE DEF c
<1>5. ToSet(c) = ToSet(a) \cup ToSet(b)
  <2>1. \A x \in ToSet(a) : x \in ToSet(c)
    BY <1>2 DEF ToSet, c
  <2>2. \A x \in ToSet(b) : x \in ToSet(c)
    BY <1>3 DEF ToSet, c
  <2>3. \A i \in DOMAIN c : c[i] \in ToSet(a) \cup ToSet(b)
    BY <1>4 DEF ToSet, c
  <2>4. \A x \in ToSet(c) : x \in ToSet(a) \cup ToSet(b)
    BY <2>3 DEF ToSet
  <2> QED
    BY <2>1, <2>2, <2>4
<1>6. ASSUME IsInjective(a), IsInjective(b), ToSet(a) \cap ToSet(b) = {}
      PROVE  IsInjective(c)
  <2> SUFFICES ASSUME NEW i \in DOMAIN c, NEW j \in DOMAIN c, c[i] = c[j] PROVE i = j
    BY DEF IsInjective
  <2>1. i \in Int /\ j \in Int /\ Len(a) \in Int
    BY <1>1 DEF c
  <2>2. CASE i \in DOMAIN a /\ c[i] = a[i] /\ j \in DOMAIN a /\ c[j] = a[j]
    BY <1>6, <2>2 DEF IsInjective
  <2>3. CASE i - Len(a) \in DOMAIN b /\ c[i] = b[i - Len(a)] /\ j - Len(a) \in DOMAIN b /\ c[j] = b[j - Len(a)]
    <3>1. i - Len(a) = j - Len(a)
      BY <1>6, <2>3 DEF IsInjective
    <3> QED
      BY <2>1, <3>1
  <2>4. CASE i \in DOMAIN a /\ c[i] = a[i] /\ j - Len(a) \in DOMAIN b /\ c[j] = b[j - Len(a)]
    BY <1>6, <2>4 DEF ToSet
  <2>5. CASE i - Len(a) \in DOMAIN b /\ c[i] = b[i - Len(a)] /\ j \in DOMAIN a /\ c[j] = a[j]
    BY <1>6, <2>5 DEF ToSet
  <2> QED
    BY <1>4, <2>2, <2>3, <2>4, <2>5 DEF c
<1> QED
  BY <1>1, <1>5, <1>6 DEF c

Thinned(a, keys) == SubSeqAt(a, {i \in DOMAIN a : a[i] \notin keys})

\* What is left of a list of different elements.
LEMMA ListThinned ==
  ASSUME NEW T, NEW a \in Seq(T), NEW keys
  PROVE  /\ Thinned(a, keys) \in Seq(T)
         /\ ToSet(Thinned(a, keys)) = ToSet(a) \ keys
         /\ IsInjective(a) => IsInjective(Thinned(a, keys))
<1> DEFINE S == {i \in DOMAIN a : a[i] \notin keys}
<1>1. S \in SUBSET (DOMAIN a) /\ Thinned(a, keys) = SubSeqAt(a, S)
  BY DEF Thinned
<1>2. {a[i] : i \in S} = ToSet(a) \ keys
  BY DEF ToSet
<1> HIDE DEF S
<1> QED
  BY <1>1, <1>2, ListRestricted DEF Restricts

\* The registry tells of the same items in all its fields.
RegistryAgrees(t) ==
  /\ t \in TrayRecords
  /\ IsInjective(t.items)
  /\ \A s \in TrayServices : t.count[s] = Cardinality(ItemsOf(Registered(t), s))
  /\ t.mode = "watcher" => t.watched = {TrayService[k] : k \in Registered(t)}
  /\ t.subscribed = Registered(t)

\* What a step on the registry leaves alone, and the items it ends with.
Becomes(t, u, keys) ==
  /\ RegistryAgrees(u)
  /\ Registered(u) = keys
  /\ u.mode = t.mode /\ u.listing = t.listing

LEMMA ItemsAreFinite ==
  ASSUME NEW keys \in SUBSET TrayKeys
  PROVE  /\ IsFiniteSet(keys)
         /\ \A s : IsFiniteSet(ItemsOf(keys, s)) /\ Cardinality(ItemsOf(keys, s)) \in Nat
BY TrayAssumption, FS_Subset, FS_CardinalityType DEF ItemsOf

\* The count of two sets of items that have none in common.
LEMMA CountsAdd ==
  ASSUME NEW keys \in SUBSET TrayKeys, NEW more \in SUBSET TrayKeys, keys \cap more = {}, NEW s
  PROVE  Cardinality(ItemsOf(keys \cup more, s)) = Cardinality(ItemsOf(keys, s)) + Cardinality(ItemsOf(more, s))
<1> DEFINE a == ItemsOf(keys, s)
           b == ItemsOf(more, s)
<1>1. IsFiniteSet(a) /\ IsFiniteSet(b) /\ Cardinality(a) \in Nat /\ Cardinality(b) \in Nat
  BY ItemsAreFinite
<1>2. ItemsOf(keys \cup more, s) = a \cup b /\ a \cap b = {}
  BY DEF ItemsOf
<1> HIDE DEF a, b
<1>3. Cardinality(a \cup b) = Cardinality(a) + Cardinality(b) - Cardinality({})
  BY <1>1, <1>2, FS_Union
<1>4. Cardinality({}) = 0
  BY FS_EmptySet
<1>5. Cardinality(a \cup b) = Cardinality(a) + Cardinality(b)
  BY <1>1, <1>3, <1>4
<1> QED
  BY <1>2, <1>5 DEF a, b

LEMMA AddKeeps ==
  ASSUME NEW t, RegistryAgrees(t), NEW keys \in SUBSET TrayKeys
  PROVE  /\ Becomes(t, AddItems(t, keys), Registered(t) \cup keys)
         /\ AddItems(t, keys).asked = t.asked \cup keys
<1> DEFINE new == keys \ Registered(t)
           u == AddItems(t, keys)
           items == t.items \o SetToSeq(new)
           count == [s \in TrayServices |-> t.count[s] + Cardinality(ItemsOf(new, s))]
           watched == IF t.mode = "watcher" THEN t.watched \cup {TrayService[k] : k \in new} ELSE t.watched
<1>1. t \in TrayRecords /\ t.items \in Seq(TrayKeys) /\ IsInjective(t.items) /\ t.count \in [TrayServices -> Nat]
      /\ t.watched \subseteq TrayServices /\ t.mode \in TrayModes
  BY DEF RegistryAgrees, TrayRecords
<1>2. Registered(t) \in SUBSET TrayKeys /\ Registered(t) = ToSet(t.items)
  BY <1>1 DEF Registered, ToSet
<1>3. new \in SUBSET TrayKeys /\ IsFiniteSet(new) /\ \A s : Cardinality(ItemsOf(new, s)) \in Nat
  BY ItemsAreFinite
<1>4. u = [t EXCEPT !.items = items, !.count = count, !.watched = watched,
                    !.asked = t.asked \cup keys, !.subscribed = t.subscribed \cup keys]
  BY <1>1 DEF AddItems, RegisterKeys, Fetch, TrayRecords
<1>5. items \in Seq(TrayKeys) /\ IsInjective(items) /\ ToSet(items) = Registered(t) \cup keys
  <2>1. SetToSeq(new) \in Seq(TrayKeys) /\ IsInjective(SetToSeq(new)) /\ ToSet(SetToSeq(new)) = new
    BY <1>3, SetAsSeq, Zenon
  <2>2. ToSet(t.items) \cap new = {} /\ ToSet(t.items) \cup new = Registered(t) \cup keys
    BY <1>2
  <2> HIDE DEF new
  <2> DEFINE e == SetToSeq(new)
  <2> HIDE DEF e
  <2>3. e \in Seq(TrayKeys) /\ IsInjective(e) /\ ToSet(e) = new
    BY <2>1 DEF e
  <2>4. t.items \o e \in Seq(TrayKeys) /\ IsInjective(t.items \o e) /\ ToSet(t.items \o e) = Registered(t) \cup keys
    BY <1>1, <2>2, <2>3, ListsJoined
  <2> QED
    BY <2>4 DEF e
<1>6. count \in [TrayServices -> Nat]
  <2>1. ASSUME NEW s \in TrayServices PROVE t.count[s] + Cardinality(ItemsOf(new, s)) \in Nat
    <3>1. Cardinality(ItemsOf(new, s)) \in Nat
      BY <1>3, Zenon
    <3>2. t.count[s] \in Nat
      BY <1>1
    <3> HIDE DEF new
    <3> QED
      BY <3>1, <3>2
  <2> QED
    BY <2>1
<1>7. watched \in SUBSET TrayServices
  BY <1>1, <1>3 DEF TrayServices
<1>8. \A s \in TrayServices : count[s] = Cardinality(ItemsOf(Registered(t) \cup keys, s))
  BY <1>2, <1>3, CountsAdd DEF RegistryAgrees
<1>9. t.mode = "watcher" => watched = {TrayService[k] : k \in Registered(t) \cup keys}
  BY DEF RegistryAgrees
<1> HIDE DEF items, count, watched, new
<1>10. u \in TrayRecords
  <2>1. t.asked \cup keys \in SUBSET TrayKeys /\ t.subscribed \cup keys \in SUBSET TrayKeys
    BY <1>1 DEF TrayRecords
  <2> HIDE DEF u
  <2> QED
    BY <1>1, <1>4, <1>5, <1>6, <1>7, <2>1 DEF TrayRecords
<1>11. /\ u.items = items /\ u.count = count /\ u.watched = watched /\ u.mode = t.mode /\ u.listing = t.listing
       /\ u.subscribed = t.subscribed \cup keys /\ u.asked = t.asked \cup keys
  BY <1>1, <1>4 DEF TrayRecords
<1> HIDE DEF u
<1>12. Registered(u) = Registered(t) \cup keys
  BY <1>5, <1>11 DEF Registered
<1>13. RegistryAgrees(u)
  BY <1>5, <1>8, <1>9, <1>10, <1>11, <1>12 DEF RegistryAgrees
<1> QED
  BY <1>11, <1>12, <1>13 DEF Becomes, u

LEMMA DropKeeps ==
  ASSUME NEW t, RegistryAgrees(t), NEW keys \in SUBSET TrayKeys
  PROVE  /\ Becomes(t, DropItems(t, keys), Registered(t) \ keys)
         /\ DropItems(t, keys).asked = t.asked
<1> DEFINE known == keys \cap Registered(t)
           rest == Registered(t) \ keys
           u == DropItems(t, keys)
           items == SubSeqAt(t.items, {i \in DOMAIN t.items : t.items[i] \notin keys})
           count == [s \in TrayServices |-> t.count[s] - Cardinality(ItemsOf(known, s))]
           watched == {s \in t.watched : count[s] = 0 => ItemsOf(known, s) = {}}
<1>1. t \in TrayRecords /\ t.items \in Seq(TrayKeys) /\ IsInjective(t.items) /\ t.count \in [TrayServices -> Nat]
      /\ t.watched \subseteq TrayServices /\ t.mode \in TrayModes /\ t.subscribed \subseteq TrayKeys
  BY DEF RegistryAgrees, TrayRecords
<1>2. Registered(t) \in SUBSET TrayKeys /\ Registered(t) = ToSet(t.items)
  BY <1>1 DEF Registered, ToSet
<1>3. known \in SUBSET TrayKeys /\ rest \in SUBSET TrayKeys /\ rest \cap known = {} /\ Registered(t) = rest \cup known
  BY <1>2
<1>4. u = [t EXCEPT !.items = items, !.count = count, !.watched = watched, !.subscribed = t.subscribed \ keys]
  <2> DEFINE v == [t EXCEPT !.subscribed = t.subscribed \ keys]
             left == [t EXCEPT !.items = items, !.count = count, !.subscribed = t.subscribed \ keys]
  <2>1. Registered(v) = Registered(t) /\ v.items = t.items /\ v.count = t.count
    BY <1>1 DEF Registered, TrayRecords
  <2>2. UnregisterKeys(v, keys) = [v EXCEPT !.items = items, !.count = count]
    BY <2>1, Zenon DEF UnregisterKeys
  <2>3. [v EXCEPT !.items = items, !.count = count] = left
    BY <1>1 DEF TrayRecords
  <2>4. left.count = count /\ left.watched = t.watched
    BY <1>1 DEF TrayRecords
  <2>5. u = [left EXCEPT !.watched = {s \in @ : left.count[s] = 0 => ItemsOf(known, s) = {}}]
    <3>1. u = [UnregisterKeys(v, keys) EXCEPT !.watched =
                 {s \in @ : UnregisterKeys(v, keys).count[s] = 0 => ItemsOf(known, s) = {}}]
      BY DEF DropItems
    <3>2. UnregisterKeys(v, keys) = left
      BY <2>2, <2>3
    <3> HIDE DEF u, left, known, v
    <3> QED
      BY <3>1, <3>2
  <2> HIDE DEF items, count, known
  <2>6. [left EXCEPT !.watched = {s \in @ : left.count[s] = 0 => ItemsOf(known, s) = {}}]
          = [left EXCEPT !.watched = watched]
    BY <2>4
  <2>7. [left EXCEPT !.watched = watched]
          = [t EXCEPT !.items = items, !.count = count, !.watched = watched, !.subscribed = t.subscribed \ keys]
    BY <1>1 DEF TrayRecords
  <2> QED
    BY <2>5, <2>6, <2>7
<1>5. items \in Seq(TrayKeys) /\ IsInjective(items) /\ ToSet(items) = rest
  <2>1. items \in Seq(TrayKeys) /\ ToSet(items) = ToSet(t.items) \ keys /\ (IsInjective(t.items) => IsInjective(items))
    <3>1. items = Thinned(t.items, keys)
      BY DEF Thinned
    <3> HIDE DEF items
    <3> QED
      BY <1>1, <3>1, ListThinned
  <2> QED
    BY <1>1, <1>2, <2>1
<1>6. ASSUME NEW s \in TrayServices
      PROVE  count[s] = Cardinality(ItemsOf(rest, s)) /\ count[s] \in Nat
  <2>1. Cardinality(ItemsOf(rest \cup known, s)) = Cardinality(ItemsOf(rest, s)) + Cardinality(ItemsOf(known, s))
    BY <1>3, CountsAdd
  <2>2. Cardinality(ItemsOf(rest, s)) \in Nat /\ Cardinality(ItemsOf(known, s)) \in Nat
    BY <1>3, ItemsAreFinite
  <2>3. t.count[s] = Cardinality(ItemsOf(rest \cup known, s))
    BY <1>3 DEF RegistryAgrees
  <2> QED
    BY <2>1, <2>2, <2>3
<1>7. count \in [TrayServices -> Nat]
  BY <1>6
<1>8. watched \in SUBSET TrayServices
  BY <1>1
<1>9. ASSUME t.mode = "watcher" PROVE watched = {TrayService[k] : k \in rest}
  <2>1. t.watched = {TrayService[k] : k \in rest \cup known}
    BY <1>3, <1>9 DEF RegistryAgrees
  <2>2. \A s \in TrayServices : count[s] = 0 <=> ItemsOf(rest, s) = {}
    BY <1>3, <1>6, ItemsAreFinite, FS_EmptySet
  <2>3. \A k \in TrayKeys : TrayService[k] \in TrayServices
    BY DEF TrayServices
  <2> HIDE DEF count
  <2> QED
    BY <1>3, <2>1, <2>2, <2>3 DEF ItemsOf
<1> HIDE DEF items, count, watched
<1>10. u \in TrayRecords
  BY <1>1, <1>4, <1>5, <1>7, <1>8 DEF TrayRecords
<1>11. /\ u.items = items /\ u.count = count /\ u.watched = watched /\ u.mode = t.mode /\ u.listing = t.listing
       /\ u.subscribed = t.subscribed \ keys /\ u.asked = t.asked
  BY <1>1, <1>4 DEF TrayRecords
<1> HIDE DEF u
<1>12. Registered(u) = rest
  BY <1>5, <1>11 DEF Registered
<1>13. RegistryAgrees(u)
  BY <1>5, <1>6, <1>9, <1>10, <1>11, <1>12 DEF RegistryAgrees
<1> QED
  BY <1>11, <1>12, <1>13 DEF Becomes, u

\* The index and the rows are inverse to each other, and every row is registered.
RowsAgree(rows, index, keys) ==
  /\ rows \in Seq(TrayKeys)
  /\ \A i \in DOMAIN rows : rows[i] \in DOMAIN index /\ index[rows[i]] = i
  /\ \A k \in DOMAIN index : index[k] \in DOMAIN rows /\ rows[index[k]] = k
  /\ ToSet(rows) \subseteq keys

\* An index of S is in it at the place that is one more than those before it,
\* which is itself less those before it that are not in S.
LEMMA PlaceOfIndex ==
  ASSUME NEW n \in Nat, NEW S \in SUBSET (1..n)
  PROVE  /\ \A k \in 1..Cardinality(S) : IndexAt(S, k) \in S /\ Rank(S, IndexAt(S, k)) = k - 1
         /\ \A i \in S : Rank(S, i) + 1 \in 1..Cardinality(S) /\ IndexAt(S, Rank(S, i) + 1) = i
         /\ \A i \in S : Rank(S, i) + 1 = i - Cardinality({j \in (1..n) \ S : j < i})
<1>1. \A k \in 1..Cardinality(S) : IndexAt(S, k) \in S /\ Rank(S, IndexAt(S, k)) = k - 1
  <2> SUFFICES ASSUME NEW k \in 1..Cardinality(S) PROVE IndexAt(S, k) \in S /\ Rank(S, IndexAt(S, k)) = k - 1
    OBVIOUS
  <2>1. \E i \in S : Rank(S, i) = k - 1
    BY EveryRankIsTaken
  <2> QED
    BY <2>1 DEF IndexAt
<1>2. Cardinality(S) \in Nat
  BY IndicesAreFinite
<1>3. ASSUME NEW i \in S PROVE Rank(S, i) + 1 \in 1..Cardinality(S) /\ IndexAt(S, Rank(S, i) + 1) = i
  <2>1. PICK k \in 1..Cardinality(S) : IndexAt(S, k) = i
    BY IndexAtProperties
  <2>2. Rank(S, i) = k - 1
    BY <1>1, <2>1
  <2>3. k \in Int
    BY <1>2
  <2> QED
    BY <2>1, <2>2, <2>3
<1>4. ASSUME NEW i \in S PROVE Rank(S, i) + 1 = i - Cardinality({j \in (1..n) \ S : j < i})
  <2> DEFINE in == {j \in S : j < i}
             out == {j \in (1..n) \ S : j < i}
  <2>1. i \in 1..n /\ i - 1 \in Nat /\ in \cup out = 1..(i - 1) /\ in \cap out = {}
    <3>1. i \in 1..n /\ i - 1 \in Nat
      OBVIOUS
    <3>2. \A j \in 1..(i - 1) : j \in 1..n /\ j < i
      BY <3>1
    <3>3. \A j \in 1..n : j < i => j \in 1..(i - 1)
      BY <3>1
    <3> QED
      BY <3>1, <3>2, <3>3
  <2>2. IsFiniteSet(1..(i - 1)) /\ Cardinality(1..(i - 1)) = i - 1
    BY FS_Interval, <2>1
  <2> HIDE DEF in, out
  <2>3. in \in SUBSET (1..(i - 1)) /\ out \in SUBSET (1..(i - 1))
    BY <2>1
  <2>4. IsFiniteSet(in) /\ IsFiniteSet(out)
    BY <2>2, <2>3, FS_Subset
  <2>5. Cardinality(in \cup out) = Cardinality(in) + Cardinality(out) - Cardinality({})
    BY <2>1, <2>4, FS_Union
  <2>6. Cardinality({}) = 0 /\ Cardinality(in) \in Nat /\ Cardinality(out) \in Nat
    BY <2>4, FS_EmptySet, FS_CardinalityType
  <2>7. i - 1 = Cardinality(in) + Cardinality(out)
    <3> DEFINE a == Cardinality(in)
               b == Cardinality(out)
               c == Cardinality({})
    <3>1. i - 1 = a + b - c
      BY <2>1, <2>2, <2>5
    <3>2. c = 0 /\ a \in Nat /\ b \in Nat
      BY <2>6
    <3> HIDE DEF a, b, c
    <3>3. i - 1 = a + b
      BY <3>1, <3>2
    <3> QED
      BY <3>3 DEF a, b
  <2>8. Rank(S, i) = Cardinality(in)
    BY DEF Rank, in
  <2> QED
    BY <2>1, <2>6, <2>7, <2>8 DEF out
<1> QED
  BY <1>1, <1>3, <1>4

LEMMA RowsRemoved ==
  ASSUME NEW rows, NEW index, NEW reg, RowsAgree(rows, index, reg), NEW keys
  PROVE  LET left == RemoveRows(rows, index, keys) IN RowsAgree(left.rows, left.index, reg \ keys)
<1> DEFINE removed == {index[k] : k \in keys \cap DOMAIN index}
           kept == DOMAIN rows \ removed
           less == SubSeqAt(rows, kept)
           shifted == [x \in DOMAIN index \ keys |-> index[x] - Cardinality({i \in removed : i < index[x]})]
           n == Len(rows)
<1>1. rows \in Seq(TrayKeys) /\ n \in Nat /\ DOMAIN rows = 1..n
  BY DEF RowsAgree
<1>2. /\ \A i \in DOMAIN rows : rows[i] \in DOMAIN index /\ index[rows[i]] = i
      /\ \A k \in DOMAIN index : index[k] \in DOMAIN rows /\ rows[index[k]] = k
      /\ ToSet(rows) \subseteq reg
  BY DEF RowsAgree
<1>3. removed \subseteq 1..n /\ removed = (1..n) \ kept /\ kept \in SUBSET (1..n)
  BY <1>1, <1>2
<1>4. \A i \in kept : rows[i] \notin keys
  BY <1>1, <1>2
<1>5. \A k \in DOMAIN index \ keys : index[k] \in kept
  BY <1>2
<1>6. RemoveRows(rows, index, keys).rows = less /\ RemoveRows(rows, index, keys).index = shifted
  BY DEF RemoveRows
<1> HIDE DEF kept, removed
<1>7. /\ less \in Seq(TrayKeys) /\ Len(less) = Cardinality(kept) /\ Cardinality(kept) \in Nat
      /\ \A k \in 1..Len(less) : IndexAt(kept, k) \in kept /\ less[k] = rows[IndexAt(kept, k)]
  BY <1>1, <1>3, SubSeqAtProperties, Zenon
<1>8. /\ \A k \in 1..Cardinality(kept) : IndexAt(kept, k) \in kept /\ Rank(kept, IndexAt(kept, k)) = k - 1
      /\ \A i \in kept : Rank(kept, i) + 1 \in 1..Cardinality(kept) /\ IndexAt(kept, Rank(kept, i) + 1) = i
      /\ \A i \in kept : Rank(kept, i) + 1 = i - Cardinality({j \in (1..n) \ kept : j < i})
  BY <1>1, <1>3, PlaceOfIndex, Zenon
<1>9. \A x \in DOMAIN index \ keys : shifted[x] = Rank(kept, index[x]) + 1
  <2> SUFFICES ASSUME NEW x \in DOMAIN index \ keys PROVE shifted[x] = Rank(kept, index[x]) + 1
    OBVIOUS
  <2>1. shifted[x] = index[x] - Cardinality({j \in (1..n) \ kept : j < index[x]})
    BY <1>3
  <2> QED
    BY <1>5, <1>8, <2>1
<1>10. DOMAIN shifted = DOMAIN index \ keys /\ DOMAIN less = 1..Cardinality(kept)
  BY <1>7
<1> HIDE DEF less, shifted
<1>11. ASSUME NEW m \in DOMAIN less PROVE less[m] \in DOMAIN shifted /\ shifted[less[m]] = m /\ less[m] \in reg \ keys
  <2> DEFINE i == IndexAt(kept, m)
  <2>1. i \in kept /\ less[m] = rows[i] /\ Rank(kept, i) = m - 1 /\ m \in Int
    BY <1>7, <1>8, <1>10
  <2> HIDE DEF i
  <2>2. i \in DOMAIN rows
    BY <1>1, <1>3, <2>1
  <2>3. rows[i] \in DOMAIN index /\ index[rows[i]] = i /\ rows[i] \notin keys
    BY <1>2, <1>4, <2>1, <2>2
  <2>4. rows[i] \in reg
    BY <1>2, <2>2 DEF ToSet
  <2> QED
    BY <1>9, <1>10, <2>1, <2>3, <2>4
<1>12. ASSUME NEW k \in DOMAIN shifted PROVE shifted[k] \in DOMAIN less /\ less[shifted[k]] = k
  BY <1>2, <1>5, <1>9, <1>10, <1>8, <1>7
<1>13. ToSet(less) \subseteq reg \ keys
  BY <1>11 DEF ToSet
<1>14. RowsAgree(less, shifted, reg \ keys)
  BY <1>7, <1>11, <1>12, <1>13 DEF RowsAgree
<1> QED
  BY <1>6, <1>14

LEMMA RowAdded ==
  ASSUME NEW reg, RowsAgree(trayRows, trayIndex, reg), NEW k \in TrayKeys, k \in reg, AddRow(k)
  PROVE  /\ RowsAgree(trayRows', trayIndex', reg)
         /\ ToSet(trayRows') = ToSet(trayRows) \cup {k}
BY DEF RowsAgree, AddRow, ToSet

\* Behind the i-th message comes the end of the service, or of the item.
GoneAfter(bus, i, s) == \E j \in DOMAIN bus : j > i /\ bus[j].kind = "gone" /\ bus[j].service = s
EndAfter(bus, i, k) == \E j \in DOMAIN bus : j > i /\ bus[j].kind = "unregistered" /\ bus[j].key = k

\* A message that has the item registered.
Adds(m, k) == (m.kind = "registered" /\ m.key = k) \/ (m.kind = "list" /\ k \in m.keys)

\* As the watcher: what could give a row to an item of a service that is gone
\* comes before its end, and of one that is there only registered items are read.
WatcherFits(t, bus, rows, alive) ==
  /\ \A i \in DOMAIN bus : bus[i].kind \in {"register", "changed", "properties", "error", "gone"}
  /\ \A i \in DOMAIN bus : bus[i].kind = "gone" => bus[i].service \notin alive
  /\ \A i \in DOMAIN bus : bus[i].kind \in {"changed", "properties"} =>
       /\ TrayService[bus[i].key] \in alive => bus[i].key \in Registered(t)
       /\ TrayService[bus[i].key] \notin alive => GoneAfter(bus, i, TrayService[bus[i].key])
  /\ \A k \in t.asked : TrayService[k] \in alive => k \in Registered(t)
  /\ \A k \in ToSet(rows) : TrayService[k] \notin alive => GoneAfter(bus, 0, TrayService[k])

\* Beside another watcher: what it has not, or no longer, is taken away again.
FallbackFits(t, bus, others) ==
  /\ \A i \in DOMAIN bus : bus[i].kind \in {"registered", "unregistered", "list", "changed", "properties", "error"}
  /\ \A k \in TrayKeys \ others : k \in Registered(t) => EndAfter(bus, 0, k)
  /\ \A k \in TrayKeys \ others : \A i \in DOMAIN bus : Adds(bus[i], k) => EndAfter(bus, i, k)

ModeFits(t, bus, rows, alive, others) ==
  /\ t.mode = "stopped" => bus = <<>> /\ Registered(t) = {} /\ t.watched = {} /\ t.asked = {}
  /\ t.listing => t.mode = "fallback"
  /\ t.mode = "watcher" => WatcherFits(t, bus, rows, alive)
  /\ t.mode = "fallback" => FallbackFits(t, bus, others)
  /\ \A k \in others : TrayService[k] \in alive

TrayInv ==
  /\ trayBus \in Seq(TrayMessages) /\ trayAlive \in SUBSET TrayServices /\ trayOthers \in SUBSET TrayKeys
  /\ RegistryAgrees(tray)
  /\ RowsAgree(trayRows, trayIndex, Registered(tray))
  /\ ModeFits(tray, trayBus, trayRows, trayAlive, trayOthers)

\* The bus once more messages are sent, and once its first is delivered.
IsLonger(c, bus, more) ==
  /\ c \in Seq(TrayMessages)
  /\ \A i \in DOMAIN bus : i \in DOMAIN c /\ c[i] = bus[i]
  /\ \A i \in DOMAIN c : \/ i \in DOMAIN bus /\ c[i] = bus[i]
                         \/ \E j \in DOMAIN more : c[i] = more[j]
  /\ \A i \in DOMAIN bus \cup {0} : \A j \in DOMAIN more : \E l \in DOMAIN c : l > i /\ c[l] = more[j]
  /\ \A i, s : GoneAfter(bus, i, s) => GoneAfter(c, i, s)
  /\ \A i, k : EndAfter(bus, i, k) => EndAfter(c, i, k)

IsShorter(c, bus) ==
  /\ c \in Seq(TrayMessages) /\ Head(bus) \in TrayMessages
  /\ 1 \in DOMAIN bus /\ bus[1] = Head(bus)
  /\ \A i \in DOMAIN c : i \in Nat /\ i + 1 \in DOMAIN bus /\ c[i] = bus[i + 1]
  /\ \A i \in Nat : \A s : GoneAfter(bus, i + 1, s) => GoneAfter(c, i, s)
  /\ \A i \in Nat : \A k : EndAfter(bus, i + 1, k) => EndAfter(c, i, k)
  /\ \A s : GoneAfter(bus, 0, s) => GoneAfter(c, 0, s) \/ (Head(bus).kind = "gone" /\ Head(bus).service = s)
  /\ \A k : EndAfter(bus, 0, k) => EndAfter(c, 0, k) \/ (Head(bus).kind = "unregistered" /\ Head(bus).key = k)
  /\ \A k : EndAfter(bus, 1, k) => EndAfter(c, 0, k)
  /\ \A s : GoneAfter(bus, 1, s) => GoneAfter(c, 0, s)

LEMMA BusLonger ==
  ASSUME NEW bus \in Seq(TrayMessages), NEW more \in Seq(TrayMessages)
  PROVE  IsLonger(bus \o more, bus, more)
<1> DEFINE c == bus \o more
<1>1. c \in Seq(TrayMessages)
  OBVIOUS
<1>2. \A i \in DOMAIN bus : i \in DOMAIN c /\ c[i] = bus[i]
  OBVIOUS
<1>3. \A i \in DOMAIN c : \/ i \in DOMAIN bus /\ c[i] = bus[i]
                          \/ i - Len(bus) \in DOMAIN more /\ c[i] = more[i - Len(bus)]
  OBVIOUS
<1>4. \A i \in DOMAIN bus \cup {0} : \A j \in DOMAIN more : Len(bus) + j \in DOMAIN c /\ Len(bus) + j > i /\ c[Len(bus) + j] = more[j]
  OBVIOUS
<1> HIDE DEF c
<1>5. \A i, s : GoneAfter(bus, i, s) => GoneAfter(c, i, s)
  BY <1>2 DEF GoneAfter
<1>6. \A i, k : EndAfter(bus, i, k) => EndAfter(c, i, k)
  BY <1>2 DEF EndAfter
<1> QED
  BY <1>1, <1>2, <1>3, <1>4, <1>5, <1>6 DEF c, IsLonger

LEMMA BusShorter ==
  ASSUME NEW bus \in Seq(TrayMessages), bus # <<>>
  PROVE  IsShorter(Tail(bus), bus)
<1> DEFINE c == Tail(bus)
<1>1. c \in Seq(TrayMessages) /\ Head(bus) \in TrayMessages /\ 1 \in DOMAIN bus /\ bus[1] = Head(bus)
  OBVIOUS
<1>2. \A i \in DOMAIN c : i \in Nat /\ i + 1 \in DOMAIN bus /\ c[i] = bus[i + 1]
  OBVIOUS
<1>3. \A j \in DOMAIN bus : j = 1 \/ (j - 1 \in DOMAIN c /\ c[j - 1] = bus[j] /\ j \in Nat /\ j > 1)
  OBVIOUS
<1> HIDE DEF c
<1>4. ASSUME NEW i \in Nat, NEW s, GoneAfter(bus, i + 1, s) PROVE GoneAfter(c, i, s)
  BY <1>4, <1>3 DEF GoneAfter
<1>5. ASSUME NEW i \in Nat, NEW k, EndAfter(bus, i + 1, k) PROVE EndAfter(c, i, k)
  BY <1>5, <1>3 DEF EndAfter
<1>6. ASSUME NEW s, GoneAfter(bus, 0, s) PROVE GoneAfter(c, 0, s) \/ (Head(bus).kind = "gone" /\ Head(bus).service = s)
  BY <1>6, <1>3, <1>1 DEF GoneAfter
<1>7. ASSUME NEW k, EndAfter(bus, 0, k) PROVE EndAfter(c, 0, k) \/ (Head(bus).kind = "unregistered" /\ Head(bus).key = k)
  BY <1>7, <1>3, <1>1 DEF EndAfter
<1>8. 1 = 0 + 1 /\ 0 \in Nat
  OBVIOUS
<1>9. /\ \A s : GoneAfter(bus, 1, s) => GoneAfter(c, 0, s)
      /\ \A k : EndAfter(bus, 1, k) => EndAfter(c, 0, k)
  BY <1>4, <1>5, <1>8
<1> QED
  BY <1>1, <1>2, <1>4, <1>5, <1>6, <1>7, <1>9 DEF c, IsShorter

\* A message that may be sent beside what there is.
LEMMA WatcherSent ==
  ASSUME NEW t, NEW u, NEW bus \in Seq(TrayMessages), NEW rows, NEW alive, WatcherFits(t, bus, rows, alive),
         NEW m \in TrayMessages, Registered(u) = Registered(t), u.asked \subseteq t.asked,
         \/ m.kind \in {"register", "error"}
         \/ m.kind \in {"changed", "properties"} /\ TrayService[m.key] \in alive /\ m.key \in Registered(t)
  PROVE  WatcherFits(u, bus \o <<m>>, rows, alive)
<1> DEFINE c == bus \o <<m>>
<1>1. <<m>> \in Seq(TrayMessages) /\ \A j \in DOMAIN <<m>> : <<m>>[j] = m
  OBVIOUS
<1>0. IsLonger(c, bus, <<m>>)
  BY <1>1, BusLonger
<1> HIDE DEF c
<1>2. /\ \A i \in DOMAIN c : (i \in DOMAIN bus /\ c[i] = bus[i]) \/ c[i] = m
      /\ \A i, s : GoneAfter(bus, i, s) => GoneAfter(c, i, s)
  BY <1>0, <1>1 DEF IsLonger
<1>3. \A i \in DOMAIN c : c[i].kind \in {"register", "changed", "properties", "error", "gone"}
  BY <1>2 DEF WatcherFits
<1>4. \A i \in DOMAIN c : c[i].kind = "gone" => c[i].service \notin alive
  BY <1>2 DEF WatcherFits
<1>5. \A i \in DOMAIN c : c[i].kind \in {"changed", "properties"} =>
        /\ TrayService[c[i].key] \in alive => c[i].key \in Registered(u)
        /\ TrayService[c[i].key] \notin alive => GoneAfter(c, i, TrayService[c[i].key])
  BY <1>2 DEF WatcherFits
<1>6. \A k \in u.asked : TrayService[k] \in alive => k \in Registered(u)
  BY DEF WatcherFits
<1>7. \A k \in ToSet(rows) : TrayService[k] \notin alive => GoneAfter(c, 0, TrayService[k])
  BY <1>2 DEF WatcherFits
<1> QED
  BY <1>3, <1>4, <1>5, <1>6, <1>7 DEF WatcherFits, c

LEMMA FallbackSent ==
  ASSUME NEW t, NEW u, NEW bus \in Seq(TrayMessages), NEW others, NEW later, FallbackFits(t, bus, others),
         others \subseteq later, NEW m \in TrayMessages, Registered(u) = Registered(t),
         m.kind \in {"registered", "list", "changed", "properties", "error"},
         \A k \in TrayKeys : Adds(m, k) => k \in later
  PROVE  FallbackFits(u, bus \o <<m>>, later)
<1> DEFINE c == bus \o <<m>>
<1>1. <<m>> \in Seq(TrayMessages) /\ \A j \in DOMAIN <<m>> : <<m>>[j] = m
  OBVIOUS
<1>0. IsLonger(c, bus, <<m>>)
  BY <1>1, BusLonger
<1> HIDE DEF c
<1>2. /\ \A i \in DOMAIN c : (i \in DOMAIN bus /\ c[i] = bus[i]) \/ c[i] = m
      /\ \A i, k : EndAfter(bus, i, k) => EndAfter(c, i, k)
  BY <1>0, <1>1 DEF IsLonger
<1>3. \A i \in DOMAIN c : c[i].kind \in {"registered", "unregistered", "list", "changed", "properties", "error"}
  BY <1>2 DEF FallbackFits
<1>4. \A k \in TrayKeys \ later : k \in Registered(u) => EndAfter(c, 0, k)
  BY <1>2 DEF FallbackFits
<1>5. \A k \in TrayKeys \ later : \A i \in DOMAIN c : Adds(c[i], k) => EndAfter(c, i, k)
  BY <1>2 DEF FallbackFits
<1> QED
  BY <1>3, <1>4, <1>5 DEF FallbackFits, c

\* What the delivery of m may do to the registry and the rows.
Delivers(m, t, u, rows, w) ==
  /\ RegistryAgrees(u) /\ u.mode = t.mode /\ u.listing = t.listing
  /\ \A k \in Registered(u) : k \in Registered(t) \/ Adds(m, k) \/ m.kind = "register"
  /\ \A k \in Registered(t) : \/ k \in Registered(u) \/ m.kind = "unregistered"
                              \/ m.kind = "gone" /\ TrayService[k] = m.service
  /\ m.kind = "unregistered" => m.key \notin Registered(u)
  /\ \A k \in u.asked : k \in t.asked \/ k \in Registered(u)
  /\ \A k \in ToSet(w) : k \in ToSet(rows) \/ (m.kind \in {"changed", "properties"} /\ k = m.key)
  /\ m.kind = "gone" => \A k \in ToSet(w) : TrayService[k] # m.service

LEMMA DeliveredFits ==
  ASSUME NEW t, NEW u, NEW bus \in Seq(TrayMessages), bus # <<>>, NEW rows, NEW w, NEW alive, NEW others,
         ModeFits(t, bus, rows, alive, others), Delivers(Head(bus), t, u, rows, w)
  PROVE  ModeFits(u, Tail(bus), w, alive, others)
BY BusShorter DEF IsShorter, ModeFits, WatcherFits, Delivers, FallbackFits

LEMMA DeliverKeeps ==
  ASSUME TrayInv, Deliver
  PROVE  TrayInv'
<1> DEFINE m == Head(trayBus)
<1>1. trayBus \in Seq(TrayMessages) /\ trayBus # <<>> /\ m \in TrayMessages /\ Tail(trayBus) \in Seq(TrayMessages)
  BY DEF TrayInv, Deliver
<1>2. trayBus' = Tail(trayBus) /\ UNCHANGED <<trayAlive, trayOthers>>
  BY DEF Deliver
<1> HIDE DEF m
<1>3. RegistryAgrees(tray) /\ RowsAgree(trayRows, trayIndex, Registered(tray)) /\ Registered(tray) \in SUBSET TrayKeys
  BY DEF TrayInv, RegistryAgrees, TrayRecords, Registered, ToSet
<1>4. ASSUME RowsAgree(trayRows', trayIndex', Registered(tray')), Delivers(m, tray, tray', trayRows, trayRows')
      PROVE  TrayInv'
  BY <1>1, <1>4, DeliveredFits, <1>2 DEF TrayInv, m, Delivers
<1>5. CASE m.kind \in {"register", "registered"} /\ OnRegister(m.key)
  BY <1>1, <1>5, <1>3, <1>4, AddKeeps DEF TrayMessages, OnRegister, Delivers, Becomes, RowsAgree, Adds
<1>6. CASE (m.kind = "properties" /\ OnProperties(m.key)) \/ (m.kind = "changed" /\ OnChanged(m.key))
  BY <1>1, <1>6, <1>3, <1>4, RowAdded DEF TrayMessages, OnProperties, OnChanged, Delivers, RegistryAgrees
<1>7. ASSUME NEW keys \in SUBSET TrayKeys, RemoveAll(keys)
      PROVE  /\ RowsAgree(trayRows', trayIndex', Registered(tray'))
             /\ Becomes(tray, tray', Registered(tray) \ keys) /\ tray'.asked = tray.asked
             /\ ToSet(trayRows') \subseteq ToSet(trayRows) \ keys
  <2> DEFINE left == RemoveRows(trayRows, trayIndex, keys)
  <2>1. tray' = DropItems(tray, keys) /\ trayRows' = left.rows /\ trayIndex' = left.index
    BY <1>7 DEF RemoveAll
  <2>2. Becomes(tray, tray', Registered(tray) \ keys) /\ tray'.asked = tray.asked
    BY <1>3, <2>1, DropKeeps
  <2>3. RowsAgree(left.rows, left.index, Registered(tray) \ keys)
    BY <1>3, RowsRemoved
  <2>4. RowsAgree(trayRows, trayIndex, ToSet(trayRows))
    BY <1>3 DEF RowsAgree
  <2>5. RowsAgree(left.rows, left.index, ToSet(trayRows) \ keys)
    BY <2>4, RowsRemoved
  <2> HIDE DEF left
  <2> QED
    BY <2>1, <2>2, <2>3, <2>5 DEF Becomes, RowsAgree
<1>8. CASE m.kind = "unregistered" /\ RemoveAll({m.key})
  BY <1>1, <1>8, <1>7, <1>4 DEF TrayMessages, Delivers, Becomes
<1>9. CASE m.kind = "gone" /\ OnGone(m.service)
  BY <1>3, <1>9, <1>7, <1>4 DEF ItemsOf, OnGone, RowsAgree, Becomes, Delivers
<1>10. CASE m.kind = "list" /\ OnList(m.keys)
  BY <1>1, <1>10, <1>3, AddKeeps, <1>4 DEF TrayMessages, OnList, Becomes, RowsAgree, Delivers, Adds
<1>11. CASE m.kind = "error" /\ UNCHANGED <<tray, trayRows, trayIndex>>
  BY <1>3, <1>11, <1>4 DEF Delivers
<1> QED
  BY <1>5, <1>6, <1>8, <1>9, <1>10, <1>11 DEF Deliver, m

LEMMA StartKeeps ==
  ASSUME TrayInv, TrayStart
  PROVE  TrayInv'
<1>1. /\ RegistryAgrees(tray) /\ RowsAgree(trayRows, trayIndex, Registered(tray))
      /\ ModeFits(tray, trayBus, trayRows, trayAlive, trayOthers)
  BY DEF TrayInv
<1>2. /\ tray.mode = "stopped" /\ trayBus = <<>> /\ Registered(tray) = {} /\ tray.watched = {} /\ tray.asked = {}
      /\ ToSet(trayRows) = {} /\ tray \in TrayRecords
      /\ \A k \in trayOthers : TrayService[k] \in trayAlive
  BY <1>1 DEF TrayStart, ModeFits, RowsAgree, RegistryAgrees
<1>3. UNCHANGED <<trayBus, trayAlive, trayOthers, trayRows, trayIndex>>
  BY DEF TrayStart
<1>4. ASSUME RegistryAgrees(tray'), ModeFits(tray', trayBus, trayRows, trayAlive, trayOthers) PROVE TrayInv'
  BY <1>1, <1>2, <1>3, <1>4 DEF RowsAgree, TrayInv
<1>5. ASSUME NEW found \in SUBSET {k \in TrayKeys : TrayService[k] \in trayAlive},
             tray' = AddItems([tray EXCEPT !.mode = "watcher"], found)
      PROVE  TrayInv'
  <2> DEFINE t == [tray EXCEPT !.mode = "watcher"]
  <2>1. /\ t \in TrayRecords /\ t.items = tray.items /\ t.count = tray.count /\ t.watched = tray.watched
        /\ t.subscribed = tray.subscribed /\ t.asked = tray.asked /\ t.listing = tray.listing /\ t.mode = "watcher"
    BY <1>2 DEF TrayRecords, TrayModes
  <2>2. tray' = AddItems(t, found)
    BY <1>5
  <2> HIDE DEF t
  <2>3. Registered(t) = Registered(tray)
    BY <2>1 DEF Registered
  <2>4. RegistryAgrees(t)
    BY <1>1, <1>2, <2>1, <2>3 DEF RegistryAgrees
  <2>5. found \in SUBSET TrayKeys
    BY <1>5
  <2>6. Becomes(t, tray', Registered(t) \cup found) /\ tray'.asked = t.asked \cup found
    BY <2>2, <2>4, <2>5, AddKeeps
  <2>7. RegistryAgrees(tray') /\ Registered(tray') = found /\ tray'.mode = "watcher" /\ tray'.asked = found
        /\ tray'.listing = tray.listing
    BY <1>2, <2>1, <2>3, <2>6 DEF Becomes
  <2>8. ~tray.listing
    BY <1>1, <1>2 DEF ModeFits
  <2>9. WatcherFits(tray', trayBus, trayRows, trayAlive)
    BY <1>2, <2>7 DEF WatcherFits
  <2>10. ModeFits(tray', trayBus, trayRows, trayAlive, trayOthers)
    BY <1>2, <2>7, <2>8, <2>9 DEF ModeFits
  <2> QED
    BY <1>4, <2>7, <2>10
<1>6. ASSUME tray' = [tray EXCEPT !.mode = "fallback", !.listing = TRUE] PROVE TrayInv'
  <2>1. /\ tray' \in TrayRecords /\ tray'.items = tray.items /\ tray'.count = tray.count
        /\ tray'.subscribed = tray.subscribed /\ tray'.mode = "fallback"
    BY <1>2, <1>6 DEF TrayRecords, TrayModes
  <2>2. Registered(tray') = Registered(tray)
    BY <2>1 DEF Registered
  <2>3. RegistryAgrees(tray')
    BY <1>1, <2>1, <2>2 DEF RegistryAgrees
  <2>4. FallbackFits(tray', trayBus, trayOthers)
    BY <1>2, <2>2 DEF FallbackFits
  <2>5. ModeFits(tray', trayBus, trayRows, trayAlive, trayOthers)
    BY <1>2, <2>1, <2>4 DEF ModeFits
  <2> QED
    BY <1>4, <2>3, <2>5
<1> QED
  BY <1>5, <1>6 DEF TrayStart

\* A step that leaves the registry's items and the rows alone.
LEMMA SentKeeps ==
  ASSUME TrayInv, UNCHANGED <<trayAlive, trayRows, trayIndex>>, NEW m \in TrayMessages,
         trayBus' = trayBus \o <<m>>, trayOthers \subseteq trayOthers', trayOthers' \subseteq TrayKeys,
         \A k \in trayOthers' : TrayService[k] \in trayAlive,
         tray' \in TrayRecords, tray'.mode = tray.mode, tray'.items = tray.items, tray'.count = tray.count,
         tray'.watched = tray.watched, tray'.subscribed = tray.subscribed,
         tray'.asked \subseteq tray.asked, tray'.listing => tray.listing, tray.mode # "stopped",
         tray.mode = "watcher" =>
            \/ m.kind \in {"register", "error"}
            \/ m.kind \in {"changed", "properties"} /\ TrayService[m.key] \in trayAlive /\ m.key \in Registered(tray),
         tray.mode = "fallback" =>
            /\ m.kind \in {"registered", "list", "changed", "properties", "error"}
            /\ \A k \in TrayKeys : Adds(m, k) => k \in trayOthers'
  PROVE  TrayInv'
<1>1. /\ RegistryAgrees(tray) /\ RowsAgree(trayRows, trayIndex, Registered(tray))
      /\ ModeFits(tray, trayBus, trayRows, trayAlive, trayOthers) /\ trayBus \in Seq(TrayMessages)
  BY DEF TrayInv
<1>2. Registered(tray') = Registered(tray)
  BY DEF Registered
<1>3. RegistryAgrees(tray')
  BY <1>1, <1>2 DEF RegistryAgrees
<1>4. tray.mode = "watcher" => WatcherFits(tray', trayBus', trayRows, trayAlive)
  BY <1>1, <1>2, WatcherSent DEF ModeFits
<1>5. ASSUME tray.mode = "fallback" PROVE FallbackFits(tray', trayBus', trayOthers')
  BY <1>1, <1>5, <1>2, FallbackSent DEF ModeFits
<1>6. ModeFits(tray', trayBus', trayRows', trayAlive', trayOthers')
  BY <1>1, <1>4, <1>5 DEF ModeFits
<1>7. trayBus' \in Seq(TrayMessages)
  BY <1>1, ConcatProperties
<1> QED
  BY <1>1, <1>2, <1>3, <1>6, <1>7 DEF TrayInv

LEMMA RegistersKeeps ==
  ASSUME TrayInv, NEW k \in TrayKeys, ItemRegisters(k)
  PROVE  TrayInv'
<1>1. tray \in TrayRecords /\ trayOthers \subseteq TrayKeys /\ \A x \in trayOthers : TrayService[x] \in trayAlive
  BY DEF TrayInv, RegistryAgrees, ModeFits
<1>2. TrayService[k] \in trayAlive /\ UNCHANGED <<trayAlive, tray, trayRows, trayIndex>>
  BY DEF ItemRegisters
<1>3. CASE tray.mode = "watcher" /\ trayBus' = trayBus \o <<[kind |-> "register", key |-> k]>> /\ UNCHANGED trayOthers
  BY <1>1, <1>2, <1>3, SentKeeps DEF TrayMessages
<1>4. CASE tray.mode = "fallback" /\ trayBus' = trayBus \o <<[kind |-> "registered", key |-> k]>>
           /\ trayOthers' = trayOthers \cup {k}
  BY <1>4, <1>1, <1>2, SentKeeps DEF TrayMessages, Adds
<1> QED
  BY <1>3, <1>4 DEF ItemRegisters, Sends

LEMMA ChangesKeeps ==
  ASSUME TrayInv, NEW k \in TrayKeys, ItemChanges(k)
  PROVE  TrayInv'
BY SentKeeps DEF TrayInv, RegistryAgrees, ModeFits, TrayMessages, ItemChanges, Sends, Adds

LEMMA AnswersKeeps ==
  ASSUME TrayInv, NEW k \in TrayKeys, ItemAnswers(k)
  PROVE  TrayInv'
<1>1. /\ tray \in TrayRecords /\ trayOthers \subseteq TrayKeys /\ \A x \in trayOthers : TrayService[x] \in trayAlive
      /\ ModeFits(tray, trayBus, trayRows, trayAlive, trayOthers)
  BY DEF TrayInv, RegistryAgrees, ModeFits
<1>2. /\ k \in tray.asked /\ tray' = [tray EXCEPT !.asked = @ \ {k}]
      /\ UNCHANGED <<trayAlive, trayOthers, trayRows, trayIndex>>
  BY DEF ItemAnswers
<1>3. /\ tray' \in TrayRecords /\ tray'.mode = tray.mode /\ tray'.items = tray.items /\ tray'.count = tray.count
      /\ tray'.watched = tray.watched /\ tray'.subscribed = tray.subscribed /\ tray'.asked \subseteq tray.asked
      /\ tray'.listing = tray.listing
  BY <1>1, <1>2 DEF TrayRecords
<1>4. tray.mode # "stopped"
  BY <1>1, <1>2 DEF ModeFits
<1>5. tray.mode = "watcher" /\ TrayService[k] \in trayAlive => k \in Registered(tray)
  BY <1>1, <1>2 DEF ModeFits, WatcherFits
<1>6. ASSUME NEW m \in TrayMessages, m.key = k, trayBus' = trayBus \o <<m>>,
             (m.kind = "properties" /\ TrayService[k] \in trayAlive) \/ m.kind = "error"
      PROVE  TrayInv'
  <2>1. \A x \in TrayKeys : ~Adds(m, x)
    BY <1>6 DEF Adds
  <2> QED
    BY <1>1, <1>2, <1>3, <1>4, <1>5, <1>6, <2>1, SentKeeps
<1>7. \A kind \in {"properties", "error"} :
        /\ [kind |-> kind, key |-> k] \in TrayMessages
        /\ [kind |-> kind, key |-> k].kind = kind /\ [kind |-> kind, key |-> k].key = k
  BY DEF TrayMessages
<1> QED
  BY <1>6, <1>7 DEF ItemAnswers, Sends

LEMMA ListedKeeps ==
  ASSUME TrayInv, OtherWatcherAnswers
  PROVE  TrayInv'
<1> DEFINE m == [kind |-> "list", keys |-> trayOthers]
<1>1. /\ tray \in TrayRecords /\ trayOthers \subseteq TrayKeys /\ \A x \in trayOthers : TrayService[x] \in trayAlive
      /\ (tray.listing => tray.mode = "fallback")
  BY DEF TrayInv, RegistryAgrees, ModeFits
<1>2. m \in TrayMessages /\ m.kind = "list" /\ m.keys = trayOthers
  BY <1>1 DEF TrayMessages
<1>3. /\ tray.listing /\ tray' = [tray EXCEPT !.listing = FALSE] /\ trayBus' = trayBus \o <<m>>
      /\ UNCHANGED <<trayAlive, trayOthers, trayRows, trayIndex>>
  BY DEF OtherWatcherAnswers, Sends
<1> HIDE DEF m
<1>4. /\ tray' \in TrayRecords /\ tray'.mode = tray.mode /\ tray'.items = tray.items /\ tray'.count = tray.count
      /\ tray'.watched = tray.watched /\ tray'.subscribed = tray.subscribed /\ tray'.asked \subseteq tray.asked
      /\ tray'.listing = FALSE
  BY <1>1, <1>3 DEF TrayRecords
<1>5. \A x \in TrayKeys : Adds(m, x) => x \in trayOthers
  BY <1>2 DEF Adds
<1> QED
  BY <1>1, <1>2, <1>3, <1>4, <1>5, SentKeeps


\* What the bus and the other watcher send when a service exits leaves nothing of
\* it unannounced.
LEMMA ExitsKeeps ==
  ASSUME TrayInv, NEW s \in TrayServices, ServiceExits(s)
  PROVE  TrayInv'
<1> DEFINE ended == {k \in trayOthers : TrayService[k] = s}
           known == SetToSeq(ended)
           told == [i \in DOMAIN known |-> [kind |-> "unregistered", key |-> known[i]]]
           gone == [kind |-> "gone", service |-> s]
           alive == trayAlive \ {s}
           others == trayOthers \ ended
<1>1. /\ RegistryAgrees(tray) /\ RowsAgree(trayRows, trayIndex, Registered(tray)) /\ tray \in TrayRecords
      /\ ModeFits(tray, trayBus, trayRows, trayAlive, trayOthers)
      /\ trayBus \in Seq(TrayMessages) /\ trayAlive \subseteq TrayServices /\ trayOthers \subseteq TrayKeys
  BY DEF TrayInv, RegistryAgrees
<1>2. /\ s \in trayAlive /\ trayAlive' = alive
      /\ trayBus' = trayBus \o (IF tray.mode = "watcher" /\ s \in tray.watched THEN <<gone>>
                                ELSE IF tray.mode = "fallback" THEN told ELSE <<>>)
      /\ trayOthers' = {k \in trayOthers : TrayService[k] # s} /\ UNCHANGED <<tray, trayRows, trayIndex>>
  BY DEF ServiceExits, Sends
<1>3. trayOthers' = others
  BY <1>2
<1>4. /\ told \in Seq(TrayMessages) /\ (\A j \in DOMAIN told : told[j].kind = "unregistered")
      /\ \A k \in ended : \E j \in DOMAIN told : told[j].kind = "unregistered" /\ told[j].key = k
  <2>1. ended \in SUBSET TrayKeys /\ IsFiniteSet(ended)
    BY <1>1, TrayAssumption, FS_Subset
  <2> HIDE DEF ended
  <2>2. known \in Seq(TrayKeys) /\ ToSet(known) = ended
    BY <2>1, SetAsSeq
  <2> HIDE DEF known
  <2>3. DOMAIN known = 1..Len(known) /\ Len(known) \in Nat /\ \A i \in DOMAIN known : known[i] \in TrayKeys
    BY <2>2
  <2>4. \A i \in DOMAIN known : [kind |-> "unregistered", key |-> known[i]] \in TrayMessages
    BY <2>3 DEF TrayMessages
  <2>5. told \in [1..Len(known) -> TrayMessages]
    BY <2>3, <2>4
  <2>6. told \in Seq(TrayMessages)
    BY <2>3, <2>5, SeqDef
  <2>7. \A k \in ended : \E i \in DOMAIN known : known[i] = k
    BY <2>2 DEF ToSet
  <2> QED
    BY <2>6, <2>7
<1>5. gone \in TrayMessages /\ gone.kind = "gone" /\ gone.service = s
  BY DEF TrayMessages
<1>6. \A k \in ended : TrayService[k] = s
  OBVIOUS
<1>7. \A k \in others : TrayService[k] \in alive
  BY <1>1 DEF ModeFits
<1>8. alive \subseteq trayAlive /\ \A x \in trayAlive : x \in alive \/ x = s
  OBVIOUS
<1>9. others \subseteq TrayKeys /\ \A k \in TrayKeys \ others : k \notin trayOthers \/ k \in ended
  BY <1>1
<1>16. s \notin alive
  OBVIOUS
<1> HIDE DEF ended, told, gone, alive, others
<1>10. ASSUME trayBus' \in Seq(TrayMessages), ModeFits(tray, trayBus', trayRows, alive, others) PROVE TrayInv'
  BY <1>1, <1>2, <1>3, <1>8, <1>9, <1>10 DEF TrayInv
<1>11. trayBus \o <<>> = trayBus
  BY <1>1
<1>12. CASE tray.mode = "watcher" /\ s \in tray.watched
  <2>1. trayBus' = trayBus \o <<gone>> /\ <<gone>> \in Seq(TrayMessages) /\ 1 \in DOMAIN <<gone>> /\ <<gone>>[1] = gone
        /\ \A j \in DOMAIN <<gone>> : <<gone>>[j] = gone
    BY <1>2, <1>5, <1>12
  <2> DEFINE c == trayBus'
  <2>2. IsLonger(c, trayBus, <<gone>>)
    BY <1>1, <2>1, BusLonger
  <2>3. WatcherFits(tray, trayBus, trayRows, trayAlive)
    BY <1>1, <1>12 DEF ModeFits
  <2> HIDE DEF c
  <2>4. /\ \A i \in DOMAIN c : (i \in DOMAIN trayBus /\ c[i] = trayBus[i]) \/ c[i] = gone
        /\ \A i, x : GoneAfter(trayBus, i, x) => GoneAfter(c, i, x)
        /\ \A i \in DOMAIN trayBus \cup {0} : GoneAfter(c, i, s)
    <3> DEFINE more == <<gone>>
    <3>0. IsLonger(c, trayBus, more) /\ 1 \in DOMAIN more /\ \A j \in DOMAIN more : more[j] = gone
      BY <2>1, <2>2
    <3> HIDE DEF more
    <3>1. \A i \in DOMAIN c : (i \in DOMAIN trayBus /\ c[i] = trayBus[i]) \/ c[i] = gone
      BY <3>0 DEF IsLonger
    <3>2. \A i, x : GoneAfter(trayBus, i, x) => GoneAfter(c, i, x)
      BY <3>0 DEF IsLonger
    <3>3. \A i \in DOMAIN trayBus \cup {0} : \E l \in DOMAIN c : l > i /\ c[l] = gone
      BY <3>0 DEF IsLonger
    <3>4. \A i \in DOMAIN trayBus \cup {0} : GoneAfter(c, i, s)
      BY <1>5, <3>3 DEF GoneAfter
    <3> QED
      BY <3>1, <3>2, <3>4
  <2>5. \A i \in DOMAIN c : c[i].kind \in {"register", "changed", "properties", "error", "gone"}
    BY <1>5, <2>3, <2>4 DEF WatcherFits
  <2>6. \A i \in DOMAIN c : c[i].kind = "gone" => c[i].service \notin alive
    BY <1>5, <1>8, <1>16, <2>3, <2>4 DEF WatcherFits
  <2>7. ASSUME NEW i \in DOMAIN c, c[i].kind \in {"changed", "properties"}
        PROVE  /\ TrayService[c[i].key] \in alive => c[i].key \in Registered(tray)
               /\ TrayService[c[i].key] \notin alive => GoneAfter(c, i, TrayService[c[i].key])
    BY <1>5, <2>4, <2>7, <2>3, <1>8 DEF WatcherFits
  <2>8. \A k \in tray.asked : TrayService[k] \in alive => k \in Registered(tray)
    BY <1>8, <2>3 DEF WatcherFits
  <2>9. \A k \in ToSet(trayRows) : TrayService[k] \notin alive => GoneAfter(c, 0, TrayService[k])
    BY <1>8, <2>3, <2>4 DEF WatcherFits
  <2>10. WatcherFits(tray, c, trayRows, alive)
    BY <2>5, <2>6, <2>7, <2>8, <2>9 DEF WatcherFits
  <2>11. ModeFits(tray, c, trayRows, alive, others)
    BY <1>1, <1>7, <1>12, <2>10 DEF ModeFits
  <2>12. c \in Seq(TrayMessages)
    BY <2>2 DEF IsLonger
  <2> QED
    BY <1>10, <2>11, <2>12 DEF c
<1>13. CASE tray.mode = "watcher" /\ s \notin tray.watched
  BY <1>2, <1>11, <1>13, <1>1, <1>8, <1>7, <1>10 DEF ModeFits, RegistryAgrees, RowsAgree, WatcherFits
<1>14. CASE tray.mode = "fallback"
  <2> DEFINE c == trayBus'
  <2>1. c = trayBus \o told
    BY <1>2, <1>14
  <2>2. IsLonger(c, trayBus, told)
    BY <1>1, <1>4, <2>1, BusLonger
  <2>3. FallbackFits(tray, trayBus, trayOthers)
    BY <1>1, <1>14 DEF ModeFits
  <2> HIDE DEF c
  <2>4. /\ \A i \in DOMAIN c : (i \in DOMAIN trayBus /\ c[i] = trayBus[i]) \/ c[i].kind = "unregistered"
        /\ \A i, k : EndAfter(trayBus, i, k) => EndAfter(c, i, k)
    BY <1>4, <2>2 DEF IsLonger
  <2>5. \A i \in DOMAIN trayBus \cup {0} : \A k \in ended : EndAfter(c, i, k)
    BY <1>4, <2>2 DEF IsLonger, EndAfter
  <2>6. \A i \in DOMAIN c : c[i].kind \in {"registered", "unregistered", "list", "changed", "properties", "error"}
    BY <2>3, <2>4 DEF FallbackFits
  <2>7. \A k \in TrayKeys \ others : k \in Registered(tray) => EndAfter(c, 0, k)
    BY <1>9, <2>3, <2>4, <2>5 DEF FallbackFits
  <2>8. ASSUME NEW k \in TrayKeys \ others, NEW i \in DOMAIN c, Adds(c[i], k) PROVE EndAfter(c, i, k)
    BY <2>4, <2>8, <1>9, <2>3, <2>5 DEF Adds, FallbackFits
  <2>9. FallbackFits(tray, c, others)
    BY <2>6, <2>7, <2>8 DEF FallbackFits
  <2>10. ModeFits(tray, c, trayRows, alive, others)
    BY <1>1, <1>7, <1>14, <2>9 DEF ModeFits
  <2>11. c \in Seq(TrayMessages)
    BY <2>2 DEF IsLonger
  <2> QED
    BY <1>10, <2>10, <2>11 DEF c
<1>15. CASE tray.mode = "stopped"
  BY <1>2, <1>11, <1>15, <1>1, <1>7, <1>10 DEF ModeFits
<1> QED
  BY <1>1, <1>12, <1>13, <1>14, <1>15 DEF TrayRecords, TrayModes

\* A name that is taken again meets nothing of its former owner.
LEMMA StartsKeeps ==
  ASSUME TrayInv, NEW s \in TrayServices, ServiceStarts(s)
  PROVE  TrayInv'
BY DEF TrayInv, ServiceStarts, ItemsOf, IsAbout, ModeFits, WatcherFits

\* The invariant says what the run checks.
LEMMA TrayInvSays ==
  ASSUME TrayInv
  PROVE  TrayTypeOK /\ TrayAgrees /\ NoGhostRows
<1>1. /\ RegistryAgrees(tray) /\ RowsAgree(trayRows, trayIndex, Registered(tray)) /\ tray \in TrayRecords
      /\ ModeFits(tray, trayBus, trayRows, trayAlive, trayOthers)
      /\ trayBus \in Seq(TrayMessages) /\ trayAlive \subseteq TrayServices /\ trayOthers \subseteq TrayKeys
  BY DEF TrayInv, RegistryAgrees
<1>2. /\ trayRows \in Seq(TrayKeys) /\ DOMAIN trayRows = 1..Len(trayRows)
      /\ \A k \in DOMAIN trayIndex : k \in TrayKeys /\ trayIndex[k] \in 1..Len(trayRows) /\ trayRows[trayIndex[k]] = k
  BY <1>1 DEF RowsAgree
<1>3. TrayTypeOK
  BY <1>1, <1>2 DEF TrayTypeOK
<1>4. DOMAIN trayIndex = ToSet(trayRows)
  <2>1. \A k \in DOMAIN trayIndex : k \in ToSet(trayRows)
    BY <1>1 DEF RowsAgree, ToSet
  <2>2. \A k \in ToSet(trayRows) : k \in DOMAIN trayIndex
    BY <1>1 DEF RowsAgree, ToSet
  <2> QED
    BY <2>1, <2>2
<1>5. TrayAgrees
  BY <1>1, <1>2, <1>4 DEF TrayAgrees, RegistryAgrees, RowsAgree, ItemsOf
<1>6. ASSUME trayBus = <<>>, NEW k \in ToSet(trayRows) PROVE TrayService[k] \in trayAlive
  BY <1>1, <1>2, <1>4, <1>6 DEF RowsAgree, GoneAfter, EndAfter, ModeFits, WatcherFits, FallbackFits, TrayRecords,
     TrayModes
<1> QED
  BY <1>3, <1>5, <1>6 DEF NoGhostRows

LEMMA TrayInvStarts ==
  ASSUME TrayInit
  PROVE  TrayInv
<1>1. /\ trayBus \in Seq(TrayMessages) /\ trayBus = <<>> /\ trayAlive = TrayServices /\ trayOthers \subseteq TrayKeys
      /\ trayRows = <<>> /\ trayRows \in Seq(TrayKeys) /\ trayIndex = <<>>
  BY DEF TrayInit
<1>2. /\ tray.mode = "stopped" /\ tray.items = <<>> /\ tray.count = [s \in TrayServices |-> 0] /\ tray.watched = {}
      /\ tray.subscribed = {} /\ tray.asked = {} /\ tray.listing = FALSE
  BY DEF TrayInit
<1>3. tray \in TrayRecords
  BY DEF TrayInit, TrayRecords, TrayModes
<1>4. Registered(tray) = {}
  BY <1>2 DEF Registered, ToSet
<1>5. RegistryAgrees(tray)
  BY FS_EmptySet, <1>2, <1>4, <1>3 DEF ItemsOf, IsInjective, RegistryAgrees
<1>6. RowsAgree(trayRows, trayIndex, Registered(tray))
  BY <1>1, <1>4 DEF RowsAgree, ToSet
<1>7. ModeFits(tray, trayBus, trayRows, trayAlive, trayOthers)
  BY <1>1, <1>2, <1>4 DEF TrayServices, ModeFits
<1> QED
  BY <1>1, <1>5, <1>6, <1>7 DEF TrayInv

LEMMA TrayInvHolds == TrayInit /\ [][TrayNext]_trayVars => []TrayInv
<1>1. TrayInit => TrayInv
  BY TrayInvStarts
<1>2. ASSUME TrayInv, [TrayNext]_trayVars PROVE TrayInv'
  BY <1>2, StartKeeps, DeliverKeeps, ListedKeeps, RegistersKeeps, ChangesKeeps, AnswersKeeps, ExitsKeeps, StartsKeeps
     DEF TrayNext, trayVars, TrayInv
<1> QED
  BY <1>1, <1>2, PTL

\* The registry of the watcher, its counts and watches and the rows with their
\* index tell of the same items at all times, and no icon outlives its program
\* once the bus is empty: for every finite set of items, every division of them
\* among services and every number of messages under way.
THEOREM TrayIsKept == TrayInit /\ [][TrayNext]_trayVars => [](TrayTypeOK /\ TrayAgrees /\ NoGhostRows)
<1>1. TrayInv => TrayTypeOK /\ TrayAgrees /\ NoGhostRows
  BY TrayInvSays
<1> QED
  BY <1>1, TrayInvHolds, PTL

----------------------------------------------------------------------------
(***************************************************************************)
(* The context menu.                                                       *)
(***************************************************************************)

MenuSurfaces == [host : HostStates, pending : BOOLEAN, output : {MenuOutput, NoOutput},
                 visible : BOOLEAN, client : 0..MaxMenus, model : 0..MaxMenus]

\* A surface fits the client n: it points to n or to none; what waits for a
\* provider has a screen and something to show, and has no surface yet.
SurfaceFits(s, n) ==
  /\ s \in MenuSurfaces
  /\ s.client # 0 => s.client = n
  /\ s.visible <=> HasSurface(s)
  /\ s.visible \/ s.pending => s.client # 0 /\ s.model = s.client
  /\ s.pending => s.host = "none" /\ s.output # NoOutput

MenuInv ==
  /\ MenuTypeOK
  /\ SurfaceFits(trayMenu, menuClient.id)
  /\ menuClient.phase \in {"layout", "about"} => menuClient.id # 0

LEMMA MenuGoes ==
  ASSUME NEW s, NEW n, SurfaceFits(s, n)
  PROVE  /\ SurfaceFits(MenuHidden(s), n) /\ MenuHidden(s).client = 0
         /\ SurfaceFits(MenuTerminated(DestroySurface(s)), n)
         /\ SurfaceFits(MenuTerminated(CloseSurface([s EXCEPT !.pending = FALSE])), n)
<1>1. s \in MenuSurfaces /\ 0 \in 0..MaxMenus /\ "none" \in HostStates
  BY MenuAssumption DEF SurfaceFits, HostStates
<1> DEFINE h == MenuHidden(s)
           d == MenuTerminated(DestroySurface(s))
           e == MenuTerminated(CloseSurface([s EXCEPT !.pending = FALSE]))
<1>2. h \in MenuSurfaces /\ h.host = "none" /\ h.pending = FALSE /\ h.visible = FALSE /\ h.client = 0
  BY <1>1 DEF MenuHidden, DestroySurface, CloseSurface, ClearPending, MenuSurfaces
<1>3. d \in MenuSurfaces /\ d.host = "none" /\ d.pending = FALSE /\ d.visible = FALSE /\ d.client = 0
  BY <1>1 DEF MenuTerminated, DestroySurface, CloseSurface, ClearPending, MenuSurfaces
<1>4. e \in MenuSurfaces /\ e.host = "none" /\ e.pending = FALSE /\ e.visible = FALSE /\ e.client = 0
  BY <1>1 DEF MenuTerminated, CloseSurface, MenuSurfaces
<1> HIDE DEF h, d, e
<1> QED
  BY <1>2, <1>3, <1>4 DEF SurfaceFits, HasSurface, h, d, e

\* What waits is opened, or given up.
LEMMA MenuOpens ==
  ASSUME NEW s, NEW n, NEW opens \in BOOLEAN, SurfaceFits(s, n)
  PROVE  SurfaceFits(MenuOpened(s, opens), n)
<1>1. s \in MenuSurfaces /\ 0 \in 0..MaxMenus /\ "none" \in HostStates /\ "opening" \in HostStates
  BY MenuAssumption DEF SurfaceFits, HostStates
<1> DEFINE u == MenuOpened(s, opens)
<1>2. CASE ~s.pending \/ s.output = NoOutput
  BY <1>2 DEF MenuOpened
<1>3. CASE s.pending /\ s.output # NoOutput /\ opens
  <2>1. u = [s EXCEPT !.pending = FALSE, !.host = "opening", !.visible = TRUE]
    BY <1>1, <1>3 DEF MenuOpened, OpenPending, MenuSurfaces
  <2>2. u \in MenuSurfaces /\ u.host = "opening" /\ u.pending = FALSE /\ u.visible = TRUE
        /\ u.client = s.client /\ u.model = s.model
    BY <1>1, <2>1 DEF MenuSurfaces
  <2> HIDE DEF u
  <2> QED
    BY <1>3, <2>2 DEF SurfaceFits, HasSurface, u
<1>4. CASE s.pending /\ s.output # NoOutput /\ ~opens
  <2>1. u = MenuTerminated([s EXCEPT !.pending = FALSE])
    BY <1>4 DEF MenuOpened
  <2>2. u \in MenuSurfaces /\ u.host = s.host /\ u.pending = FALSE /\ u.visible = FALSE /\ u.client = 0
    BY <1>1, <2>1 DEF MenuTerminated, MenuSurfaces
  <2> HIDE DEF u
  <2> QED
    BY <1>4, <2>2 DEF SurfaceFits, HasSurface, u
<1> QED
  BY <1>2, <1>3, <1>4

\* The provider goes: a menu that was open waits for it with what it shows.
LEMMA MenuWaits ==
  ASSUME NEW s, NEW n, SurfaceFits(s, n)
  PROVE  SurfaceFits(MenuTerminated(Withdrawn(s)), n)
<1> DEFINE waits == IF HasSurface(s) THEN s.output # NoOutput ELSE s.pending
           w == Withdrawn(s)
           u == MenuTerminated(w)
<1>1. s \in MenuSurfaces /\ 0 \in 0..MaxMenus /\ "none" \in HostStates
  BY MenuAssumption DEF SurfaceFits, HostStates
<1>2. waits \in BOOLEAN
  BY <1>1 DEF MenuSurfaces
<1>3. waits => s.client # 0 /\ s.model = s.client /\ s.output # NoOutput
  BY DEF SurfaceFits
<1>4. w = [s EXCEPT !.pending = waits, !.host = "none"]
  BY <1>1 DEF Withdrawn, CloseSurface, MenuSurfaces
<1> HIDE DEF waits
<1>5. w \in MenuSurfaces /\ w.host = "none" /\ w.pending = waits /\ w.client = s.client /\ w.model = s.model
      /\ w.output = s.output
  BY <1>1, <1>2, <1>4 DEF MenuSurfaces
<1> HIDE DEF w
<1>6. ASSUME waits PROVE SurfaceFits(u, n)
  <2>1. u = [w EXCEPT !.visible = FALSE]
    BY <1>3, <1>5, <1>6 DEF MenuTerminated
  <2>2. u \in MenuSurfaces /\ u.host = "none" /\ u.pending = TRUE /\ u.client = s.client /\ u.model = s.model
        /\ u.output = s.output /\ u.visible = FALSE
    BY <1>5, <1>6, <2>1 DEF MenuSurfaces
  <2> HIDE DEF u
  <2> QED
    BY <1>3, <1>6, <2>2 DEF SurfaceFits, HasSurface
<1>7. ASSUME ~waits PROVE SurfaceFits(u, n)
  <2>1. u = [w EXCEPT !.visible = FALSE, !.client = 0, !.model = 0]
    BY <1>5, <1>7 DEF MenuTerminated
  <2>2. u \in MenuSurfaces /\ u.host = "none" /\ u.pending = FALSE /\ u.client = 0 /\ u.visible = FALSE
    BY <1>1, <1>5, <1>7, <2>1 DEF MenuSurfaces
  <2> HIDE DEF u
  <2> QED
    BY <2>2 DEF SurfaceFits, HasSurface
<1> QED
  BY <1>6, <1>7 DEF u, w

LEMMA MenuIsShown ==
  ASSUME NEW s, NEW n \in 0..MaxMenus, n # 0, NEW opens \in BOOLEAN, SurfaceFits(s, n)
  PROVE  SurfaceFits(MenuShown(s, n, opens), n)
<1>1. s \in MenuSurfaces /\ 0 \in 0..MaxMenus /\ "none" \in HostStates
  BY MenuAssumption DEF SurfaceFits, HostStates
<1> DEFINE d == DestroySurface(s)
           asked == [d EXCEPT !.client = n, !.model = n, !.pending = TRUE, !.output = MenuOutput]
           shut == [asked EXCEPT !.visible = FALSE]
           none == [d EXCEPT !.client = n, !.model = n, !.visible = FALSE]
<1>2. d \in MenuSurfaces /\ d.host = "none" /\ d.pending = FALSE
  BY <1>1 DEF DestroySurface, CloseSurface, ClearPending, MenuSurfaces
<1> HIDE DEF d
<1>3. asked \in MenuSurfaces /\ asked.host = "none" /\ asked.pending = TRUE /\ asked.output = MenuOutput
      /\ asked.client = n /\ asked.model = n
  BY <1>2 DEF MenuSurfaces
<1>4. none \in MenuSurfaces /\ none.host = "none" /\ none.pending = FALSE /\ none.visible = FALSE /\ none.client = n
  BY <1>2 DEF MenuSurfaces
<1> HIDE DEF asked, none
<1>5. shut \in MenuSurfaces /\ shut.host = "none" /\ shut.pending = TRUE /\ shut.output = MenuOutput
      /\ shut.client = n /\ shut.model = n /\ shut.visible = FALSE
  BY <1>3 DEF MenuSurfaces
<1> HIDE DEF shut
<1>6. SurfaceFits(none, n) /\ SurfaceFits(shut, n)
  BY <1>4, <1>5, MenuAssumption DEF SurfaceFits, HasSurface
<1>7. SurfaceFits(MenuOpened(asked, opens), n)
  <2> DEFINE u == MenuOpened(asked, opens)
  <2>1. CASE opens
    <3>1. u = [asked EXCEPT !.pending = FALSE, !.host = "opening", !.visible = TRUE]
      BY <1>3, <2>1, MenuAssumption DEF MenuOpened, OpenPending, MenuSurfaces
    <3>2. u \in MenuSurfaces /\ u.host = "opening" /\ u.pending = FALSE /\ u.visible = TRUE
          /\ u.client = n /\ u.model = n
      BY <1>3, <3>1 DEF MenuSurfaces, HostStates
    <3> HIDE DEF u
    <3> QED
      BY <3>2 DEF SurfaceFits, HasSurface, u
  <2>2. CASE ~opens
    <3>1. u = MenuTerminated([asked EXCEPT !.pending = FALSE])
      BY <1>3, <2>2, MenuAssumption DEF MenuOpened
    <3>2. u \in MenuSurfaces /\ u.host = "none" /\ u.pending = FALSE /\ u.visible = FALSE /\ u.client = 0
      BY <1>1, <1>3, <3>1 DEF MenuTerminated, MenuSurfaces
    <3> HIDE DEF u
    <3> QED
      BY <3>2 DEF SurfaceFits, HasSurface, u
  <2> QED
    BY <2>1, <2>2
<1> QED
  BY <1>6, <1>7 DEF MenuShown, d, asked, shut, none

LEMMA MenuStep ==
  ASSUME MenuInv, [MenuNext]_menuVars
  PROVE  MenuInv'
<1> DEFINE n == menuClient.id
<1>0. /\ MenuTypeOK /\ SurfaceFits(trayMenu, n) /\ (menuClient.phase \in {"layout", "about"} => n # 0)
      /\ trayMenu \in MenuSurfaces /\ n \in 0..MaxMenus
      /\ menuClient \in [id : 0..MaxMenus, phase : {"none", "layout", "about", "ready", "failed"},
                         open : BOOLEAN, closing : BOOLEAN]
      /\ menuShell \in [provider : BOOLEAN, output : BOOLEAN] /\ menuAsked \subseteq MenuItems
  BY DEF MenuInv, MenuTypeOK, MenuSurfaces
<1>1. ASSUME menuClient' \in [id : 0..MaxMenus, phase : {"none", "layout", "about", "ready", "failed"},
                              open : BOOLEAN, closing : BOOLEAN],
             menuShell' \in [provider : BOOLEAN, output : BOOLEAN], menuAsked' \subseteq MenuItems,
             SurfaceFits(trayMenu', menuClient'.id), menuClient'.phase \in {"layout", "about"} => menuClient'.id # 0
      PROVE  MenuInv'
  BY <1>1 DEF MenuInv, MenuTypeOK, SurfaceFits, MenuSurfaces
<1>2. CASE \E k \in MenuItems : OpenContextMenu(k)
  BY <1>0, <1>1, <1>2 DEF OpenContextMenu
<1>3. ASSUME NEW k \in MenuItems, MenuPathReply(k) PROVE MenuInv'
  <2>1. menuAsked' \subseteq MenuItems /\ menuShell' = menuShell
    BY <1>0, <1>3 DEF MenuPathReply
  <2>2. CASE UNCHANGED <<menuClient, trayMenu>>
    BY <1>0, <1>1, <2>1, <2>2
  <2>3. CASE /\ n < MaxMenus
             /\ menuClient' = [id |-> n + 1, phase |-> "layout", open |-> TRUE, closing |-> FALSE]
             /\ trayMenu' = MenuHidden(trayMenu)
    <3>1. SurfaceFits(trayMenu', n) /\ trayMenu'.client = 0
      BY <1>0, <2>3, MenuGoes
    <3>2. SurfaceFits(trayMenu', n + 1)
      BY <3>1 DEF SurfaceFits
    <3>3. n + 1 \in 0..MaxMenus /\ n + 1 # 0
      BY <1>0, <2>3, MenuAssumption
    <3> HIDE DEF n
    <3>4. menuClient' \in [id : 0..MaxMenus, phase : {"none", "layout", "about", "ready", "failed"},
                           open : BOOLEAN, closing : BOOLEAN] /\ menuClient'.id = n + 1
      BY <2>3, <3>3
    <3> QED
      BY <1>0, <1>1, <2>1, <3>2, <3>3, <3>4
  <2> QED
    BY <1>3, <2>2, <2>3 DEF MenuPathReply, Released
<1>4. ASSUME NEW opens \in BOOLEAN, MenuReady(opens), n # 0, UNCHANGED <<menuShell, menuAsked>> PROVE MenuInv'
  BY <1>0, <1>4, MenuIsShown, <1>1 DEF MenuReady
<1>5. CASE LayoutReply
  BY <1>0, <1>5, <1>1, <1>4 DEF LayoutReply
<1>6. CASE AboutToShowEnds
  BY <1>0, <1>4, <1>6 DEF AboutToShowEnds
<1>7. CASE MenuUsed
  <2>1. menuClient'.id = n /\ menuClient'.phase = menuClient.phase
        /\ menuClient' \in [id : 0..MaxMenus, phase : {"none", "layout", "about", "ready", "failed"},
                            open : BOOLEAN, closing : BOOLEAN]
    BY <1>0, <1>7 DEF MenuUsed
  <2> QED
    BY <1>0, <1>1, <1>7, <2>1 DEF MenuUsed
<1>8. CASE MenuClientCloses
  <2>1. menuClient'.id = n /\ menuClient'.phase = menuClient.phase
        /\ menuClient' \in [id : 0..MaxMenus, phase : {"none", "layout", "about", "ready", "failed"},
                            open : BOOLEAN, closing : BOOLEAN]
    BY <1>0, <1>8 DEF MenuClientCloses
  <2>2. SurfaceFits(trayMenu', n)
    BY <1>0, <1>8, MenuGoes DEF MenuClientCloses
  <2> QED
    BY <1>0, <1>1, <1>8, <2>1, <2>2 DEF MenuClientCloses
<1>9. CASE MenuMapped \/ MenuEnds
  BY <1>9, <1>0, <1>1 DEF MenuMapped, MenuEnds, MenuSurfaces, HostStates, IsLive, SurfaceFits, HasSurface
<1>10. CASE MenuEndTold
  BY <1>0, <1>10, MenuGoes, <1>1 DEF MenuEndTold
<1>11. CASE MenuProviderChanged
  <2>1. menuShell' \in [provider : BOOLEAN, output : BOOLEAN] /\ UNCHANGED <<menuAsked, menuClient>>
    BY <1>0, <1>11 DEF MenuProviderChanged
  <2>2. SurfaceFits(trayMenu', n)
    BY <1>0, <1>11, MenuOpens, MenuWaits DEF MenuProviderChanged
  <2> QED
    BY <1>0, <1>1, <2>1, <2>2
<1>12. CASE MenuOutputChanged
  <2>1. menuShell' \in [provider : BOOLEAN, output : BOOLEAN] /\ UNCHANGED <<menuAsked, menuClient>>
    BY <1>0, <1>12 DEF MenuOutputChanged
  <2>2. SurfaceFits(trayMenu', n)
    BY <1>0, <1>12, MenuGoes DEF MenuOutputChanged
  <2> QED
    BY <1>0, <1>1, <2>1, <2>2
<1>13. CASE UNCHANGED menuVars
  BY <1>0, <1>1, <1>13 DEF menuVars
<1> QED
  BY <1>2, <1>3, <1>5, <1>6, <1>7, <1>8, <1>9, <1>10, <1>11, <1>12, <1>13 DEF MenuNext

LEMMA MenuInvHolds == MenuInit /\ [][MenuNext]_menuVars => []MenuInv
<1>1. MenuInit => MenuInv
  BY MenuAssumption DEF MenuInit, MenuInv, MenuTypeOK, SurfaceFits, MenuSurfaces, HasSurface, HostStates
<1> QED
  BY <1>1, MenuStep, PTL

\* The surface of the context menu points to the client that TrayModel holds, and
\* shows what it points to, whatever replies, closings, providers and outputs do:
\* for every set of items and every number of menus.
THEOREM MenuPointsToTheLiving == MenuInit /\ [][MenuNext]_menuVars => [](MenuTypeOK /\ MenuIsLive)
<1>1. MenuInv => MenuTypeOK /\ MenuIsLive
  BY DEF MenuInv, SurfaceFits, MenuIsLive
<1> QED
  BY <1>1, MenuInvHolds, PTL

----------------------------------------------------------------------------
(***************************************************************************)
(* The players.                                                            *)
(***************************************************************************)

Records == [name : Players, status : Statuses \cup {Unset}, track : Tracks \cup {Unset},
            activity : 0..Cardinality(Players), unread : SUBSET Fields]

\* One record for each player that is known.
Roster(players) ==
  /\ players \in Seq(Records)
  /\ \A i, j \in DOMAIN players : players[i].name = players[j].name => i = j

Moves(s, p) == s.player = p /\ s.kind # "changed"

\* What is known, and the first m signals under way, say that p is on the bus, if b.
Says(bus, known, p, m, b) ==
  \E n \in 0..m :
    /\ \A j \in 1..m : n < j => ~Moves(bus[j], p)
    /\ IF n = 0 THEN p \in known <=> b ELSE Moves(bus[n], p) /\ (bus[n].kind # "left" <=> b)

\* The players whose coming the shell has heard of.
Noticed(players, m) == Known(players) \cup m.missed

\* A player has come when it is said to be gone, and does the rest when it is said to be there.
PresenceInv ==
  \A p \in Players :
    /\ Says(mediaBus, Noticed(mediaPlayers, media), p, Len(mediaBus), mediaActual[p].on)
    /\ \A i \in 1..Len(mediaBus) :
         mediaBus[i].player = p => Says(mediaBus, Noticed(mediaPlayers, media), p, i - 1, mediaBus[i].kind # "came")

\* A signal after which a field of a player is known again, from it or by a reading, which may fail.
Settles(s, p, f) == s.player = p /\ (s.kind # "changed" \/ f \in s.invalid \/ s[f] # Unset)
Carries(s, f, v) == s.kind = "changed" /\ f \notin s.invalid => s[f] = v

RecordIs(players, p, f, v) ==
  \A i \in DOMAIN players : players[i].name = p => f \in players[i].unread \/ players[i][f] = v

Due(bus, players, p, f, v) ==
  \E n \in 0..Len(bus) :
    /\ \A j \in 1..Len(bus) : n < j => ~Settles(bus[j], p, f)
    /\ IF n = 0 THEN RecordIs(players, p, f, v) ELSE Settles(bus[n], p, f) /\ Carries(bus[n], f, v)

ValuesInv ==
  \A p \in Players : mediaActual[p].on =>
    \A f \in {"status", "track"} : Due(mediaBus, mediaPlayers, p, f, mediaActual[p][f])

\* The same players, each as it was or as it is now on the bus.
Refreshes(a, b) ==
  /\ Len(b) = Len(a)
  /\ \A i \in DOMAIN a :
       /\ b[i].name = a[i].name
       /\ \/ b[i].status = a[i].status /\ b[i].track = a[i].track /\ b[i].unread = a[i].unread
          \/ /\ mediaActual[a[i].name].on /\ b[i].unread = {}
             /\ b[i].status = mediaActual[a[i].name].status /\ b[i].track = mediaActual[a[i].name].track

MediaActualOK == mediaActual \in [Players -> [on : BOOLEAN, status : Statuses, track : Tracks]]

LEMMA PlayersAreCounted == Cardinality(Players) \in Nat /\ IsFiniteSet(Players)
BY MediaAssumption, FS_CardinalityType

\* There are no more records than players.
LEMMA RosterIsSmall ==
  ASSUME NEW a, Roster(a)
  PROVE  Len(a) \in Nat /\ Len(a) <= Cardinality(Players) /\ DOMAIN a = 1..Len(a)
<1> DEFINE f == [i \in 1..Len(a) |-> a[i].name]
<1>1. Len(a) \in Nat /\ DOMAIN a = 1..Len(a) /\ \A i \in DOMAIN a : a[i] \in Records
  BY DEF Roster
<1>2. f \in Injection(1..Len(a), Players)
  BY <1>1 DEF Records, Roster, Injection, IsInjective
<1>3. Cardinality(1..Len(a)) <= Cardinality(Players)
  BY <1>2, FS_Injection, PlayersAreCounted, Zenon
<1>4. Cardinality(1..Len(a)) = Len(a)
  <2>1. 1 \in Int /\ Len(a) \in Int /\ (1 > Len(a) <=> Len(a) = 0) /\ Len(a) - 1 + 1 = Len(a)
    BY <1>1
  <2> QED
    BY <2>1, FS_Interval
<1> QED
  BY <1>1, <1>3, <1>4

\* Ranks are no larger than the number of players.
LEMMA RanksFit ==
  ASSUME NEW a, Len(a) \in Nat, Len(a) <= Cardinality(Players), NEW x
  PROVE  Cardinality({b \in {a[j].activity : j \in 1..Len(a)} \ {0} : b <= x}) \in 0..Cardinality(Players)
<1> DEFINE S == {a[j].activity : j \in 1..Len(a)}
           T == {b \in S \ {0} : b <= x}
           g == [j \in 1..Len(a) |-> a[j].activity]
<1>1. g \in Surjection(1..Len(a), S)
  BY DEF Surjection
<1>2. IsFiniteSet(1..Len(a)) /\ Cardinality(1..Len(a)) = Len(a)
  <2>1. 1 \in Int /\ Len(a) \in Int /\ (1 > Len(a) <=> Len(a) = 0) /\ Len(a) - 1 + 1 = Len(a)
    OBVIOUS
  <2> QED
    BY <2>1, FS_Interval
<1> HIDE DEF S, g
<1>3. IsFiniteSet(S) /\ Cardinality(S) <= Cardinality(1..Len(a))
  BY <1>1, <1>2, FS_Surjection, Zenon
<1>4. T \in SUBSET S
  OBVIOUS
<1> HIDE DEF T
<1>5. IsFiniteSet(T) /\ Cardinality(T) <= Cardinality(S)
  BY <1>3, <1>4, FS_Subset, Zenon
<1>6. Cardinality(T) \in Nat /\ Cardinality(S) \in Nat
  BY <1>3, <1>5, FS_CardinalityType
<1>7. Cardinality(T) \in 0..Cardinality(Players)
  BY <1>2, <1>3, <1>5, <1>6, PlayersAreCounted
<1> QED
  BY <1>7 DEF S, T

\* The greatest of some bounded numbers.
LEMMA GreatestOf ==
  ASSUME NEW N \in Nat, NEW S, S \subseteq 0..N, S # {}
  PROVE  \E x \in S : \A y \in S : y <= x
<1> DEFINE T == {N - y : y \in S}
<1>1. T \subseteq Nat /\ T # {}
  <2>1. \A y \in S : y \in Int /\ y <= N
    OBVIOUS
  <2>2. \A y \in S : N - y \in Nat
    BY <2>1
  <2> QED
    BY <2>2
<1> HIDE DEF T
<1>2. PICK k \in T : \A l \in T : k <= l
  BY <1>1, LeastOf
<1>3. PICK x \in S : k = N - x
  BY <1>2 DEF T
<1>4. ASSUME NEW y \in S PROVE y <= x
  BY <1>2, <1>3 DEF T
<1> QED
  BY <1>4

\* A player that is stamped is otherwise the same, and so are the others.
LEMMA StampsKeep ==
  ASSUME NEW a, Roster(a), NEW i \in DOMAIN a, NEW old, NEW b \in Stamps(a, i, old)
  PROVE  Roster(b) /\ Len(b) = Len(a)
         /\ \A j \in DOMAIN a : /\ b[j].name = a[j].name /\ b[j].status = a[j].status /\ b[j].track = a[j].track
                                /\ b[j].unread = a[j].unread
<1>1. /\ Len(a) \in Nat /\ Len(a) <= Cardinality(Players) /\ DOMAIN a = 1..Len(a)
      /\ \A j \in DOMAIN a : a[j] \in Records
  BY RosterIsSmall DEF Roster
<1>2. CASE b = a
  BY <1>1, <1>2
<1>3. CASE b # a
  <2>1. PICK x : b = Ranked([a EXCEPT ![i].activity = x])
    BY <1>3 DEF Stamps
  <2> DEFINE c == [a EXCEPT ![i].activity = x]
  <2>2. DOMAIN c = 1..Len(a) /\ Len(c) = Len(a)
    BY <1>1
  <2>3. \A j \in 1..Len(a) : c[j] = IF j = i THEN [a[j] EXCEPT !.activity = x] ELSE a[j]
    BY <1>1
  <2> HIDE DEF c
  <2> DEFINE r(j) == Cardinality({y \in {c[k].activity : k \in 1..Len(c)} \ {0} : y <= c[j].activity})
  <2>4. b = [j \in 1..Len(c) |-> [c[j] EXCEPT !.activity = r(j)]]
    BY <2>1 DEF Ranked, c
  <2>5. \A j : r(j) \in 0..Cardinality(Players)
    BY <1>1, <2>2, RanksFit
  <2> HIDE DEF r
  <2>6. \A j \in 1..Len(a) : /\ b[j] \in Records
                             /\ b[j].name = a[j].name /\ b[j].status = a[j].status /\ b[j].track = a[j].track
                             /\ b[j].unread = a[j].unread
    <3> SUFFICES ASSUME NEW j \in 1..Len(a)
                 PROVE  /\ b[j] \in Records
                        /\ b[j].name = a[j].name /\ b[j].status = a[j].status /\ b[j].track = a[j].track
                        /\ b[j].unread = a[j].unread
      OBVIOUS
    <3>1. a[j] \in Records /\ r(j) \in 0..Cardinality(Players)
      BY <1>1, <2>5
    <3>2. b[j] = [a[j] EXCEPT !.activity = r(j)]
      <4>1. b[j] = [c[j] EXCEPT !.activity = r(j)]
        BY <2>2, <2>4
      <4>2. CASE j = i
        <5>1. c[j] = [a[j] EXCEPT !.activity = x]
          BY <2>3, <4>2
        <5> QED
          BY <3>1, <4>1, <5>1 DEF Records
      <4>3. CASE j # i
        BY <2>3, <4>1, <4>3
      <4> QED
        BY <4>2, <4>3
    <3> QED
      BY <3>1, <3>2 DEF Records
  <2>7. b \in [1..Len(a) -> Records]
    BY <2>2, <2>4, <2>6
  <2>8. b \in Seq(Records) /\ Len(b) = Len(a) /\ DOMAIN b = 1..Len(a)
    BY <1>1, <2>7, SeqDef
  <2> QED
    BY <1>1, <2>6, <2>8 DEF Roster
<1> QED
  BY <1>2, <1>3


\* The choice of the active player: one that plays if any does, else one that pauses.
LEMMA NewestIs ==
  ASSUME NEW a, Roster(a), NEW s
  PROVE  \/ Newest(a, s) = 0 /\ \A i \in DOMAIN a : a[i].status # s
         \/ Newest(a, s) \in DOMAIN a /\ a[Newest(a, s)].status = s
<1> DEFINE among == {i \in 1..Len(a) : a[i].status = s}
           best == {i \in among : \A j \in among : a[j].activity <= a[i].activity}
<1>1. /\ Len(a) \in Nat /\ DOMAIN a = 1..Len(a)
      /\ \A i \in DOMAIN a : a[i].activity \in 0..Cardinality(Players)
  <2>1. \A i \in DOMAIN a : a[i] \in Records
    BY RosterIsSmall DEF Roster
  <2>2. \A r \in Records : r.activity \in 0..Cardinality(Players)
    BY DEF Records
  <2> QED
    BY RosterIsSmall, <2>1, <2>2
<1>2. Newest(a, s) = IF among = {} THEN 0 ELSE CHOOSE i \in best : \A j \in best : i <= j
  BY DEF Newest
<1>3. CASE among = {}
  BY <1>1, <1>2, <1>3
<1>4. CASE among # {}
  <2> DEFINE S == {a[i].activity : i \in among}
  <2>1. S \subseteq 0..Cardinality(Players) /\ S # {}
    BY <1>1, <1>4
  <2> HIDE DEF S
  <2>2. PICK x \in S : \A y \in S : y <= x
    BY <2>1, GreatestOf, PlayersAreCounted
  <2>3. best # {}
    BY <2>2 DEF S
  <2>4. best \subseteq Nat /\ best \subseteq among
    BY <1>1
  <2> HIDE DEF best
  <2>5. \E i \in best : \A j \in best : i <= j
    BY <2>3, <2>4, LeastOf
  <2>6. Newest(a, s) \in best
    BY <1>2, <1>4, <2>5
  <2> QED
    BY <1>1, <2>4, <2>6
<1> QED
  BY <1>3, <1>4

LEMMA SelectionIs ==
  ASSUME NEW a, Roster(a)
  PROVE  \/ /\ SelectActiveIndex(a) \in DOMAIN a
            /\ \/ a[SelectActiveIndex(a)].status = "Playing"
               \/ /\ a[SelectActiveIndex(a)].status = "Paused"
                  /\ \A i \in DOMAIN a : a[i].status # "Playing"
         \/ SelectActiveIndex(a) = 0 /\ \A i \in DOMAIN a : a[i].status \notin {"Playing", "Paused"}
BY RosterIsSmall, NewestIs DEF SelectActiveIndex

MediaStates ==
  [active : Players \cup {NoPlayer}, status : Statuses \cup {Unset}, track : Tracks \cup {Unset},
   paused : BOOLEAN, timer : BOOLEAN, interest : 0..MaxInterest, missed : SUBSET Players, guess : BOOLEAN]

InStep(m) == m \in MediaStates /\ m.paused = (m.status = "Paused") /\ m.timer = TimerRuns(m)

LEMMA TimerUpdated ==
  ASSUME NEW m \in MediaStates, m.paused = (m.status = "Paused")
  PROVE  /\ InStep(UpdateTimer(m))
         /\ UpdateTimer(m).active = m.active /\ UpdateTimer(m).status = m.status /\ UpdateTimer(m).track = m.track
         /\ UpdateTimer(m).missed = m.missed /\ UpdateTimer(m).guess = m.guess
<1> DEFINE t == TimerRuns(m)
           u == [m EXCEPT !.timer = t]
<1>1. t \in BOOLEAN
  BY DEF TimerRuns
<1>2. UpdateTimer(m) = u
  BY DEF UpdateTimer
<1> HIDE DEF t
<1>3. u \in MediaStates /\ u.active = m.active /\ u.status = m.status /\ u.track = m.track
      /\ u.paused = m.paused /\ u.timer = t /\ u.interest = m.interest /\ u.missed = m.missed /\ u.guess = m.guess
  BY <1>1 DEF MediaStates
<1> HIDE DEF u
<1>4. TimerRuns(u) = t
  BY <1>3 DEF TimerRuns, t
<1> QED
  BY <1>2, <1>3, <1>4 DEF InStep

LEMMA SnapshotApplied ==
  ASSUME NEW m \in MediaStates, m.paused = (m.status = "Paused"),
         NEW r, r.name \in Players \cup {NoPlayer}, r.status \in Statuses \cup {Unset}, r.track \in Tracks \cup {Unset},
         NEW guess \in BOOLEAN
  PROVE  /\ InStep(ApplySnapshot(m, r, guess))
         /\ ApplySnapshot(m, r, guess).active = r.name /\ ApplySnapshot(m, r, guess).status = r.status
         /\ ApplySnapshot(m, r, guess).track = r.track
         /\ ApplySnapshot(m, r, guess).missed = m.missed /\ ApplySnapshot(m, r, guess).guess = guess
<1> DEFINE b == PausedSince(m, r)
           u == [m EXCEPT !.active = r.name, !.status = r.status, !.track = r.track, !.paused = b, !.guess = guess]
<1>1. b = (r.status = "Paused")
  BY DEF PausedSince
<1>2. b \in BOOLEAN
  BY <1>1
<1>3. ApplySnapshot(m, r, guess) = UpdateTimer(u)
  BY DEF ApplySnapshot
<1> HIDE DEF b
<1>4. u \in MediaStates /\ u.active = r.name /\ u.status = r.status /\ u.track = r.track /\ u.paused = b
      /\ u.missed = m.missed /\ u.guess = guess
  BY <1>2 DEF MediaStates
<1> HIDE DEF u
<1>5. u.paused = (u.status = "Paused")
  BY <1>1, <1>4
<1> QED
  BY <1>3, <1>4, <1>5, TimerUpdated

\* What a choice of the active player leaves of the records a.
Reselected(a, b, m) ==
  /\ Roster(b) /\ Refreshes(a, b)
  /\ InStep(m)
  /\ ~m.guess => \A i \in DOMAIN a : "status" \notin a[i].unread
  /\ \/ SelectActiveIndex(a) = 0 /\ m.active = NoPlayer
     \/ /\ SelectActiveIndex(a) \in DOMAIN a
        /\ ~m.guess => b[SelectActiveIndex(a)].unread = {}
        /\ m.active = b[SelectActiveIndex(a)].name
        /\ m.status = b[SelectActiveIndex(a)].status /\ m.track = b[SelectActiveIndex(a)].track

\* A record that is read is as the player is.
LEMMA ReadIn ==
  ASSUME MediaActualOK, NEW a, Roster(a), NEW i \in DOMAIN a, mediaActual[a[i].name].on
  PROVE  Roster([a EXCEPT ![i] = ReadPlayer(@)]) /\ Refreshes(a, [a EXCEPT ![i] = ReadPlayer(@)])
<1> DEFINE r == ReadPlayer(a[i])
           b == [a EXCEPT ![i] = r]
<1>1. Len(a) \in Nat /\ DOMAIN a = 1..Len(a) /\ \A j \in DOMAIN a : a[j] \in Records
  BY RosterIsSmall DEF Roster
<1>2. r = [a[i] EXCEPT !.status = mediaActual[a[i].name].status, !.track = mediaActual[a[i].name].track, !.unread = {}]
  BY <1>1 DEF ReadPlayer, ReadPart, Fields, Records
<1>3. /\ mediaActual[a[i].name].status \in Statuses /\ mediaActual[a[i].name].track \in Tracks
  BY <1>1 DEF Records, MediaActualOK
<1> HIDE DEF r
<1>4. /\ r \in Records /\ r.name = a[i].name /\ r.unread = {}
      /\ r.status = mediaActual[a[i].name].status /\ r.track = mediaActual[a[i].name].track
  BY <1>1, <1>2, <1>3 DEF Records
<1>5. /\ b \in Seq(Records) /\ Len(b) = Len(a) /\ DOMAIN b = DOMAIN a
      /\ b[i] = r /\ \A j \in DOMAIN a : j # i => b[j] = a[j]
  BY <1>1, <1>4 DEF Roster
<1> HIDE DEF b
<1>6. \A j \in DOMAIN a : b[j].name = a[j].name
  BY <1>4, <1>5
<1>7. Roster(b)
  BY <1>5, <1>6 DEF Roster
<1>8. Refreshes(a, b)
  BY <1>4, <1>5, <1>6 DEF Refreshes
<1> QED
  BY <1>7, <1>8 DEF b, r

LEMMA SelectionKeeps ==
  ASSUME MediaActualOK, NEW a, Roster(a), NEW m, InStep(m), NEW x \in Selections(a, m)
  PROVE  Reselected(a, x.players, x.media) /\ x.media.missed = m.missed
<1> DEFINE i == SelectActiveIndex(a)
<1>1. m \in MediaStates /\ m.paused = (m.status = "Paused")
  BY DEF InStep
<1>2. i = 0 \/ i \in DOMAIN a
  BY SelectionIs
<1>3. Refreshes(a, a)
  BY DEF Refreshes
<1>a. \A r : ~Guessed(a, r) => r.unread = {} /\ \A j \in DOMAIN a : "status" \notin a[j].unread
  BY RosterIsSmall DEF Guessed
<1>b. \A r : Guessed(a, r) \in BOOLEAN
  BY DEF Guessed
<1>4. CASE i = 0
  <2>1. x.players = a /\ x.media = ApplySnapshot(m, Nobody, Guessed(a, Nobody))
    BY <1>4 DEF Selections
  <2>2. Nobody.name = NoPlayer /\ Nobody.status = Unset /\ Nobody.track = Unset
    BY DEF Nobody
  <2> QED
    BY <1>4, <1>1, <1>a, <1>b, <2>1, <2>2, SnapshotApplied, <1>3 DEF Reselected
<1>5. CASE i # 0
  <2>1. i \in DOMAIN a
    BY <1>2, <1>5
  <2>2. PICK now : /\ now = a \/ (now = [a EXCEPT ![i] = ReadPlayer(@)] /\ mediaActual[a[i].name].on)
                   /\ x.players = now /\ x.media = ApplySnapshot(m, now[i], Guessed(a, now[i]))
    <3> DEFINE After(ok) == IF ok THEN [a EXCEPT ![i] = ReadPlayer(@)] ELSE a
    <3>1. PICK ok \in {ok /\ (a[i].name # m.active \/ a[i].track # m.track) : ok \in Answers(a[i].name)} :
            x = [players |-> After(ok), media |-> ApplySnapshot(m, After(ok)[i], Guessed(a, After(ok)[i]))]
      BY <1>5 DEF Selections
    <3>2. ok => mediaActual[a[i].name].on
      BY <3>1 DEF Answers
    <3> QED
      BY <3>1, <3>2
  <2>3. now = a \/ (now = [a EXCEPT ![i] = ReadPlayer(@)] /\ mediaActual[a[i].name].on)
    BY <2>2
  <2>4. Roster(now) /\ Refreshes(a, now)
    BY <1>3, <2>1, <2>3, ReadIn
  <2>5. i \in DOMAIN now
    BY <2>1, <2>4, RosterIsSmall DEF Refreshes
  <2>6. now[i].name \in Players /\ now[i].status \in Statuses \cup {Unset} /\ now[i].track \in Tracks \cup {Unset}
    <3>1. now[i] \in Records
      BY <2>4, <2>5 DEF Roster
    <3> QED
      BY <3>1 DEF Records
  <2>7. /\ InStep(x.media) /\ x.media.active = now[i].name
        /\ x.media.status = now[i].status /\ x.media.track = now[i].track
        /\ x.media.missed = m.missed /\ x.media.guess = Guessed(a, now[i])
    BY <1>1, <1>b, <2>2, <2>6, SnapshotApplied
  <2>8. ~x.media.guess => now[i].unread = {} /\ \A j \in DOMAIN a : "status" \notin a[j].unread
    BY <1>a, <2>7
  <2> QED
    BY <2>1, <2>2, <2>4, <2>7, <2>8 DEF Reselected
<1> QED
  BY <1>4, <1>5

LEMMA ReselectKeeps ==
  ASSUME MediaActualOK, NEW a, Roster(a), NEW m, InStep(m), Reselect(a, m)
  PROVE  Reselected(a, mediaPlayers', media') /\ media'.missed = m.missed
<1>1. PICK x \in Selections(a, m) : mediaPlayers' = x.players /\ media' = x.media
  BY Zenon DEF Reselect, NowIs
<1> QED
  BY <1>1, SelectionKeeps, Zenon


\* The records of q in a list are among those of another, but for the activity.
Same(a, b, q) ==
  \A i \in DOMAIN b : b[i].name = q =>
    \E j \in DOMAIN a : a[j].name = q /\ a[j].status = b[i].status /\ a[j].track = b[i].track /\ a[j].unread = b[i].unread

LEMMA SameIs ==
  ASSUME NEW a, NEW b, NEW q, Same(a, b, q), NEW f \in {"status", "track"}, NEW v, RecordIs(a, q, f, v)
  PROVE  RecordIs(b, q, f, v)
BY DEF Same, RecordIs

LEMMA SignalsAre ==
  ASSUME NEW s \in MediaSignals
  PROVE  /\ s.player \in Players /\ s.kind \in {"changed", "came", "left", "replaced"}
         /\ s.kind = "changed" => /\ s.status \in Statuses \cup {Unset} /\ s.track \in Tracks \cup {Unset}
                                  /\ s.invalid \in SUBSET Fields
BY DEF MediaSignals

\* Without(p) has all records but that of p.
LEMMA ReleasedIs ==
  ASSUME Roster(mediaPlayers), NEW p
  PROVE  /\ Roster(Without(p)) /\ Known(Without(p)) = Known(mediaPlayers) \ {p}
         /\ \A q : q # p => Same(mediaPlayers, Without(p), q)
<1> DEFINE S == {i \in DOMAIN mediaPlayers : mediaPlayers[i].name # p}
           w == SubSeqAt(mediaPlayers, S)
<1>1. mediaPlayers \in Seq(Records) /\ DOMAIN mediaPlayers = 1..Len(mediaPlayers)
  BY RosterIsSmall DEF Roster
<1>2. S \in SUBSET (1..Len(mediaPlayers)) /\ S \subseteq Int
  BY <1>1
<1>3. \A i \in S : i \in DOMAIN mediaPlayers /\ mediaPlayers[i].name # p
  OBVIOUS
<1>4. \A i \in DOMAIN mediaPlayers : mediaPlayers[i].name # p => i \in S
  OBVIOUS
<1>5. Without(p) = w
  BY DEF Without
<1> HIDE DEF S, w
<1>6. /\ w \in Seq(Records)
      /\ \A k \in 1..Len(w) : IndexAt(S, k) \in S /\ w[k] = mediaPlayers[IndexAt(S, k)]
      /\ \A k, l \in 1..Len(w) : k < l => IndexAt(S, k) < IndexAt(S, l)
      /\ \A i \in S : \E k \in 1..Len(w) : w[k] = mediaPlayers[i]
  BY <1>1, <1>2, SubSeqAtProperties, Zenon DEF w
<1>7. DOMAIN w = 1..Len(w)
  BY <1>6
<1>8. Roster(w)
  <2>1. ASSUME NEW k \in 1..Len(w), NEW l \in 1..Len(w), w[k].name = w[l].name PROVE k = l
    <3>1. IndexAt(S, k) = IndexAt(S, l)
      <4>1. /\ IndexAt(S, k) \in DOMAIN mediaPlayers /\ w[k] = mediaPlayers[IndexAt(S, k)]
            /\ IndexAt(S, l) \in DOMAIN mediaPlayers /\ w[l] = mediaPlayers[IndexAt(S, l)]
        BY <1>3, <1>6
      <4> QED
        BY <2>1, <4>1 DEF Roster
    <3>2. IndexAt(S, k) \in Int /\ IndexAt(S, l) \in Int
      BY <1>2, <1>6
    <3> QED
      BY <1>6, <3>1, <3>2
  <2> QED
    BY <1>6, <1>7, <2>1 DEF Roster
<1>9. Known(w) = Known(mediaPlayers) \ {p}
  <2>1. ASSUME NEW k \in 1..Len(w) PROVE w[k].name \in Known(mediaPlayers) \ {p}
    BY <1>3, <1>6, <1>1 DEF Known
  <2>2. ASSUME NEW i \in 1..Len(mediaPlayers), mediaPlayers[i].name # p PROVE mediaPlayers[i].name \in Known(w)
    BY <1>1, <1>4, <2>2, <1>6 DEF Known
  <2> QED
    BY <2>1, <2>2 DEF Known
<1>10. \A q : Same(mediaPlayers, w, q)
  BY <1>3, <1>6, <1>7 DEF Same
<1> QED
  BY <1>5, <1>8, <1>9, <1>10

\* What has become of the records when a signal is handled, before the choice of the active player.
Handled(s, b) ==
  /\ Roster(b)
  /\ \A q \in Players : q \in Noticed(b, media') <=>
       (IF Moves(s, q) THEN s.kind # "left" ELSE q \in Noticed(mediaPlayers, media))
  /\ Known(b) \cap media'.missed = {}
  /\ \A q \in Players, f \in {"status", "track"} : mediaActual[q].on =>
       /\ Settles(s, q, f) /\ Carries(s, f, mediaActual[q][f]) => RecordIs(b, q, f, mediaActual[q][f])
       /\ ~Settles(s, q, f) /\ RecordIs(mediaPlayers, q, f, mediaActual[q][f]) => RecordIs(b, q, f, mediaActual[q][f])

\* The choice was among the records b, or no choice was made and no record changed.
Outcome(b, p) ==
  /\ Roster(mediaPlayers') /\ Refreshes(b, mediaPlayers') /\ InStep(media')
  /\ \/ Reselected(b, mediaPlayers', media')
     \/ /\ mediaPlayers' = mediaPlayers /\ b = mediaPlayers /\ p \notin Known(mediaPlayers)
        /\ \A f \in {"active", "status", "track", "guess"} : media'[f] = media[f]

LEMMA MissedIs ==
  ASSUME NEW m, InStep(m), NEW p \in Players
  PROVE  /\ InStep(Missed(m, p)) /\ Missed(m, p).missed = m.missed \cup {p}
         /\ InStep(Heeded(m, p)) /\ Heeded(m, p).missed = m.missed \ {p}
         /\ \A f \in {"active", "status", "track", "guess"} : Missed(m, p)[f] = m[f] /\ Heeded(m, p)[f] = m[f]
<1>1. m \in MediaStates /\ m.paused = (m.status = "Paused") /\ m.timer = TimerRuns(m)
  BY DEF InStep
<1> DEFINE u == Missed(m, p)
           v == Heeded(m, p)
<1>2. /\ u = [m EXCEPT !.missed = m.missed \cup {p}] /\ m.missed \cup {p} \in SUBSET Players
      /\ v = [m EXCEPT !.missed = m.missed \ {p}] /\ m.missed \ {p} \in SUBSET Players
  BY <1>1 DEF Missed, Heeded, MediaStates
<1> HIDE DEF u, v
<1>3. /\ u \in MediaStates /\ u.missed = m.missed \cup {p} /\ u.paused = m.paused /\ u.timer = m.timer
      /\ u.interest = m.interest /\ u.active = m.active /\ u.status = m.status /\ u.track = m.track /\ u.guess = m.guess
  BY <1>1, <1>2 DEF MediaStates
<1>4. /\ v \in MediaStates /\ v.missed = m.missed \ {p} /\ v.paused = m.paused /\ v.timer = m.timer
      /\ v.interest = m.interest /\ v.active = m.active /\ v.status = m.status /\ v.track = m.track /\ v.guess = m.guess
  BY <1>1, <1>2 DEF MediaStates
<1>5. TimerRuns(u) = TimerRuns(m) /\ TimerRuns(v) = TimerRuns(m)
  BY <1>3, <1>4 DEF TimerRuns
<1>6. InStep(u) /\ InStep(v)
  BY <1>1, <1>3, <1>4, <1>5 DEF InStep
<1> QED
  BY <1>3, <1>4, <1>6 DEF u, v

\* A player that comes and is subscribed to: the others are as they were in a, and it is as it is
\* on the bus or could not be read.
LEMMA AcquiredIs ==
  ASSUME MediaActualOK, NEW m, InStep(m), NEW a, Roster(a), NEW p \in Players, p \notin Known(a), Acquire(p, a, m),
         ~NowIs([players |-> a, media |-> Missed(m, p)])
  PROVE  \E b : /\ Roster(b) /\ Known(b) = Known(a) \cup {p} /\ Reselected(b, mediaPlayers', media')
                /\ media'.missed = m.missed \ {p}
                /\ \A q : q # p => Same(a, b, q)
                /\ \A i \in DOMAIN b : b[i].name = p => \A f \in Fields : f \in b[i].unread \/ b[i][f] = mediaActual[p][f]
<1> DEFINE new == Newcomer(p)
<1>a. PICK ok \in Answers(p) :
        LET more == Append(a, IF ok THEN ReadPlayer(new) ELSE new) IN
        \E stamped \in Stamps(more, Len(more), new) : Reselect(stamped, Heeded(m, p))
  BY Zenon DEF Acquire
<1> DEFINE r == IF ok THEN ReadPlayer(new) ELSE new
           more == Append(a, r)
<1>1. PICK b \in Stamps(more, Len(more), new) : Reselect(b, Heeded(m, p))
  BY <1>a
<1>2. new \in Records /\ new.name = p /\ new.unread = Fields
  <2>1. new = [name |-> p, status |-> Unset, track |-> Unset, activity |-> 0, unread |-> Fields]
    BY DEF Newcomer
  <2>2. 0 \in 0..Cardinality(Players)
    BY PlayersAreCounted
  <2> HIDE DEF new
  <2> QED
    BY <2>1, <2>2 DEF Records
<1> HIDE DEF new
<1>3. mediaActual[p].status \in Statuses /\ mediaActual[p].track \in Tracks
  BY DEF MediaActualOK
<1>4. /\ r \in Records /\ r.name = p
      /\ \A f \in Fields : f \in r.unread \/ r[f] = mediaActual[p][f]
  <2>1. CASE ok
    <3>1. r = [new EXCEPT !.status = mediaActual[p].status, !.track = mediaActual[p].track, !.unread = {}]
      BY <1>2, <2>1 DEF ReadPlayer, ReadPart, Fields, Records
    <3> HIDE DEF r
    <3>2. r \in Records /\ r.name = p /\ r.status = mediaActual[p].status /\ r.track = mediaActual[p].track
      BY <1>2, <1>3, <3>1 DEF Records
    <3> QED
      BY <3>2 DEF Fields
  <2>2. CASE ~ok
    BY <1>2, <2>2
  <2> QED
    BY <2>1, <2>2
<1> HIDE DEF r
<1>5. /\ a \in Seq(Records) /\ Len(a) \in Nat /\ DOMAIN a = 1..Len(a)
      /\ \A i \in 1..Len(a) : a[i].name # p
      /\ \A i, j \in 1..Len(a) : a[i].name = a[j].name => i = j
  BY RosterIsSmall DEF Roster, Known
<1>6. /\ more \in Seq(Records) /\ Len(more) = Len(a) + 1 /\ DOMAIN more = 1..(Len(a) + 1)
      /\ more[Len(a) + 1] = r /\ \A i \in 1..Len(a) : more[i] = a[i]
  BY <1>4, <1>5
<1> HIDE DEF more
<1>7. \A i \in DOMAIN more : i \in 1..Len(a) \/ i = Len(a) + 1
  BY <1>5, <1>6
<1>8. Roster(more)
  BY <1>4, <1>5, <1>6, <1>7 DEF Roster
<1>9. Len(more) \in DOMAIN more
  BY <1>5, <1>6
<1>10. /\ Roster(b) /\ Len(b) = Len(more)
       /\ \A j \in DOMAIN more : /\ b[j].name = more[j].name /\ b[j].status = more[j].status /\ b[j].track = more[j].track
                                 /\ b[j].unread = more[j].unread
  BY <1>1, <1>8, <1>9, StampsKeep
<1>11. DOMAIN b = DOMAIN more
  BY <1>8, <1>10, RosterIsSmall
<1>12. Known(b) = Known(a) \cup {p}
  BY <1>10, <1>5, <1>6, <1>4, <1>7 DEF Known
<1>13. Reselected(b, mediaPlayers', media') /\ media'.missed = m.missed \ {p}
  BY <1>1, <1>10, ReselectKeeps, MissedIs
<1>14. \A q : q # p => Same(a, b, q)
  BY <1>4, <1>5, <1>6, <1>7, <1>10, <1>11 DEF Same
<1>15. ASSUME NEW i \in DOMAIN b, b[i].name = p, NEW f \in Fields
       PROVE  f \in b[i].unread \/ b[i][f] = mediaActual[p][f]
  <2>1. i = Len(a) + 1
    BY <1>5, <1>6, <1>7, <1>10, <1>11, <1>15
  <2>2. b[i].status = r.status /\ b[i].track = r.track /\ b[i].unread = r.unread
    BY <1>6, <1>9, <1>10, <2>1
  <2> QED
    BY <1>4, <2>2 DEF Fields
<1> QED
  BY <1>10, <1>12, <1>13, <1>14, <1>15


\* A signal of a player's properties.
LEMMA ChangeIsHandled ==
  ASSUME MediaActualOK, InStep(media), Roster(mediaPlayers), Known(mediaPlayers) \cap media.missed = {},
         NEW s \in MediaSignals, s.kind = "changed", s.player \in Known(mediaPlayers), OnPlayerPropertiesChanged(s)
  PROVE  \E b : Handled(s, b) /\ Outcome(b, s.player)
<1> DEFINE i == IndexOf(mediaPlayers, s.player)
           old == mediaPlayers[i]
           merged == Merge(old, s)
<1>a. PICK ok \in Answers(s.player) :
        LET r == IF ok THEN ReadPart(merged, s.invalid) ELSE [merged EXCEPT !.unread = @ \cup s.invalid] IN
        \E stamped \in Stamps([mediaPlayers EXCEPT ![i] = r], i, old) : Reselect(stamped, media)
  BY Zenon DEF OnPlayerPropertiesChanged
<1> DEFINE r == IF ok THEN ReadPart(merged, s.invalid) ELSE [merged EXCEPT !.unread = @ \cup s.invalid]
           c == [mediaPlayers EXCEPT ![i] = r]
<1>1. PICK b \in Stamps(c, i, old) : Reselect(b, media)
  BY <1>a
<1>2. /\ mediaPlayers \in Seq(Records) /\ Len(mediaPlayers) \in Nat /\ DOMAIN mediaPlayers = 1..Len(mediaPlayers)
      /\ \A j, k \in DOMAIN mediaPlayers : mediaPlayers[j].name = mediaPlayers[k].name => j = k
  BY RosterIsSmall DEF Roster
<1>3. i \in DOMAIN mediaPlayers /\ mediaPlayers[i].name = s.player
  BY <1>2 DEF IndexOf, Known
<1> HIDE DEF i
<1>4. old \in Records /\ old.name = s.player /\ s.player \in Players /\ s.invalid \in SUBSET Fields
  BY <1>2, <1>3, SignalsAre
<1> HIDE DEF old
<1>5. /\ merged \in Records /\ merged.name = s.player
      /\ merged.status = (IF s.status = Unset THEN old.status ELSE s.status)
      /\ merged.track = (IF s.track = Unset THEN old.track ELSE s.track)
      /\ \A f \in {"status", "track"} : s[f] = Unset => (f \in merged.unread <=> f \in old.unread)
  <2> DEFINE x == IF s.status = Unset THEN old.status ELSE s.status
             y == IF s.track = Unset THEN old.track ELSE s.track
             u == {f \in old.unread : s[f] = Unset}
  <2>1. x \in Statuses \cup {Unset} /\ y \in Tracks \cup {Unset} /\ u \in SUBSET Fields
    BY <1>4, SignalsAre DEF Records
  <2>2. merged = [old EXCEPT !.status = x, !.track = y, !.unread = u]
    BY DEF Merge
  <2>3. \A f \in {"status", "track"} : s[f] = Unset => (f \in u <=> f \in old.unread)
    OBVIOUS
  <2> HIDE DEF x, y, u, merged
  <2>4. merged \in Records /\ merged.name = s.player /\ merged.status = x /\ merged.track = y /\ merged.unread = u
    BY <1>4, <2>1, <2>2 DEF Records
  <2> QED
    BY <2>3, <2>4 DEF x, y
<1> HIDE DEF merged
<1>6. mediaActual[s.player].status \in Statuses /\ mediaActual[s.player].track \in Tracks
  BY <1>4 DEF MediaActualOK
<1>7. /\ r \in Records /\ r.name = s.player
      /\ \A f \in {"status", "track"} :
           /\ f \in s.invalid => f \in r.unread \/ r[f] = mediaActual[s.player][f]
           /\ f \notin s.invalid => r[f] = merged[f] /\ (f \in merged.unread => f \in r.unread)
  <2>1. CASE ok
    <3> DEFINE x == IF "status" \in s.invalid THEN mediaActual[s.player].status ELSE merged.status
               y == IF "track" \in s.invalid THEN mediaActual[s.player].track ELSE merged.track
               u == merged.unread \ s.invalid
    <3>1. x \in Statuses \cup {Unset} /\ y \in Tracks \cup {Unset} /\ u \in SUBSET Fields
      BY <1>5, <1>6 DEF Records
    <3>2. r = [merged EXCEPT !.status = x, !.track = y, !.unread = u]
      BY <1>5, <2>1 DEF ReadPart
    <3> HIDE DEF x, y, u, r
    <3>3. r \in Records /\ r.name = s.player /\ r.status = x /\ r.track = y /\ r.unread = u
      BY <1>5, <3>1, <3>2 DEF Records
    <3> QED
      BY <3>3 DEF x, y, u
  <2>2. CASE ~ok
    <3> DEFINE u == merged.unread \cup s.invalid
    <3>1. u \in SUBSET Fields
      BY <1>4, <1>5 DEF Records
    <3>2. r = [merged EXCEPT !.unread = u]
      BY <2>2
    <3> HIDE DEF u, r
    <3>3. /\ r \in Records /\ r.name = s.player /\ r.status = merged.status /\ r.track = merged.track
          /\ r.unread = u
      BY <1>5, <3>1, <3>2 DEF Records
    <3> QED
      BY <3>3 DEF u
  <2> QED
    BY <2>1, <2>2
<1> HIDE DEF r
<1>8. /\ c \in Seq(Records) /\ Len(c) = Len(mediaPlayers) /\ DOMAIN c = DOMAIN mediaPlayers
      /\ c[i] = r /\ \A j \in DOMAIN mediaPlayers : j # i => c[j] = mediaPlayers[j]
  BY <1>2, <1>3, <1>7
<1> HIDE DEF c
<1>9. \A j \in DOMAIN mediaPlayers : c[j].name = mediaPlayers[j].name
  BY <1>3, <1>7, <1>8
<1>10. Roster(c)
  BY <1>2, <1>8, <1>9 DEF Roster
<1>11. /\ Roster(b) /\ Len(b) = Len(c)
       /\ \A j \in DOMAIN c : /\ b[j].name = c[j].name /\ b[j].status = c[j].status /\ b[j].track = c[j].track
                              /\ b[j].unread = c[j].unread
  <2>1. i \in DOMAIN c /\ b \in Stamps(c, i, old)
    BY <1>1, <1>3, <1>8
  <2> QED
    BY <1>10, <2>1, StampsKeep
<1>12. DOMAIN b = DOMAIN mediaPlayers /\ Len(b) = Len(mediaPlayers) /\ \A j \in DOMAIN b : b[j].name = mediaPlayers[j].name
  BY <1>8, <1>9, <1>10, <1>11, RosterIsSmall
<1>13. Known(b) = Known(mediaPlayers)
  BY <1>2, <1>12 DEF Known
<1>14. ASSUME NEW q \in Players, NEW f \in {"status", "track"}, mediaActual[q].on
       PROVE  /\ Settles(s, q, f) /\ Carries(s, f, mediaActual[q][f]) => RecordIs(b, q, f, mediaActual[q][f])
              /\ ~Settles(s, q, f) /\ RecordIs(mediaPlayers, q, f, mediaActual[q][f])
                   => RecordIs(b, q, f, mediaActual[q][f])
  <2>1. CASE q # s.player
    <3>1. ~Settles(s, q, f)
      BY <2>1 DEF Settles
    <3>2. Same(mediaPlayers, b, q)
      BY <2>1, <1>3, <1>8, <1>11, <1>12 DEF Same
    <3> QED
      BY <3>1, <3>2, SameIs
  <2>2. CASE q = s.player
    <3> DEFINE v == mediaActual[q][f]
    <3>1. \A j \in DOMAIN b : b[j].name = q => j = i
      BY <1>2, <1>3, <1>12, <2>2
    <3>2. b[i].unread = r.unread /\ b[i][f] = r[f]
      BY <1>3, <1>8, <1>11
    <3>3. ASSUME Settles(s, q, f), Carries(s, f, v) PROVE f \in r.unread \/ r[f] = v
      <4>1. CASE f \in s.invalid
        BY <1>7, <2>2, <4>1
      <4>2. CASE f \notin s.invalid
        <5>1. s[f] # Unset /\ s[f] = v
          BY <3>3, <4>2 DEF Settles, Carries
        <5> QED
          BY <1>5, <1>7, <4>2, <5>1
      <4> QED
        BY <4>1, <4>2
    <3>4. ASSUME ~Settles(s, q, f), RecordIs(mediaPlayers, q, f, v) PROVE f \in r.unread \/ r[f] = v
      <4>1. f \notin s.invalid /\ s[f] = Unset
        BY <3>4, <2>2 DEF Settles
      <4>2. f \in old.unread \/ old[f] = v
        BY <1>3, <2>2, <3>4 DEF RecordIs, old
      <4> QED
        BY <1>5, <1>7, <4>1, <4>2
    <3> QED
      BY <3>1, <3>2, <3>3, <3>4 DEF RecordIs
  <2> QED
    BY <2>1, <2>2
<1>15. Reselected(b, mediaPlayers', media') /\ media'.missed = media.missed
  BY <1>1, <1>11, ReselectKeeps
<1>16. Handled(s, b)
  BY <1>11, <1>13, <1>14, <1>15 DEF Handled, Moves, Noticed
<1> QED
  BY <1>15, <1>16 DEF Outcome, Reselected

\* A signal of a player that is not known.
LEMMA ChangeIsPassedOver ==
  ASSUME InStep(media), Roster(mediaPlayers), Known(mediaPlayers) \cap media.missed = {},
         NEW s \in MediaSignals, s.kind = "changed", s.player \notin Known(mediaPlayers), OnPlayerPropertiesChanged(s)
  PROVE  \E b : Handled(s, b) /\ Outcome(b, s.player)
<1>1. mediaPlayers' = mediaPlayers /\ media' = media
  BY DEF OnPlayerPropertiesChanged
<1>2. \A i \in DOMAIN mediaPlayers : mediaPlayers[i].name # s.player
  BY RosterIsSmall DEF Known
<1>3. Handled(s, mediaPlayers)
  BY <1>1, <1>2 DEF Handled, Moves, Noticed, RecordIs, Settles
<1>4. Refreshes(mediaPlayers, mediaPlayers)
  BY DEF Refreshes
<1> QED
  BY <1>1, <1>3, <1>4 DEF Outcome

LEMMA KnownHas ==
  ASSUME NEW a, Roster(a), NEW i \in DOMAIN a
  PROVE  a[i].name \in Known(a)
BY RosterIsSmall DEF Known

LEMMA KnownArePlayers ==
  ASSUME NEW a, Roster(a)
  PROVE  Known(a) \subseteq Players
<1>1. \A i \in 1..Len(a) : a[i] \in Records
  BY RosterIsSmall DEF Roster
<1> QED
  BY <1>1 DEF Known, Records

\* A refreshed list knows the same players, and a right value stays right.
LEMMA RefreshedIs ==
  ASSUME NEW a, NEW b, Roster(a), Roster(b), Refreshes(a, b)
  PROVE  /\ Known(b) = Known(a)
         /\ \A p : \A f \in {"status", "track"} :
              RecordIs(a, p, f, mediaActual[p][f]) => RecordIs(b, p, f, mediaActual[p][f])
<1>1. /\ Len(a) = Len(b) /\ DOMAIN a = 1..Len(a) /\ DOMAIN b = DOMAIN a
      /\ \A i \in DOMAIN a : b[i].name = a[i].name
  BY RosterIsSmall DEF Refreshes
<1>2. Known(b) = Known(a)
  BY <1>1 DEF Known
<1>3. ASSUME NEW p, NEW f \in {"status", "track"}, RecordIs(a, p, f, mediaActual[p][f])
      PROVE  RecordIs(b, p, f, mediaActual[p][f])
  BY <1>1, <1>3 DEF RecordIs, Refreshes
<1> QED
  BY <1>2, <1>3

\* A player that comes, in the place of a former one or not, when the records are a.
LEMMA ArrivalIsHandled ==
  ASSUME MediaActualOK, Roster(mediaPlayers), NEW s \in MediaSignals, s.kind \in {"came", "replaced"},
         Known(mediaPlayers) \cap media.missed = {},
         NEW m, InStep(m), m.missed \ {s.player} = media.missed \ {s.player},
         NEW a, Roster(a), Known(a) = Known(mediaPlayers) \ {s.player}, Acquire(s.player, a, m),
         ~NowIs([players |-> a, media |-> Missed(m, s.player)]),
         \A q \in Players : \A f \in {"status", "track"} : q # s.player =>
           (RecordIs(mediaPlayers, q, f, mediaActual[q][f]) => RecordIs(a, q, f, mediaActual[q][f]))
  PROVE  \E b : Handled(s, b) /\ Outcome(b, s.player)
<1>1. s.player \in Players /\ s.player \notin Known(a) /\ s.kind # "changed" /\ s.kind # "left"
  BY SignalsAre
<1>2. PICK b : /\ Roster(b) /\ Known(b) = Known(a) \cup {s.player} /\ Reselected(b, mediaPlayers', media')
               /\ media'.missed = m.missed \ {s.player}
               /\ \A q : q # s.player => Same(a, b, q)
               /\ \A i \in DOMAIN b : b[i].name = s.player =>
                    \A f \in Fields : f \in b[i].unread \/ b[i][f] = mediaActual[s.player][f]
  BY <1>1, AcquiredIs
<1>3. ASSUME NEW q \in Players, NEW f \in {"status", "track"}, mediaActual[q].on
      PROVE  /\ Settles(s, q, f) /\ Carries(s, f, mediaActual[q][f]) => RecordIs(b, q, f, mediaActual[q][f])
             /\ ~Settles(s, q, f) /\ RecordIs(mediaPlayers, q, f, mediaActual[q][f])
                  => RecordIs(b, q, f, mediaActual[q][f])
  <2>1. CASE q # s.player
    <3>1. ~Settles(s, q, f) /\ Same(a, b, q)
      BY <1>2, <2>1 DEF Settles
    <3> QED
      BY <2>1, <3>1, SameIs
  <2>2. CASE q = s.player
    BY <1>1, <2>2, <1>2, <1>3 DEF Settles, RecordIs, Fields
  <2> QED
    BY <2>1, <2>2
<1>4. \A q \in Players : q \in Noticed(b, media') <=> q = s.player \/ q \in Noticed(mediaPlayers, media)
  BY <1>2 DEF Noticed
<1>5. Known(b) \cap media'.missed = {}
  BY <1>2
<1>6. Handled(s, b)
  BY <1>1, <1>2, <1>3, <1>4, <1>5 DEF Handled, Moves
<1> QED
  BY <1>2, <1>6 DEF Outcome, Reselected

\* A player that comes and cannot be subscribed to, when the records are a.
LEMMA MissedIsHandled ==
  ASSUME MediaActualOK, Roster(mediaPlayers), NEW s \in MediaSignals, s.kind \in {"came", "replaced"},
         Known(mediaPlayers) \cap media.missed = {},
         NEW m, InStep(m), m.missed \ {s.player} = media.missed \ {s.player},
         NEW a, Roster(a), Known(a) = Known(mediaPlayers) \ {s.player},
         NowIs([players |-> a, media |-> Missed(m, s.player)]),
         NEW b, Roster(b), Known(b) = Known(a),
         \A q \in Players : \A f \in {"status", "track"} : q # s.player =>
           (RecordIs(mediaPlayers, q, f, mediaActual[q][f]) => RecordIs(b, q, f, mediaActual[q][f]))
  PROVE  Handled(s, b) /\ mediaPlayers' = a /\ media' = Missed(m, s.player) /\ InStep(media')
<1>1. s.player \in Players /\ s.kind # "changed" /\ s.kind # "left"
  BY SignalsAre
<1>2. mediaPlayers' = a /\ media' = Missed(m, s.player)
  BY DEF NowIs
<1>3. InStep(media') /\ media'.missed = m.missed \cup {s.player}
  BY <1>1, <1>2, MissedIs
<1>4. \A q \in Players : q \in Noticed(b, media') <=> q = s.player \/ q \in Noticed(mediaPlayers, media)
  BY <1>3 DEF Noticed
<1>5. Known(b) \cap media'.missed = {}
  BY <1>3
<1>6. \A i \in DOMAIN b : b[i].name # s.player
  BY KnownHas
<1>7. ASSUME NEW q \in Players, NEW f \in {"status", "track"}, mediaActual[q].on
      PROVE  /\ Settles(s, q, f) /\ Carries(s, f, mediaActual[q][f]) => RecordIs(b, q, f, mediaActual[q][f])
             /\ ~Settles(s, q, f) /\ RecordIs(mediaPlayers, q, f, mediaActual[q][f])
                  => RecordIs(b, q, f, mediaActual[q][f])
  BY <1>1, <1>6 DEF Settles, RecordIs
<1>8. Handled(s, b)
  BY <1>1, <1>4, <1>5, <1>7 DEF Handled, Moves
<1> QED
  BY <1>2, <1>3, <1>8

\* What a choice says does not depend on the ghost.
LEMMA ReselectedStill ==
  ASSUME NEW a, NEW b, NEW m, Reselected(a, b, m), NEW n, InStep(n),
         \A f \in {"active", "status", "track", "guess"} : n[f] = m[f]
  PROVE  Reselected(a, b, n)
<1>1. n.active = m.active /\ n.status = m.status /\ n.track = m.track /\ n.guess = m.guess
  OBVIOUS
<1> QED
  BY <1>1 DEF Reselected

\* A player that is released: a choice among the others, or it was not known.
Freed(b, x, p) ==
  /\ Roster(b) /\ Known(b) = Known(mediaPlayers) \ {p}
  /\ Roster(x.players) /\ Refreshes(b, x.players) /\ InStep(x.media)
  /\ x.media.missed = media.missed \ {p}
  /\ \A q \in Players : \A f \in {"status", "track"} : q # p =>
       (RecordIs(mediaPlayers, q, f, mediaActual[q][f]) => RecordIs(b, q, f, mediaActual[q][f]))
  /\ \/ Reselected(b, x.players, x.media)
     \/ /\ p \notin Known(mediaPlayers) /\ x.players = mediaPlayers /\ b = mediaPlayers
        /\ \A f \in {"active", "status", "track", "guess"} : x.media[f] = media[f]

LEMMA AfterReleaseIs ==
  ASSUME MediaActualOK, InStep(media), Roster(mediaPlayers), Known(mediaPlayers) \cap media.missed = {},
         NEW p \in Players, NEW x \in AfterRelease(p)
  PROVE  \E b : Freed(b, x, p)
<1>1. CASE p \in Known(mediaPlayers)
  <2> DEFINE b == Without(p)
  <2>1. x \in Selections(b, media)
    BY <1>1 DEF AfterRelease
  <2>2. /\ Roster(b) /\ Known(b) = Known(mediaPlayers) \ {p}
        /\ \A q : q # p => Same(mediaPlayers, b, q)
    BY ReleasedIs
  <2> HIDE DEF b
  <2>3. Reselected(b, x.players, x.media) /\ x.media.missed = media.missed
    BY <2>1, <2>2, SelectionKeeps
  <2>4. p \notin media.missed
    BY <1>1
  <2>5. \A q \in Players : \A f \in {"status", "track"} : q # p =>
          (RecordIs(mediaPlayers, q, f, mediaActual[q][f]) => RecordIs(b, q, f, mediaActual[q][f]))
    BY <2>2, SameIs
  <2>6. x.media.missed = media.missed \ {p}
    BY <2>3, <2>4
  <2> QED
    BY <2>2, <2>3, <2>5, <2>6 DEF Freed, Reselected
<1>2. CASE p \notin Known(mediaPlayers)
  <2>1. x = [players |-> mediaPlayers, media |-> Heeded(media, p)]
    BY <1>2 DEF AfterRelease
  <2>2. x.players = mediaPlayers /\ x.media = Heeded(media, p)
    BY <2>1
  <2>3. /\ InStep(x.media) /\ x.media.missed = media.missed \ {p}
        /\ \A f \in {"active", "status", "track", "guess"} : x.media[f] = media[f]
    BY <2>2, MissedIs
  <2>4. Refreshes(mediaPlayers, mediaPlayers) /\ Known(mediaPlayers) = Known(mediaPlayers) \ {p}
    BY <1>2 DEF Refreshes
  <2> QED
    BY <1>2, <2>2, <2>3, <2>4 DEF Freed
<1> QED
  BY <1>1, <1>2

\* A player that leaves.
LEMMA LeavingIsHandled ==
  ASSUME MediaActualOK, InStep(media), Roster(mediaPlayers), Known(mediaPlayers) \cap media.missed = {},
         NEW s \in MediaSignals, s.kind = "left", OnNameOwnerChanged(s)
  PROVE  \E b : Handled(s, b) /\ Outcome(b, s.player)
<1>1. s.player \in Players
  BY SignalsAre
<1>2. PICK x \in AfterRelease(s.player) : mediaPlayers' = x.players /\ media' = x.media
  BY Zenon DEF OnNameOwnerChanged, NowIs
<1>3. PICK b : Freed(b, x, s.player)
  BY <1>1, AfterReleaseIs
<1>4. \A i \in DOMAIN b : b[i].name # s.player
  BY <1>3, KnownHas DEF Freed
<1>5. ASSUME NEW q \in Players, NEW f \in {"status", "track"}, mediaActual[q].on
      PROVE  /\ Settles(s, q, f) /\ Carries(s, f, mediaActual[q][f]) => RecordIs(b, q, f, mediaActual[q][f])
             /\ ~Settles(s, q, f) /\ RecordIs(mediaPlayers, q, f, mediaActual[q][f])
                  => RecordIs(b, q, f, mediaActual[q][f])
  BY <1>3, <1>4 DEF Settles, RecordIs, Freed
<1>6. \A q \in Players : q \in Noticed(b, media') <=> q # s.player /\ q \in Noticed(mediaPlayers, media)
  BY <1>2, <1>3 DEF Noticed, Freed
<1>7. Known(b) \cap media'.missed = {}
  BY <1>2, <1>3 DEF Freed
<1>8. Handled(s, b)
  BY <1>3, <1>5, <1>6, <1>7 DEF Handled, Moves, Freed
<1>9. Outcome(b, s.player)
  BY <1>2, <1>3 DEF Outcome, Freed
<1> QED
  BY <1>8, <1>9

\* A player whose place another program takes.
LEMMA ReplacementIsHandled ==
  ASSUME MediaActualOK, InStep(media), Roster(mediaPlayers), Known(mediaPlayers) \cap media.missed = {},
         NEW s \in MediaSignals, s.kind = "replaced", OnNameOwnerChanged(s)
  PROVE  \E b : Handled(s, b) /\ Outcome(b, s.player)
<1>1. s.player \in Players
  BY SignalsAre
<1>2. PICK x \in AfterRelease(s.player) : Acquire(s.player, x.players, x.media)
  BY Zenon DEF OnNameOwnerChanged
<1>3. PICK b : Freed(b, x, s.player)
  BY <1>1, AfterReleaseIs
<1>4. /\ Known(x.players) = Known(b)
      /\ \A q : \A f \in {"status", "track"} :
           RecordIs(b, q, f, mediaActual[q][f]) => RecordIs(x.players, q, f, mediaActual[q][f])
  BY <1>3, RefreshedIs DEF Freed
<1>5. /\ Roster(x.players) /\ InStep(x.media) /\ Known(x.players) = Known(mediaPlayers) \ {s.player}
      /\ x.media.missed \ {s.player} = media.missed \ {s.player}
      /\ \A q \in Players : \A f \in {"status", "track"} : q # s.player =>
           (RecordIs(mediaPlayers, q, f, mediaActual[q][f]) => RecordIs(x.players, q, f, mediaActual[q][f]))
  BY <1>3, <1>4 DEF Freed
<1>6. CASE NowIs([players |-> x.players, media |-> Missed(x.media, s.player)])
  <2>1. /\ Roster(b) /\ Known(b) = Known(x.players)
        /\ \A q \in Players : \A f \in {"status", "track"} : q # s.player =>
             (RecordIs(mediaPlayers, q, f, mediaActual[q][f]) => RecordIs(b, q, f, mediaActual[q][f]))
    BY <1>3, <1>4 DEF Freed
  <2>2. /\ Handled(s, b) /\ mediaPlayers' = x.players
        /\ media' = Missed(x.media, s.player) /\ InStep(media')
    BY <1>5, <1>6, <2>1, MissedIsHandled
  <2>3. \A f \in {"active", "status", "track", "guess"} : media'[f] = x.media[f]
    BY <1>1, <1>5, <2>2, MissedIs
  <2>4. CASE Reselected(b, x.players, x.media)
    BY <1>3, <2>2, <2>3, <2>4, ReselectedStill DEF Outcome, Freed
  <2>5. CASE /\ s.player \notin Known(mediaPlayers) /\ x.players = mediaPlayers /\ b = mediaPlayers
             /\ \A f \in {"active", "status", "track", "guess"} : x.media[f] = media[f]
    BY <1>3, <2>2, <2>3, <2>5 DEF Outcome, Freed
  <2>6. \/ Reselected(b, x.players, x.media)
        \/ /\ s.player \notin Known(mediaPlayers) /\ x.players = mediaPlayers /\ b = mediaPlayers
           /\ \A f \in {"active", "status", "track", "guess"} : x.media[f] = media[f]
    BY <1>3 DEF Freed
  <2> QED
    BY <2>2, <2>4, <2>5, <2>6
<1>7. CASE ~NowIs([players |-> x.players, media |-> Missed(x.media, s.player)])
  BY <1>2, <1>5, <1>7, ArrivalIsHandled
<1> QED
  BY <1>6, <1>7

\* Every signal finds the player noticed, or not if it comes.
LEMMA SignalIsHandled ==
  ASSUME MediaActualOK, InStep(media), Roster(mediaPlayers), Known(mediaPlayers) \cap media.missed = {},
         NEW s \in MediaSignals, s.kind # "came" <=> s.player \in Noticed(mediaPlayers, media),
         IF s.kind = "changed" THEN OnPlayerPropertiesChanged(s) ELSE OnNameOwnerChanged(s)
  PROVE  \E b : Handled(s, b) /\ Outcome(b, s.player)
<1>1. s.player \in Players /\ s.kind \in {"changed", "came", "left", "replaced"}
  BY SignalsAre
<1>2. CASE s.kind = "changed"
  BY <1>2, ChangeIsHandled, ChangeIsPassedOver
<1>3. CASE s.kind = "came"
  <2>1. s.player \notin Known(mediaPlayers) /\ Known(mediaPlayers) = Known(mediaPlayers) \ {s.player}
    BY <1>3 DEF Noticed
  <2>2. Acquire(s.player, mediaPlayers, media)
    BY <1>3, <2>1, Zenon DEF OnNameOwnerChanged
  <2>3. CASE NowIs([players |-> mediaPlayers, media |-> Missed(media, s.player)])
    <3>1. /\ Handled(s, mediaPlayers) /\ mediaPlayers' = mediaPlayers
          /\ media' = Missed(media, s.player) /\ InStep(media')
      BY <1>3, <2>1, <2>3, MissedIsHandled
    <3>2. \A f \in {"active", "status", "track", "guess"} : media'[f] = media[f]
      BY <1>1, <3>1, MissedIs
    <3>3. Refreshes(mediaPlayers, mediaPlayers)
      BY DEF Refreshes
    <3>4. Outcome(mediaPlayers, s.player)
      BY <2>1, <3>1, <3>2, <3>3 DEF Outcome
    <3> QED
      BY <3>1, <3>4
  <2>4. CASE ~NowIs([players |-> mediaPlayers, media |-> Missed(media, s.player)])
    BY <1>3, <2>1, <2>2, <2>4, ArrivalIsHandled
  <2> QED
    BY <2>3, <2>4
<1>4. CASE s.kind = "replaced"
  BY <1>4, ReplacementIsHandled
<1>5. CASE s.kind = "left"
  BY <1>5, LeavingIsHandled
<1> QED
  BY <1>1, <1>2, <1>3, <1>4, <1>5


----------------------------------------------------------------------------
\* What is said does not depend on what comes later.
LEMMA SaysBefore ==
  ASSUME NEW bus \in Seq(MediaSignals), NEW s, NEW known, NEW p, NEW m \in 0..Len(bus), NEW b
  PROVE  Says(Append(bus, s), known, p, m, b) <=> Says(bus, known, p, m, b)
BY DEF Says

\* What a new signal says of its player, and what it leaves of the others.
LEMMA SaysAfter ==
  ASSUME NEW bus \in Seq(MediaSignals), NEW s, NEW known, NEW p, NEW b, NEW c,
         IF Moves(s, p) THEN s.kind # "left" <=> c ELSE Says(bus, known, p, Len(bus), b) /\ (b <=> c)
  PROVE  Says(Append(bus, s), known, p, Len(bus) + 1, c)
BY DEF Says

\* When the first signal has been handled the rest says the same of what is then known.
LEMMA SaysStill ==
  ASSUME NEW bus \in Seq(MediaSignals), bus # <<>>, NEW known, NEW new, NEW p,
         p \in new <=> (IF Moves(Head(bus), p) THEN Head(bus).kind # "left" ELSE p \in known),
         NEW m \in 1..Len(bus), NEW b, Says(bus, known, p, m, b)
  PROVE  Says(Tail(bus), new, p, m - 1, b)
<1> DEFINE t == Tail(bus)
<1>1. /\ Len(bus) \in Nat /\ Head(bus) = bus[1] /\ m \in Nat /\ m - 1 \in Nat
      /\ \A j \in 1..(m - 1) : t[j] = bus[j + 1] /\ j + 1 \in 1..m
  OBVIOUS
<1> HIDE DEF t
<1>2. PICK n \in 0..m :
        /\ \A j \in 1..m : n < j => ~Moves(bus[j], p)
        /\ IF n = 0 THEN p \in known <=> b ELSE Moves(bus[n], p) /\ (bus[n].kind # "left" <=> b)
  BY DEF Says
<1>3. CASE n \in {0, 1}
  <2>1. \A j \in 1..(m - 1) : ~Moves(t[j], p)
    BY <1>1, <1>3, <1>2
  <2>2. p \in new <=> b
    BY <1>1, <1>2, <1>3
  <2>3. 0 \in 0..(m - 1)
    BY <1>1
  <2>4. Says(t, new, p, m - 1, b)
    BY <2>1, <2>2, <2>3 DEF Says
  <2> QED
    BY <2>4 DEF t
<1>4. CASE n \notin {0, 1}
  <2>1. n - 1 \in 0..(m - 1) /\ n - 1 # 0 /\ n - 1 \in 1..(m - 1) /\ n - 1 + 1 = n
    BY <1>1, <1>4
  <2>2. \A j \in 1..(m - 1) : n - 1 < j => n < j + 1
    BY <1>1
  <2>3. \A j \in 1..(m - 1) : n - 1 < j => ~Moves(t[j], p)
    BY <1>1, <1>2, <2>2
  <2>4. t[n - 1] = bus[n]
    BY <1>1, <2>1
  <2>5. Says(t, new, p, m - 1, b)
    BY <1>2, <1>4, <2>1, <2>3, <2>4 DEF Says
  <2> QED
    BY <2>5 DEF t
<1> QED
  BY <1>3, <1>4

\* A new signal settles a value, or leaves it as it was.
LEMMA DueAfter ==
  ASSUME NEW bus \in Seq(MediaSignals), NEW s, NEW players, NEW p, NEW f, NEW v, NEW w,
         IF Settles(s, p, f) THEN Carries(s, f, w) ELSE Due(bus, players, p, f, v) /\ v = w
  PROVE  Due(Append(bus, s), players, p, f, w)
BY DEF Due

\* A value that was due is so, or is right, when the first signal has been handled.
LEMMA DueStill ==
  ASSUME NEW bus \in Seq(MediaSignals), bus # <<>>, NEW players, NEW new, NEW p, NEW f, NEW v,
         Settles(Head(bus), p, f) /\ Carries(Head(bus), f, v) => RecordIs(new, p, f, v),
         ~Settles(Head(bus), p, f) /\ RecordIs(players, p, f, v) => RecordIs(new, p, f, v),
         Due(bus, players, p, f, v)
  PROVE  Due(Tail(bus), new, p, f, v)
<1> DEFINE t == Tail(bus)
           m == Len(bus)
<1>1. /\ m \in Nat /\ m >= 1 /\ Head(bus) = bus[1] /\ Len(t) = m - 1 /\ m - 1 \in Nat
      /\ \A j \in 1..(m - 1) : t[j] = bus[j + 1] /\ j + 1 \in 1..m
  OBVIOUS
<1> HIDE DEF t
<1>2. PICK n \in 0..m :
        /\ \A j \in 1..m : n < j => ~Settles(bus[j], p, f)
        /\ IF n = 0 THEN RecordIs(players, p, f, v) ELSE Settles(bus[n], p, f) /\ Carries(bus[n], f, v)
  BY DEF Due
<1> HIDE DEF m
<1>3. CASE n \in {0, 1}
  <2>1. \A j \in 1..(m - 1) : ~Settles(t[j], p, f)
    BY <1>1, <1>3, <1>2
  <2>2. RecordIs(new, p, f, v)
    BY <1>1, <1>2, <1>3
  <2>3. 0 \in 0..(m - 1)
    BY <1>1
  <2>4. Due(t, new, p, f, v)
    BY <1>1, <2>1, <2>2, <2>3 DEF Due
  <2> QED
    BY <2>4 DEF t
<1>4. CASE n \notin {0, 1}
  BY <1>1, <1>4, <1>2 DEF Due, t
<1> QED
  BY <1>3, <1>4


----------------------------------------------------------------------------
\* The one of the known players that is to be shown, as it is on the bus.
Chosen(m, known) ==
  LET among(s) == {p \in known : mediaActual[p].status = s} IN
  /\ m.active \in (IF among("Playing") # {} THEN among("Playing")
                   ELSE IF among("Paused") # {} THEN among("Paused") ELSE {NoPlayer})
  /\ m.active # NoPlayer => /\ m.status = mediaActual[m.active].status
                            /\ m.track = mediaActual[m.active].track

\* No signal of a player that is known is under way.
Calm == \A i \in 1..Len(mediaBus) : mediaBus[i].player \notin Known(mediaPlayers)

ChoiceInv == Calm /\ ~media.guess => Chosen(media, Known(mediaPlayers))

BaseInv ==
  /\ MediaActualOK
  /\ mediaBus \in Seq(MediaSignals)
  /\ Roster(mediaPlayers)
  /\ InStep(media)
  /\ Known(mediaPlayers) \cap media.missed = {}
  /\ media.active # NoPlayer => media.active \in Known(mediaPlayers)

MediaInv == BaseInv /\ PresenceInv /\ ValuesInv /\ ChoiceInv

\* Records that are those of players on the bus, but for what was not read.
Accurate(players) ==
  \A i \in DOMAIN players :
    /\ players[i].name \in Players /\ mediaActual[players[i].name].on
    /\ \A f \in {"status", "track"} : f \in players[i].unread \/ players[i][f] = mediaActual[players[i].name][f]

\* With no signal of them under way the players that are known are what there is.
LEMMA QuietIsAccurate ==
  ASSUME NEW bus \in Seq(MediaSignals), NEW a, Roster(a), NEW missed, Known(a) \cap missed = {},
         \A i \in 1..Len(bus) : bus[i].player \notin Known(a),
         \A p \in Players : Says(bus, Known(a) \cup missed, p, Len(bus), mediaActual[p].on),
         \A p \in Players : mediaActual[p].on =>
           \A f \in {"status", "track"} : Due(bus, a, p, f, mediaActual[p][f])
  PROVE  Accurate(a)
<1>1. ASSUME NEW p \in Players, p \in Known(a) PROVE mediaActual[p].on
  <2>1. PICK n \in 0..Len(bus) :
          /\ \A j \in 1..Len(bus) : n < j => ~Moves(bus[j], p)
          /\ IF n = 0 THEN p \in Known(a) \cup missed <=> mediaActual[p].on
             ELSE Moves(bus[n], p) /\ (bus[n].kind # "left" <=> mediaActual[p].on)
    BY DEF Says
  <2>2. n = 0
    BY <1>1, <2>1 DEF Moves
  <2> QED
    BY <1>1, <2>1, <2>2
<1>2. ASSUME NEW p \in Players, p \in Known(a), NEW f \in {"status", "track"}
      PROVE  RecordIs(a, p, f, mediaActual[p][f])
  <2>1. PICK n \in 0..Len(bus) :
          IF n = 0 THEN RecordIs(a, p, f, mediaActual[p][f])
          ELSE Settles(bus[n], p, f) /\ Carries(bus[n], f, mediaActual[p][f])
    BY <1>1, <1>2 DEF Due
  <2>2. n = 0
    BY <1>2, <2>1 DEF Settles
  <2> QED
    BY <2>1, <2>2
<1>3. ASSUME NEW i \in DOMAIN a
      PROVE  /\ a[i].name \in Players /\ mediaActual[a[i].name].on
             /\ \A f \in {"status", "track"} : f \in a[i].unread \/ a[i][f] = mediaActual[a[i].name][f]
  <2> DEFINE p == a[i].name
  <2>1. a[i] \in Records /\ p \in Known(a)
    BY RosterIsSmall, KnownHas DEF Roster
  <2>2. p \in Players
    BY <2>1 DEF Records
  <2> HIDE DEF p
  <2>3. /\ mediaActual[p].on /\ a[i].name = p
        /\ \A f \in {"status", "track"} : RecordIs(a, p, f, mediaActual[p][f])
    BY <1>1, <1>2, <2>1, <2>2 DEF p
  <2> QED
    BY <2>2, <2>3 DEF RecordIs
<1> QED
  BY <1>3 DEF Accurate

\* A choice among accurate records that does not rest on what was not read is the right one.
LEMMA ChoiceIsRight ==
  ASSUME NEW a, Roster(a), Accurate(a), NEW b, NEW m, Reselected(a, b, m), ~m.guess
  PROVE  Chosen(m, Known(a))
<1> DEFINE i == SelectActiveIndex(a)
           among(s) == {p \in Known(a) : mediaActual[p].status = s}
<1>1. \A j \in DOMAIN a : /\ a[j].name \in Players /\ mediaActual[a[j].name].on
                          /\ a[j].status = mediaActual[a[j].name].status
                          /\ "track" \in a[j].unread \/ a[j].track = mediaActual[a[j].name].track
  <2>1. ASSUME NEW j \in DOMAIN a PROVE a[j].status = mediaActual[a[j].name].status
    <3>1. "status" \in a[j].unread \/ a[j]["status"] = mediaActual[a[j].name]["status"]
      BY DEF Accurate
    <3>2. "status" \notin a[j].unread
      BY DEF Reselected
    <3> QED
      BY <3>1, <3>2
  <2>2. ASSUME NEW j \in DOMAIN a PROVE "track" \in a[j].unread \/ a[j].track = mediaActual[a[j].name].track
    <3>1. "track" \in a[j].unread \/ a[j]["track"] = mediaActual[a[j].name]["track"]
      BY DEF Accurate
    <3> QED
      BY <3>1
  <2> QED
    BY <2>1, <2>2 DEF Accurate
<1>2. \A s, p : p \in among(s) => \E j \in DOMAIN a : a[j].name = p /\ a[j].status = s
  BY RosterIsSmall, <1>1 DEF Known
<1>3. \A s : \A j \in DOMAIN a : a[j].status = s => a[j].name \in among(s)
  BY <1>1, KnownHas
<1> HIDE DEF among
<1>4. CASE i = 0 /\ m.active = NoPlayer
  <2>1. \A j \in DOMAIN a : a[j].status \notin {"Playing", "Paused"}
    BY <1>4, SelectionIs, RosterIsSmall
  <2>2. among("Playing") = {} /\ among("Paused") = {}
    BY <1>2, <2>1
  <2> QED
    BY <1>4, <2>2 DEF Chosen, among
<1>5. CASE /\ i \in DOMAIN a /\ b[i].unread = {} /\ m.active = b[i].name
           /\ m.status = b[i].status /\ m.track = b[i].track
  <2>1. /\ b[i].name = a[i].name
        /\ \/ b[i].status = a[i].status /\ b[i].track = a[i].track /\ b[i].unread = a[i].unread
           \/ b[i].status = mediaActual[a[i].name].status /\ b[i].track = mediaActual[a[i].name].track
    BY <1>5 DEF Reselected, Refreshes
  <2>2. m.active = a[i].name /\ m.status = mediaActual[m.active].status /\ m.track = mediaActual[m.active].track
    BY <1>1, <1>5, <2>1
  <2>3. i # 0
    BY <1>5, RosterIsSmall
  <2>4. a[i].status = "Playing" \/ (a[i].status = "Paused" /\ \A j \in DOMAIN a : a[j].status # "Playing")
    BY <2>3, SelectionIs
  <2>5. CASE a[i].status = "Playing"
    BY <1>3, <1>5, <2>2, <2>5 DEF Chosen, among
  <2>6. CASE a[i].status = "Paused" /\ \A j \in DOMAIN a : a[j].status # "Playing"
    BY <1>2, <1>3, <1>5, <2>2, <2>6 DEF Chosen, among
  <2> QED
    BY <2>4, <2>5, <2>6
<1> QED
  BY <1>4, <1>5 DEF Reselected

\* A signal is sent.
LEMMA EmissionKeeps ==
  ASSUME MediaInv, NEW s \in MediaSignals, mediaBus' = Append(mediaBus, s), UNCHANGED <<mediaPlayers, media>>,
         MediaActualOK', \A q \in Players : q # s.player => mediaActual'[q] = mediaActual[q],
         s.kind # "came" <=> mediaActual[s.player].on,
         mediaActual'[s.player].on <=> s.kind # "left",
         \A f \in {"status", "track"} :
           IF Settles(s, s.player, f) THEN Carries(s, f, mediaActual'[s.player][f])
           ELSE mediaActual'[s.player][f] = mediaActual[s.player][f]
  PROVE  MediaInv'
<1> DEFINE p == s.player
           K == Noticed(mediaPlayers, media)
           n == Len(mediaBus)
<1>1. p \in Players /\ mediaBus \in Seq(MediaSignals) /\ n \in Nat
  BY SignalsAre DEF MediaInv, BaseInv
<1>2. Known(mediaPlayers)' = Known(mediaPlayers) /\ Noticed(mediaPlayers, media)' = K
  BY DEF Known, Noticed
<1>3. /\ mediaBus' \in Seq(MediaSignals) /\ mediaBus' # <<>> /\ Len(mediaBus') = n + 1
      /\ mediaBus'[n + 1] = s /\ \A i \in 1..n : mediaBus'[i] = mediaBus[i]
  BY <1>1
<1>4. /\ \A q \in Players : Says(mediaBus, K, q, n, mediaActual[q].on)
      /\ \A q \in Players : \A i \in 1..n : mediaBus[i].player = q => Says(mediaBus, K, q, i - 1, mediaBus[i].kind # "came")
  BY DEF MediaInv, PresenceInv
<1> HIDE DEF p, K, n
<1>5. ASSUME NEW q \in Players PROVE Says(mediaBus', K, q, n + 1, mediaActual'[q].on)
  BY <1>4, <1>1, SaysAfter DEF Moves, n
<1>6. ASSUME NEW q \in Players, NEW i \in 1..(n + 1), mediaBus'[i].player = q
      PROVE  Says(mediaBus', K, q, i - 1, mediaBus'[i].kind # "came")
  <2>1. i - 1 \in 0..n
    BY <1>1
  <2>2. ASSUME NEW b PROVE Says(mediaBus', K, q, i - 1, b) <=> Says(mediaBus, K, q, i - 1, b)
    BY <1>1, <2>1, SaysBefore DEF n
  <2>3. CASE i = n + 1
    <3>1. mediaBus'[i] = s /\ q = s.player /\ i - 1 = n
      BY <1>1, <1>3, <1>6, <2>3
    <3>2. s.kind # "came" <=> mediaActual[q].on
      BY <3>1
    <3>3. Says(mediaBus, K, q, n, mediaActual[q].on)
      BY <1>4
    <3>4. Says(mediaBus, K, q, n, s.kind # "came")
      BY <3>2, <3>3 DEF Says
    <3> QED
      BY <2>2, <3>1, <3>4
  <2>4. CASE i \in 1..n
    BY <1>3, <2>4, <1>4, <1>6, <2>2
  <2>5. i = n + 1 \/ i \in 1..n
    BY <1>1
  <2> QED
    BY <2>3, <2>4, <2>5
<1>7. PresenceInv'
  BY <1>2, <1>3, <1>5, <1>6 DEF PresenceInv
<1>8. ASSUME NEW q \in Players, mediaActual'[q].on, NEW f \in {"status", "track"}
      PROVE  Due(mediaBus', mediaPlayers, q, f, mediaActual'[q][f])
  <2>1. Settles(s, q, f) => Carries(s, f, mediaActual'[q][f])
    BY DEF Settles
  <2>2. ASSUME ~Settles(s, q, f) PROVE Due(mediaBus, mediaPlayers, q, f, mediaActual[q][f])
                                       /\ mediaActual[q][f] = mediaActual'[q][f]
    BY <2>2, <1>8 DEF Settles, MediaInv, ValuesInv
  <2> QED
    BY <1>1, <2>1, <2>2, DueAfter
<1>9. ValuesInv'
  BY <1>8 DEF ValuesInv
<1>10. BaseInv'
  BY <1>2, <1>3 DEF MediaInv, BaseInv, InStep, TimerRuns, Roster
<1>11. ASSUME Calm', ~media.guess PROVE Chosen(media, Known(mediaPlayers))'
  <2>1. s.player \notin Known(mediaPlayers) /\ Calm
    BY <1>1, <1>2, <1>3, <1>11 DEF Calm, n
  <2>2. Chosen(media, Known(mediaPlayers))
    BY <1>11, <2>1 DEF MediaInv, ChoiceInv
  <2>3. /\ \A q \in Known(mediaPlayers) : mediaActual'[q] = mediaActual[q]
        /\ media.active # NoPlayer => media.active \in Known(mediaPlayers)
    <3>1. Known(mediaPlayers) \subseteq Players
      BY KnownArePlayers DEF MediaInv, BaseInv
    <3> QED
      BY <2>1, <3>1 DEF MediaInv, BaseInv
  <2> HIDE DEF MediaInv
  <2> DEFINE among(x) == {q \in Known(mediaPlayers) : mediaActual[q].status = x}
             then(x) == {q \in Known(mediaPlayers) : mediaActual'[q].status = x}
  <2>4. \A x : then(x) = among(x)
    BY <2>3
  <2>5. /\ media.active \in (IF among("Playing") # {} THEN among("Playing")
                            ELSE IF among("Paused") # {} THEN among("Paused") ELSE {NoPlayer})
        /\ media.active # NoPlayer => /\ media.status = mediaActual[media.active].status
                                      /\ media.track = mediaActual[media.active].track
    BY <2>2 DEF Chosen
  <2>6. media.active # NoPlayer => /\ media.status = mediaActual'[media.active].status
                                   /\ media.track = mediaActual'[media.active].track
    BY <2>3, <2>5
  <2>7. media.active \in (IF then("Playing") # {} THEN then("Playing")
                         ELSE IF then("Paused") # {} THEN then("Paused") ELSE {NoPlayer})
    BY <2>4, <2>5, Zenon
  <2> QED
    BY <1>2, <2>6, <2>7 DEF Chosen
<1>12. ChoiceInv'
  BY <1>11 DEF ChoiceInv
<1> QED
  BY <1>7, <1>9, <1>10, <1>12 DEF MediaInv


\* A player comes, goes, or is replaced by another program of the same name.
LEMMA ComingKeeps ==
  ASSUME MediaInv, NEW p \in Players, PlayerComesOrGoes(p)
  PROVE  MediaInv'
<1>1. PICK on \in {~mediaActual[p].on, TRUE}, x \in Statuses :
        /\ mediaActual' = [mediaActual EXCEPT ![p].on = on, ![p].status = x]
        /\ Emit([kind |-> IF ~on THEN "left" ELSE IF mediaActual[p].on THEN "replaced" ELSE "came", player |-> p])
        /\ UNCHANGED <<mediaPlayers, media>>
  BY DEF PlayerComesOrGoes
<1>2. MediaActualOK
  BY DEF MediaInv, BaseInv
<1> DEFINE was == mediaActual[p].on
<1>3. was \in BOOLEAN /\ on \in BOOLEAN /\ (~on => was)
  BY <1>2 DEF MediaActualOK
<1>4. /\ mediaActual' \in [Players -> [on : BOOLEAN, status : Statuses, track : Tracks]]
      /\ mediaActual'[p].on = on /\ \A q \in Players : q # p => mediaActual'[q] = mediaActual[q]
  <2>1. mediaActual' = [mediaActual EXCEPT ![p] = [mediaActual[p] EXCEPT !.on = on, !.status = x]]
    BY <1>1, <1>2 DEF MediaActualOK
  <2>2. [mediaActual[p] EXCEPT !.on = on, !.status = x] \in [on : BOOLEAN, status : Statuses, track : Tracks]
        /\ [mediaActual[p] EXCEPT !.on = on, !.status = x].on = on
    BY <1>2, <1>3 DEF MediaActualOK
  <2> QED
    BY <1>2, <2>1, <2>2 DEF MediaActualOK
<1> DEFINE k == IF ~on THEN "left" ELSE IF was THEN "replaced" ELSE "came"
           s == [kind |-> k, player |-> p]
<1>5. mediaBus' = Append(mediaBus, s)
  BY <1>1 DEF Emit
<1> HIDE DEF was
<1>6. k \in {"came", "left", "replaced"} /\ (k # "came" <=> was) /\ (on <=> k # "left")
  BY <1>3
<1> HIDE DEF k
<1>7. s \in MediaSignals /\ s.kind = k /\ s.player = p
  BY <1>6 DEF MediaSignals
<1> HIDE DEF s
<1>8. \A f \in {"status", "track"} : Settles(s, p, f) /\ Carries(s, f, mediaActual'[p][f])
  BY <1>6, <1>7 DEF Settles, Carries
<1>9. MediaActualOK'
  BY <1>4 DEF MediaActualOK
<1> QED
  BY <1>1, <1>4, <1>5, <1>6, <1>7, <1>8, <1>9, EmissionKeeps DEF was

\* A player sends what has changed, or that it has.
LEMMA ChangeSentKeeps ==
  ASSUME MediaInv, NEW p \in Players, mediaActual[p].on, UNCHANGED <<mediaPlayers, media>>,
         NEW x \in Statuses, NEW t \in Tracks, NEW invalid \in SUBSET Fields,
         mediaActual' = [mediaActual EXCEPT ![p].status = x, ![p].track = t],
         NEW c \in Statuses \cup {Unset}, NEW d \in Tracks \cup {Unset},
         "status" \notin invalid => c = x \/ (c = Unset /\ x = mediaActual[p].status),
         "track" \notin invalid => d = t \/ (d = Unset /\ t = mediaActual[p].track),
         Changed(p, c, d, invalid)
  PROVE  MediaInv'
<1>1. MediaActualOK
  BY DEF MediaInv, BaseInv
<1>2. /\ mediaActual' \in [Players -> [on : BOOLEAN, status : Statuses, track : Tracks]]
      /\ mediaActual'[p].on = mediaActual[p].on /\ mediaActual'[p].status = x /\ mediaActual'[p].track = t
      /\ \A q \in Players : q # p => mediaActual'[q] = mediaActual[q]
  <2>1. mediaActual' = [mediaActual EXCEPT ![p] = [mediaActual[p] EXCEPT !.status = x, !.track = t]]
    BY <1>1 DEF MediaActualOK
  <2> DEFINE a == [mediaActual[p] EXCEPT !.status = x, !.track = t]
  <2>2. /\ a \in [on : BOOLEAN, status : Statuses, track : Tracks]
        /\ a.on = mediaActual[p].on /\ a.status = x /\ a.track = t
    BY <1>1 DEF MediaActualOK
  <2> HIDE DEF a
  <2>3. mediaActual' = [mediaActual EXCEPT ![p] = a]
    BY <2>1 DEF a
  <2> QED
    <3>1. mediaActual' \in [Players -> [on : BOOLEAN, status : Statuses, track : Tracks]]
      BY <1>1, <2>2, <2>3 DEF MediaActualOK
    <3>2. mediaActual'[p] = a /\ \A q \in Players : q # p => mediaActual'[q] = mediaActual[q]
      BY <1>1, <2>3 DEF MediaActualOK
    <3> QED
      BY <2>2, <3>1, <3>2
<1> DEFINE s == [kind |-> "changed", player |-> p, status |-> c, track |-> d, invalid |-> invalid]
<1>3. mediaBus' = Append(mediaBus, s)
  BY DEF Changed, Emit
<1>4. s \in MediaSignals /\ s.kind = "changed" /\ s.player = p /\ s.status = c /\ s.track = d /\ s.invalid = invalid
  BY DEF MediaSignals
<1> HIDE DEF s
<1>5. Unset \notin Statuses /\ Unset \notin Tracks
  BY MediaAssumption DEF Unset, Statuses
<1>6. ASSUME NEW f \in {"status", "track"}
      PROVE  IF Settles(s, p, f) THEN Carries(s, f, mediaActual'[p][f]) ELSE mediaActual'[p][f] = mediaActual[p][f]
  <2>1. CASE f = "status"
    BY <1>2, <1>4, <1>5, <2>1 DEF Settles, Carries
  <2>2. CASE f = "track"
    BY <1>2, <1>4, <1>5, <2>2 DEF Settles, Carries
  <2> QED
    BY <2>1, <2>2
<1>7. MediaActualOK'
  BY <1>2 DEF MediaActualOK
<1> QED
  BY <1>2, <1>3, <1>4, <1>6, <1>7, EmissionKeeps

LEMMA ChangeKeeps ==
  ASSUME MediaInv, NEW p \in Players, PlayerChanges(p)
  PROVE  MediaInv'
<1>1. mediaActual[p].on /\ UNCHANGED <<mediaPlayers, media>>
  BY DEF PlayerChanges
<1>2. PICK x \in Statuses, t \in Tracks :
        LET new == [status |-> x, track |-> t]
            changes == {f \in Fields : new[f] # mediaActual[p][f]} IN
        /\ mediaActual' = [mediaActual EXCEPT ![p].status = x, ![p].track = t]
        /\ \E invalid \in SUBSET changes :
             LET carried == changes \ invalid IN
             Changed(p, IF "status" \in carried THEN x ELSE Unset, IF "track" \in carried THEN t ELSE Unset, invalid)
  BY Zenon DEF PlayerChanges
<1> DEFINE changes == {f \in Fields : [status |-> x, track |-> t][f] # mediaActual[p][f]}
<1>3. PICK invalid \in SUBSET changes :
        Changed(p, IF "status" \in changes \ invalid THEN x ELSE Unset,
                   IF "track" \in changes \ invalid THEN t ELSE Unset, invalid)
  BY <1>2
<1>4. /\ invalid \in SUBSET Fields
      /\ "status" \notin changes => x = mediaActual[p].status
      /\ "track" \notin changes => t = mediaActual[p].track
  BY DEF Fields
<1> DEFINE c == IF "status" \in changes \ invalid THEN x ELSE Unset
           d == IF "track" \in changes \ invalid THEN t ELSE Unset
<1> HIDE DEF changes
<1>5. /\ c \in Statuses \cup {Unset} /\ d \in Tracks \cup {Unset}
      /\ "status" \notin invalid => c = x \/ (c = Unset /\ x = mediaActual[p].status)
      /\ "track" \notin invalid => d = t \/ (d = Unset /\ t = mediaActual[p].track)
  BY <1>4
<1>6. Changed(p, c, d, invalid)
  BY <1>3
<1> HIDE DEF c, d
<1> QED
  BY <1>1, <1>2, <1>4, <1>5, <1>6, ChangeSentKeeps

LEMMA PlayPauseKeeps ==
  ASSUME MediaInv, PlayPause
  PROVE  MediaInv'
<1> DEFINE p == media.active
           x == IF mediaActual[p].status = "Playing" THEN "Paused" ELSE "Playing"
<1>1. p \in Players /\ mediaActual[p].on /\ UNCHANGED <<mediaPlayers, media>>
  BY MediaAssumption DEF PlayPause
<1>2. mediaActual' = [mediaActual EXCEPT ![p].status = x] /\ Changed(p, x, Unset, {})
  BY DEF PlayPause
<1>3. x \in Statuses
  BY DEF Statuses
<1> HIDE DEF p, x
<1>4. mediaActual \in [Players -> [on : BOOLEAN, status : Statuses, track : Tracks]]
  BY DEF MediaInv, BaseInv, MediaActualOK
<1> DEFINE t == mediaActual[p].track
<1>5. t \in Tracks
  BY <1>1, <1>4
<1>6. mediaActual' = [mediaActual EXCEPT ![p].status = x, ![p].track = t]
  BY <1>1, <1>2, <1>4
<1> HIDE DEF t
<1>7. /\ x \in Statuses \cup {Unset} /\ Unset \in Tracks \cup {Unset} /\ {} \in SUBSET Fields
      /\ Unset = t \/ (Unset = Unset /\ t = mediaActual[p].track)
  BY <1>3 DEF t
<1> QED
  BY <1>1, <1>2, <1>3, <1>5, <1>6, <1>7, ChangeSentKeeps

\* The shell handles a signal.
LEMMA DeliveryKeeps ==
  ASSUME MediaInv, MediaSignal
  PROVE  MediaInv'
<1> DEFINE s == Head(mediaBus)
           n == Len(mediaBus)
<1>1. /\ mediaBus # <<>> /\ mediaBus' = Tail(mediaBus) /\ mediaActual' = mediaActual
      /\ IF s.kind = "changed" THEN OnPlayerPropertiesChanged(s) ELSE OnNameOwnerChanged(s)
  BY DEF MediaSignal
<1>2. /\ MediaActualOK /\ InStep(media) /\ Roster(mediaPlayers) /\ mediaBus \in Seq(MediaSignals)
      /\ Known(mediaPlayers) \cap media.missed = {}
      /\ media.active # NoPlayer => media.active \in Known(mediaPlayers)
      /\ \A q \in Players : Says(mediaBus, Noticed(mediaPlayers, media), q, n, mediaActual[q].on)
      /\ \A q \in Players : \A i \in 1..n :
           mediaBus[i].player = q => Says(mediaBus, Noticed(mediaPlayers, media), q, i - 1, mediaBus[i].kind # "came")
      /\ \A q \in Players : mediaActual[q].on =>
           \A f \in {"status", "track"} : Due(mediaBus, mediaPlayers, q, f, mediaActual[q][f])
  BY DEF MediaInv, BaseInv, PresenceInv, ValuesInv
<1>3. /\ s \in MediaSignals /\ s = mediaBus[1] /\ n \in Nat /\ n >= 1 /\ Len(mediaBus') = n - 1
      /\ mediaBus' \in Seq(MediaSignals)
      /\ \A i \in 1..(n - 1) : mediaBus'[i] = mediaBus[i + 1] /\ i + 1 \in 1..n
  BY <1>1, <1>2
<1> HIDE DEF s, n
<1>4. s.kind # "came" <=> s.player \in Noticed(mediaPlayers, media)
  BY <1>2, <1>3, SignalsAre DEF Says
<1>5. PICK b : Handled(s, b) /\ Outcome(b, s.player)
  BY <1>1, <1>2, <1>3, <1>4, SignalIsHandled
<1>6. Roster(b) /\ Roster(mediaPlayers') /\ Refreshes(b, mediaPlayers') /\ InStep(media')
  BY <1>5 DEF Handled, Outcome
<1>7. /\ Known(mediaPlayers') = Known(b)
      /\ \A p : \A f \in {"status", "track"} :
           RecordIs(b, p, f, mediaActual[p][f]) => RecordIs(mediaPlayers', p, f, mediaActual[p][f])
  BY <1>6, RefreshedIs
<1>8. ASSUME NEW q \in Players, NEW m \in 1..n, NEW c, Says(mediaBus, Noticed(mediaPlayers, media), q, m, c)
      PROVE  Says(mediaBus', Noticed(b, media'), q, m - 1, c)
  BY <1>5, <1>1, <1>2, <1>8, SaysStill DEF Handled, s, n
<1>9. \A q \in Players : Says(mediaBus', Noticed(b, media'), q, n - 1, mediaActual[q].on)
  BY <1>2, <1>3, <1>8
<1>10. ASSUME NEW q \in Players, mediaActual[q].on, NEW f \in {"status", "track"}
       PROVE  Due(mediaBus', b, q, f, mediaActual[q][f])
  <2>1. /\ Settles(s, q, f) /\ Carries(s, f, mediaActual[q][f]) => RecordIs(b, q, f, mediaActual[q][f])
        /\ ~Settles(s, q, f) /\ RecordIs(mediaPlayers, q, f, mediaActual[q][f]) => RecordIs(b, q, f, mediaActual[q][f])
    BY <1>5, <1>10 DEF Handled
  <2>2. Due(mediaBus, mediaPlayers, q, f, mediaActual[q][f])
    BY <1>2, <1>10
  <2> QED
    BY <1>1, <1>2, <2>1, <2>2, DueStill DEF s
<1>11. PresenceInv'
  <2>1. ASSUME NEW q \in Players, NEW i \in 1..(n - 1), mediaBus'[i].player = q
        PROVE  Says(mediaBus', Noticed(b, media'), q, i - 1, mediaBus'[i].kind # "came")
    <3>1. i + 1 \in 1..n /\ mediaBus'[i] = mediaBus[i + 1] /\ i \in 1..n /\ (i + 1) - 1 = i
      BY <1>3
    <3>2. Says(mediaBus, Noticed(mediaPlayers, media), q, i, mediaBus[i + 1].kind # "came")
      BY <1>2, <2>1, <3>1
    <3> QED
      BY <1>8, <3>1, <3>2
  <2>2. Noticed(mediaPlayers, media)' = Noticed(b, media')
    BY <1>7 DEF Known, Noticed
  <2> QED
    BY <1>1, <1>3, <1>9, <2>1, <2>2 DEF PresenceInv
<1>12. ValuesInv'
  BY <1>7, <1>10, <1>1 DEF Due, ValuesInv
<1>13. ASSUME Calm', ~media'.guess PROVE Chosen(media, Known(mediaPlayers))'
  <2>1. \A i \in 1..Len(mediaBus') : mediaBus'[i].player \notin Known(b)
    BY <1>7, <1>13 DEF Calm, Known
  <2>2. CASE Reselected(b, mediaPlayers', media')
    <3>1. Known(b) \cap media'.missed = {}
      BY <1>5 DEF Handled
    <3>2. \A q \in Players : Says(mediaBus', Known(b) \cup media'.missed, q, Len(mediaBus'), mediaActual[q].on)
      BY <1>3, <1>9 DEF Noticed
    <3>3. Accurate(b)
      BY <1>3, <1>6, <1>10, <2>1, <3>1, <3>2, QuietIsAccurate
    <3>4. Chosen(media', Known(b))
      BY <1>6, <1>13, <2>2, <3>3, ChoiceIsRight
    <3> QED
      BY <1>1, <1>7, <3>4 DEF Chosen, Known
  <2>3. CASE /\ mediaPlayers' = mediaPlayers /\ s.player \notin Known(mediaPlayers)
             /\ \A f \in {"active", "status", "track", "guess"} : media'[f] = media[f]
    <3>1. /\ media'.active = media.active /\ media'.status = media.status
          /\ media'.track = media.track /\ media'.guess = media.guess
      BY <2>3
    <3>2. ASSUME NEW i \in 1..n PROVE mediaBus[i].player \notin Known(mediaPlayers)
      <4>1. CASE i = 1
        BY <1>3, <2>3, <4>1
      <4>2. CASE i # 1
        <5>1. i - 1 \in 1..(n - 1) /\ (i - 1) + 1 = i
          BY <1>3, <4>2
        <5>2. mediaBus'[i - 1] = mediaBus[i] /\ i - 1 \in 1..Len(mediaBus')
          BY <1>3, <5>1
        <5>3. Known(mediaPlayers)' = Known(mediaPlayers)
          BY <2>3 DEF Known
        <5> QED
          BY <1>13, <5>2, <5>3 DEF Calm
      <4> QED
        BY <4>1, <4>2
    <3>3. Chosen(media, Known(mediaPlayers))
      BY <1>13, <3>1, <3>2 DEF MediaInv, ChoiceInv, Calm, n
    <3>4. Known(mediaPlayers)' = Known(mediaPlayers)
      BY <2>3 DEF Known
    <3> QED
      BY <1>1, <3>1, <3>3, <3>4 DEF Chosen
  <2> QED
    BY <1>5, <2>2, <2>3 DEF Outcome
<1>14. ChoiceInv'
  BY <1>13 DEF ChoiceInv
<1>15. media'.active # NoPlayer => media'.active \in Known(mediaPlayers')
  <2>1. CASE Reselected(b, mediaPlayers', media')
    <3>1. media'.active = NoPlayer \/ \E j \in DOMAIN b : media'.active = mediaPlayers'[j].name
      BY <2>1 DEF Reselected
    <3>2. DOMAIN mediaPlayers' = DOMAIN b
      BY <1>6, RosterIsSmall DEF Refreshes
    <3> QED
      BY <1>6, <3>1, <3>2, KnownHas
  <2>2. CASE mediaPlayers' = mediaPlayers /\ \A f \in {"active", "status", "track", "guess"} : media'[f] = media[f]
    <3>1. media'.active = media.active
      BY <2>2
    <3> QED
      BY <1>2, <2>2, <3>1
  <2> QED
    BY <1>5, <2>1, <2>2 DEF Outcome
<1>16. Known(mediaPlayers') \cap media'.missed = {}
  BY <1>5, <1>7 DEF Handled
<1>17. BaseInv'
  BY <1>1, <1>2, <1>6, <1>3, <1>15, <1>16 DEF MediaActualOK, Roster, InStep, TimerRuns, Known, BaseInv
<1> QED
  BY <1>11, <1>12, <1>14, <1>17 DEF MediaInv


\* A handle comes or goes, or the position is reconciled: a record may be read again.
LEMMA PositionKeeps ==
  ASSUME MediaInv, UNCHANGED <<mediaActual, mediaBus>>,
         Roster(mediaPlayers'), Refreshes(mediaPlayers, mediaPlayers'), InStep(media'),
         media'.active = media.active, media'.status = media.status, media'.track = media.track,
         media'.missed = media.missed, media'.guess = media.guess
  PROVE  MediaInv'
<1>1. /\ MediaActualOK /\ Roster(mediaPlayers) /\ mediaBus \in Seq(MediaSignals)
      /\ Known(mediaPlayers) \cap media.missed = {}
      /\ media.active # NoPlayer => media.active \in Known(mediaPlayers)
      /\ PresenceInv /\ ValuesInv /\ ChoiceInv
  BY DEF MediaInv, BaseInv
<1>2. /\ Known(mediaPlayers') = Known(mediaPlayers)
      /\ \A p : \A f \in {"status", "track"} :
           RecordIs(mediaPlayers, p, f, mediaActual[p][f]) => RecordIs(mediaPlayers', p, f, mediaActual[p][f])
  BY <1>1, RefreshedIs
<1>3. Known(mediaPlayers)' = Known(mediaPlayers)
  BY <1>2 DEF Known
<1>4. PresenceInv'
  <2>1. Noticed(mediaPlayers, media)' = Noticed(mediaPlayers, media)
    BY <1>3 DEF Noticed
  <2> QED
    BY <1>1, <2>1 DEF PresenceInv
<1>5. ValuesInv'
  BY <1>1, <1>2 DEF ValuesInv, Due
<1>6. BaseInv'
  BY <1>1, <1>3 DEF MediaActualOK, Roster, InStep, TimerRuns, BaseInv
<1>7. ChoiceInv'
  BY <1>1, <1>3 DEF Chosen, ChoiceInv, Calm
<1> QED
  BY <1>4, <1>5, <1>6, <1>7 DEF MediaInv

\* What a reading of the position leaves in the records.
LEMMA PositionRead ==
  ASSUME MediaInv, NEW m, RefreshPosition(m)
  PROVE  media' = m /\ Roster(mediaPlayers') /\ Refreshes(mediaPlayers, mediaPlayers')
<1>1. MediaActualOK /\ Roster(mediaPlayers) /\ DOMAIN mediaPlayers = 1..Len(mediaPlayers)
  BY RosterIsSmall DEF MediaInv, BaseInv
<1>2. media' = m
  BY DEF RefreshPosition
<1>3. CASE mediaPlayers' = mediaPlayers
  BY <1>1, <1>2, <1>3 DEF Refreshes
<1>4. CASE mediaPlayers' # mediaPlayers
  <2>1. PICK i \in 1..Len(mediaPlayers) :
          /\ mediaPlayers[i].name = m.active /\ mediaActual[m.active].on
          /\ mediaPlayers' = [mediaPlayers EXCEPT ![i] = ReadPlayer(@)]
    BY <1>4 DEF RefreshPosition
  <2> QED
    BY <1>1, <1>2, <2>1, ReadIn
<1> QED
  BY <1>3, <1>4

LEMMA TrackingKeeps ==
  ASSUME MediaInv, AcquirePositionTracking \/ ReleasePositionTracking \/ OnReconcileTimerTick
  PROVE  MediaInv'
BY MediaAssumption, TimerUpdated, PositionRead, PositionKeeps DEF MediaInv, BaseInv, Refreshes, InStep, MediaStates,
   AcquirePositionTracking, TimerRuns, ReleasePositionTracking, OnReconcileTimerTick

LEMMA MediaStarts ==
  ASSUME MediaInit
  PROVE  MediaInv
<1>1. /\ mediaActual \in [Players -> [on : {FALSE}, status : {"Stopped"}, track : Tracks]]
      /\ mediaBus = <<>> /\ mediaPlayers = <<>>
      /\ media = [active |-> NoPlayer, status |-> Unset, track |-> Unset, paused |-> FALSE,
                  timer |-> FALSE, interest |-> 0, missed |-> {}, guess |-> FALSE]
  BY DEF MediaInit
<1>2. /\ <<>> \in Seq(MediaSignals) /\ <<>> \in Seq(Records) /\ Len(<<>>) = 0 /\ DOMAIN <<>> = {} /\ 1..0 = {} /\ 0..0 = {0}
  OBVIOUS
<1>3. MediaActualOK /\ \A p \in Players : ~mediaActual[p].on
  BY <1>1 DEF MediaActualOK, Statuses
<1>4. Roster(mediaPlayers) /\ Known(mediaPlayers) = {}
  BY <1>1, <1>2 DEF Roster, Known
<1>5. InStep(media) /\ media.active = NoPlayer /\ media.missed = {}
  <2>1. Unset # "Paused" /\ Unset # "Playing"
    BY DEF Unset
  <2>2. /\ media.active = NoPlayer /\ media.status = Unset /\ media.paused = FALSE /\ media.timer = FALSE
        /\ media.interest = 0 /\ media \in MediaStates /\ media.missed = {}
    BY <1>1, MediaAssumption DEF MediaStates
  <2>3. ~(media.interest > 0 /\ media.status = "Playing")
    BY <2>1, <2>2
  <2>4. TimerRuns(media) = FALSE
    BY <2>3 DEF TimerRuns
  <2>5. (media.status = "Paused") = FALSE
    BY <2>1, <2>2
  <2> QED
    BY <2>2, <2>4, <2>5 DEF InStep
<1>6. PresenceInv
  BY <1>1, <1>2, <1>3, <1>4, <1>5 DEF PresenceInv, Says, Noticed
<1>7. ValuesInv
  BY <1>3 DEF ValuesInv
<1>8. ChoiceInv
  BY <1>4, <1>5 DEF Chosen, ChoiceInv
<1> QED
  BY <1>1, <1>2, <1>3, <1>4, <1>5, <1>6, <1>7, <1>8 DEF MediaInv, BaseInv

LEMMA MediaInvHolds == MediaInit /\ [][MediaNext]_mediaVars => []MediaInv
<1>1. ASSUME MediaInv, MediaNext PROVE MediaInv'
  BY <1>1, ComingKeeps, ChangeKeeps, PlayPauseKeeps, DeliveryKeeps, TrackingKeeps DEF MediaNext
<1>2. ASSUME MediaInv, UNCHANGED mediaVars PROVE MediaInv'
  <2>1. mediaActual' = mediaActual /\ mediaBus' = mediaBus /\ mediaPlayers' = mediaPlayers /\ media' = media
    BY <1>2 DEF mediaVars
  <2>2. BaseInv'
    BY <1>2, <2>1 DEF MediaInv, BaseInv, MediaActualOK, Roster, InStep, TimerRuns, Known
  <2>3. Known(mediaPlayers)' = Known(mediaPlayers) /\ Noticed(mediaPlayers, media)' = Noticed(mediaPlayers, media)
    BY <2>1 DEF Known, Noticed
  <2>4. PresenceInv'
    BY <1>2, <2>1, <2>3 DEF MediaInv, PresenceInv
  <2>5. ValuesInv'
    BY <1>2, <2>1 DEF MediaInv, ValuesInv, Due, RecordIs
  <2>6. ChoiceInv'
    BY <1>2, <2>1, <2>3 DEF MediaInv, ChoiceInv, Calm, Chosen
  <2> QED
    BY <2>2, <2>4, <2>5, <2>6 DEF MediaInv
<1> QED
  BY <1>1, <1>2, MediaStarts, PTL

\* Whatever signals a reading overtakes, once they are all delivered the players
\* known are those on the bus that could be subscribed to, as they are there but for what could
\* not be read, and the one that is shown is the one that should be, unless it was chosen on what
\* could not be read; and the timers agree with what is shown.  For every set of
\* players, of those that may fail and of tracks, and every number of signals under way.
THEOREM PlayersAreShown ==
  MediaInit /\ [][MediaNext]_mediaVars => [](MediaTypeOK /\ MediaShowsThePlayers /\ MediaTimersAgree)
<1>1. ASSUME MediaInv PROVE MediaTypeOK /\ MediaShowsThePlayers /\ MediaTimersAgree
  <2>1. /\ MediaActualOK /\ mediaBus \in Seq(MediaSignals) /\ Roster(mediaPlayers) /\ InStep(media)
        /\ Known(mediaPlayers) \cap media.missed = {}
        /\ media.active # NoPlayer => media.active \in Known(mediaPlayers)
        /\ PresenceInv /\ ValuesInv /\ ChoiceInv
    BY <1>1 DEF MediaInv, BaseInv
  <2>2. MediaTypeOK
    BY <2>1 DEF MediaTypeOK, MediaActualOK, Roster, Records, InStep, MediaStates
  <2>3. MediaTimersAgree
    BY <2>1 DEF MediaTimersAgree, InStep
  <2>4. ASSUME mediaBus = <<>> PROVE
          /\ Known(mediaPlayers) = {p \in Players : mediaActual[p].on} \ media.missed
          /\ \A i \in 1..Len(mediaPlayers) : \A f \in Fields \ mediaPlayers[i].unread :
               mediaPlayers[i][f] = mediaActual[mediaPlayers[i].name][f]
    <3>1. Len(mediaBus) = 0 /\ 1..0 = {} /\ 0..0 = {0}
      BY <2>4
    <3>2. /\ \A p \in Players : Says(mediaBus, Noticed(mediaPlayers, media), p, 0, mediaActual[p].on)
          /\ \A p \in Players : mediaActual[p].on =>
               \A f \in {"status", "track"} : Due(mediaBus, mediaPlayers, p, f, mediaActual[p][f])
      BY <2>1, <3>1 DEF PresenceInv, ValuesInv
    <3>3. Accurate(mediaPlayers)
      BY <2>1, <3>1, <3>2, QuietIsAccurate DEF Noticed
    <3>4. \A p \in Players : p \in Known(mediaPlayers) \cup media.missed <=> mediaActual[p].on
      BY <3>1, <3>2 DEF Says, Noticed
    <3>5. Known(mediaPlayers) \subseteq Players
      BY <2>1, KnownArePlayers
    <3>6. Known(mediaPlayers) = {p \in Players : mediaActual[p].on} \ media.missed
      BY <2>1, <3>4, <3>5
    <3> QED
      BY <2>1, <3>3, <3>6, RosterIsSmall DEF Accurate, Fields
  <2>5. mediaBus = <<>> /\ ~media.guess => Chosen(media, Known(mediaPlayers))
    BY <2>1 DEF ChoiceInv, Calm
  <2>6. MediaShowsThePlayers
    BY <2>4, <2>5 DEF MediaShowsThePlayers, Chosen
  <2> QED
    BY <2>2, <2>3, <2>6
<1> QED
  BY <1>1, MediaInvHolds, PTL

----------------------------------------------------------------------------
(***************************************************************************)
(* The covers.                                                             *)
(***************************************************************************)

\* The files that are accounted for, each once.
Accounts(entries, files) ==
  /\ entries \in Seq(Covers)
  /\ IsInjective(entries)
  /\ ToSet(entries) = DOMAIN files
  /\ \A c \in DOMAIN files : c \in Covers /\ files[c] \in {"good", "damaged"}

\* An entry that is touched or added is the last.
LEMMA Touched ==
  ASSUME NEW entries \in Seq(Covers), IsInjective(entries), NEW c \in Covers
  PROVE  /\ WithoutEntry(entries, c) \in Seq(Covers) /\ IsInjective(WithoutEntry(entries, c))
         /\ ToSet(WithoutEntry(entries, c)) = ToSet(entries) \ {c}
         /\ Append(WithoutEntry(entries, c), c) \in Seq(Covers) /\ IsInjective(Append(WithoutEntry(entries, c), c))
         /\ ToSet(Append(WithoutEntry(entries, c), c)) = ToSet(entries) \cup {c}
<1> DEFINE S == {i \in DOMAIN entries : entries[i] # c}
           w == WithoutEntry(entries, c)
           a == Append(w, c)
<1>1. S \in SUBSET (DOMAIN entries)
  OBVIOUS
<1>2. w = SubSeqAt(entries, S)
  BY DEF WithoutEntry
<1> HIDE DEF S, w
<1>3. w \in Seq(Covers) /\ IsInjective(w) /\ ToSet(w) = {entries[i] : i \in S}
  BY <1>1, <1>2, ListRestricted DEF Restricts
<1>4. ToSet(w) = ToSet(entries) \ {c}
  <2>1. \A x \in ToSet(w) : x \in ToSet(entries) /\ x # c
    BY <1>3 DEF S, ToSet
  <2>2. \A x \in ToSet(entries) : x # c => x \in ToSet(w)
    <3>1. \A i \in DOMAIN entries : entries[i] # c => i \in S
      BY DEF S
    <3>2. \A i \in DOMAIN entries : entries[i] # c => entries[i] \in ToSet(w)
      BY <1>3, <3>1
    <3> QED
      BY <3>2 DEF ToSet
  <2> QED
    BY <2>1, <2>2
<1>5. /\ a \in Seq(Covers) /\ DOMAIN a = 1..(Len(w) + 1) /\ DOMAIN w = 1..Len(w) /\ Len(w) \in Nat
      /\ a[Len(w) + 1] = c /\ \A i \in 1..Len(w) : a[i] = w[i]
  BY <1>3
<1> HIDE DEF a
<1>6. \A i \in DOMAIN a : (i \in DOMAIN w /\ a[i] = w[i] /\ a[i] # c) \/ (i = Len(w) + 1 /\ a[i] = c)
  BY <1>4, <1>5 DEF ToSet
<1>7. IsInjective(a)
  BY <1>3, <1>6 DEF IsInjective
<1>8. ToSet(a) = ToSet(entries) \cup {c}
  <2>1. \A i \in DOMAIN w : i \in DOMAIN a /\ a[i] = w[i]
    BY <1>5
  <2>2. Len(w) + 1 \in DOMAIN a
    BY <1>5
  <2>3. ToSet(a) = ToSet(w) \cup {c}
    BY <1>6, <1>5, <2>1, <2>2 DEF ToSet
  <2> QED
    BY <1>4, <2>3
<1> QED
  BY <1>3, <1>4, <1>5, <1>7, <1>8 DEF w, a

LEMMA Evicted ==
  ASSUME NEW entries, NEW files, NEW stuck, Accounts(entries, files)
  PROVE  Accounts(Evict(entries, files, stuck).entries, Evict(entries, files, stuck).files)
<1> DEFINE removable == {i \in DOMAIN entries : entries[i] \notin stuck}
           gone == {i \in removable : Cardinality({j \in removable : j < i}) + CacheBudget < Len(entries)}
           rest == DOMAIN entries \ gone
           e == SubSeqAt(entries, rest)
           f == [x \in DOMAIN files \ {entries[i] : i \in gone} |-> files[x]]
<1>1. Evict(entries, files, stuck) = [entries |-> e, files |-> f]
  BY DEF Evict
<1>2. gone \subseteq DOMAIN entries
  OBVIOUS
<1> HIDE DEF gone
<1>3. entries \in Seq(Covers) /\ IsInjective(entries) /\ ToSet(entries) = DOMAIN files
      /\ \A c \in DOMAIN files : c \in Covers /\ files[c] \in {"good", "damaged"}
  BY DEF Accounts
<1>4. e \in Seq(Covers) /\ IsInjective(e) /\ ToSet(e) = {entries[i] : i \in rest}
  BY <1>3, ListRestricted DEF Restricts
<1>5. DOMAIN f = DOMAIN files \ {entries[i] : i \in gone} /\ \A c \in DOMAIN f : f[c] = files[c]
  OBVIOUS
<1> HIDE DEF e, f
<1>6. ToSet(e) = DOMAIN f
  <2>1. \A x \in ToSet(e) : x \in DOMAIN f
    BY <1>4, <1>3, <1>2, <1>5 DEF ToSet, IsInjective
  <2>2. \A x \in DOMAIN f : x \in ToSet(e)
    <3> SUFFICES ASSUME NEW x \in DOMAIN f PROVE x \in ToSet(e)
      OBVIOUS
    <3>1. PICK i \in DOMAIN entries : entries[i] = x
      BY <1>3, <1>5 DEF ToSet
    <3>2. i \notin gone
      BY <1>5, <3>1
    <3> QED
      BY <1>4, <3>1, <3>2
  <2> QED
    BY <2>1, <2>2
<1>7. Accounts(e, f)
  BY <1>3, <1>4, <1>5, <1>6 DEF Accounts
<1> QED
  BY <1>1, <1>7

LEMMA CoverRegistered ==
  ASSUME Accounts(coverEntries, coverDisk), NEW c \in Covers, NEW stuck, RegisterCover(c, stuck)
  PROVE  Accounts(coverEntries', coverDisk')
<1> DEFINE e == Append(WithoutEntry(coverEntries, c), c)
           f == CoverWith(coverDisk, c, "good")
<1>1. coverEntries \in Seq(Covers) /\ IsInjective(coverEntries) /\ ToSet(coverEntries) = DOMAIN coverDisk
  BY DEF Accounts
<1>2. e \in Seq(Covers) /\ IsInjective(e) /\ ToSet(e) = ToSet(coverEntries) \cup {c}
  BY <1>1, Touched
<1>3. DOMAIN f = DOMAIN coverDisk \cup {c} /\ \A x \in DOMAIN f : x \in Covers /\ f[x] \in {"good", "damaged"}
  BY DEF CoverWith, Accounts
<1>4. coverEntries' = Evict(e, f, stuck).entries /\ coverDisk' = Evict(e, f, stuck).files
  BY DEF RegisterCover
<1> HIDE DEF e, f
<1>5. Accounts(e, f)
  BY <1>1, <1>2, <1>3 DEF Accounts
<1> QED
  BY <1>4, <1>5, Evicted

----------------------------------------------------------------------------
\* What will answer the calls.
AskedFor(f) == \A c \in DOMAIN f : c \in Covers /\ f[c] \in DOMAIN coverAsked /\ coverAsked[f[c]] = c

Owner(f, n) == coverAsked[n] \in DOMAIN f /\ f[coverAsked[n]] = n
Joined(n) == n \in coverWaiting[coverAsked[n]]

\* A call is answered, or one thing is under way that will answer it.
OneAnswer(n) ==
  /\ coverTold[n] \in {0, 1}
  /\ coverTold[n] = 0 => n \in coverQueued \/ Owner(coverReplies, n) \/ Owner(coverDecodes, n) \/ Joined(n)
  /\ n \in coverQueued => coverTold[n] = 0 /\ ~Owner(coverReplies, n) /\ ~Owner(coverDecodes, n) /\ ~Joined(n)
  /\ Owner(coverReplies, n) => coverTold[n] = 0 /\ ~Joined(n)
  /\ Owner(coverDecodes, n) => coverTold[n] = 0 /\ ~Joined(n)
  /\ Joined(n) => coverTold[n] = 0

CallsInv ==
  /\ coverAsked \in Seq(Covers) /\ coverTold \in Seq(Nat) /\ Len(coverTold) = Len(coverAsked)
  /\ coverQueued \subseteq DOMAIN coverAsked
  /\ AskedFor(coverReplies) /\ AskedFor(coverDecodes) /\ DOMAIN coverReplies \cap DOMAIN coverDecodes = {}
  /\ coverWaiting \in [Covers -> SUBSET (DOMAIN coverAsked)]
  /\ \A c \in Covers : \A n \in coverWaiting[c] : coverAsked[n] = c /\ c \in DOMAIN coverReplies \cup DOMAIN coverDecodes
  /\ \A n \in DOMAIN coverAsked : OneAnswer(n)

ArtworkInv == CallsInv /\ Accounts(coverEntries, coverDisk)

LEMMA ResolveKeeps ==
  ASSUME CallsInv, NEW c \in Covers, Resolve(c)
  PROVE  CallsInv'
<1> SUFFICES ASSUME NEW n, n = Len(coverAsked) + 1 PROVE CallsInv'
  OBVIOUS
<1>1. /\ coverAsked \in Seq(Covers) /\ coverTold \in Seq(Nat) /\ Len(coverTold) = Len(coverAsked)
      /\ coverAsked' = Append(coverAsked, c) /\ coverTold' = Append(coverTold, 0)
  BY DEF CallsInv, Resolve
<1>2. /\ coverAsked' \in Seq(Covers) /\ coverTold' \in Seq(Nat) /\ Len(coverTold') = Len(coverAsked')
      /\ DOMAIN coverAsked' = DOMAIN coverAsked \cup {n} /\ n \notin DOMAIN coverAsked
      /\ coverAsked'[n] = c /\ coverTold'[n] = 0
      /\ \A m \in DOMAIN coverAsked : coverAsked'[m] = coverAsked[m] /\ coverTold'[m] = coverTold[m] /\ m # n
  BY <1>1
<1>3. /\ coverQueued \subseteq DOMAIN coverAsked /\ AskedFor(coverReplies) /\ AskedFor(coverDecodes)
      /\ DOMAIN coverReplies \cap DOMAIN coverDecodes = {}
      /\ coverWaiting \in [Covers -> SUBSET (DOMAIN coverAsked)]
      /\ \A x \in Covers : \A m \in coverWaiting[x] : coverAsked[m] = x /\ x \in DOMAIN coverReplies \cup DOMAIN coverDecodes
      /\ \A m \in DOMAIN coverAsked : OneAnswer(m) /\ coverAsked[m] \in Covers
  BY DEF CallsInv
<1>4. CASE coverQueued' = coverQueued \cup {n} /\ UNCHANGED <<coverReplies, coverDecodes, coverWaiting>>
  <2>1. AskedFor(coverReplies)' /\ AskedFor(coverDecodes)'
    BY <1>2, <1>3, <1>4 DEF AskedFor
  <2>2. ASSUME NEW m \in DOMAIN coverAsked PROVE OneAnswer(m)'
    BY <1>3, <1>2, <1>4 DEF Joined, Owner, OneAnswer
  <2>3. OneAnswer(n)'
    BY <1>2, <1>3, <1>4 DEF Joined, Owner, AskedFor, OneAnswer
  <2> QED
    BY <1>2, <1>3, <1>4, <2>1, <2>2, <2>3 DEF CallsInv
<1>5. CASE /\ c \in DOMAIN coverDecodes \cup DOMAIN coverReplies /\ UNCHANGED <<coverQueued, coverReplies, coverDecodes>>
           /\ coverWaiting' = [coverWaiting EXCEPT ![c] = @ \cup {n}]
  <2>1. AskedFor(coverReplies)' /\ AskedFor(coverDecodes)'
    BY <1>2, <1>3, <1>5 DEF AskedFor
  <2>2. ASSUME NEW m \in DOMAIN coverAsked PROVE OneAnswer(m)'
    <3>1. OneAnswer(m) /\ coverAsked[m] \in Covers
      BY <1>3
    <3>2. (m \in coverQueued' <=> m \in coverQueued) /\ (Joined(m)' <=> Joined(m))
          /\ (Owner(coverReplies, m)' <=> Owner(coverReplies, m)) /\ (Owner(coverDecodes, m)' <=> Owner(coverDecodes, m))
      BY <1>2, <1>3, <1>5, <3>1 DEF Joined, Owner
    <3> QED
      BY <1>2, <3>1, <3>2 DEF OneAnswer
  <2>3. OneAnswer(n)'
    BY <1>2, <1>3, <1>5 DEF Joined, Owner, AskedFor, OneAnswer
  <2>4. /\ coverWaiting' \in [Covers -> SUBSET (DOMAIN coverAsked')]
        /\ \A x \in Covers : \A m \in coverWaiting'[x] :
             coverAsked'[m] = x /\ x \in DOMAIN coverReplies' \cup DOMAIN coverDecodes'
    BY <1>2, <1>3, <1>5
  <2> QED
    BY <1>2, <1>3, <1>5, <2>1, <2>2, <2>3, <2>4 DEF CallsInv
<1>6. ASSUME c \notin DOMAIN coverDecodes \cup DOMAIN coverReplies, UNCHANGED <<coverQueued, coverWaiting>>,
             coverReplies' = (IF c \in HttpCovers THEN CoverWith(coverReplies, c, n) ELSE coverReplies),
             coverDecodes' = (IF c \in LocalCovers THEN CoverWith(coverDecodes, c, n) ELSE coverDecodes)
      PROVE  CallsInv'
  <2>1. \A f : /\ DOMAIN CoverWith(f, c, n) = DOMAIN f \cup {c} /\ CoverWith(f, c, n)[c] = n
               /\ \A x \in DOMAIN f : x # c => CoverWith(f, c, n)[x] = f[x]
    BY DEF CoverWith
  <2>2. coverWaiting[c] = {}
    BY <1>3, <1>6
  <2>3. \/ coverReplies' = CoverWith(coverReplies, c, n) /\ coverDecodes' = coverDecodes
        \/ coverReplies' = coverReplies /\ coverDecodes' = CoverWith(coverDecodes, c, n)
    BY <1>6, ArtworkAssumption DEF Covers
  <2>4. /\ \A x \in DOMAIN coverReplies : x \in DOMAIN coverReplies' /\ coverReplies'[x] = coverReplies[x] /\ x # c
        /\ \A x \in DOMAIN coverDecodes : x \in DOMAIN coverDecodes' /\ coverDecodes'[x] = coverDecodes[x] /\ x # c
        /\ \A x \in DOMAIN coverReplies' : x \in DOMAIN coverReplies \/ (x = c /\ coverReplies'[x] = n)
        /\ \A x \in DOMAIN coverDecodes' : x \in DOMAIN coverDecodes \/ (x = c /\ coverDecodes'[x] = n)
        /\ DOMAIN coverReplies' \cap DOMAIN coverDecodes' = {}
        /\ c \in DOMAIN coverReplies' \/ c \in DOMAIN coverDecodes'
    <3>1. CASE coverReplies' = CoverWith(coverReplies, c, n) /\ coverDecodes' = coverDecodes
      <4>1. /\ DOMAIN coverReplies' = DOMAIN coverReplies \cup {c} /\ coverReplies'[c] = n
            /\ \A x \in DOMAIN coverReplies : x # c => coverReplies'[x] = coverReplies[x]
        BY <2>1, <3>1
      <4> QED
        BY <1>3, <1>6, <3>1, <4>1
    <3>2. CASE coverDecodes' = CoverWith(coverDecodes, c, n) /\ coverReplies' = coverReplies
      <4>1. /\ DOMAIN coverDecodes' = DOMAIN coverDecodes \cup {c} /\ coverDecodes'[c] = n
            /\ \A x \in DOMAIN coverDecodes : x # c => coverDecodes'[x] = coverDecodes[x]
        BY <2>1, <3>2
      <4> QED
        BY <1>3, <1>6, <3>2, <4>1
    <3> QED
      BY <2>3, <3>1, <3>2
  <2>5. AskedFor(coverReplies)' /\ AskedFor(coverDecodes)'
    BY <1>2, <1>3, <2>4 DEF AskedFor
  <2>6. ASSUME NEW m \in DOMAIN coverAsked PROVE OneAnswer(m)'
    <3>1. OneAnswer(m) /\ coverAsked[m] \in Covers
      BY <1>3
    <3>2. (m \in coverQueued' <=> m \in coverQueued) /\ (Joined(m)' <=> Joined(m))
          /\ (Owner(coverReplies, m)' <=> Owner(coverReplies, m)) /\ (Owner(coverDecodes, m)' <=> Owner(coverDecodes, m))
      BY <1>2, <1>6, <2>4 DEF Joined, Owner
    <3> QED
      BY <1>2, <3>1, <3>2 DEF OneAnswer
  <2>7. OneAnswer(n)'
    BY <1>2, <1>3, <1>6, <2>2, <2>4 DEF Joined, Owner, OneAnswer
  <2>8. /\ coverWaiting' \in [Covers -> SUBSET (DOMAIN coverAsked')]
        /\ \A x \in Covers : \A m \in coverWaiting'[x] :
             coverAsked'[m] = x /\ x \in DOMAIN coverReplies' \cup DOMAIN coverDecodes'
    BY <1>2, <1>3, <1>6, <2>4
  <2> QED
    BY <1>2, <1>3, <1>6, <2>4, <2>5, <2>6, <2>7, <2>8 DEF CallsInv
<1> QED
  BY <1>4, <1>5, <1>6 DEF Resolve, ResolveMissing

LEMMA QueuedKeeps ==
  ASSUME CallsInv, NEW n \in DOMAIN coverAsked, AnswerQueued(n)
  PROVE  CallsInv'
BY DEF AnswerQueued, CallsInv, Joined, Owner, OneAnswer, AskedFor

\* The call that started it and those that joined are answered, and nothing of the cover is left under way.
LEMMA CompleteKeeps ==
  ASSUME CallsInv, NEW c \in Covers, NEW o, Complete(c, o), UNCHANGED <<coverAsked, coverQueued>>,
         \/ /\ c \in DOMAIN coverReplies /\ coverReplies[c] = o
            /\ coverReplies' = CoverWithout(coverReplies, c) /\ coverDecodes' = coverDecodes
         \/ /\ c \in DOMAIN coverDecodes /\ coverDecodes[c] = o
            /\ coverDecodes' = CoverWithout(coverDecodes, c) /\ coverReplies' = coverReplies
  PROVE  CallsInv'
<1>1. /\ coverAsked \in Seq(Covers) /\ coverTold \in Seq(Nat) /\ Len(coverTold) = Len(coverAsked)
      /\ DOMAIN coverTold = DOMAIN coverAsked
      /\ coverQueued \subseteq DOMAIN coverAsked /\ AskedFor(coverReplies) /\ AskedFor(coverDecodes)
      /\ DOMAIN coverReplies \cap DOMAIN coverDecodes = {}
      /\ coverWaiting \in [Covers -> SUBSET (DOMAIN coverAsked)]
      /\ \A x \in Covers : \A m \in coverWaiting[x] : coverAsked[m] = x /\ x \in DOMAIN coverReplies \cup DOMAIN coverDecodes
      /\ \A m \in DOMAIN coverAsked : OneAnswer(m) /\ coverAsked[m] \in Covers
  BY DEF CallsInv
<1>2. o \in DOMAIN coverAsked /\ coverAsked[o] = c
  BY <1>1 DEF AskedFor
<1>3. \A f : DOMAIN CoverWithout(f, c) = DOMAIN f \ {c} /\ \A x \in DOMAIN f : x # c => CoverWithout(f, c)[x] = f[x]
  BY DEF CoverWithout
<1>4. /\ DOMAIN coverReplies' = DOMAIN coverReplies \ {c} /\ DOMAIN coverDecodes' = DOMAIN coverDecodes \ {c}
      /\ \A x \in DOMAIN coverReplies' : coverReplies'[x] = coverReplies[x]
      /\ \A x \in DOMAIN coverDecodes' : coverDecodes'[x] = coverDecodes[x]
  <2>1. CASE /\ c \in DOMAIN coverReplies
             /\ coverReplies' = CoverWithout(coverReplies, c) /\ coverDecodes' = coverDecodes
    <3>1. c \notin DOMAIN coverDecodes
      BY <1>1, <2>1
    <3>2. /\ DOMAIN coverReplies' = DOMAIN coverReplies \ {c}
          /\ \A x \in DOMAIN coverReplies : x # c => coverReplies'[x] = coverReplies[x]
      BY <1>3, <2>1
    <3> QED
      BY <2>1, <3>1, <3>2
  <2>2. CASE /\ c \in DOMAIN coverDecodes
             /\ coverDecodes' = CoverWithout(coverDecodes, c) /\ coverReplies' = coverReplies
    <3>1. c \notin DOMAIN coverReplies
      BY <1>1, <2>2
    <3>2. /\ DOMAIN coverDecodes' = DOMAIN coverDecodes \ {c}
          /\ \A x \in DOMAIN coverDecodes : x # c => coverDecodes'[x] = coverDecodes[x]
      BY <1>3, <2>2
    <3> QED
      BY <2>2, <3>1, <3>2
  <2> QED
    BY <2>1, <2>2
<1>5. \A m : (c \in DOMAIN coverReplies /\ coverReplies[c] = m) \/ (c \in DOMAIN coverDecodes /\ coverDecodes[c] = m) <=> m = o
  BY <1>1
<1>6. /\ coverTold' = [i \in DOMAIN coverTold |-> coverTold[i] + (IF i = o \/ i \in coverWaiting[c] THEN 1 ELSE 0)]
      /\ coverWaiting' = [coverWaiting EXCEPT ![c] = {}]
  BY DEF Complete
<1>7. coverTold' \in Seq(Nat) /\ Len(coverTold') = Len(coverTold)
  BY <1>1, <1>6
<1>8. ASSUME NEW m \in DOMAIN coverAsked PROVE OneAnswer(m)'
  BY <1>1, <1>2, <1>6, <1>4, <1>5 DEF OneAnswer, Joined, Owner
<1>9. AskedFor(coverReplies)' /\ AskedFor(coverDecodes)'
  BY <1>1, <1>4 DEF AskedFor
<1>10. /\ coverWaiting' \in [Covers -> SUBSET (DOMAIN coverAsked)]
       /\ \A x \in Covers : \A m \in coverWaiting'[x] : coverAsked[m] = x /\ x \in DOMAIN coverReplies' \cup DOMAIN coverDecodes'
  BY <1>1, <1>4, <1>6
<1> QED
  BY <1>1, <1>4, <1>7, <1>8, <1>9, <1>10 DEF CallsInv

LEMMA DownloadKeeps ==
  ASSUME CallsInv, NEW c \in Covers, DownloadEnds(c)
  PROVE  CallsInv'
<1> DEFINE o == coverReplies[c]
<1>1. /\ c \in DOMAIN coverReplies /\ coverReplies' = CoverWithout(coverReplies, c)
      /\ UNCHANGED <<coverAsked, coverQueued>>
  BY DEF DownloadEnds
<1>2. CASE Complete(c, o) /\ UNCHANGED coverDecodes
  BY <1>1, <1>2, CompleteKeeps
<1>3. CASE coverDecodes' = CoverWith(coverDecodes, c, o) /\ UNCHANGED <<coverTold, coverWaiting>>
  BY <1>1, <1>3 DEF CallsInv, AskedFor, CoverWith, CoverWithout, Joined, Owner, o, OneAnswer
<1> QED
  BY <1>2, <1>3 DEF DownloadEnds

LEMMA DecodeKeeps ==
  ASSUME CallsInv, NEW c \in Covers, DecodeEnds(c)
  PROVE  CallsInv'
BY CompleteKeeps DEF DecodeEnds

\* The files of the cache directory.
LEMMA AccountsKept ==
  ASSUME Accounts(coverEntries, coverDisk), [ArtworkNext]_coverVars
  PROVE  Accounts(coverEntries', coverDisk')
<1>1. /\ coverEntries \in Seq(Covers) /\ IsInjective(coverEntries) /\ ToSet(coverEntries) = DOMAIN coverDisk
      /\ \A c \in DOMAIN coverDisk : c \in Covers /\ coverDisk[c] \in {"good", "damaged"}
  BY DEF Accounts
<1>2. CASE UNCHANGED <<coverEntries, coverDisk>>
  BY <1>2
<1>3. ASSUME NEW c \in Covers, c \in DOMAIN coverDisk, UNCHANGED coverDisk,
             coverEntries' = Append(WithoutEntry(coverEntries, c), c)
      PROVE  Accounts(coverEntries', coverDisk')
  <2>1. /\ coverEntries' \in Seq(Covers) /\ IsInjective(coverEntries')
        /\ ToSet(coverEntries') = ToSet(coverEntries) \cup {c}
    BY <1>1, <1>3, Touched
  <2> QED
    BY <1>1, <1>3, <2>1 DEF Accounts
<1>4. ASSUME NEW c \in Covers, coverEntries' = WithoutEntry(coverEntries, c), coverDisk' = CoverWithout(coverDisk, c)
      PROVE  Accounts(coverEntries', coverDisk')
  BY <1>1, <1>4, Touched DEF CoverWithout, Accounts
<1>5. ASSUME NEW c \in Covers, Resolve(c) PROVE Accounts(coverEntries', coverDisk')
  BY <1>2, <1>3, <1>4, <1>5 DEF Resolve
<1>6. ASSUME NEW c \in Covers, DecodeEnds(c) PROVE Accounts(coverEntries', coverDisk')
  BY <1>2, <1>6, CoverRegistered DEF DecodeEnds
<1> QED
  BY <1>2, <1>5, <1>6 DEF ArtworkNext, DownloadEnds, AnswerQueued, coverVars

LEMMA ArtworkStarts ==
  ASSUME ArtworkInit
  PROVE  ArtworkInv
BY ArtworkAssumption, SeqDef DEF ArtworkInit, AskedFor, CallsInv, Accounts, ArtworkInv

LEMMA ArtworkInvHolds == ArtworkInit /\ [][ArtworkNext]_coverVars => []ArtworkInv
<1>1. ASSUME ArtworkInv, [ArtworkNext]_coverVars PROVE ArtworkInv'
  <2>1. Accounts(coverEntries, coverDisk)'
    BY <1>1, AccountsKept DEF ArtworkInv
  <2>2. CASE ArtworkNext
    BY <1>1, <2>2, ResolveKeeps, QueuedKeeps, DownloadKeeps, DecodeKeeps, <2>1 DEF ArtworkNext, ArtworkInv
  <2>3. CASE UNCHANGED coverVars
    BY <1>1, <2>3, <2>1 DEF ArtworkInv, coverVars, CallsInv, OneAnswer, Owner, Joined, AskedFor
  <2> QED
    BY <1>1, <2>2, <2>3
<1> QED
  BY <1>1, ArtworkStarts, PTL

\* What is under way for a call, counted.
LEMMA CountedUnderWay ==
  ASSUME CallsInv, NEW n \in DOMAIN coverAsked
  PROVE  /\ Cardinality({c \in DOMAIN coverReplies : coverReplies[c] = n}) = IF Owner(coverReplies, n) THEN 1 ELSE 0
         /\ Cardinality({c \in DOMAIN coverDecodes : coverDecodes[c] = n}) = IF Owner(coverDecodes, n) THEN 1 ELSE 0
         /\ Cardinality({c \in DOMAIN coverReplies \cup DOMAIN coverDecodes : n \in coverWaiting[c]})
              = IF Joined(n) THEN 1 ELSE 0
         /\ Cardinality({n} \cap coverQueued) = IF n \in coverQueued THEN 1 ELSE 0
<1> DEFINE a == coverAsked[n]
<1>1. Cardinality({}) = 0 /\ \A x : Cardinality({x}) = 1
  BY FS_EmptySet, FS_Singleton
<1>2. /\ AskedFor(coverReplies) /\ AskedFor(coverDecodes) /\ a \in Covers
      /\ \A c \in Covers : \A m \in coverWaiting[c] : coverAsked[m] = c /\ c \in DOMAIN coverReplies \cup DOMAIN coverDecodes
  BY DEF CallsInv
<1>3. ASSUME NEW f, AskedFor(f)
      PROVE  Cardinality({c \in DOMAIN f : f[c] = n}) = IF Owner(f, n) THEN 1 ELSE 0
  BY <1>3, <1>1 DEF Owner, AskedFor
<1>4. Cardinality({c \in DOMAIN coverReplies \cup DOMAIN coverDecodes : n \in coverWaiting[c]}) = IF Joined(n) THEN 1 ELSE 0
  <2> DEFINE S == {c \in DOMAIN coverReplies \cup DOMAIN coverDecodes : n \in coverWaiting[c]}
  <2>1. \A c \in S : c = a
    BY <1>2 DEF AskedFor
  <2>2. a \in S <=> Joined(n)
    BY <1>2 DEF Joined
  <2> HIDE DEF S
  <2>3. CASE Joined(n)
    BY <2>1, <2>2, <2>3, <1>1 DEF S
  <2>4. CASE ~Joined(n)
    <3>1. S = {}
      BY <2>1, <2>2, <2>4
    <3> QED
      BY <1>1, <2>4, <3>1 DEF S
  <2> QED
    BY <2>3, <2>4
<1>5. Cardinality({n} \cap coverQueued) = IF n \in coverQueued THEN 1 ELSE 0
  BY <1>1
<1> QED
  BY <1>2, <1>3, <1>4, <1>5

\* Every request for a cover is answered once, whatever fails, and the files in
\* the cache directory are those that are accounted for: for all sets of covers,
\* every budget and every number of requests.
THEOREM CoversAreTold ==
  ArtworkInit /\ [][ArtworkNext]_coverVars => [](ArtworkTypeOK /\ EveryCoverIsTold /\ CacheIsAccounted)
<1>1. ASSUME ArtworkInv PROVE ArtworkTypeOK /\ EveryCoverIsTold /\ CacheIsAccounted
  <2>1. CallsInv /\ Accounts(coverEntries, coverDisk)
    BY <1>1 DEF ArtworkInv
  <2>2. ArtworkTypeOK
    <3>1. coverTold \in Seq(0..1)
      <4>1. \A n \in 1..Len(coverTold) : coverTold[n] \in 0..1
        BY <2>1 DEF CallsInv, OneAnswer
      <4>2. coverTold \in [1..Len(coverTold) -> 0..1] /\ Len(coverTold) \in Nat
        BY <2>1, <4>1 DEF CallsInv
      <4> QED
        BY <4>2, SeqDef
    <3>2. ToSet(coverEntries) \subseteq Covers
      BY <2>1 DEF Accounts
    <3> QED
      BY <2>1, <3>1, <3>2 DEF ArtworkTypeOK, CallsInv, Accounts, AskedFor
  <2>3. EveryCoverIsTold
    <3>1. ASSUME NEW n \in DOMAIN coverAsked
          PROVE  coverTold[n] + ( Cardinality({c \in DOMAIN coverReplies : coverReplies[c] = n})
                   + Cardinality({c \in DOMAIN coverDecodes : coverDecodes[c] = n})
                   + Cardinality({c \in DOMAIN coverReplies \cup DOMAIN coverDecodes : n \in coverWaiting[c]})
                   + Cardinality({n} \cap coverQueued)) = 1
      <4>1. OneAnswer(n) /\ ~(Owner(coverReplies, n) /\ Owner(coverDecodes, n))
        BY <2>1 DEF CallsInv, Owner
      <4> DEFINE r == Cardinality({c \in DOMAIN coverReplies : coverReplies[c] = n})
                 d == Cardinality({c \in DOMAIN coverDecodes : coverDecodes[c] = n})
                 w == Cardinality({c \in DOMAIN coverReplies \cup DOMAIN coverDecodes : n \in coverWaiting[c]})
                 q == Cardinality({n} \cap coverQueued)
      <4>2. /\ r = IF Owner(coverReplies, n) THEN 1 ELSE 0
            /\ d = IF Owner(coverDecodes, n) THEN 1 ELSE 0
            /\ w = IF Joined(n) THEN 1 ELSE 0
            /\ q = IF n \in coverQueued THEN 1 ELSE 0
        BY <2>1, CountedUnderWay
      <4> HIDE DEF r, d, w, q
      <4>3. coverTold[n] + (r + d + w + q) = 1
        BY <4>1, <4>2 DEF OneAnswer
      <4> QED
        BY <4>3 DEF r, d, w, q
    <3> QED
      BY <2>1, <3>1 DEF EveryCoverIsTold, CallsInv
  <2>4. CacheIsAccounted
    BY <2>1 DEF CacheIsAccounted, Accounts
  <2> QED
    BY <2>2, <2>3, <2>4
<1> QED
  BY <1>1, ArtworkInvHolds, PTL

----------------------------------------------------------------------------
(***************************************************************************)
(* Bluetooth.                                                              *)
(***************************************************************************)

\* One request of the chain runs, for the device the user wants paired.
PairingIsAsked(b, requests, asked) ==
  /\ \A r \in requests : r.role = "chain" => r.target = asked /\ r.target = b.pairing
  /\ \A r, s \in requests : r.role = "chain" /\ s.role = "chain" => r = s
  /\ b.pairing # NoTarget => Running(requests, "chain")

\* With no request to an adapter on its way, the discoveries are as desired.
DiscoveryIsSettled(b, requests, adapters) ==
  ~(\E r \in requests : r.target \in AdapterSet) => b.owned = Desired(b, adapters)

BtInv ==
  /\ BluetoothTypeOK
  /\ PairingIsAsked(bluetooth, btRequests, btAsked)
  /\ DiscoveryIsSettled(bluetooth, btRequests, btAdapters)

BtAdapterStates == [AdapterSet -> {"gone", "off", "on"}]

\* What Reconcile may make of the requests.
Reconciled(b, requests, adapters) ==
  IF Discovery(b, requests, adapters) = {} THEN {requests}
  ELSE {requests \cup {r} : r \in Discovery(b, requests, adapters)}

\* The state after b is reconciled.
BtGood(b, requests, adapters, asked) ==
  /\ b \in BtServices
  /\ requests \subseteq BtRequests
  /\ PairingIsAsked(b, requests, asked)
  /\ DiscoveryIsSettled(b, requests, adapters)

\* A request reconcileDiscovery makes is one of discovery's to an adapter.
LEMMA DiscoveryTypes ==
  ASSUME NEW b \in BtServices, NEW requests, NEW adapters
  PROVE  /\ Desired(b, adapters) \subseteq AdapterSet
         /\ \A r \in Discovery(b, requests, adapters) : r \in BtRequests /\ r.target \in AdapterSet /\ r.role = "discovery"
BY DEF Desired, BtServices, Discovery, BtRequests

\* With no request to an adapter, reconcileDiscovery asks for nothing only
\* when the discoveries are as desired.
LEMMA ReconcileSettles ==
  ASSUME NEW b \in BtServices, NEW requests \in SUBSET BtRequests, NEW adapters,
         Discovery(b, requests, adapters) = {}
  PROVE  DiscoveryIsSettled(b, requests, adapters)
<1> SUFFICES ASSUME ~(\E r \in requests : r.target \in AdapterSet)
             PROVE  b.owned = Desired(b, adapters)
  BY DEF DiscoveryIsSettled
<1> DEFINE d == Desired(b, adapters)
<1>1. d \subseteq AdapterSet /\ b.owned \subseteq AdapterSet
  BY DiscoveryTypes DEF BtServices
<1>2. ~Running(requests, "discovery")
  BY DEF BtRequests, Running
<1>3. \A a \in AdapterSet : ~Busy(requests, a)
  BY DEF Busy
<1> HIDE DEF d
<1> DEFINE stops == {a \in b.owned \ d : ~Busy(requests, a)}
           starts == {a \in d \ b.owned : ~Busy(requests, a)}
<1>6. stops = {} /\ starts = {}
  BY <1>2 DEF Discovery, d
<1>4. b.owned \ d = {}
  BY <1>1, <1>3, <1>6
<1>5. d \ b.owned = {}
  BY <1>1, <1>3, <1>6
<1> QED
  BY <1>4, <1>5 DEF d

LEMMA ReconcileKeeps ==
  ASSUME NEW b \in BtServices, NEW requests \in SUBSET BtRequests, NEW adapters, NEW asked,
         PairingIsAsked(b, requests, asked), NEW q \in Reconciled(b, requests, adapters)
  PROVE  BtGood(b, q, adapters, asked)
BY ReconcileSettles, DiscoveryTypes DEF BtGood, Reconciled, PairingIsAsked, Running, DiscoveryIsSettled

\* What the requests are once the chain is cancelled.
CancelledChain(requests, q) ==
  /\ q \subseteq BtRequests
  /\ ~Running(q, "chain")
  /\ (\E r \in q : r.target \in AdapterSet) <=> (\E r \in requests : r.target \in AdapterSet)

LEMMA CancelChainTypes ==
  ASSUME NEW requests \in SUBSET BtRequests
  PROVE  CancelledChain(requests, CancelChain(requests))
<1> DEFINE F(r) == [r EXCEPT !.role = IF r.role = "chain" THEN "other" ELSE @]
<1>1. \A r \in BtRequests : F(r) \in BtRequests /\ F(r).role # "chain" /\ F(r).target = r.target
  BY DEF BtRequests
<1>2. CancelChain(requests) = {F(r) : r \in requests}
  BY DEF CancelChain
<1> HIDE DEF F
<1> QED
  BY <1>1, <1>2 DEF CancelledChain, Running

\* Without a chain nothing is paired.
LEMMA NoChainAsked ==
  ASSUME NEW b, NEW requests, NEW asked, ~Running(requests, "chain"), b.pairing = NoTarget
  PROVE  PairingIsAsked(b, requests, asked)
BY DEF PairingIsAsked, Running

\* The adapter that is selected is listed.
LEMMA UpdatedTypes ==
  ASSUME NEW b \in BtServices, NEW adapters \in BtAdapterStates, NEW devices
  PROVE  LET c == Updated(b, adapters, devices) IN
           /\ c \in BtServices
           /\ c.pairing = IF b.pairing \in devices THEN b.pairing ELSE NoTarget
<1> DEFINE listed == {i \in DOMAIN Adapters : adapters[Adapters[i]] # "gone"}
           powered == {i \in listed : adapters[Adapters[i]] = "on"}
           first == IF powered # {} THEN Adapters[Min(powered)] ELSE IF listed # {} THEN Adapters[Min(listed)] ELSE NoTarget
           kept == b.explicit /\ adapters[b.selected] # "gone"
           owned == {a \in b.owned : adapters[a] = "on"}
           pairing == IF b.pairing \in devices THEN b.pairing ELSE NoTarget
<1>1. DOMAIN Adapters \subseteq Nat /\ \A i \in DOMAIN Adapters : Adapters[i] \in AdapterSet
  BY BluetoothAssumption DEF AdapterSet
<1>2. ASSUME NEW T \in SUBSET DOMAIN Adapters, T # {} PROVE Min(T) \in T
  BY <1>1, <1>2, LeastOf DEF Min
<1>3. first \in AdapterSet \cup {NoTarget}
  BY <1>1, <1>2
<1>4. kept \in BOOLEAN
  OBVIOUS
<1>5. owned \in SUBSET AdapterSet /\ pairing \in Devices \cup {NoTarget}
  BY DEF BtServices
<1>6. Updated(b, adapters, devices) = [b EXCEPT !.explicit = kept, !.selected = IF kept THEN @ ELSE first,
                                                !.owned = owned, !.pairing = pairing]
  BY DEF Updated
<1> HIDE DEF first, kept, owned, pairing
<1>7. Updated(b, adapters, devices) \in BtServices
  BY <1>3, <1>4, <1>5, <1>6 DEF BtServices
<1>8. Updated(b, adapters, devices).pairing = pairing
  BY <1>6 DEF BtServices
<1> QED
  BY <1>7, <1>8 DEF pairing

\* A publication of the controller.
LEMMA SnapshotKeeps ==
  ASSUME BtInv, NEW adapters \in BtAdapterStates, NEW devices \in SUBSET Devices,
         BluetoothSnapshot(adapters, devices)
  PROVE  BtInv'
<1> DEFINE b == Updated(bluetooth, adapters, devices)
           q == IF bluetooth.pairing # b.pairing THEN CancelChain(btRequests) ELSE btRequests
           asked == IF btAsked \in devices THEN btAsked ELSE NoTarget
<1>1. bluetooth \in BtServices /\ btRequests \in SUBSET BtRequests /\ PairingIsAsked(bluetooth, btRequests, btAsked)
  BY DEF BtInv, BluetoothTypeOK
<1>2. b \in BtServices /\ b.pairing = IF bluetooth.pairing \in devices THEN bluetooth.pairing ELSE NoTarget
  BY <1>1, UpdatedTypes
<1>3. /\ btAdapters' = adapters /\ btDevices' = devices /\ btAsked' = asked
      /\ bluetooth' = b /\ btRequests' \in Reconciled(b, q, adapters)
  BY DEF BluetoothSnapshot, Reconcile, Reconciled
<1> HIDE DEF b
<1>4. CancelledChain(btRequests, CancelChain(btRequests))
  BY <1>1, CancelChainTypes
<1>5. q \in SUBSET BtRequests /\ PairingIsAsked(b, q, asked)
  BY <1>2, <1>1, <1>4, NoChainAsked, BluetoothAssumption DEF PairingIsAsked, CancelledChain, BtRequests, Running
<1> HIDE DEF q
<1>6. BtGood(b, btRequests', adapters, asked)
  BY <1>2, <1>3, <1>5, ReconcileKeeps
<1>7. BtGood(bluetooth', btRequests', btAdapters', btAsked')
  BY <1>3, <1>6
<1>8. btAsked \in Devices \cup {NoTarget}
  BY DEF BtInv, BluetoothTypeOK
<1> QED
  BY <1>3, <1>7, <1>8 DEF BtGood, BtInv, BluetoothTypeOK, BtAdapterStates

\* A step that leaves the controller's lists alone and the service good.
LEMMA BtStepKeeps ==
  ASSUME BtInv, UNCHANGED <<btAdapters, btDevices>>, btAsked' \in Devices \cup {NoTarget},
         BtGood(bluetooth', btRequests', btAdapters, btAsked')
  PROVE  BtInv'
BY DEF BtInv, BtGood, BluetoothTypeOK

\* What discovery is desired on, and held on, is of three fields.
LEMMA SettledFields ==
  ASSUME NEW b, NEW c, NEW requests, NEW q, NEW adapters,
         c.scan = b.scan, c.selected = b.selected, c.owned = b.owned,
         (\E r \in q : r.target \in AdapterSet) <=> (\E r \in requests : r.target \in AdapterSet),
         DiscoveryIsSettled(b, requests, adapters)
  PROVE  DiscoveryIsSettled(c, q, adapters)
BY DEF DiscoveryIsSettled, Desired

\* A request is over, of the chain or not.
LEMMA CompletedKeeps ==
  ASSUME BtInv, NEW r \in btRequests, NEW ok \in BOOLEAN, Completed(r, ok)
  PROVE  BtInv'
<1> DEFINE goesOn == r.role = "chain" /\ ok /\ r.op # "Connect"
           next == [op |-> IF r.op = "Pair" THEN "Trust" ELSE "Connect", target |-> bluetooth.pairing, role |-> "chain"]
           pairing == IF r.role = "chain" /\ ~goesOn THEN NoTarget ELSE bluetooth.pairing
           scan == bluetooth.scan /\ (r.role = "discovery" => ok)
           owned == IF r.role # "discovery" THEN bluetooth.owned
                    ELSE IF ok /\ r.op = "start" THEN bluetooth.owned \cup {r.target} ELSE bluetooth.owned \ {r.target}
           b == [bluetooth EXCEPT !.pairing = pairing, !.scan = scan, !.owned = owned]
           q == (btRequests \ {r}) \cup (IF goesOn THEN {next} ELSE {})
           asked == IF r.role = "chain" /\ ~goesOn THEN NoTarget ELSE btAsked
<1>1. /\ bluetooth \in BtServices /\ btRequests \in SUBSET BtRequests /\ PairingIsAsked(bluetooth, btRequests, btAsked)
      /\ btAsked \in Devices \cup {NoTarget}
  BY DEF BtInv, BluetoothTypeOK
<1>2. /\ bluetooth' = b /\ btRequests' \in Reconciled(b, q, btAdapters) /\ btAsked' = asked
      /\ UNCHANGED <<btAdapters, btDevices>>
  BY DEF Completed, Reconcile, Reconciled
<1>3. r \in BtRequests
  BY <1>1
<1>4. r.role = "chain" => r.target = bluetooth.pairing /\ r.target = btAsked /\ r.target \in Devices
  BY <1>1, <1>3 DEF PairingIsAsked, BtRequests
<1>5. r.role = "discovery" => r.target \in AdapterSet
  BY <1>3 DEF BtRequests
<1>6. b \in BtServices /\ b.pairing = pairing
  <2>1. pairing \in Devices \cup {NoTarget} /\ scan \in BOOLEAN /\ owned \in SUBSET AdapterSet
    BY <1>1, <1>5 DEF BtServices
  <2> HIDE DEF pairing, scan, owned
  <2> QED
    BY <1>1, <2>1 DEF BtServices
<1>7. q \in SUBSET BtRequests
  BY <1>1, <1>4 DEF BtRequests
<1>8. PairingIsAsked(b, q, asked)
  <2>1. CASE r.role # "chain"
    BY <2>1, <1>6, <1>1 DEF PairingIsAsked, Running
  <2>2. CASE r.role = "chain" /\ ~goesOn
    BY <2>2, <1>1, <1>6, NoChainAsked DEF PairingIsAsked, Running
  <2>3. CASE r.role = "chain" /\ goesOn
    <3>1. pairing = bluetooth.pairing /\ asked = btAsked /\ q = (btRequests \ {r}) \cup {next}
      BY <2>3
    <3>2. b.pairing = bluetooth.pairing
      BY <1>6, <3>1
    <3>3. \A s \in btRequests \ {r} : s.role # "chain"
      BY <1>1, <2>3 DEF PairingIsAsked
    <3>4. next.role = "chain" /\ next.target = bluetooth.pairing
      OBVIOUS
    <3>5. bluetooth.pairing = btAsked
      BY <1>4, <2>3
    <3> HIDE DEF b, q, asked, next
    <3> QED
      BY <3>1, <3>2, <3>3, <3>4, <3>5 DEF PairingIsAsked, Running
  <2> QED
    BY <2>1, <2>2, <2>3
<1>9. asked \in Devices \cup {NoTarget}
  BY <1>1
<1> HIDE DEF b, q, asked
<1>10. BtGood(b, btRequests', btAdapters, asked)
  BY <1>2, <1>6, <1>7, <1>8, ReconcileKeeps
<1> QED
  BY <1>2, <1>9, <1>10, BtStepKeeps

\* What the user does reconciles or leaves the discovery alone.
LEMMA UserKeeps ==
  ASSUME BtInv, SetActive \/ ReleaseTimeout \/ AdapterOperation \/ CancelPairing
                \/ (\E enabled \in BOOLEAN : Scan(enabled))
                \/ (\E a \in AdapterSet : SelectAdapter(a)) \/ (\E d \in Devices : Pair(d))
  PROVE  BtInv'
<1>1. /\ bluetooth \in BtServices /\ btRequests \in SUBSET BtRequests /\ PairingIsAsked(bluetooth, btRequests, btAsked)
      /\ btAsked \in Devices \cup {NoTarget} /\ DiscoveryIsSettled(bluetooth, btRequests, btAdapters)
  BY DEF BtInv, BluetoothTypeOK
<1>2. CancelledChain(btRequests, CancelChain(btRequests))
  BY <1>1, CancelChainTypes
<1> DEFINE cancelled == CancelChain(btRequests)
<1> HIDE DEF cancelled
<1>3. cancelled \in SUBSET BtRequests /\ CancelledChain(btRequests, cancelled)
  BY <1>2 DEF CancelledChain, cancelled
<1>4. bluetooth.active \in BOOLEAN /\ bluetooth.scan \in BOOLEAN
  BY <1>1 DEF BtServices
<1>5. ASSUME NEW b \in BtServices, NEW q \in SUBSET BtRequests, NEW asked \in Devices \cup {NoTarget},
             PairingIsAsked(b, q, asked), bluetooth' = b, btAsked' = asked,
             btRequests' \in Reconciled(b, q, btAdapters), UNCHANGED <<btAdapters, btDevices>>
      PROVE  BtInv'
  BY <1>5, ReconcileKeeps, BtStepKeeps
<1>6. ASSUME NEW b \in BtServices, b.pairing = NoTarget, bluetooth' = b, btAsked' = NoTarget,
             btRequests' = cancelled, UNCHANGED <<btAdapters, btDevices>>,
             b.scan = bluetooth.scan, b.selected = bluetooth.selected, b.owned = bluetooth.owned
      PROVE  BtInv'
  BY <1>3, <1>6, NoChainAsked, <1>1, SettledFields, BtStepKeeps DEF CancelledChain, BtGood
<1>7. CASE SetActive
  <2>1. CASE bluetooth.active
    <3> DEFINE b == [Cancelled(bluetooth) EXCEPT !.active = FALSE, !.release = TRUE]
    <3>1. b \in BtServices /\ b.pairing = NoTarget
      BY <1>1 DEF BtServices, Cancelled
    <3>2. b.scan = bluetooth.scan /\ b.selected = bluetooth.selected /\ b.owned = bluetooth.owned
      BY <1>1 DEF Cancelled, BtServices
    <3>3. bluetooth' = b /\ btRequests' = cancelled /\ btAsked' = NoTarget /\ UNCHANGED <<btAdapters, btDevices>>
      BY <1>7, <2>1 DEF SetActive, cancelled
    <3> HIDE DEF b
    <3> QED
      BY <1>6, <3>1, <3>2, <3>3
  <2>2. CASE ~bluetooth.active
    <3> DEFINE b == [bluetooth EXCEPT !.active = TRUE, !.release = FALSE, !.scan = TRUE]
    <3>1. b \in BtServices /\ b.pairing = bluetooth.pairing
      BY <1>1 DEF BtServices, Cancelled
    <3>2. /\ bluetooth' = b /\ btRequests' \in Reconciled(b, btRequests, btAdapters) /\ btAsked' = btAsked
          /\ UNCHANGED <<btAdapters, btDevices>>
      BY <1>7, <2>2 DEF SetActive, Reconcile, Reconciled
    <3> HIDE DEF b
    <3>3. PairingIsAsked(b, btRequests, btAsked)
      BY <1>1, <3>1 DEF PairingIsAsked
    <3> QED
      BY <1>1, <1>5, <3>1, <3>2, <3>3
  <2> QED
    BY <2>1, <2>2
<1>8. CASE ReleaseTimeout
  <2> DEFINE b == [bluetooth EXCEPT !.release = FALSE, !.scan = FALSE]
  <2>1. b \in BtServices /\ b.pairing = bluetooth.pairing
    BY <1>1 DEF BtServices, Cancelled
  <2>2. /\ bluetooth' = b /\ btRequests' \in Reconciled(b, btRequests, btAdapters) /\ btAsked' = btAsked
        /\ UNCHANGED <<btAdapters, btDevices>>
    BY <1>8 DEF ReleaseTimeout, Reconcile, Reconciled
  <2> HIDE DEF b
  <2>3. PairingIsAsked(b, btRequests, btAsked)
    BY <1>1, <2>1 DEF PairingIsAsked
  <2> QED
    BY <1>1, <1>5, <2>1, <2>2, <2>3
<1>9. ASSUME NEW enabled \in BOOLEAN, Scan(enabled) PROVE BtInv'
  <2> DEFINE scan == enabled /\ bluetooth.active
             b == [bluetooth EXCEPT !.release = FALSE, !.scan = scan]
  <2>1. scan \in BOOLEAN
    BY <1>4
  <2>2. /\ bluetooth' = b /\ btRequests' \in Reconciled(b, btRequests, btAdapters) /\ btAsked' = btAsked
        /\ UNCHANGED <<btAdapters, btDevices>>
    BY <1>9 DEF Scan, Reconcile, Reconciled
  <2> HIDE DEF scan
  <2>3. b \in BtServices /\ b.pairing = bluetooth.pairing
    BY <1>1, <2>1 DEF BtServices, Cancelled
  <2> HIDE DEF b
  <2>4. PairingIsAsked(b, btRequests, btAsked)
    BY <1>1, <2>3 DEF PairingIsAsked
  <2> QED
    BY <1>1, <1>5, <2>2, <2>3, <2>4
<1>10. CASE AdapterOperation
  BY <1>1, <1>10, BtStepKeeps DEF AdapterOperation, BtRequests, BtServices, PairingIsAsked, Running,
     DiscoveryIsSettled, BtGood
<1>11. CASE CancelPairing
  BY <1>1, <1>11, <1>6 DEF BtServices, Cancelled, CancelPairing, cancelled
<1>12. ASSUME NEW a \in AdapterSet, SelectAdapter(a) PROVE BtInv'
  <2>1. CASE bluetooth.selected = a
    <3> DEFINE b == [bluetooth EXCEPT !.explicit = TRUE]
    <3>1. b \in BtServices /\ b.pairing = bluetooth.pairing
          /\ b.scan = bluetooth.scan /\ b.selected = bluetooth.selected /\ b.owned = bluetooth.owned
      BY <1>1 DEF BtServices
    <3>2. bluetooth' = b /\ UNCHANGED <<btAdapters, btDevices, btRequests, btAsked>>
      BY <1>12, <2>1 DEF SelectAdapter
    <3> HIDE DEF b
    <3>3. PairingIsAsked(b, btRequests, btAsked)
      BY <1>1, <3>1 DEF PairingIsAsked
    <3>4. DiscoveryIsSettled(b, btRequests, btAdapters)
      BY <1>1, <3>1 DEF DiscoveryIsSettled, Desired
    <3> QED
      BY <1>1, <3>1, <3>2, <3>3, <3>4, BtStepKeeps DEF BtGood
  <2>2. CASE bluetooth.selected # a
    <3> DEFINE b == [Cancelled(bluetooth) EXCEPT !.selected = a, !.explicit = TRUE]
    <3>1. b \in BtServices /\ b.pairing = NoTarget
      BY <1>1 DEF BtServices, Cancelled
    <3>2. /\ bluetooth' = b /\ btRequests' \in Reconciled(b, cancelled, btAdapters) /\ btAsked' = NoTarget
          /\ UNCHANGED <<btAdapters, btDevices>>
      BY <1>12, <2>2 DEF SelectAdapter, Reconcile, Reconciled, cancelled
    <3> HIDE DEF b
    <3>3. PairingIsAsked(b, cancelled, NoTarget)
      BY <1>3, <3>1, NoChainAsked DEF CancelledChain
    <3> QED
      BY <1>3, <1>5, <3>1, <3>2, <3>3
  <2> QED
    BY <2>1, <2>2
<1>13. ASSUME NEW d \in Devices, Pair(d) PROVE BtInv'
  <2> DEFINE r == [op |-> "Pair", target |-> d, role |-> "chain"]
             b == [bluetooth EXCEPT !.pairing = d]
  <2>1. r \in BtRequests /\ r.role = "chain" /\ r.target = d /\ r.target \notin AdapterSet
    BY BluetoothAssumption DEF BtRequests
  <2>2. b \in BtServices /\ b.pairing = d
        /\ b.scan = bluetooth.scan /\ b.selected = bluetooth.selected /\ b.owned = bluetooth.owned
    BY <1>1 DEF BtServices
  <2>3. /\ bluetooth' = b /\ btRequests' = cancelled \cup {r} /\ btAsked' = d
        /\ UNCHANGED <<btAdapters, btDevices>>
    BY <1>13 DEF Pair, cancelled
  <2> HIDE DEF b, r
  <2>4. PairingIsAsked(b, cancelled \cup {r}, d)
    BY <1>3, <2>1, <2>2 DEF CancelledChain, PairingIsAsked, Running
  <2>5. (\E s \in cancelled \cup {r} : s.target \in AdapterSet) <=> (\E s \in btRequests : s.target \in AdapterSet)
    BY <1>3, <2>1 DEF CancelledChain
  <2>6. DiscoveryIsSettled(b, cancelled \cup {r}, btAdapters)
    BY <1>1, <2>2, <2>5, SettledFields
  <2> QED
    BY <1>3, <2>1, <2>2, <2>3, <2>4, <2>6, BtStepKeeps DEF BtGood
<1> QED
  BY <1>7, <1>8, <1>9, <1>10, <1>11, <1>12, <1>13

\* For any adapters and devices, only what the user wants paired is trusted
\* and connected, and when nothing runs the discoveries are as desired.
THEOREM BluetoothIsFollowed ==
  BluetoothInit /\ [][BluetoothNext]_btVars => [](BluetoothTypeOK /\ BluetoothFollowsTheUser)
<1>1. BluetoothInit => BtInv
  BY DEF BluetoothInit, BluetoothTypeOK, BtServices, PairingIsAsked, DiscoveryIsSettled, Desired, BtInv
<1>2. BtInv /\ [BluetoothNext]_btVars => BtInv'
  <2> SUFFICES ASSUME BtInv, [BluetoothNext]_btVars PROVE BtInv'
    OBVIOUS
  <2>1. ASSUME NEW a \in AdapterSet, AdapterChanges(a) PROVE BtInv'
    <3>1. PICK s \in {"gone", "off", "on"} \ {btAdapters[a]} : BluetoothSnapshot([btAdapters EXCEPT ![a] = s], btDevices)
      BY <2>1 DEF AdapterChanges
    <3>2. [btAdapters EXCEPT ![a] = s] \in BtAdapterStates /\ btDevices \in SUBSET Devices
      BY DEF BtInv, BluetoothTypeOK, BtAdapterStates
    <3> QED
      BY <3>1, <3>2, SnapshotKeeps
  <2>2. ASSUME NEW d \in Devices, DeviceChanges(d) PROVE BtInv'
    BY <2>2, SnapshotKeeps DEF BtInv, BluetoothTypeOK, BtAdapterStates, DeviceChanges
  <2>3. ASSUME UNCHANGED btVars PROVE BtInv'
    BY <2>3 DEF btVars, BtInv, BluetoothTypeOK, PairingIsAsked, Running, DiscoveryIsSettled
  <2> QED
    BY <2>1, <2>2, <2>3, UserKeeps, CompletedKeeps DEF BluetoothNext
<1>3. BtInv => BluetoothTypeOK /\ BluetoothFollowsTheUser
  BY DEF BtInv, PairingIsAsked, DiscoveryIsSettled, BluetoothFollowsTheUser
<1> QED
  BY <1>1, <1>2, <1>3, PTL

----------------------------------------------------------------------------
(***************************************************************************)
(* The services together.                                                  *)
(***************************************************************************)

Services == {"network", "tray", "menu", "players", "covers", "bluetooth"}

LEMMA ServicesStart ==
  ASSUME MCInit
  PROVE  /\ used \in Services
         /\ NetworkInit /\ TrayInit /\ MenuInit /\ MediaInit /\ ArtworkInit /\ BluetoothInit
BY DEF MCInit, Services

\* Every step of the program is one of each service, or leaves it alone.
LEMMA ServicesStep ==
  ASSUME [MCNext]_allVars
  PROVE  /\ UNCHANGED used
         /\ [NetworkNext]_networkVars /\ [TrayNext]_trayVars /\ [MenuNext]_menuVars
         /\ [MediaNext]_mediaVars /\ [ArtworkNext]_coverVars /\ [BluetoothNext]_btVars
BY DEF MCNext, allVars, CoversTold

LEMMA ServicesRun ==
  MCSpec => /\ [](used \in Services)
            /\ NetworkInit /\ [][NetworkNext]_networkVars
            /\ TrayInit /\ [][TrayNext]_trayVars
            /\ MenuInit /\ [][MenuNext]_menuVars
            /\ MediaInit /\ [][MediaNext]_mediaVars
            /\ ArtworkInit /\ [][ArtworkNext]_coverVars
            /\ BluetoothInit /\ [][BluetoothNext]_btVars
<1>1. ASSUME used \in Services, [MCNext]_allVars PROVE (used \in Services)'
  BY <1>1, ServicesStep
<1> QED
  BY <1>1, ServicesStart, ServicesStep, PTL DEF MCSpec

\* What the user did to the network is shown in the end, and a whole reading is of
\* one moment of NetworkManager: in every behaviour.
THEOREM NetworkIsAlwaysTold == MCSpec => []NetworkIsTold
<1>1. NoEffectIsForgotten /\ WholeReadingIsCurrent => NetworkIsTold
  BY DEF NetworkIsTold
<1> QED
  BY <1>1, ServicesRun, NetworkIsFollowed, PTL

\* The tray shows the items of the programs that live, once each, and an open menu
\* is that of a client that lives: in every behaviour.
THEOREM TrayIsAlwaysTrue == MCSpec => []TrayIsTrue
<1>1. TrayAgrees /\ NoGhostRows /\ MenuIsLive => TrayIsTrue
  BY DEF TrayIsTrue
<1> QED
  BY <1>1, ServicesRun, TrayIsKept, MenuPointsToTheLiving, PTL

\* The players that are shown are those there are, as they are, and every request
\* for a cover is answered once: in every behaviour.
THEOREM MediaIsAlwaysTrue == MCSpec => []MediaIsTrue
<1>1. MediaShowsThePlayers /\ MediaTimersAgree /\ EveryCoverIsTold /\ CacheIsAccounted => MediaIsTrue
  BY DEF MediaIsTrue
<1> QED
  BY <1>1, ServicesRun, PlayersAreShown, CoversAreTold, PTL

\* Only what the user still wants paired is trusted and connected, and once nothing
\* runs discovery is held exactly where it should be: in every behaviour.
THEOREM BluetoothAlwaysFollows == MCSpec => []BluetoothFollowsTheUser
BY ServicesRun, BluetoothIsFollowed, PTL

\* The state of every service is well formed: in every behaviour.
THEOREM ServicesAreWellFormed == MCSpec => []TypesOK
<1>1. /\ used \in Services
      /\ NetworkTypeOK /\ TrayTypeOK /\ MenuTypeOK /\ MediaTypeOK /\ ArtworkTypeOK /\ BluetoothTypeOK
      => TypesOK
  BY DEF TypesOK, Services
<1> QED
  BY <1>1, ServicesRun, NetworkIsFollowed, TrayIsKept, MenuPointsToTheLiving, PlayersAreShown, CoversAreTold,
     BluetoothIsFollowed, PTL
=============================================================================
