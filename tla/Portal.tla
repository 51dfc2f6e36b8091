-------------------------------- MODULE Portal --------------------------------
(***************************************************************************)
(* PortalService: the probe of the desktop portal's broker, its interfaces,*)
(* backends and settings, by asynchronous D-Bus calls.  Replies of the bus *)
(* and of the broker, and signals, reach the service in the order the bus  *)
(* passes them on; the broker comes and goes between any two of them.      *)
(***************************************************************************)
EXTENDS Naturals, Sequences

CONSTANTS Schemes, Backends,
          NoScheme,       \* color_scheme_ as constructed
          MaxCalls,       \* bound: calls and signals on their way
          MaxTurns        \* bound: times the broker starts

ASSUME PortalAssumption == MaxTurns \in Nat

Faces == {"settings", "files"}   \* interfaces of the broker

VARIABLES
  portalBroker,   \* the broker: alive, its interfaces, its color scheme; turns bounds its starts
  portalImpls,    \* names of backends on the bus
  portalCalls,    \* calls not yet answered: to the bus, and to the broker
  portalInbox,    \* replies and signals on their way to the service
  portal,         \* the members of PortalService
  portalMissed    \* what a failed call left unread; not in the code

portalVars == <<portalBroker, portalImpls, portalCalls, portalInbox, portal, portalMissed>>

PortalTypeOK ==
  /\ portalBroker \in [alive : BOOLEAN, faces : SUBSET Faces, scheme : Schemes, turns : 0..MaxTurns]
  /\ portalImpls \subseteq Backends
  /\ portalCalls.bus \in Seq({"owner", "names", "refresh"}) /\ portalCalls.broker \in Seq({"introspect", "scheme"})
  /\ portal.available \in BOOLEAN /\ portal.faces \subseteq Faces /\ portal.backends \subseteq Backends
  /\ portal.scheme \in Schemes \cup {NoScheme} /\ portal.probing \in BOOLEAN
  /\ portalMissed \subseteq {"owner", "names", "faces", "scheme"}

PortalInit ==
  /\ portalBroker \in [alive : BOOLEAN, faces : {Faces, {"files"}}, scheme : Schemes, turns : {0}]
  /\ portalImpls = {} /\ portalCalls = [bus |-> <<>>, broker |-> <<>>] /\ portalInbox = <<>>
  /\ portal = [available |-> FALSE, faces |-> {}, backends |-> {}, scheme |-> NoScheme,
               probing |-> FALSE, count |-> 0, started |-> FALSE]
  /\ portalMissed = {}

----------------------------------------------------------------------------
(* The bus and the broker.                                                 *)

Room == Len(portalInbox) + Len(portalCalls.bus) + Len(portalCalls.broker) < MaxCalls

Message(kind, ok, value) == [kind |-> kind, ok |-> ok, value |-> value]

\* The broker starts, or ends: its pending calls fail, and its name changes hands.
BrokerTurns ==
  /\ Room
  /\ portalBroker.alive \/ portalBroker.turns < MaxTurns
  /\ \E f \in {Faces, {"files"}}, c \in Schemes :
       portalBroker' = IF portalBroker.alive THEN [portalBroker EXCEPT !.alive = FALSE]
                       ELSE [alive |-> TRUE, faces |-> f, scheme |-> c, turns |-> portalBroker.turns + 1]
  /\ portalInbox' = portalInbox \o ([i \in 1..Len(portalCalls.broker) |-> Message(portalCalls.broker[i], FALSE, {})]
                                      \o <<Message(IF portalBroker.alive THEN "gone" ELSE "here", TRUE, {})>>)
  /\ portalCalls' = [portalCalls EXCEPT !.broker = <<>>]
  /\ UNCHANGED <<portalImpls, portal, portalMissed>>

SchemeChanges(c) ==
  /\ Room /\ portalBroker.alive /\ portalBroker.scheme # c
  /\ portalBroker' = [portalBroker EXCEPT !.scheme = c]
  /\ portalInbox' = Append(portalInbox, Message("changed", TRUE, c))
  /\ UNCHANGED <<portalImpls, portalCalls, portal, portalMissed>>

BackendTurns(b) ==
  /\ Room
  /\ portalImpls' = IF b \in portalImpls THEN portalImpls \ {b} ELSE portalImpls \cup {b}
  /\ portalInbox' = Append(portalInbox, Message("impls", TRUE, {}))
  /\ UNCHANGED <<portalBroker, portalCalls, portal, portalMissed>>

\* The bus answers its calls in order; a call may also time out.
BusAnswers ==
  /\ portalCalls.bus # <<>>
  /\ LET kind == Head(portalCalls.bus)
         value == IF kind = "owner" THEN portalBroker.alive ELSE portalImpls IN
     \E ok \in BOOLEAN :
       portalInbox' = Append(portalInbox, Message(kind, ok, IF ok THEN value ELSE {}))
  /\ portalCalls' = [portalCalls EXCEPT !.bus = Tail(@)]
  /\ UNCHANGED <<portalBroker, portalImpls, portal, portalMissed>>

BrokerAnswers ==
  /\ portalCalls.broker # <<>>
  /\ LET kind == Head(portalCalls.broker)
         value == IF kind = "introspect" THEN portalBroker.faces ELSE portalBroker.scheme IN
     \E ok \in {FALSE, portalBroker.alive} :
       portalInbox' = Append(portalInbox, Message(kind, ok, IF ok THEN value ELSE {}))
  /\ portalCalls' = [portalCalls EXCEPT !.broker = Tail(@)]
  /\ UNCHANGED <<portalBroker, portalImpls, portal, portalMissed>>

----------------------------------------------------------------------------
(* The service.                                                            *)

Calls(bus, broker) ==
  portalCalls' = [bus |-> portalCalls.bus \o bus, broker |-> portalCalls.broker \o broker]

\* onBrokerDisappeared
BrokerDisappeared(p) ==
  [p EXCEPT !.available = FALSE, !.faces = {}, !.backends = {}, !.probing = FALSE, !.count = 0]

\* startProbe
StartProbe ==
  IF portal.probing THEN UNCHANGED <<portal, portalCalls>>
  ELSE portal' = [portal EXCEPT !.probing = TRUE, !.count = 0, !.started = TRUE] /\ Calls(<<"owner">>, <<>>)

\* The constructor's single shot.
PortalStarts ==
  /\ ~portal.started /\ portal' = [portal EXCEPT !.probing = TRUE, !.count = 0, !.started = TRUE]
  /\ Calls(<<"owner">>, <<>>)
  /\ UNCHANGED <<portalBroker, portalImpls, portalInbox, portalMissed>>

\* onNameHasOwnerReply: introspection and the list of names are asked for together.
NameHasOwnerReply(m) ==
  IF m.ok /\ m.value
  THEN portal' = [portal EXCEPT !.available = TRUE, !.count = 2] /\ Calls(<<"names">>, <<"introspect">>)
  ELSE portal' = [portal EXCEPT !.available = FALSE, !.probing = FALSE] /\ UNCHANGED portalCalls

\* One of the two replies, applied as p; finishProbe reads the settings after the second.
ProbeReply(p) ==
  IF p.count <= 1
  THEN /\ portal' = [p EXCEPT !.probing = FALSE, !.count = 0]
       /\ IF "settings" \in p.faces THEN Calls(<<>>, <<"scheme">>) ELSE UNCHANGED portalCalls
  ELSE portal' = [p EXCEPT !.count = @ - 1] /\ UNCHANGED portalCalls

Reply(m) ==
  CASE m.kind = "owner"      -> NameHasOwnerReply(m)
    [] m.kind = "introspect" -> IF ~portal.available THEN UNCHANGED <<portal, portalCalls>>
                                ELSE ProbeReply(IF m.ok THEN [portal EXCEPT !.faces = m.value] ELSE portal)
    [] m.kind = "names"      -> IF ~portal.available THEN UNCHANGED <<portal, portalCalls>>
                                ELSE ProbeReply(IF m.ok THEN [portal EXCEPT !.backends = m.value] ELSE portal)
    [] m.kind = "refresh"    -> portal' = (IF m.ok THEN [portal EXCEPT !.backends = m.value] ELSE portal)
                                /\ UNCHANGED portalCalls
    [] m.kind = "scheme"     -> portal' = (IF m.ok THEN [portal EXCEPT !.scheme = m.value] ELSE portal)
                                /\ UNCHANGED portalCalls
    [] m.kind = "changed"    -> portal' = [portal EXCEPT !.scheme = m.value] /\ UNCHANGED portalCalls
    [] m.kind = "impls"      -> UNCHANGED portal /\ Calls(<<"refresh">>, <<>>)
    [] m.kind = "here"       -> StartProbe
    [] m.kind = "gone"       -> portal' = BrokerDisappeared(portal) /\ UNCHANGED portalCalls

\* What the reply leaves unread, or makes good.
Missed(m) ==
  LET about == CASE m.kind \in {"names", "refresh"} -> "names" [] m.kind = "introspect" -> "faces"
                 [] m.kind \in {"scheme", "changed"} -> "scheme" [] m.kind = "gone" -> "names" [] OTHER -> "owner" IN
  IF m.kind = "gone" THEN {"names"} \cup (portalMissed \ {"owner"})
  ELSE IF m.kind \in {"impls", "here"} THEN portalMissed
  ELSE IF m.ok THEN portalMissed \ {about} ELSE portalMissed \cup {about}

PortalHears ==
  /\ portalInbox # <<>> /\ portalInbox' = Tail(portalInbox)
  /\ Reply(Head(portalInbox))
  /\ portalMissed' = Missed(Head(portalInbox))
  /\ UNCHANGED <<portalBroker, portalImpls>>

PortalNext ==
  \/ BrokerTurns \/ BusAnswers \/ BrokerAnswers \/ PortalStarts \/ PortalHears
  \/ \E c \in Schemes : SchemeChanges(c)
  \/ \E b \in Backends : BackendTurns(b)

----------------------------------------------------------------------------
(* Properties.                                                             *)

\* Once every call is answered and every signal heard, and but for what a failed call
\* left unread: the broker is available exactly when it is on the bus, with its
\* interfaces, its color scheme and the backends on the bus; no probe is left in flight,
\* which would refuse the next one.
PortalSettles ==
  portal.started /\ portalInbox = <<>> /\ portalCalls = [bus |-> <<>>, broker |-> <<>>] =>
    /\ ~portal.probing
    /\ "owner" \notin portalMissed =>
         portal.available = portalBroker.alive /\ (~portal.available => portal.faces = {})
    /\ portal.available =>
         /\ "faces" \notin portalMissed => portal.faces = portalBroker.faces
         /\ {"scheme", "faces"} \cap portalMissed = {} /\ "settings" \in portal.faces
              => portal.scheme = portalBroker.scheme
         /\ "names" \notin portalMissed => portal.backends = portalImpls
=============================================================================
