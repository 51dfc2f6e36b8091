------------------------------ MODULE Compositor ------------------------------
(***************************************************************************)
(* What the shell knows of its compositor.                                 *)
(*                                                                         *)
(* CompositorService with its WindowCatalog, the workspace rows the bar    *)
(* shows, and WindowPresentation, whose order of windows stands still      *)
(* while the overview is open.  Snapshots come from the integration.       *)
(*                                                                         *)
(* HyprlandLayoutProvider over ShellHyprlandIpcClient: an event stream     *)
(* that reconnects, read a chunk at a time into lines, and one command     *)
(* socket for the query sent when the stream connects.  The two sockets    *)
(* are not ordered with each other.  A line is two pieces, which a chunk   *)
(* may part.  layoutLost is a ghost: why the layout may be out of date.    *)
(***************************************************************************)
EXTENDS Naturals, Sequences, FiniteSets, SequencesExt, Subsequences

CONSTANTS Windows,
          MaxWorkspaces,  \* bound: workspaces in a snapshot, and rows in the bar
          MaxSnapshots    \* bound: snapshots with an activation

ASSUME CompositorAssumption == IsFiniteSet(Windows) /\ MaxWorkspaces \in Nat

VARIABLES
  snapshot,       \* the windows listed and those activated
  windowCatalog,  \* active_, history_ and sequence_
  overview,       \* order_ and frozen_
  lastActive      \* ghost: the windows in the order in which they were last given the focus

compositorVars == <<snapshot, windowCatalog, overview, lastActive>>

Listed == ToSet(snapshot.windows)
Orders == UNION {{s \in [1..n -> Windows] : IsInjective(s)} : n \in 0..Cardinality(Windows)}

CompositorTypeOK ==
  /\ snapshot.windows \in Orders /\ snapshot.activated \subseteq Listed
  /\ windowCatalog.active \subseteq Windows /\ windowCatalog.history \in [Windows -> Nat]
  /\ windowCatalog.sequence \in Nat
  /\ overview.order \in Orders /\ overview.frozen \in BOOLEAN /\ lastActive \in Orders

CompositorInit ==
  /\ snapshot = [windows |-> <<>>, activated |-> {}]
  /\ windowCatalog = [active |-> {}, history |-> [w \in Windows |-> 0], sequence |-> 0]
  /\ overview = [order |-> <<>>, frozen |-> FALSE] /\ lastActive = <<>>

----------------------------------------------------------------------------
(* WindowCatalog.                                                          *)

\* replace: windows that are activated and were not are numbered in order; closed ones are forgotten.
CatalogReplaced(catalog, windows, activated) ==
  LET fresh == ElementsIn(windows, activated \ catalog.active) IN
  [active |-> activated,
   sequence |-> catalog.sequence + Len(fresh),
   history |-> [w \in Windows |-> IF w \notin ToSet(windows) THEN 0
                                  ELSE IF w \in ToSet(fresh) THEN catalog.sequence + CHOOSE i \in DOMAIN fresh : fresh[i] = w
                                  ELSE catalog.history[w]]]

----------------------------------------------------------------------------
(* WindowPresentation.                                                     *)

\* The windows by activation, those never activated last in the order they are listed.
ByActivation(windows, catalog) ==
  LET numbers == {catalog.history[w] : w \in ToSet(windows)} \ {0}
      latest == [k \in 1..Cardinality(numbers) |-> IndexAt(numbers, Cardinality(numbers) + 1 - k)] IN
  [k \in DOMAIN latest |-> CHOOSE w \in ToSet(windows) : catalog.history[w] = latest[k]]
    \o ElementsIn(windows, {w \in Windows : catalog.history[w] = 0})

\* Mutant: while the overview is open the cards are sorted as well.
AlwaysSorted(view, windows, catalog) == [view EXCEPT !.order = ByActivation(windows, catalog)]

\* Mutant: while frozen, all listed windows are appended.
AppendsAll(view, windows, catalog) ==
  [view EXCEPT !.order = IF view.frozen THEN ElementsIn(view.order, ToSet(windows)) \o windows
                         ELSE ByActivation(windows, catalog)]

\* refresh: sorted, or, while frozen, new windows last and closed ones removed.
OverviewRefreshed(view, windows, catalog) ==
  [view EXCEPT !.order =
     IF view.frozen THEN ElementsIn(view.order, ToSet(windows)) \o ElementsIn(windows, Windows \ ToSet(view.order))
     ELSE ByActivation(windows, catalog)]

\* publishSnapshot; without a connection, or without the listing, there is nothing in it.
PublishSnapshot ==
  \E windows \in Orders : \E activated \in SUBSET ToSet(windows) :
    /\ windowCatalog.sequence + Cardinality(activated \ windowCatalog.active) <= MaxSnapshots
    /\ snapshot' = [windows |-> windows, activated |-> activated]
    /\ windowCatalog' = CatalogReplaced(windowCatalog, windows, activated)
    /\ overview' = OverviewRefreshed(overview, windows, windowCatalog')
    /\ LET fresh == activated \ snapshot.activated IN
       lastActive' = ElementsIn(lastActive, ToSet(windows) \ fresh) \o ElementsIn(windows, fresh)

BeginOverview ==
  /\ overview' = [overview EXCEPT !.frozen = TRUE] /\ overview' # overview
  /\ UNCHANGED <<snapshot, windowCatalog, lastActive>>

EndOverview ==
  /\ overview.frozen
  /\ overview' = OverviewRefreshed([overview EXCEPT !.frozen = FALSE], snapshot.windows, windowCatalog)
  /\ UNCHANGED <<snapshot, windowCatalog, lastActive>>

CompositorNext == PublishSnapshot \/ BeginOverview \/ EndOverview

----------------------------------------------------------------------------
(* CompositorWorkspaceModel.                                               *)

\* firstVisibleRow, rows counted from 0.
FirstVisibleRow(count, size, focus) ==
  LET wanted == IF focus < (count - 1) \div 2 THEN 0 ELSE focus - (count - 1) \div 2 IN
  IF size <= count THEN 0 ELSE IF wanted > size - count THEN size - count ELSE wanted

----------------------------------------------------------------------------
(* Properties.                                                             *)

\* The bar's rows hold the focused workspace, and no empty place while there are more workspaces.
FocusIsInView ==
  \A count \in 1..MaxWorkspaces, size \in 1..MaxWorkspaces : \A focus \in 0..size - 1 :
    LET first == FirstVisibleRow(count, size, focus) IN
    /\ focus \in first..first + count - 1
    /\ first = 0 \/ first + count <= size

\* The overview has each window once; the cards that stay keep their order while it is open, and
\* otherwise the cards are by last focus, those without any at the end. The bar shows the focus.
OverviewStandsStill ==
  /\ FocusIsInView
  /\ ToSet(overview'.order) = ToSet(snapshot'.windows) /\ IsInjective(overview'.order)
  /\ IF overview.frozen /\ overview'.frozen THEN IsPrefix(ElementsIn(overview.order, ToSet(snapshot'.windows)), overview'.order)
     ELSE overview'.frozen \/ IsPrefix(Reverse(lastActive'), overview'.order)

----------------------------------------------------------------------------
(* HyprlandLayoutProvider and its client.                                  *)

CONSTANTS Layouts, NoLayout, Garbled,
          ChunkPieces,  \* kEventReadChunkSize, in pieces
          MaxLines,     \* bound: lines that are not read
          MaxStops      \* bound: times the compositor stops

ASSUME HyprlandAssumption == ChunkPieces \in Nat \ {0} /\ MaxStops \in Nat

VARIABLES
  hyprland,     \* the compositor: whether it runs, its layout, and how often it stopped
  hyprPipe,     \* the event stream: pieces that were not read, and whether readyRead is due
  hyprClient,   \* event_socket_, the timers, event_buffer_
  hyprCommand,  \* command_socket_, and the answer that is on its way
  layoutName,   \* layout_name_
  layoutLost

hyprVars == <<hyprland, hyprPipe, hyprClient, hyprCommand, layoutName, layoutLost>>

Pieces == [layout : Layouts, part : {"head", "tail"}]
NoCommand == [running |-> FALSE, answer |-> NoLayout]

HyprTypeOK ==
  /\ hyprland \in [up : BOOLEAN, layout : Layouts, stops : 0..MaxStops]
  /\ hyprPipe.pieces \in Seq(Pieces) /\ hyprPipe.ready \in BOOLEAN
  /\ hyprClient.socket \in {"none", "connecting", "connected", "dead"}
  /\ hyprClient.timeout \in BOOLEAN /\ hyprClient.oldTimeout \in BOOLEAN /\ hyprClient.reconnect \in BOOLEAN
  /\ hyprClient.buffer \in Seq(Pieces)
  /\ hyprCommand.running \in BOOLEAN /\ hyprCommand.answer \in Layouts \cup {NoLayout}
  /\ layoutName \in Layouts \cup {NoLayout, Garbled} /\ layoutLost \in BOOLEAN

NoStream == [pieces |-> <<>>, ready |-> FALSE]

\* start() has called connectEventStream.
HyprInit ==
  /\ hyprland \in [up : BOOLEAN, layout : Layouts, stops : {0}]
  /\ hyprPipe = NoStream /\ hyprCommand = NoCommand
  /\ hyprClient = [socket |-> "connecting", timeout |-> TRUE, oldTimeout |-> FALSE, reconnect |-> FALSE, buffer |-> <<>>]
  /\ layoutName = NoLayout /\ layoutLost = FALSE

----------------------------------------------------------------------------
(* The event stream.                                                       *)

\* Mutant: a failure before the timeout leaves the reconnect to it.
LeaveToTimeout(c) == IF c.timeout THEN c ELSE [c EXCEPT !.reconnect = TRUE]

ScheduleReconnect(c) == [c EXCEPT !.reconnect = TRUE]

\* queryCurrentLayout: one command at a time, and a running one is not waited for.
EventSocketConnected ==
  /\ hyprClient.socket = "connecting" /\ hyprland.up
  /\ hyprClient' = [hyprClient EXCEPT !.socket = "connected", !.timeout = FALSE, !.reconnect = FALSE]
  /\ hyprPipe' = NoStream
  /\ hyprCommand' = IF hyprCommand.running THEN hyprCommand ELSE [running |-> TRUE, answer |-> NoLayout]
  /\ layoutLost' = hyprCommand.running
  /\ UNCHANGED <<hyprland, layoutName>>

EventSocketError ==
  /\ hyprClient.socket = "connecting" /\ ~hyprland.up
  /\ hyprClient' = ScheduleReconnect([hyprClient EXCEPT !.socket = "dead"])
  /\ UNCHANGED <<hyprland, hyprPipe, hyprCommand, layoutName, layoutLost>>

\* The timer of a socket that was replaced looks at the one in its place.
ConnectTimeout(old) ==
  /\ IF old THEN hyprClient.oldTimeout ELSE hyprClient.timeout
  /\ LET fired == IF old THEN [hyprClient EXCEPT !.oldTimeout = FALSE] ELSE [hyprClient EXCEPT !.timeout = FALSE] IN
     hyprClient' = IF hyprClient.socket = "connected" THEN fired
                   ELSE ScheduleReconnect([fired EXCEPT !.socket = "dead"])
  /\ UNCHANGED <<hyprland, hyprPipe, hyprCommand, layoutName, layoutLost>>

OldTimerDeleted ==
  /\ hyprClient.oldTimeout /\ hyprClient' = [hyprClient EXCEPT !.oldTimeout = FALSE]
  /\ UNCHANGED <<hyprland, hyprPipe, hyprCommand, layoutName, layoutLost>>

\* connectEventStream from the reconnect timer; event_buffer_ is kept.
Reconnect ==
  /\ hyprClient.reconnect
  /\ hyprClient' = [hyprClient EXCEPT !.reconnect = FALSE, !.socket = "connecting", !.timeout = TRUE,
                                      !.oldTimeout = hyprClient.timeout]
  /\ hyprPipe' = NoStream
  /\ UNCHANGED <<hyprland, hyprCommand, layoutName, layoutLost>>

EventSocketDisconnected ==
  /\ hyprClient.socket = "connected" /\ ~hyprland.up /\ ~hyprPipe.ready
  /\ hyprClient' = ScheduleReconnect([hyprClient EXCEPT !.socket = "dead"])
  /\ hyprPipe' = NoStream /\ layoutName' = NoLayout /\ layoutLost' = TRUE
  /\ UNCHANGED <<hyprland, hyprCommand>>

\* The layouts of the lines that the pieces complete: a line is a head and the tail that is its own.
LinesOf(pieces) ==
  LET ends == {i \in DOMAIN pieces : pieces[i].part = "tail"}
      IsWhole(i) == i > 1 /\ pieces[i - 1] = [layout |-> pieces[i].layout, part |-> "head"] /\ i - 2 \in ends \cup {0} IN
  [k \in 1..Cardinality(ends) |->
     LET i == IndexAt(ends, k) IN IF IsWhole(i) THEN pieces[i].layout ELSE Garbled]

PartLine(pieces) ==
  LET ends == {i \in DOMAIN pieces : pieces[i].part = "tail"}
      from == IF ends = {} THEN 0 ELSE CHOOSE i \in ends : \A j \in ends : j <= i IN
  SubSeq(pieces, from + 1, Len(pieces))

\* onEventSocketReadable and processEventLine: one read; what it leaves waits for the next readyRead.
EventSocketReadable ==
  /\ hyprClient.socket = "connected" /\ hyprPipe.ready
  /\ LET n == IF Len(hyprPipe.pieces) < ChunkPieces THEN Len(hyprPipe.pieces) ELSE ChunkPieces
         held == hyprClient.buffer \o SubSeq(hyprPipe.pieces, 1, n)
         lines == LinesOf(held) IN
     /\ hyprPipe' = [pieces |-> SubSeq(hyprPipe.pieces, n + 1, Len(hyprPipe.pieces)), ready |-> FALSE]
     /\ hyprClient' = [hyprClient EXCEPT !.buffer = PartLine(held)]
     /\ layoutName' = IF lines = <<>> THEN layoutName ELSE lines[Len(lines)]
     /\ layoutLost' = IF lines = <<>> THEN layoutLost
                      ELSE lines[Len(lines)] = Garbled \/ hyprCommand.answer # NoLayout
  /\ UNCHANGED <<hyprland, hyprCommand>>

----------------------------------------------------------------------------
(* The command.                                                            *)

\* The compositor answers with the layout of that moment.
HyprlandAnswers ==
  /\ hyprCommand.running /\ hyprCommand.answer = NoLayout /\ hyprland.up
  /\ hyprCommand' = [hyprCommand EXCEPT !.answer = hyprland.layout]
  /\ UNCHANGED <<hyprland, hyprPipe, hyprClient, layoutName, layoutLost>>

\* finishCommand: an answer; or an error, the timeout or an end without an answer, which is not retried.
CommandFinished(success) ==
  /\ hyprCommand.running /\ (success => hyprCommand.answer # NoLayout)
  /\ hyprCommand' = NoCommand
  /\ layoutName' = IF success THEN hyprCommand.answer ELSE layoutName
  /\ layoutLost' = (layoutLost \/ ~success \/ hyprClient.socket # "connected")
  /\ UNCHANGED <<hyprland, hyprPipe, hyprClient>>

----------------------------------------------------------------------------
(* The compositor.                                                         *)

\* A change after the answer was given may be heard before it.
LayoutSwitches ==
  /\ hyprland.up /\ Len(hyprPipe.pieces) < 2 * MaxLines
  /\ \E l \in Layouts \ {hyprland.layout} :
       /\ hyprland' = [hyprland EXCEPT !.layout = l]
       /\ hyprPipe' = IF hyprClient.socket # "connected" THEN hyprPipe
                      ELSE [pieces |-> hyprPipe.pieces \o <<[layout |-> l, part |-> "head"], [layout |-> l, part |-> "tail"]>>,
                            ready |-> TRUE]
  /\ UNCHANGED <<hyprClient, hyprCommand, layoutName, layoutLost>>

HyprlandStops ==
  /\ hyprland.up /\ hyprland.stops < MaxStops
  /\ hyprland' = [hyprland EXCEPT !.up = FALSE, !.stops = @ + 1]
  /\ UNCHANGED <<hyprPipe, hyprClient, hyprCommand, layoutName, layoutLost>>

\* The new one is reached once the old sockets are closed.
HyprlandStarts ==
  /\ ~hyprland.up /\ hyprClient.socket # "connected"
  /\ \E l \in Layouts : hyprland' = [hyprland EXCEPT !.up = TRUE, !.layout = l]
  /\ UNCHANGED <<hyprPipe, hyprClient, hyprCommand, layoutName, layoutLost>>

HyprNext ==
  \/ EventSocketConnected \/ EventSocketError \/ \E old \in BOOLEAN : ConnectTimeout(old)
  \/ OldTimerDeleted \/ Reconnect \/ EventSocketDisconnected \/ EventSocketReadable
  \/ HyprlandAnswers \/ \E success \in BOOLEAN : CommandFinished(success)
  \/ LayoutSwitches \/ HyprlandStops \/ HyprlandStarts

----------------------------------------------------------------------------
(* Properties.                                                             *)

\* The client never waits for nothing: its stream is connected, being connected under a
\* timeout, or a reconnect is scheduled.  Once connected, with nothing to read and no query
\* out, the layout is the compositor's, unless the query was skipped or failed, a change
\* overtook its answer, or a torn line was left in the buffer.
HyprlandIsFollowed ==
  /\ hyprClient.socket = "connecting" => hyprClient.timeout
  /\ hyprClient.socket = "dead" => hyprClient.reconnect
  /\ hyprClient.socket = "connected" /\ hyprland.up /\ hyprPipe.pieces = <<>> /\ ~hyprCommand.running /\ ~layoutLost =>
       layoutName = hyprland.layout
===============================================================================
