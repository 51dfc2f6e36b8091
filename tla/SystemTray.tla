----------------------------- MODULE SystemTray ------------------------------
(***************************************************************************)
(* TrayWatcher and TrayModel: status items that register, change and       *)
(* vanish on the session bus.  What the bus sends reaches the main thread  *)
(* in the order the bus handled it; asynchronous reads are answered by the *)
(* item, or by the bus when the item's service is gone.                    *)
(***************************************************************************)
EXTENDS Naturals, SequencesExt, LayerHosts, Subsequences

CONSTANTS TrayKeys,      \* items: service and object path
          TrayService,   \* the service of each
          MaxMessages    \* bound: messages of the bus under way

ASSUME TrayAssumption == IsFiniteSet(TrayKeys)

VARIABLES
  trayBus,      \* messages for the shell, oldest first
  trayAlive,    \* services on the bus
  trayOthers,   \* items another StatusNotifierWatcher knows
  tray,         \* TrayWatcher
  trayRows,     \* TrayModel::rows_, by key
  trayIndex     \* TrayModel::index_by_key_

trayVars == <<trayBus, trayAlive, trayOthers, tray, trayRows, trayIndex>>

TrayServices == {TrayService[k] : k \in TrayKeys}
TrayMessages == [kind : {"register", "changed", "properties", "error", "registered", "unregistered"},
                 key : TrayKeys]
  \cup [kind : {"gone"}, service : TrayServices] \cup [kind : {"list"}, keys : SUBSET TrayKeys]
TrayModes == {"stopped", "watcher", "fallback"}
TrayRecords == [mode : TrayModes, items : Seq(TrayKeys), count : [TrayServices -> Nat], watched : SUBSET TrayServices,
                subscribed : SUBSET TrayKeys, asked : SUBSET TrayKeys, listing : BOOLEAN]

TrayTypeOK ==
  /\ trayBus \in Seq(TrayMessages)
  /\ trayAlive \subseteq TrayServices /\ trayOthers \subseteq TrayKeys
  /\ tray \in TrayRecords
  /\ trayRows \in Seq(TrayKeys)
  /\ \A k \in DOMAIN trayIndex : k \in TrayKeys /\ trayIndex[k] \in 1..Len(trayRows)

TrayInit ==
  /\ trayBus = <<>>
  /\ trayAlive = TrayServices
  /\ trayOthers \in {{}, TrayKeys}
  /\ tray = [mode |-> "stopped", items |-> <<>>, count |-> [s \in TrayServices |-> 0], watched |-> {},
             subscribed |-> {}, asked |-> {}, listing |-> FALSE]
  /\ trayRows = <<>>
  /\ trayIndex = <<>>

----------------------------------------------------------------------------
(* The registry of the watcher, as operators on its record.                *)

Registered(t) == ToSet(t.items)

\* Of these items, those of the service.
ItemsOf(keys, s) == {k \in keys : TrayService[k] = s}

\* registerTrayItemKey for each of the keys that is new
RegisterKeys(t, keys) ==
  LET new == keys \ Registered(t) IN
  [t EXCEPT !.items = @ \o SetToSeq(new),
            !.count = [s \in TrayServices |-> @[s] + Cardinality(ItemsOf(new, s))]]

\* Mutant: the service of a removed item is counted further.
UnregisterKeepsCount(t, keys) ==
  [t EXCEPT !.items = SubSeqAt(@, {i \in DOMAIN @ : @[i] \notin keys})]

\* unregisterTrayItemKey for each of the keys that is known
UnregisterKeys(t, keys) ==
  [t EXCEPT !.items = SubSeqAt(@, {i \in DOMAIN @ : @[i] \notin keys}),
            !.count = [s \in TrayServices |-> @[s] - Cardinality(ItemsOf(keys \cap Registered(t), s))]]

\* fetchItemProperties and subscribeItemSignals; a second read of an item that
\* is being read is answered like the first.
Fetch(t, keys) == [t EXCEPT !.asked = @ \cup keys, !.subscribed = @ \cup keys]

\* addItem: only the watcher itself watches for services that vanish.
AddItems(t, keys) ==
  LET new == keys \ Registered(t) IN
  Fetch([RegisterKeys(t, keys) EXCEPT !.watched =
           IF t.mode = "watcher" THEN @ \cup {TrayService[k] : k \in new} ELSE @], keys)

\* removeItem, the watcher's part: a service is watched until its last item goes.
DropItems(t, keys) ==
  LET known == keys \cap Registered(t)
      left == UnregisterKeys([t EXCEPT !.subscribed = @ \ keys], keys) IN
  [left EXCEPT !.watched = {s \in @ : left.count[s] = 0 => ItemsOf(known, s) = {}}]

\* TrayModel::addItem
AddRow(k) ==
  /\ trayRows' = IF k \in DOMAIN trayIndex THEN trayRows ELSE Append(trayRows, k)
  /\ trayIndex' = [x \in DOMAIN trayIndex \cup {k} |->
                     IF x \in DOMAIN trayIndex THEN trayIndex[x] ELSE Len(trayRows) + 1]

\* Mutant: the rows behind a removed one keep their indices.
RemoveOnly(rows, index, keys) ==
  LET removed == {index[k] : k \in keys \cap DOMAIN index} IN
  [rows |-> SubSeqAt(rows, DOMAIN rows \ removed), index |-> [x \in DOMAIN index \ keys |-> index[x]]]

\* TrayModel::removeItem for each of the keys that has a row
RemoveRows(rows, index, keys) ==
  LET removed == {index[k] : k \in keys \cap DOMAIN index} IN
  [rows |-> SubSeqAt(rows, DOMAIN rows \ removed),
   index |-> [x \in DOMAIN index \ keys |-> index[x] - Cardinality({i \in removed : i < index[x]})]]

\* removeItem for each of the keys.
RemoveAll(keys) ==
  LET left == RemoveRows(trayRows, trayIndex, keys) IN
  /\ tray' = DropItems(tray, keys)
  /\ trayRows' = left.rows /\ trayIndex' = left.index

----------------------------------------------------------------------------
(* Start and the messages of the bus.                                      *)

\* start: the watcher's name is free, and the services on the bus are looked
\* through, or it is taken, and its owner is asked.
TrayStart ==
  /\ tray.mode = "stopped"
  /\ \/ /\ trayOthers = {}
        /\ \E found \in SUBSET {k \in TrayKeys : TrayService[k] \in trayAlive} :
             tray' = AddItems([tray EXCEPT !.mode = "watcher"], found)
     \/ /\ trayOthers # {}
        /\ tray' = [tray EXCEPT !.mode = "fallback", !.listing = TRUE]
  /\ UNCHANGED <<trayBus, trayAlive, trayOthers, trayRows, trayIndex>>

\* RegisterStatusNotifierItem and onItemRegisteredSignal
OnRegister(k) ==
  /\ tray' = IF Head(trayBus).kind = "register" /\ k \in Registered(tray) THEN tray ELSE AddItems(tray, {k})
  /\ UNCHANGED <<trayRows, trayIndex>>

\* Replies of GetAll: an item that was removed meanwhile is left alone.
OnProperties(k) ==
  /\ IF k \in Registered(tray) THEN AddRow(k) ELSE UNCHANGED <<trayRows, trayIndex>>
  /\ UNCHANGED tray

\* onPropertiesChanged, onNewStatus: only the subscription is asked.
OnChanged(k) ==
  /\ IF k \in tray.subscribed THEN AddRow(k) ELSE UNCHANGED <<trayRows, trayIndex>>
  /\ UNCHANGED tray

\* onServiceUnregistered
OnGone(s) == RemoveAll(ItemsOf(Registered(tray), s))

\* The list of the other watcher.
OnList(keys) ==
  /\ tray' = AddItems(tray, keys)
  /\ UNCHANGED <<trayRows, trayIndex>>

Deliver ==
  /\ trayBus # <<>>
  /\ LET m == Head(trayBus) IN
     \/ m.kind \in {"register", "registered"} /\ OnRegister(m.key)
     \/ m.kind = "properties" /\ OnProperties(m.key)
     \/ m.kind = "changed" /\ OnChanged(m.key)
     \/ m.kind = "unregistered" /\ RemoveAll({m.key})
     \/ m.kind = "gone" /\ OnGone(m.service)
     \/ m.kind = "list" /\ OnList(m.keys)
     \/ m.kind = "error" /\ UNCHANGED <<tray, trayRows, trayIndex>>
  /\ trayBus' = Tail(trayBus)
  /\ UNCHANGED <<trayAlive, trayOthers>>

----------------------------------------------------------------------------
(* The items and the other watcher.                                        *)

Sends(messages) ==
  /\ Len(trayBus) < MaxMessages
  /\ trayBus' = trayBus \o messages

\* A program registers an item, with the shell or with the other watcher.
ItemRegisters(k) ==
  /\ TrayService[k] \in trayAlive
  /\ \/ /\ tray.mode = "watcher"
        /\ Sends(<<[kind |-> "register", key |-> k]>>)
        /\ UNCHANGED trayOthers
     \/ /\ tray.mode = "fallback" /\ k \notin trayOthers
        /\ Sends(<<[kind |-> "registered", key |-> k]>>)
        /\ trayOthers' = trayOthers \cup {k}
  /\ UNCHANGED <<trayAlive, tray, trayRows, trayIndex>>

\* PropertiesChanged, NewIcon, NewStatus, NewTitle or NewToolTip.
ItemChanges(k) ==
  /\ TrayService[k] \in trayAlive /\ k \in tray.subscribed
  /\ Sends(<<[kind |-> "changed", key |-> k]>>)
  /\ UNCHANGED <<trayAlive, trayOthers, tray, trayRows, trayIndex>>

\* A program exits: the bus tells the watcher that watches for it.
ServiceExits(s) ==
  /\ s \in trayAlive
  /\ trayAlive' = trayAlive \ {s}
  /\ LET known == SetToSeq({k \in trayOthers : TrayService[k] = s}) IN
     Sends(IF tray.mode = "watcher" /\ s \in tray.watched THEN <<[kind |-> "gone", service |-> s]>>
           ELSE IF tray.mode = "fallback"
                THEN [i \in DOMAIN known |-> [kind |-> "unregistered", key |-> known[i]]] ELSE <<>>)
  /\ trayOthers' = {k \in trayOthers : TrayService[k] # s}
  /\ UNCHANGED <<tray, trayRows, trayIndex>>

\* What a message is about.
IsAbout(m, s) ==
  CASE m.kind = "gone" -> m.service = s
    [] m.kind = "list" -> ItemsOf(m.keys, s) # {}
    [] OTHER -> TrayService[m.key] = s

\* Names are unique or carry a process id: none is taken again while something of
\* its former owner is under way.
ServiceStarts(s) ==
  /\ s \notin trayAlive
  /\ ItemsOf(tray.asked, s) = {}
  /\ \A i \in DOMAIN trayBus : ~IsAbout(trayBus[i], s)
  /\ trayAlive' = trayAlive \cup {s}
  /\ UNCHANGED <<trayBus, trayOthers, tray, trayRows, trayIndex>>

\* GetAll is answered by the item, or with an error.
ItemAnswers(k) ==
  /\ k \in tray.asked
  /\ \/ TrayService[k] \in trayAlive /\ Sends(<<[kind |-> "properties", key |-> k]>>)
     \/ Sends(<<[kind |-> "error", key |-> k]>>)
  /\ tray' = [tray EXCEPT !.asked = @ \ {k}]
  /\ UNCHANGED <<trayAlive, trayOthers, trayRows, trayIndex>>

OtherWatcherAnswers ==
  /\ tray.listing
  /\ Sends(<<[kind |-> "list", keys |-> trayOthers]>>)
  /\ tray' = [tray EXCEPT !.listing = FALSE]
  /\ UNCHANGED <<trayAlive, trayOthers, trayRows, trayIndex>>

TrayNext ==
  \/ TrayStart \/ Deliver \/ OtherWatcherAnswers
  \/ \E k \in TrayKeys : ItemRegisters(k) \/ ItemChanges(k) \/ ItemAnswers(k)
  \/ \E s \in TrayServices : ServiceExits(s) \/ ServiceStarts(s)

----------------------------------------------------------------------------
(* Properties.                                                             *)

\* The list of items, the counts by service, the services watched for and the
\* rows with their index tell of the same items, however registrations, removals
\* and exits of a service with several items fall together.
TrayAgrees ==
  /\ IsInjective(tray.items)
  /\ \A s \in TrayServices : tray.count[s] = Cardinality({k \in Registered(tray) : TrayService[k] = s})
  /\ tray.mode = "watcher" => tray.watched = {TrayService[k] : k \in Registered(tray)}
  /\ DOMAIN trayIndex = ToSet(trayRows) /\ \A k \in DOMAIN trayIndex : trayRows[trayIndex[k]] = k
  /\ ToSet(trayRows) \subseteq Registered(tray)

\* No icon outlives its program: once the bus has nothing more to deliver every
\* row belongs to a service that is there, although an item may exit between its
\* registration, the watch for it and the answer to the first read.
NoGhostRows ==
  trayBus = <<>> => \A k \in ToSet(trayRows) : TrayService[k] \in trayAlive

----------------------------------------------------------------------------
(***************************************************************************)
(* The context menu of a status item: TrayModel::fetchMenuPath, one        *)
(* DbusMenuClient at a time and the TrayMenuSurface, which keeps plain     *)
(* pointers to the client and to the menu's model while the user, the      *)
(* compositor, the outputs and the item's program act in any order.        *)
(***************************************************************************)

CONSTANTS MenuItems,    \* status items a menu is asked for
          MenuOutput,   \* the output the icons are on, which may go
          MaxMenus      \* bound: clients created

ASSUME MenuAssumption == MaxMenus \in Nat /\ MenuOutput # NoOutput

VARIABLES
  menuShell,    \* the provider and the output are there
  menuAsked,    \* items whose Menu property is being read
  menuClient,   \* menu_client_: its number, 0 for none
  trayMenu      \* TrayMenuSurface

menuVars == <<menuShell, menuAsked, menuClient, trayMenu>>

\* What the surface points to is named by the number of its client.
MenuTypeOK ==
  /\ menuShell \in [provider : BOOLEAN, output : BOOLEAN]
  /\ menuAsked \subseteq MenuItems
  /\ menuClient \in [id : 0..MaxMenus, phase : {"none", "layout", "about", "ready", "failed"},
                     open : BOOLEAN, closing : BOOLEAN]
  /\ trayMenu \in [host : HostStates, pending : BOOLEAN, output : {MenuOutput, NoOutput},
                   visible : BOOLEAN, client : 0..MaxMenus, model : 0..MaxMenus]

MenuInit ==
  /\ menuShell = [provider |-> TRUE, output |-> TRUE]
  /\ menuAsked = {}
  /\ menuClient = [id |-> 0, phase |-> "none", open |-> FALSE, closing |-> FALSE]
  /\ trayMenu = [host |-> "none", pending |-> FALSE, output |-> NoOutput, visible |-> FALSE,
                 client |-> 0, model |-> 0]

----------------------------------------------------------------------------
\* onPairTerminated: what a pending pair will show is kept.
MenuTerminated(s) ==
  IF s.pending /\ s.output # NoOutput THEN [s EXCEPT !.visible = FALSE]
  ELSE [s EXCEPT !.visible = FALSE, !.client = 0, !.model = 0]

\* openPendingPair and what a pair that opened or failed to is told.
MenuOpened(s, opens) ==
  IF ~s.pending \/ s.output = NoOutput THEN s
  ELSE IF opens THEN [OpenPending(s, TRUE) EXCEPT !.visible = TRUE]
       ELSE MenuTerminated([s EXCEPT !.pending = FALSE])

\* TrayMenuSurface::destroySurface and hide
MenuHidden(s) == [DestroySurface(s) EXCEPT !.visible = FALSE, !.client = 0, !.model = 0]

\* TrayMenuSurface::show: no menu without a screen, a pending one without a provider.
MenuShown(s, id, opens) ==
  LET asked == [DestroySurface(s) EXCEPT !.client = id, !.model = id, !.pending = TRUE, !.output = MenuOutput] IN
  IF ~menuShell.output THEN [DestroySurface(s) EXCEPT !.client = id, !.model = id, !.visible = FALSE]
  ELSE IF menuShell.provider THEN MenuOpened(asked, opens) ELSE [asked EXCEPT !.visible = FALSE]

----------------------------------------------------------------------------
(* TrayModel and its client.                                               *)

\* openContextMenu
OpenContextMenu(k) ==
  /\ k \notin menuAsked
  /\ menuAsked' = menuAsked \cup {k}
  /\ UNCHANGED <<menuShell, menuClient, trayMenu>>

\* Before the client is deleted its menu is hidden.
Released(s) == MenuHidden(s)

\* The reply of Get Menu: the previous client goes, or the item is left to show
\* its menu itself.
MenuPathReply(k) ==
  /\ k \in menuAsked
  /\ menuAsked' = menuAsked \ {k}
  /\ \/ /\ menuClient.id < MaxMenus
        /\ menuClient' = [id |-> menuClient.id + 1, phase |-> "layout", open |-> TRUE, closing |-> FALSE]
        /\ trayMenu' = Released(trayMenu)
     \/ UNCHANGED <<menuClient, trayMenu>>
  /\ UNCHANGED menuShell

MenuReady(opens) ==
  /\ menuClient' = [menuClient EXCEPT !.phase = "ready"]
  /\ trayMenu' = MenuShown(trayMenu, menuClient.id, opens)

\* doGetLayout: an empty menu is ready at once.
LayoutReply ==
  /\ menuClient.phase = "layout"
  /\ \/ /\ menuClient' = [menuClient EXCEPT !.phase = "failed"]
        /\ UNCHANGED trayMenu
     \/ /\ menuClient' = [menuClient EXCEPT !.phase = "about"]
        /\ UNCHANGED trayMenu
     \/ \E opens \in BOOLEAN : MenuReady(opens)
  /\ UNCHANGED <<menuShell, menuAsked>>

\* doAboutToShow: every item has answered, or the timer has run out.
AboutToShowEnds ==
  /\ menuClient.phase = "about"
  /\ \E opens \in BOOLEAN : MenuReady(opens)
  /\ UNCHANGED <<menuShell, menuAsked>>

\* activateItem and TrayMenuSurface::close, from the open menu: the client closes
\* once the loop is back.
MenuUsed ==
  /\ trayMenu.host = "mapped" /\ trayMenu.client # 0
  /\ menuClient' = [menuClient EXCEPT !.closing = TRUE]
  /\ UNCHANGED <<menuShell, menuAsked, trayMenu>>

\* DbusMenuClient::close, and menuClosed, which hides the surface.
MenuClientCloses ==
  /\ menuClient.closing
  /\ menuClient' = [menuClient EXCEPT !.closing = FALSE, !.open = FALSE]
  /\ trayMenu' = IF menuClient.open THEN MenuHidden(trayMenu) ELSE trayMenu
  /\ UNCHANGED <<menuShell, menuAsked>>

----------------------------------------------------------------------------
(* The compositor and the outputs.                                         *)

MenuMapped ==
  /\ trayMenu.host = "opening"
  /\ trayMenu' = [trayMenu EXCEPT !.host = "mapped"]
  /\ UNCHANGED <<menuShell, menuAsked, menuClient>>

MenuEnds ==
  /\ IsLive(trayMenu)
  /\ trayMenu' = [trayMenu EXCEPT !.host = "ended"]
  /\ UNCHANGED <<menuShell, menuAsked, menuClient>>

\* terminateGeneration
MenuEndTold ==
  /\ trayMenu.host = "ended"
  /\ trayMenu' = MenuTerminated(CloseSurface([trayMenu EXCEPT !.pending = FALSE]))
  /\ UNCHANGED <<menuShell, menuAsked, menuClient>>

\* providerAvailabilityChanged
MenuProviderChanged ==
  /\ menuShell' = [menuShell EXCEPT !.provider = ~@]
  /\ IF menuShell'.provider
     THEN \E opens \in BOOLEAN : trayMenu' = MenuOpened(trayMenu, opens)
     ELSE trayMenu' = MenuTerminated(Withdrawn(trayMenu))
  /\ UNCHANGED <<menuAsked, menuClient>>

\* outputRemoved, and the output plugged in again.
MenuOutputChanged ==
  /\ menuShell' = [menuShell EXCEPT !.output = ~@]
  /\ trayMenu' = IF ~menuShell'.output /\ trayMenu.output = MenuOutput
                 THEN MenuTerminated(DestroySurface(trayMenu)) ELSE trayMenu
  /\ UNCHANGED <<menuAsked, menuClient>>

MenuNext ==
  \/ \E k \in MenuItems : OpenContextMenu(k) \/ MenuPathReply(k)
  \/ LayoutReply \/ AboutToShowEnds \/ MenuUsed \/ MenuClientCloses
  \/ MenuMapped \/ MenuEnds \/ MenuEndTold \/ MenuProviderChanged \/ MenuOutputChanged

----------------------------------------------------------------------------
(* Properties.                                                             *)

\* The surface points to no deleted client: its client is the one TrayModel
\* holds, in whatever order replies, closings, lost outputs and new menus come;
\* what is visible has a surface, a client and a model to show and to act on.
MenuIsLive ==
  /\ trayMenu.client # 0 => trayMenu.client = menuClient.id
  /\ trayMenu.visible => HasSurface(trayMenu) /\ trayMenu.client # 0 /\ trayMenu.model = trayMenu.client
  /\ HasSurface(trayMenu) => trayMenu.visible
  /\ trayMenu.pending => trayMenu.model # 0
=============================================================================
