-------------------------- MODULE DesktopOverlays --------------------------
(***************************************************************************)
(* The tooltip, launcher, window overview, status popup and sidebars of    *)
(* the shell: their surfaces on a layer-shell provider and on outputs that *)
(* come and go, the compositor's answers that reach them through the event *)
(* queue, and what ShellApplication derives from them.  Every action is    *)
(* one event of the Qt main thread, or one step of the compositor.         *)
(***************************************************************************)
EXTENDS Naturals, SequencesExt, LayerHosts

CONSTANTS Outputs,     \* connectors of the machine
          Primary,     \* an output that stays connected
          MaxPosted    \* bound: answers of the compositor under way

ASSUME OutputsAssumption == Primary \in Outputs /\ NoOutput \notin Outputs
ASSUME MaxPostedAssumption == MaxPosted \in Nat \ {0}

VARIABLES
  provider,         \* LayerShellContext::isAvailable
  outputs,          \* QGuiApplication::screens
  posted,           \* queued signals of the hosts, oldest first
  tooltip,          \* TooltipSurface
  launcher,         \* LauncherSurface with its LauncherSurfaceLifecycle
  overview,         \* WindowSurface; frozen is WindowPresentation::frozen_
  popup,            \* StatusPopupSurface
  sidebar,          \* SidebarManager, a function on the outputs
  audioSuppressed,       \* what OsdController was told to suppress
  brightnessSuppressed,
  bluetoothActive        \* BluetoothService::setActive

shell == <<provider, outputs>>
followers == <<audioSuppressed, bluetoothActive>>
derived == <<followers, brightnessSuppressed>>
vars == <<shell, posted, tooltip, launcher, overview, popup, sidebar, derived>>

Popups == {"audio", "bluetooth", "other"}
Tabs == {"quick settings", "other"}
Names == {"tooltip", "launcher", "overview", "popup"}
Surfaces == Names \cup Outputs    \* a sidebar has the name of its output

ASSUME SurfaceNamesAssumption == Outputs \cap Names = {}

NoSidebar == [host |-> "none", open |-> FALSE, closing |-> FALSE, tab |-> "other"]
Sidebars == [host : {"none", "opening", "ended"}, open : BOOLEAN,
             closing : BOOLEAN, tab : Tabs]
Posts == [surface : Surfaces, event : {"configured", "ended"}, current : BOOLEAN]
Maybe(S) == S \cup {NoOutput}

TypeOK ==
  /\ provider \in BOOLEAN
  /\ outputs \subseteq Outputs /\ Primary \in outputs
  /\ posted \in Seq(Posts) /\ Len(posted) <= MaxPosted
  /\ tooltip \in [host : HostStates, pending : BOOLEAN, output : Maybe(outputs),
                  visible : BOOLEAN, at : Maybe(Outputs)]
  /\ launcher \in [host : HostStates, pending : BOOLEAN, output : Maybe(outputs),
                   visible : BOOLEAN, closing : BOOLEAN, fading : BOOLEAN,
                   wanted : Maybe(Outputs)]
  /\ overview \in [host : HostStates, pending : BOOLEAN, output : Maybe(outputs),
                   frozen : BOOLEAN]
  /\ popup \in [host : HostStates, pending : BOOLEAN, output : Maybe(outputs),
                visible : BOOLEAN, ready : BOOLEAN, id : Popups \cup {"none"}]
  /\ sidebar \in [Outputs -> Sidebars]
  /\ {audioSuppressed, brightnessSuppressed, bluetoothActive} \subseteq BOOLEAN

Init ==
  /\ provider \in BOOLEAN
  /\ outputs = Outputs
  /\ posted = <<>>
  /\ tooltip = [host |-> "none", pending |-> FALSE, output |-> NoOutput,
                visible |-> FALSE, at |-> NoOutput]
  /\ launcher = [host |-> "none", pending |-> FALSE, output |-> NoOutput,
                 visible |-> FALSE, closing |-> FALSE, fading |-> FALSE,
                 wanted |-> NoOutput]
  /\ overview = [host |-> "none", pending |-> FALSE, output |-> NoOutput,
                 frozen |-> FALSE]
  /\ popup = [host |-> "none", pending |-> FALSE, output |-> NoOutput,
              visible |-> FALSE, ready |-> FALSE, id |-> "none"]
  /\ sidebar = [o \in Outputs |-> NoSidebar]
  /\ audioSuppressed = FALSE
  /\ brightnessSuppressed = FALSE
  /\ bluetoothActive = FALSE

----------------------------------------------------------------------------
\* Mutant: the name is taken as it comes.
AsNamed(o) == o

\* An unknown screen name stands for the primary screen.
Target(o) == IF o \in outputs THEN o ELSE Primary

\* Mutant: a handler does not look whose signal it has.
StaysCurrent(queue, S) == queue

\* The signals of a host that was replaced reach a handler that sees it is
\* not the current one (is_current, generation_).
Outdated(queue, S) ==
  [i \in DOMAIN queue |->
     [queue[i] EXCEPT !.current = @ /\ queue[i].surface \notin S]]

Drops(S) == posted' = Outdated(posted, S)

Post(s, event) ==
  /\ Len(posted) < MaxPosted
  /\ posted' = Append(posted, [surface |-> s, event |-> event, current |-> TRUE])

\* The next queued signal is one of surface s; S is what its handler closes.
Take(s, S) ==
  /\ posted # <<>>
  /\ Head(posted).surface = s
  /\ posted' = Outdated(Tail(posted), S)

Answer(s, event) ==
  posted # <<>> /\ Head(posted) = [surface |-> s, event |-> event, current |-> TRUE]

Named == [tooltip |-> tooltip, launcher |-> launcher,
          overview |-> overview, popup |-> popup]

----------------------------------------------------------------------------
\* The tooltip.
TooltipTerminated(t) == [t EXCEPT !.visible = FALSE]

ShowTooltip(o, opens) ==
  LET opened == OpenSurface(DestroySurface(tooltip), Target(o), provider, opens)
  IN  /\ ~(tooltip.visible /\ HasSurface(tooltip) /\ tooltip.at = o)
      /\ tooltip' = [opened EXCEPT !.visible = HasSurface(opened), !.at = o]
      /\ Drops({"tooltip"})
      /\ UNCHANGED <<shell, launcher, overview, popup, sidebar, derived>>

HiddenTooltip == [DestroySurface(tooltip) EXCEPT !.visible = FALSE, !.at = NoOutput]

HideTooltip ==
  /\ tooltip' = HiddenTooltip
  /\ Drops({"tooltip"})
  /\ UNCHANGED <<shell, launcher, overview, popup, sidebar, derived>>

TooltipSignal ==
  /\ tooltip' = CASE Answer("tooltip", "configured") -> [tooltip EXCEPT !.visible = TRUE]
                  [] Answer("tooltip", "ended") -> TooltipTerminated(CloseSurface(tooltip))
                  [] OTHER -> tooltip
  /\ Take("tooltip", IF HasSurface(tooltip') THEN {} ELSE {"tooltip"})
  /\ UNCHANGED <<shell, launcher, overview, popup, sidebar, derived>>

\* The compositor maps the surface, or closes it or fails.
TooltipMapped ==
  /\ tooltip.host = "opening"
  /\ tooltip' = [tooltip EXCEPT !.host = "mapped"]
  /\ Post("tooltip", "configured")
  /\ UNCHANGED <<shell, launcher, overview, popup, sidebar, derived>>

TooltipEnds ==
  /\ IsLive(tooltip)
  /\ tooltip' = [tooltip EXCEPT !.host = "ended"]
  /\ Post("tooltip", "ended")
  /\ UNCHANGED <<shell, launcher, overview, popup, sidebar, derived>>

TooltipNext ==
  \/ \E o \in Outputs, opens \in BOOLEAN : ShowTooltip(o, opens)
  \/ HideTooltip
  \/ TooltipSignal
  \/ TooltipMapped
  \/ TooltipEnds

----------------------------------------------------------------------------
\* The launcher.  fading is the close animation of Launcher.qml, which Escape
\* and a launched application start without asking the lifecycle.
\* LauncherSurfaceLifecycle::surfaceClosed also drops the request.
LauncherTerminated(l) ==
  [DestroySurface(l) EXCEPT !.visible = FALSE, !.closing = FALSE, !.fading = FALSE]

\* CreateSurface with a provider; a surface that does not open is terminated.
LauncherCreated(l, o, opens) ==
  LET opened == OpenSurface(DestroySurface(l), Target(o), TRUE, opens)
  IN  IF HasSurface(opened)
      THEN [opened EXCEPT !.visible = TRUE, !.closing = FALSE, !.fading = FALSE]
      ELSE LauncherTerminated(opened)

ShowLauncher(o, opens) ==
  /\ launcher' = IF provider THEN LauncherCreated(launcher, o, opens)
                 ELSE [launcher EXCEPT !.wanted = o]
  /\ posted' = IF provider THEN Outdated(posted, {"launcher"}) ELSE posted
  /\ UNCHANGED <<shell, tooltip, overview, popup, sidebar, derived>>

LauncherHides(l) ==
  IF HasSurface(l) /\ l.visible /\ ~l.closing
  THEN [l EXCEPT !.closing = TRUE, !.fading = TRUE] ELSE l

ToggleLauncher(o, opens) ==
  IF launcher.visible /\ ~launcher.closing
  THEN /\ launcher' = LauncherHides(launcher)
       /\ UNCHANGED <<shell, posted, tooltip, overview, popup, sidebar, derived>>
  ELSE ShowLauncher(o, opens)

\* Escape, a click outside, or a launched application: startClose().
LauncherFades ==
  /\ HasSurface(launcher)
  /\ launcher' = [launcher EXCEPT !.fading = TRUE]
  /\ UNCHANGED <<shell, posted, tooltip, overview, popup, sidebar, derived>>

\* notifyHideReady.
LauncherFaded ==
  /\ launcher.fading /\ HasSurface(launcher)
  /\ launcher' = LauncherTerminated(launcher)
  /\ Drops({"launcher"})
  /\ UNCHANGED <<shell, tooltip, overview, popup, sidebar, derived>>

LauncherSignal ==
  /\ launcher' = IF Answer("launcher", "ended") THEN LauncherTerminated(launcher)
                 ELSE launcher
  /\ Take("launcher", IF HasSurface(launcher') THEN {} ELSE {"launcher"})
  /\ UNCHANGED <<shell, tooltip, overview, popup, sidebar, derived>>

LauncherEnds ==
  /\ IsLive(launcher)
  /\ launcher' = [launcher EXCEPT !.host = "ended"]
  /\ Post("launcher", "ended")
  /\ UNCHANGED <<shell, tooltip, overview, popup, sidebar, derived>>

LauncherNext ==
  \/ \E o \in Outputs, opens \in BOOLEAN :
       ShowLauncher(o, opens) \/ ToggleLauncher(o, opens)
  \/ LauncherFades
  \/ LauncherFaded
  \/ LauncherSignal
  \/ LauncherEnds

----------------------------------------------------------------------------
\* The window overview.  opened freezes the order of its cards, dismissed
\* thaws it.
OverviewTerminated(w) == [w EXCEPT !.frozen = FALSE]

\* Mutant: a surface that did not open leaves the order frozen.
ShownFrozen(w, o, opens) ==
  [OpenSurface(w, Target(o), provider, opens) EXCEPT !.frozen = TRUE]

OverviewShown(w, o, opens) ==
  LET opened == OpenSurface(w, Target(o), provider, opens)
  IN  [opened EXCEPT !.frozen = HasSurface(opened)]

HiddenOverview == [DestroySurface(overview) EXCEPT !.frozen = FALSE]

ToggleOverview(o, opens) ==
  /\ overview' = IF HasSurface(overview) THEN HiddenOverview
                 ELSE OverviewShown(overview, o, opens)
  /\ Drops({"overview"})
  /\ UNCHANGED <<shell, tooltip, launcher, popup, sidebar, derived>>

\* menu, chooser and desktopMenu: the same surface in another mode.
OpenMenu(o, opens) ==
  /\ overview' = OverviewShown(HiddenOverview, o, opens)
  /\ Drops({"overview"})
  /\ UNCHANGED <<shell, tooltip, launcher, popup, sidebar, derived>>

HideOverview ==
  /\ overview' = HiddenOverview
  /\ Drops({"overview"})
  /\ UNCHANGED <<shell, tooltip, launcher, popup, sidebar, derived>>

OverviewSignal ==
  /\ overview' = IF Answer("overview", "ended")
                 THEN OverviewTerminated(CloseSurface(overview)) ELSE overview
  /\ Take("overview", IF HasSurface(overview') THEN {} ELSE {"overview"})
  /\ UNCHANGED <<shell, tooltip, launcher, popup, sidebar, derived>>

OverviewEnds ==
  /\ IsLive(overview)
  /\ overview' = [overview EXCEPT !.host = "ended"]
  /\ Post("overview", "ended")
  /\ UNCHANGED <<shell, tooltip, launcher, popup, sidebar, derived>>

OverviewNext ==
  \/ \E o \in Outputs, opens \in BOOLEAN : ToggleOverview(o, opens) \/ OpenMenu(o, opens)
  \/ HideOverview
  \/ OverviewSignal
  \/ OverviewEnds

----------------------------------------------------------------------------
\* The status popup, a pair of surfaces of which host is the content's.
PopupTerminated(p) ==
  [p EXCEPT !.visible = FALSE, !.ready = FALSE, !.id = IF p.pending THEN @ ELSE "none"]

\* openPendingPair with onPairOpened, or onPairTerminated if it fails.
PopupOpened(p, opens) ==
  LET opened == OpenPending(p, opens)
  IN  CASE opened = p -> p
        [] HasSurface(opened) -> [opened EXCEPT !.visible = TRUE, !.ready = FALSE]
        [] OTHER -> PopupTerminated(opened)

PopupShown(id, o, opens) ==
  LET asked == OpenSurface([DestroySurface(popup) EXCEPT !.id = id], Target(o), FALSE, opens)
      opened == IF provider THEN PopupOpened(asked, opens) ELSE asked
  IN  [opened EXCEPT !.visible = HasSurface(opened), !.ready = FALSE]

HiddenPopup ==
  [DestroySurface(popup) EXCEPT !.visible = FALSE, !.ready = FALSE, !.id = "none"]

\* popupVisibleChanged and activePopupChanged: updateAudioOsdSuppression and
\* updateBluetooth.
PopupChanged ==
  LET open(id) == popup'.visible /\ popup'.id = id
  IN  IF popup'.visible # popup.visible \/ popup'.id # popup.id
      THEN /\ audioSuppressed' = open("audio")
           /\ bluetoothActive' = open("bluetooth")
      ELSE UNCHANGED followers

ShowPopup(id, o, opens) ==
  /\ popup' = PopupShown(id, o, opens)
  /\ PopupChanged
  /\ Drops({"popup"})
  /\ UNCHANGED <<shell, tooltip, launcher, overview, sidebar, brightnessSuppressed>>

HidePopup ==
  /\ popup' = HiddenPopup
  /\ PopupChanged
  /\ Drops({"popup"})
  /\ UNCHANGED <<shell, tooltip, launcher, overview, sidebar, brightnessSuppressed>>

TogglePopup(id, o, opens) ==
  IF popup.visible /\ popup.id = id THEN HidePopup ELSE ShowPopup(id, o, opens)

\* BluetoothService::pairingRequested, on the focused monitor o.
PairingRequested(o, opens) ==
  /\ ~(popup.visible /\ popup.id = "bluetooth")
  /\ ShowPopup("bluetooth", o, opens)

PopupSignal ==
  /\ popup' = CASE Answer("popup", "configured") ->
                     [popup EXCEPT !.ready = @ \/ popup.host = "mapped"]
                [] Answer("popup", "ended") ->
                     PopupTerminated([CloseSurface(popup) EXCEPT !.pending = FALSE])
                [] OTHER -> popup
  /\ PopupChanged
  /\ Take("popup", IF HasSurface(popup') THEN {} ELSE {"popup"})
  /\ UNCHANGED <<shell, tooltip, launcher, overview, sidebar, brightnessSuppressed>>

PopupMapped ==
  /\ popup.host = "opening"
  /\ popup' = [popup EXCEPT !.host = "mapped"]
  /\ Post("popup", "configured")
  /\ UNCHANGED <<shell, tooltip, launcher, overview, sidebar, derived>>

\* The dismiss surface is mapped, before or after the content.
DismissMapped ==
  /\ IsLive(popup) /\ ~popup.ready
  /\ Post("popup", "configured")
  /\ UNCHANGED <<shell, tooltip, launcher, overview, popup, sidebar, derived>>

PopupEnds ==
  /\ IsLive(popup)
  /\ popup' = [popup EXCEPT !.host = "ended"]
  /\ Post("popup", "ended")
  /\ UNCHANGED <<shell, tooltip, launcher, overview, sidebar, derived>>

PopupNext ==
  \/ \E id \in Popups, o \in Outputs, opens \in BOOLEAN : TogglePopup(id, o, opens)
  \/ \E o \in Outputs, opens \in BOOLEAN : PairingRequested(o, opens)
  \/ HidePopup
  \/ PopupSignal
  \/ PopupMapped
  \/ DismissMapped
  \/ PopupEnds

----------------------------------------------------------------------------
\* The sidebars, one per monitor.
SidebarClosed(s) == [s EXCEPT !.open = FALSE, !.closing = HasSurface(s)]

AllClosed(sb) ==
  [o \in Outputs |-> IF sb[o].open THEN SidebarClosed(sb[o]) ELSE sb[o]]

\* openOnMonitor: a surface that still closes is taken back, one that ended is
\* replaced.
SidebarOpened(s, opens) ==
  CASE ~provider -> s
    [] provider /\ s.host = "opening" -> [s EXCEPT !.open = TRUE, !.closing = FALSE]
    [] provider /\ s.host # "opening" /\ opens ->
         [s EXCEPT !.host = "opening", !.open = TRUE, !.closing = FALSE]
    [] OTHER -> [s EXCEPT !.host = "none", !.closing = FALSE]

BrightnessShown(sb, outs) ==
  \E o \in outs : sb[o].open /\ sb[o].tab = "quick settings"

\* sidebarOpened, sidebarClosed and currentTabChanged:
\* updateBrightnessOsdSuppression.
SidebarsChanged ==
  IF \E o \in Outputs : \/ sidebar'[o].open # sidebar[o].open
                        \/ sidebar'[o].tab # sidebar[o].tab
  THEN brightnessSuppressed' = BrightnessShown(sidebar', outputs)
  ELSE UNCHANGED brightnessSuppressed

SidebarToggled(o, opens) ==
  IF sidebar[o].open THEN [sidebar EXCEPT ![o] = SidebarClosed(@)]
  ELSE [AllClosed(sidebar) EXCEPT ![o] = SidebarOpened(@, opens)]

ToggleSidebar(o, opens) ==
  /\ o \in outputs
  /\ sidebar' = SidebarToggled(o, opens)
  /\ SidebarsChanged
  /\ Drops(IF sidebar[o].host = "ended" /\ ~sidebar[o].open /\ provider THEN {o} ELSE {})
  /\ UNCHANGED <<shell, tooltip, launcher, overview, popup, followers>>

CloseSidebar(o) ==
  /\ sidebar[o].open
  /\ sidebar' = [sidebar EXCEPT ![o] = SidebarClosed(@)]
  /\ SidebarsChanged
  /\ UNCHANGED <<shell, posted, tooltip, launcher, overview, popup, followers>>

TabChanged(o, tab) ==
  /\ HasSurface(sidebar[o])
  /\ sidebar' = [sidebar EXCEPT ![o].tab = tab]
  /\ SidebarsChanged
  /\ UNCHANGED <<shell, posted, tooltip, launcher, overview, popup, followers>>

\* onClosingAnimationFinished.
SidebarFaded(o) ==
  /\ HasSurface(sidebar[o]) /\ sidebar[o].closing /\ ~sidebar[o].open
  /\ sidebar' = [sidebar EXCEPT ![o].host = "none", ![o].closing = FALSE]
  /\ Drops({o})
  /\ UNCHANGED <<shell, tooltip, launcher, overview, popup, derived>>

SidebarEnded(s) == [s EXCEPT !.host = "none", !.open = FALSE, !.closing = FALSE]

SidebarSignal(o) ==
  /\ sidebar' = IF Answer(o, "ended") THEN [sidebar EXCEPT ![o] = SidebarEnded(@)]
                ELSE sidebar
  /\ SidebarsChanged
  /\ Take(o, IF HasSurface(sidebar'[o]) THEN {} ELSE {o})
  /\ UNCHANGED <<shell, tooltip, launcher, overview, popup, followers>>

SidebarEnds(o) ==
  /\ sidebar[o].host = "opening"
  /\ sidebar' = [sidebar EXCEPT ![o].host = "ended"]
  /\ Post(o, "ended")
  /\ UNCHANGED <<shell, tooltip, launcher, overview, popup, derived>>

SidebarNext ==
  \E o \in Outputs :
    \/ \E opens \in BOOLEAN : ToggleSidebar(o, opens)
    \/ CloseSidebar(o)
    \/ \E tab \in Tabs : TabChanged(o, tab)
    \/ SidebarFaded(o)
    \/ SidebarSignal(o)
    \/ SidebarEnds(o)

----------------------------------------------------------------------------
\* What reaches all of them.

\* The focused output or workspace changes: closeTransientOverlays.
FocusMoves ==
  /\ tooltip' = HiddenTooltip
  /\ popup' = HiddenPopup
  /\ launcher' = LauncherHides(launcher)
  /\ overview' = HiddenOverview
  /\ sidebar' = AllClosed(sidebar)
  /\ PopupChanged
  /\ SidebarsChanged
  /\ Drops({"tooltip", "popup", "overview"})
  /\ UNCHANGED shell

ProviderLost ==
  /\ provider /\ provider' = FALSE
  /\ tooltip' = TooltipTerminated(Withdrawn(tooltip))
  /\ launcher' = LauncherTerminated(Withdrawn(launcher))
  /\ overview' = OverviewTerminated(Withdrawn(overview))
  /\ popup' = PopupTerminated(Withdrawn(popup))
  /\ sidebar' = [o \in Outputs |->
                   IF HasSurface(sidebar[o]) THEN SidebarEnded(sidebar[o]) ELSE sidebar[o]]
  /\ PopupChanged
  /\ SidebarsChanged
  /\ Drops(Surfaces)
  /\ UNCHANGED outputs

\* The waiting surfaces open, those of opens with success.  The launcher
\* never leaves one waiting with its host, it keeps a request of its own.
ProviderBack(opens) ==
  /\ ~provider /\ provider' = TRUE
  /\ tooltip' = OpenPending(tooltip, "tooltip" \in opens)
  /\ launcher' = IF launcher.wanted = NoOutput THEN launcher
                 ELSE LauncherCreated([launcher EXCEPT !.wanted = NoOutput],
                                      launcher.wanted, "launcher" \in opens)
  /\ overview' = OpenPending(overview, "overview" \in opens)
  /\ popup' = PopupOpened(popup, "popup" \in opens)
  /\ PopupChanged
  /\ UNCHANGED <<outputs, posted, sidebar, brightnessSuppressed>>

OutputRemoved(o) ==
  LET on(h) == h.output = o
  IN  /\ o \in outputs \ {Primary}
      /\ outputs' = outputs \ {o}
      /\ tooltip' = IF on(tooltip) THEN TooltipTerminated(DestroySurface(tooltip)) ELSE tooltip
      /\ launcher' = IF on(launcher) THEN LauncherTerminated(launcher) ELSE launcher
      /\ overview' = IF on(overview) THEN HiddenOverview ELSE overview
      /\ popup' = IF on(popup) THEN HiddenPopup ELSE popup
      /\ sidebar' = [sidebar EXCEPT ![o] = NoSidebar]
      /\ PopupChanged
      /\ brightnessSuppressed' = BrightnessShown(sidebar', outputs')
      /\ Drops({o} \cup {s \in Names : on(Named[s])})
      /\ UNCHANGED provider

OutputAdded(o) ==
  /\ o \in Outputs \ outputs
  /\ outputs' = outputs \cup {o}
  /\ UNCHANGED <<provider, posted, tooltip, launcher, overview, popup, sidebar, derived>>

ShellNext ==
  \/ FocusMoves
  \/ ProviderLost
  \/ \E opens \in SUBSET Names : ProviderBack(opens)
  \/ \E o \in Outputs : OutputRemoved(o) \/ OutputAdded(o)

Next ==
  \/ TooltipNext
  \/ LauncherNext
  \/ OverviewNext
  \/ PopupNext
  \/ SidebarNext
  \/ ShellNext

Spec == Init /\ [][Next]_vars

----------------------------------------------------------------------------
HostOf(s) == IF s \in Outputs THEN sidebar[s].host ELSE Named[s].host

\* What a surface's owner says of it is so: a visible tooltip, launcher or
\* popup has a surface, also after a provider, output or open failed; the
\* launcher and the popup have none while they say they are hidden; a launcher
\* that closes has the animation running whose end destroys it; a popup id is
\* set exactly while the popup shows or waits; and the overview's order is not
\* left frozen without an overview.
SurfacesAgree ==
  /\ tooltip.visible => HasSurface(tooltip)
  /\ launcher.visible <=> HasSurface(launcher)
  /\ launcher.closing => launcher.visible /\ launcher.fading
  /\ popup.visible <=> HasSurface(popup)
  /\ popup.id # "none" <=> popup.visible \/ popup.pending
  /\ overview.frozen => HasSurface(overview)

\* The suppressions pushed into OsdController and the Bluetooth discovery say
\* what is on screen after every change of popup, sidebar, tab, provider and
\* output (REQ-C-007, REQ-C-008): none is latched.
FollowersAgree ==
  /\ audioSuppressed <=> popup.visible /\ popup.id = "audio"
  /\ bluetoothActive <=> popup.visible /\ popup.id = "bluetooth"
  /\ brightnessSuppressed <=> BrightnessShown(sidebar, outputs)

\* One sidebar at a time is open, it has a surface that is not closing, and
\* a surface without an open sidebar is on its way out or already ended.
SidebarsAgree ==
  /\ \A o, q \in Outputs : sidebar[o].open /\ sidebar[q].open => o = q
  /\ \A o \in Outputs :
       /\ sidebar[o].open => HasSurface(sidebar[o]) /\ o \in outputs
       /\ sidebar[o].closing <=> HasSurface(sidebar[o]) /\ ~sidebar[o].open

\* What is on screen, what each owner believes is on screen and what the shell
\* derives from it are the same.
OverlaysAgree == SurfacesAgree /\ FollowersAgree /\ SidebarsAgree

\* Handling a queued signal takes down no surface that has not itself ended:
\* the late end of a replaced surface leaves its successor alone.
OnlyEndedAreRemoved ==
  [][Len(posted') < Len(posted) =>
       \A s \in Surfaces : HostOf(s) \in {"opening", "mapped"} => HostOf(s)' = HostOf(s)]_vars
=============================================================================
