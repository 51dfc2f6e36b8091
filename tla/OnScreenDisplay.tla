-------------------------- MODULE OnScreenDisplay --------------------------
(***************************************************************************)
(* The on-screen display: OsdController decides which observed values are  *)
(* worth showing and for how long, OsdSurface and OsdView.qml show them on *)
(* the focused monitor and take the surface down after a fade whose end    *)
(* comes back through the event queue.  A value stands for what            *)
(* diffEquivalent compares of an event.                                    *)
(***************************************************************************)
EXTENDS Naturals, SequencesExt, LayerHosts

CONSTANTS Channels,       \* those the machine has
          Values,
          Suppressible,   \* channels a popup or sidebar tab also shows
          Steady,         \* channels that never announce their availability
          OsdOutputs,     \* connectors of the machine
          OsdPrimary,     \* an output that stays connected
          Unknown,     \* no value cached
          MaxOsdPosted    \* bound: queued signals and calls

ASSUME ChannelsAssumption == Suppressible \cup Steady \subseteq Channels
ASSUME OsdOutputsAssumption == OsdPrimary \in OsdOutputs /\ NoOutput \notin OsdOutputs
ASSUME UnknownAssumption == Unknown \notin Values
ASSUME OsdMaxPostedAssumption == MaxOsdPosted \in Nat \ {0}

VARIABLES
  osdProvider,     \* LayerShellContext::isAvailable
  osdOutputs,      \* QGuiApplication::screens
  focus,        \* resolveOsdMonitor
  osdPosted,       \* queued host signals and destroyAfterHide calls
  truth,        \* the value each service has
  available,    \* OsdChannelSource::isAvailable
  cache,        \* cache_
  enabled,      \* channels osd.enabled and their own switch let through
  suppressed,   \* suppressed_
  grace,        \* inGracePeriod
  timer,        \* hide_timer_ is active
  osd           \* OsdSurface with the root object of OsdView.qml

osdShell == <<osdProvider, osdOutputs, focus>>
services == <<truth, available>>
gates == <<enabled, suppressed, grace>>
osdVars == <<osdShell, osdPosted, services, cache, gates, timer, osd>>

OsdPosts == [what : {"configured", "ended", "teardown"}, current : BOOLEAN]

\* view: whether opacity has left 0; stray, of the model alone: nothing was
\* displayed since the surface came back with the provider, or since it was
\* configured after its display time.
Osds == [host : HostStates, pending : BOOLEAN, output : osdOutputs \cup {NoOutput},
         screen : OsdOutputs \cup {NoOutput}, configured : BOOLEAN, hiding : BOOLEAN,
         view : {"blank", "shown"}, stray : BOOLEAN]

OsdTypeOK ==
  /\ osdProvider \in BOOLEAN
  /\ osdOutputs \subseteq OsdOutputs /\ OsdPrimary \in osdOutputs
  /\ focus \in OsdOutputs
  /\ osdPosted \in Seq(OsdPosts) /\ Len(osdPosted) <= MaxOsdPosted
  /\ truth \in [Channels -> Values]
  /\ cache \in [Channels -> Values \cup {Unknown}]
  /\ {available, enabled} \subseteq SUBSET Channels
  /\ suppressed \subseteq Suppressible
  /\ {grace, timer} \subseteq BOOLEAN
  /\ osd \in Osds
  /\ osd.configured => HasSurface(osd)

OsdInit ==
  /\ osdProvider \in BOOLEAN
  /\ osdOutputs = OsdOutputs
  /\ focus = OsdPrimary
  /\ osdPosted = <<>>
  /\ truth \in [Channels -> Values]
  /\ available \in {S \in SUBSET Channels : Steady \subseteq S}
  /\ cache = [c \in Channels |-> Unknown]
  /\ enabled = Channels
  /\ suppressed = {}
  /\ grace = TRUE
  /\ timer = FALSE
  /\ osd = [host |-> "none", pending |-> FALSE, output |-> NoOutput,
            screen |-> NoOutput, configured |-> FALSE, hiding |-> FALSE,
            view |-> "blank", stray |-> FALSE]

----------------------------------------------------------------------------
\* The queue: a teardown is a call on OsdSurface, whatever its host is by then.
OsdPost(what) ==
  /\ Len(osdPosted) < MaxOsdPosted
  /\ osdPosted' = Append(osdPosted, [what |-> what, current |-> TRUE])

OsdOutdated(queue) ==
  [i \in DOMAIN queue |-> [queue[i] EXCEPT !.current = @ /\ queue[i].what = "teardown"]]

\* The root object goes with its host.
Rootless(o) ==
  [o EXCEPT !.configured = FALSE, !.hiding = FALSE, !.view = "blank", !.stray = FALSE]
Destroyed(o) == [Rootless(DestroySurface(o)) EXCEPT !.screen = NoOutput]

\* Mutant: the name is used as it is.
OsdAsNamed(o) == o

\* An unknown screen name stands for the primary screen.
OsdTarget(o) == IF o \in osdOutputs THEN o ELSE OsdPrimary

\* ensureSurface: the surface stays on its monitor and is rebuilt on another.
Ensured(opens) ==
  IF HasSurface(osd) /\ osd.screen = focus THEN osd
  ELSE [OpenSurface(Destroyed(osd), OsdTarget(focus), osdProvider, opens) EXCEPT !.screen = focus]

\* pushPendingContent and present(): not before the surface is configured.
Presented(o) ==
  IF HasSurface(o) /\ o.configured
  THEN [o EXCEPT !.hiding = FALSE, !.view = "shown"] ELSE o

\* Mutant: a value that is not displayed is not remembered.
CachedIfShown(c, v) ==
  IF c \in enabled \ suppressed /\ ~grace THEN [cache EXCEPT ![c] = v] ELSE cache

\* The cache follows every value, ahead of every gate.
Cached(c, v) == [cache EXCEPT ![c] = v]

Worthy(c, v) ==
  /\ cache[c] \notin {Unknown, v}
  /\ c \in enabled \ suppressed
  /\ ~grace

\* onEventObserved, and the display ShellApplication connects to it.
Observed(c, v, opens) ==
  /\ cache' = Cached(c, v)
  /\ IF Worthy(c, v)
     THEN /\ timer' = TRUE
          /\ osd' = [Presented(Ensured(opens)) EXCEPT !.stray = FALSE]
          /\ osdPosted' = IF Ensured(opens) = osd THEN osdPosted ELSE OsdOutdated(osdPosted)
     ELSE UNCHANGED <<timer, osd, osdPosted>>
  /\ UNCHANGED <<osdShell, gates>>

----------------------------------------------------------------------------
\* The services.  A value is announced when it changes and, on a reconnect or
\* an unrelated change, also when it did not.
ValueChanges(c, v, opens) ==
  /\ c \in available /\ v # truth[c]
  /\ truth' = [truth EXCEPT ![c] = v]
  /\ Observed(c, v, opens)
  /\ UNCHANGED available

Rebroadcast(c, opens) ==
  /\ c \in available
  /\ Observed(c, truth[c], opens)
  /\ UNCHANGED services

Forgotten(c) == [cache EXCEPT ![c] = Unknown]

\* onSourceAvailableChanged(false); the value may change before it is back.
SourceLost(c, v) ==
  /\ c \in available \ Steady
  /\ available' = available \ {c}
  /\ truth' = [truth EXCEPT ![c] = v]
  /\ cache' = Forgotten(c)
  /\ UNCHANGED <<osdShell, osdPosted, gates, timer, osd>>

SourceBack(c) ==
  /\ c \in Channels \ (available \cup Steady)
  /\ available' = available \cup {c}
  /\ UNCHANGED <<osdShell, osdPosted, truth, cache, gates, timer, osd>>

\* applyOsdConfig, set_suppressed and the end of the grace period.
Configured(channels) ==
  /\ enabled' = channels
  /\ UNCHANGED <<osdShell, osdPosted, services, cache, suppressed, grace, timer, osd>>

SetSuppressed(c) ==
  /\ \/ suppressed' = suppressed \cup {c}
     \/ suppressed' = suppressed \ {c}
  /\ UNCHANGED <<osdShell, osdPosted, services, cache, enabled, grace, timer, osd>>

GraceEnds ==
  /\ grace /\ grace' = FALSE
  /\ UNCHANGED <<osdShell, osdPosted, services, cache, enabled, suppressed, timer, osd>>

----------------------------------------------------------------------------
\* onHidingChanged on an invisible root asks for the teardown at once.
TornDownAtOnce == osd.view = "blank"

\* Mutant: only a surface that was configured is hidden.
HidesIfConfigured == osd.configured /\ ~osd.hiding

\* OsdSurface::hide: the property is written on the root, if there is one.
Hides == HasSurface(osd) /\ ~osd.hiding

\* onHideTimerTimeout.
HideTimer ==
  /\ timer /\ timer' = FALSE
  /\ IF Hides
     THEN /\ osd' = [osd EXCEPT !.hiding = TRUE]
          /\ IF TornDownAtOnce THEN OsdPost("teardown") ELSE UNCHANGED osdPosted
     ELSE UNCHANGED <<osd, osdPosted>>
  /\ UNCHANGED <<osdShell, services, cache, gates>>

\* onHideAnimationFinished.
FadeEnds ==
  /\ HasSurface(osd) /\ osd.hiding /\ osd.view = "shown"
  /\ osd' = [osd EXCEPT !.view = "blank"]
  /\ OsdPost("teardown")
  /\ UNCHANGED <<osdShell, services, cache, gates, timer>>

\* destroyAfterHide.
TearsDown(o) == IF HasSurface(o) /\ ~o.hiding THEN o ELSE Destroyed(o)

\* onSurfaceConfigured, removeCurrentHost or destroyAfterHide.
QueueRuns ==
  /\ osdPosted # <<>>
  /\ osd' =
       LET p == Head(osdPosted)
       IN  CASE p.what = "teardown" -> TearsDown(osd)
             [] p.what = "configured" /\ p.current ->
                  Presented([osd EXCEPT !.configured = TRUE, !.stray = @ \/ ~timer])
             [] p.what = "ended" /\ p.current -> Rootless(CloseSurface(osd))
             [] OTHER -> osd
  /\ osdPosted' = IF HasSurface(osd') THEN Tail(osdPosted) ELSE OsdOutdated(Tail(osdPosted))
  /\ UNCHANGED <<osdShell, services, cache, gates, timer>>

\* The compositor maps the surface, or closes it or fails.
Mapped ==
  /\ osd.host = "opening"
  /\ osd' = [osd EXCEPT !.host = "mapped"]
  /\ OsdPost("configured")
  /\ UNCHANGED <<osdShell, services, cache, gates, timer>>

Ends ==
  /\ IsLive(osd)
  /\ osd' = [osd EXCEPT !.host = "ended"]
  /\ OsdPost("ended")
  /\ UNCHANGED <<osdShell, services, cache, gates, timer>>

OsdFocusMoves(o) ==
  /\ focus' = o
  /\ UNCHANGED <<osdProvider, osdOutputs, osdPosted, services, cache, gates, timer, osd>>

OsdProviderLost ==
  /\ osdProvider /\ osdProvider' = FALSE
  /\ osd' = Rootless(Withdrawn(osd))
  /\ osdPosted' = OsdOutdated(osdPosted)
  /\ UNCHANGED <<osdOutputs, focus, services, cache, gates, timer>>

OsdProviderBack(opens) ==
  /\ ~osdProvider /\ osdProvider' = TRUE
  /\ osd' = LET opened == OpenPending(osd, opens)
            IN  [opened EXCEPT !.stray = HasSurface(opened)]
  /\ UNCHANGED <<osdOutputs, focus, osdPosted, services, cache, gates, timer>>

OsdOutputRemoved(o) ==
  /\ o \in osdOutputs \ {OsdPrimary}
  /\ osdOutputs' = osdOutputs \ {o}
  /\ IF osd.output = o
     THEN osd' = Rootless(DestroySurface(osd)) /\ osdPosted' = OsdOutdated(osdPosted)
     ELSE UNCHANGED <<osd, osdPosted>>
  /\ UNCHANGED <<osdProvider, focus, services, cache, gates, timer>>

OsdOutputAdded(o) ==
  /\ o \in OsdOutputs \ osdOutputs
  /\ osdOutputs' = osdOutputs \cup {o}
  /\ UNCHANGED <<osdProvider, focus, osdPosted, services, cache, gates, timer, osd>>

OsdNext ==
  \/ \E c \in Channels :
       \/ \E v \in Values : \/ \E opens \in BOOLEAN : ValueChanges(c, v, opens)
                            \/ SourceLost(c, v)
       \/ \E opens \in BOOLEAN : Rebroadcast(c, opens)
       \/ SourceBack(c)
  \/ \E c \in Suppressible : SetSuppressed(c)
  \/ \E channels \in SUBSET Channels : Configured(channels)
  \/ GraceEnds
  \/ HideTimer
  \/ FadeEnds
  \/ QueueRuns
  \/ Mapped
  \/ Ends
  \/ \E o \in OsdOutputs : OsdFocusMoves(o) \/ OsdOutputRemoved(o) \/ OsdOutputAdded(o)
  \/ OsdProviderLost
  \/ \E opens \in BOOLEAN : OsdProviderBack(opens)

\* The event loop delivers what is queued and the fade of a root ends.
Fairness == WF_osdVars(QueueRuns) /\ WF_osdVars(FadeEnds)

OsdSpec == OsdInit /\ [][OsdNext]_osdVars /\ Fairness

----------------------------------------------------------------------------
\* An OSD that is up and not yet hiding has the timer running that will hide
\* it (REQ-F-019), except one that came back with the provider, or that the
\* compositor configured only after the timer had fired.
OsdIsTimed == HasSurface(osd) /\ ~osd.hiding /\ ~osd.stray => timer

\* The OSD appears only because a value changed: never for one learned at the
\* start or after an outage, nor for a change that happened while it was
\* suppressed and is announced again later (REQ-F-004, REQ-F-005); otherwise
\* only the provider's return brings one back.
OnlyChangesAppear ==
  ~HasSurface(osd) /\ HasSurface(osd)' => truth' # truth \/ osdProvider' # osdProvider

\* A live OSD that is not hiding is not torn down by a request that is late:
\* it goes with the provider or its output, or moves with a new value.
LiveOsdStays ==
  IsLive(osd) /\ ~osd.hiding /\ ~HasSurface(osd)' =>
    ~osdProvider' \/ osd.output \notin osdOutputs' \/ truth' # truth

\* A hidden OSD goes away or is shown again: no blank surface is left behind.
HidingEnds == osd.hiding ~> ~osd.hiding

\* The display comes with a change, stays for its time, and goes once it hides.
OsdComesAndGoes == [][OnlyChangesAppear /\ LiveOsdStays]_osdVars /\ HidingEnds
=============================================================================
