---------------------------- MODULE MonitorSurfaces ----------------------------
(***************************************************************************)
(* PerMonitorLayerManager: one layer surface for each monitor, whose host  *)
(* tells that it is configured, failed or closed in queued signals; with   *)
(* what BackgroundManager, WidgetManager and MprisWidgetManager add to it. *)
(* surfaceKind says which of the three the manager is.                     *)
(***************************************************************************)
EXTENDS Naturals, SequencesExt, Subsequences

CONSTANTS Monitors,
          Wallpapers, Covers, NoPicture,  \* pictures of the background and of tracks
          MaxHosts,             \* bound: hosts made
          MaxAddresses,         \* bound: addresses they can get
          MaxEvents,            \* bound: signals in the queue
          MaxTracks             \* bound: changes of the art asked for

ASSUME MaxHostsAssumption == MaxHosts \in Nat /\ MaxAddresses \in Nat

VARIABLES
  surfaceKind,     \* "background", "clock" or "media"
  surfaceWorld,    \* screens in order, the layer shell, covered screens (none without occupancy),
                   \* the deadline, wallpapers, the track's art
  surfaceHosts,    \* surfaces_: what each monitor's host is and shows
  surfaceEvents,   \* the hosts' queued signals
  surfaceManager,  \* started_, hosts made, content_visible_, the timer and the art that was asked for
  surfaceArt,      \* lookups at the artwork cache
  surfaceLost      \* ghost: monitors whose surface failed, was closed, could not be opened, or was
                   \* taken for an earlier one that had its address

surfaceVars == <<surfaceKind, surfaceWorld, surfaceHosts, surfaceEvents, surfaceManager, surfaceArt, surfaceLost>>

Pictures == Wallpapers \cup Covers
\* id tells hosts apart, the code has but their address; missing (ghost) is the art without a picture.
NoHost == [id |-> 0, address |-> 0, state |-> "none", picture |-> NoPicture, missing |-> NoPicture, shows |-> FALSE]
Screens == ToSet(surfaceWorld.screens)
Has(m) == surfaceHosts[m].id # 0

SurfaceTypeOK ==
  /\ surfaceKind \in {"background", "clock", "media"}
  /\ surfaceWorld.screens \in Seq(Monitors) /\ surfaceWorld.shell \in BOOLEAN
  /\ surfaceWorld.covered \subseteq Monitors /\ surfaceWorld.past \in BOOLEAN
  /\ surfaceWorld.wallpapers \in Seq(Pictures) /\ surfaceWorld.art \in Pictures \cup {NoPicture}
  /\ surfaceHosts \in [Monitors -> [id : 0..MaxHosts, address : 0..MaxAddresses,
                                    state : {"none", "opening", "configured", "ended"},
                                    picture : Pictures \cup {NoPicture}, missing : Pictures \cup {NoPicture},
                                    shows : BOOLEAN]]
  /\ \A i \in DOMAIN surfaceEvents : /\ surfaceEvents[i].monitor \in Monitors /\ surfaceEvents[i].id \in 1..MaxHosts
                                     /\ surfaceEvents[i].address \in 0..MaxAddresses
  /\ surfaceManager.started \in BOOLEAN /\ surfaceManager.made \in 0..MaxHosts
  /\ surfaceManager.visible \subseteq Monitors /\ surfaceManager.timer \in BOOLEAN
  /\ surfaceManager.asked \in Pictures \cup {NoPicture} /\ surfaceManager.generation \in Nat
  /\ \A a \in surfaceArt : a.monitor \in Monitors /\ a.art \in Pictures
  /\ surfaceLost \subseteq Monitors

NewManager == [started |-> FALSE, made |-> 0, visible |-> {}, timer |-> FALSE, asked |-> NoPicture, generation |-> 0]

SurfacesInit ==
  /\ surfaceKind \in {"background", "clock", "media"}
  /\ \E m \in Monitors :
       surfaceWorld = [screens |-> <<m>>, shell |-> TRUE, covered |-> {}, past |-> FALSE,
                       wallpapers |-> <<>>, art |-> NoPicture]
  /\ surfaceHosts = [m \in Monitors |-> NoHost] /\ surfaceEvents = <<>> /\ surfaceManager = NewManager
  /\ surfaceArt = {} /\ surfaceLost = {}

----------------------------------------------------------------------------
(* PerMonitorLayerManager.                                                 *)

\* imageForMonitor of the screen's place in the list.
WallpaperOf(world, m) ==
  LET index == CHOOSE i \in DOMAIN world.screens : world.screens[i] = m
      images == world.wallpapers IN
  IF images = <<>> THEN NoPicture ELSE images[IF index > Len(images) THEN Len(images) ELSE index]

\* A new host may get the address of any that is gone; that of one given to deleteLater() is
\* free a little too early here.
Free(hosts) == (1..MaxAddresses) \ {hosts[m].address : m \in Monitors}

\* createSurface of each monitor in a sequence; those in failing cannot be opened.
Opened(hosts, made, list, failing, address, world) ==
  LET Number(m) == made + Cardinality({i \in DOMAIN list : list[i] \notin failing /\
                                         \E j \in DOMAIN list : list[j] = m /\ i <= j}) IN
  [m \in Monitors |-> IF ~Contains(list, m) \/ m \in failing THEN hosts[m]
                      ELSE [id |-> Number(m), address |-> address[m], state |-> "opening", shows |-> TRUE,
                            missing |-> NoPicture,
                            picture |-> IF surfaceKind = "background" THEN WallpaperOf(world, m) ELSE NoPicture]]

Create(hosts, list, world, manager) ==
  \E failing \in SUBSET ToSet(list) : \E address \in [ToSet(list) \ failing -> Free(hosts)] :
    /\ manager.made + Len(list) <= MaxHosts /\ IsInjective(address)
    /\ surfaceHosts' = Opened(hosts, manager.made, list, failing, address, world)
    /\ surfaceManager' = [manager EXCEPT !.started = TRUE, !.made = @ + Len(list)]
    /\ surfaceLost' = (surfaceLost \ ToSet(list)) \cup failing

\* refreshAllWallpapers: a change of the list moves the others.
Refreshed(hosts, world) ==
  IF surfaceKind # "background" THEN hosts
  ELSE [m \in Monitors |-> IF hosts[m].id = 0 THEN NoHost ELSE [hosts[m] EXCEPT !.picture = WallpaperOf(world, m)]]

StartSurfaces ==
  /\ ~surfaceManager.started
  /\ Create(surfaceHosts, surfaceWorld.screens, surfaceWorld, surfaceManager)
  /\ UNCHANGED <<surfaceKind, surfaceWorld, surfaceEvents, surfaceArt>>

\* handleScreenAdded, then onScreenSetChanged.
ScreenAdded(m) ==
  /\ m \notin Screens
  /\ LET world == [surfaceWorld EXCEPT !.screens = Append(@, m)] IN
     /\ surfaceWorld' = world
     /\ IF surfaceManager.started THEN Create(Refreshed(surfaceHosts, world), <<m>>, world, surfaceManager)
        ELSE UNCHANGED <<surfaceHosts, surfaceManager, surfaceLost>>
  /\ UNCHANGED <<surfaceKind, surfaceEvents, surfaceArt>>

ScreenRemoved(m) ==
  /\ m \in Screens /\ Len(surfaceWorld.screens) > 1
  /\ LET screens == surfaceWorld.screens
         world == [surfaceWorld EXCEPT !.screens = SubSeqAt(screens, {i \in DOMAIN screens : screens[i] # m}),
                                       !.covered = @ \ {m}] IN
     /\ surfaceWorld' = world
     /\ surfaceHosts' = Refreshed([surfaceHosts EXCEPT ![m] = NoHost], world)
  /\ surfaceLost' = surfaceLost \ {m}
  /\ UNCHANGED <<surfaceKind, surfaceEvents, surfaceManager, surfaceArt>>

\* availabilityChanged: all are closed, and nothing opens them when the layer shell is back.
ShellGoes ==
  /\ surfaceWorld.shell /\ surfaceManager.started
  /\ surfaceWorld' = [surfaceWorld EXCEPT !.shell = FALSE]
  /\ surfaceHosts' = [m \in Monitors |-> NoHost] /\ surfaceLost' = Screens
  /\ UNCHANGED <<surfaceKind, surfaceEvents, surfaceManager, surfaceArt>>

\* rebuildSurfaces of the background when the desktop menu is turned on or off; the widgets'
\* managers are made anew for each configuration, and what was queued for the old ones is dropped.
Rebuild ==
  /\ surfaceManager.started
  /\ Create([m \in Monitors |-> NoHost], surfaceWorld.screens, surfaceWorld,
            IF surfaceKind = "background" THEN surfaceManager
            ELSE [NewManager EXCEPT !.made = surfaceManager.made])
  /\ surfaceEvents' = IF surfaceKind = "background" THEN surfaceEvents ELSE <<>>
  /\ surfaceArt' = {}
  /\ UNCHANGED <<surfaceKind, surfaceWorld>>

\* What the compositor does to a host, told by a queued signal.
HostSignals(m, what) ==
  /\ Has(m) /\ Len(surfaceEvents) < MaxEvents
  /\ what = "configured" => surfaceHosts[m].state = "opening"
  /\ surfaceHosts[m].state # "ended"
  /\ surfaceHosts' = [surfaceHosts EXCEPT ![m].state = IF what = "configured" THEN "configured" ELSE "ended"]
  /\ surfaceEvents' = Append(surfaceEvents, [monitor |-> m, id |-> surfaceHosts[m].id,
                                             address |-> surfaceHosts[m].address, what |-> what])
  /\ UNCHANGED <<surfaceKind, surfaceWorld, surfaceManager, surfaceArt, surfaceLost>>

----------------------------------------------------------------------------
(* WidgetManager and MprisWidgetManager.                                   *)

\* shouldShowWidgetContent: hidden where windows are, as far as the compositor tells occupancy.
ContentVisible(world, m) == m \notin world.covered

\* resyncSurface of the monitors: a new url is a new generation; no url clears the picture at once.
Resync(world, ms, hosts, visible, timer) ==
  LET art == world.art
      fresh == ms # {} /\ surfaceManager.asked # art
      generation == surfaceManager.generation + (IF fresh THEN 1 ELSE 0) IN
  /\ surfaceManager' = [surfaceManager EXCEPT !.visible = visible, !.timer = timer, !.generation = generation,
                                              !.asked = IF fresh THEN art ELSE @]
  /\ surfaceHosts' = [m \in Monitors |-> IF m \in ms /\ art = NoPicture THEN [hosts[m] EXCEPT !.picture = NoPicture]
                                         ELSE hosts[m]]
  /\ surfaceArt' = surfaceArt \cup (IF art = NoPicture THEN {} ELSE [monitor : ms, art : {art}, generation : {generation}])

\* Mutant: the timer runs only while every widget is shown.
TimerWhileAll(shown, surfaces) == surfaces # {} /\ surfaces \subseteq shown

\* anySurfaceVisible, and a countdown that is over needs no timer.
TimerRuns(shown, surfaces) == shown \cap surfaces # {} /\ ~(surfaceKind = "clock" /\ surfaceWorld.past)

\* applyVisibility of the monitors that have a surface.
ApplyVisibility(world, ms) ==
  LET shown == {m \in ms : ContentVisible(world, m)}
      visible == (surfaceManager.visible \ ms) \cup shown IN
  Resync(world, IF surfaceKind = "media" THEN shown ELSE {},
         [m \in Monitors |-> IF m \in ms THEN [surfaceHosts[m] EXCEPT !.shows = m \in shown] ELSE surfaceHosts[m]],
         visible,
         IF ms = {} THEN surfaceManager.timer ELSE TimerRuns(visible, {m \in Monitors : Has(m)}))

\* A host that is not the monitor's any more is not heard, unless the one that is has its address.
IsCurrent(e) == Has(e.monitor) /\ surfaceHosts[e.monitor].address = e.address

HearHost ==
  /\ surfaceEvents # <<>> /\ surfaceEvents' = Tail(surfaceEvents)
  /\ LET e == Head(surfaceEvents) IN
     IF ~IsCurrent(e) \/ (e.what = "configured" /\ surfaceKind = "background")
     THEN UNCHANGED <<surfaceHosts, surfaceManager, surfaceArt, surfaceLost>>
     ELSE IF e.what = "configured" THEN ApplyVisibility(surfaceWorld, {e.monitor}) /\ UNCHANGED surfaceLost
     ELSE /\ surfaceHosts' = [surfaceHosts EXCEPT ![e.monitor] = NoHost]
          /\ surfaceLost' = surfaceLost \cup {m \in {e.monitor} : surfaceHosts[m].state = "ended" \/ surfaceHosts[m].id # e.id}
          /\ UNCHANGED <<surfaceManager, surfaceArt>>
  /\ UNCHANGED <<surfaceKind, surfaceWorld>>

\* onCompositorRevision: the snapshot is read again at once.
CompositorRevision ==
  /\ surfaceKind # "background" /\ surfaceManager.started
  /\ \E covered \in SUBSET Screens :
       LET world == [surfaceWorld EXCEPT !.covered = covered] IN
       surfaceWorld' = world /\ ApplyVisibility(world, {m \in Screens : Has(m)})
  /\ UNCHANGED <<surfaceKind, surfaceEvents, surfaceLost>>

\* onTick of a clock or countdown: one shot, started again while something is shown.
OnTick ==
  /\ surfaceKind = "clock" /\ surfaceManager.timer
  /\ surfaceManager' = [surfaceManager EXCEPT !.timer = TimerRuns(surfaceManager.visible, {m \in Monitors : Has(m)})]
  /\ UNCHANGED <<surfaceKind, surfaceWorld, surfaceHosts, surfaceEvents, surfaceArt, surfaceLost>>

DeadlinePasses ==
  /\ surfaceKind = "clock" /\ ~surfaceWorld.past /\ surfaceWorld' = [surfaceWorld EXCEPT !.past = TRUE]
  /\ UNCHANGED <<surfaceKind, surfaceHosts, surfaceEvents, surfaceManager, surfaceArt, surfaceLost>>

\* onActiveMetadataChanged: the surfaces that are shown.
TrackChanges ==
  /\ surfaceKind = "media" /\ surfaceManager.started
  /\ surfaceManager.generation < MaxTracks
  /\ \E art \in (Covers \cup {NoPicture}) \ {surfaceWorld.art} :
       LET world == [surfaceWorld EXCEPT !.art = art] IN
       /\ surfaceWorld' = world
       /\ Resync(world, {m \in surfaceManager.visible : Has(m)}, surfaceHosts, surfaceManager.visible,
                 surfaceManager.timer)
  /\ UNCHANGED <<surfaceKind, surfaceEvents, surfaceLost>>

\* The answer is for the art and the generation that were asked for last.
AnswerCounts(a) == a.art = surfaceManager.asked /\ a.generation = surfaceManager.generation

\* The cache's answer is empty for an unsupported address, a failed transfer, an undecodable file.
ArtResolved(a, found) ==
  /\ surfaceArt' = surfaceArt \ {a}
  /\ surfaceHosts' = IF AnswerCounts(a) /\ a.monitor \in surfaceManager.visible /\ Has(a.monitor)
                     THEN [surfaceHosts EXCEPT ![a.monitor].picture = IF found THEN a.art ELSE NoPicture,
                                               ![a.monitor].missing = IF found THEN NoPicture ELSE a.art]
                     ELSE surfaceHosts
  /\ UNCHANGED <<surfaceKind, surfaceWorld, surfaceEvents, surfaceManager, surfaceLost>>

BackgroundChanged ==
  /\ surfaceKind = "background"
  /\ \E n \in 0..2 : \E images \in [1..n -> Wallpapers] :
       LET world == [surfaceWorld EXCEPT !.wallpapers = images] IN
       surfaceWorld' = world /\ surfaceHosts' = Refreshed(surfaceHosts, world)
  /\ UNCHANGED <<surfaceKind, surfaceEvents, surfaceManager, surfaceArt, surfaceLost>>

SurfacesNext ==
  \/ StartSurfaces \/ \E m \in Monitors : ScreenAdded(m) \/ ScreenRemoved(m)
  \/ ShellGoes \/ Rebuild \/ HearHost
  \/ \E m \in Monitors, what \in {"configured", "failed", "closed"} : HostSignals(m, what)
  \/ CompositorRevision \/ OnTick \/ DeadlinePasses \/ TrackChanges
  \/ \E a \in surfaceArt, found \in BOOLEAN : ArtResolved(a, found)
  \/ BackgroundChanged

----------------------------------------------------------------------------
(* Properties.                                                             *)

\* Each connected monitor has a surface, unless it was lost, and no other has; once the queue is
\* heard no surface is left that the compositor ended. A surface is also lost if its host got the
\* address of an earlier one of the monitor whose end was still queued.
SurfacesFollowScreens ==
  surfaceManager.started =>
    /\ \A m \in Monitors : IF m \in Screens THEN Has(m) \/ m \in surfaceLost ELSE ~Has(m)
    /\ surfaceEvents = <<>> => \A m \in Monitors : surfaceHosts[m].state # "ended"

\* h shows the art, or no picture if the cache's last answer for it was empty.
ShowsArt(h, art) == h.picture = art \/ (h.picture = NoPicture /\ h.missing = art)

\* A wallpaper is the one of the monitor's place; a configured widget shows exactly when its
\* monitor is not covered, ticks while one is shown, and shows the art of the
\* track, is still waiting for it, or has been told that there is none.
SurfacesShowTheState ==
  /\ surfaceKind = "background" => \A m \in Screens : Has(m) => surfaceHosts[m].picture = WallpaperOf(surfaceWorld, m)
  /\ surfaceKind # "background" /\ surfaceEvents = <<>> =>
       \A m \in Screens : surfaceHosts[m].state = "configured" =>
         /\ surfaceHosts[m].shows = ContentVisible(surfaceWorld, m)
         /\ surfaceHosts[m].shows => surfaceManager.timer \/ (surfaceKind = "clock" /\ surfaceWorld.past)
         /\ surfaceKind = "media" /\ surfaceHosts[m].shows =>
              \/ ShowsArt(surfaceHosts[m], surfaceWorld.art)
              \/ \E a \in surfaceArt : a.monitor = m /\ AnswerCounts(a) /\ a.art = surfaceWorld.art

\* Every monitor has the surface it should have, which shows what it should show.
MonitorsAreServed == SurfacesFollowScreens /\ SurfacesShowTheState
=============================================================================
