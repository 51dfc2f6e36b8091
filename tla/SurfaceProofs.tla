--------------------------- MODULE SurfaceProofs ---------------------------
(***************************************************************************)
(* Proofs about what the shell shows on the screen: the on-screen display, *)
(* the tooltip, launcher, window overview, status popup and sidebars, and  *)
(* the surfaces of each monitor.  In each the invariant says what is true  *)
(* of the signals still in the queue: one that counts is of a surface that *)
(* is there, and an end that is on its way has happened.                   *)
(***************************************************************************)
EXTENDS OnScreenDisplay, SurfacesMC, SequenceTheorems, FiniteSetTheorems, TLAPS

----------------------------------------------------------------------------
(***************************************************************************)
(* The on-screen display.                                                  *)
(***************************************************************************)

\* The states of the display on a set of outputs.
OsdsOn(S) == [host : HostStates, pending : BOOLEAN, output : S \cup {NoOutput},
              screen : OsdOutputs \cup {NoOutput}, configured : BOOLEAN, hiding : BOOLEAN,
              view : {"blank", "shown"}, stray : BOOLEAN]

\* A queued signal of the current host is of a surface that is there, and its end has been seen
\* by the compositor.
PostsAgree(q, o) ==
  \A i \in 1..Len(q) : q[i].current /\ q[i].what # "teardown" =>
    HasSurface(o) /\ (q[i].what = "ended" => o.host = "ended")

\* What the controller remembers of a channel is the value it has.
CacheFollows == \A c \in Channels : cache[c] # Unknown => cache[c] = truth[c]

DisplayInv ==
  /\ OsdTypeOK
  /\ OsdIsTimed
  /\ CacheFollows
  /\ PostsAgree(osdPosted, osd)
  /\ ~osdProvider => ~HasSurface(osd)

DisplayMoves == OnlyChangesAppear /\ LiveOsdStays

LEMMA OsdRecord ==
  ASSUME NEW S, NEW o \in OsdsOn(S)
  PROVE  /\ o.host \in HostStates /\ o.pending \in BOOLEAN /\ o.output \in S \cup {NoOutput}
         /\ o.screen \in OsdOutputs \cup {NoOutput} /\ o.configured \in BOOLEAN /\ o.hiding \in BOOLEAN
         /\ o.view \in {"blank", "shown"} /\ o.stray \in BOOLEAN
BY DEF OsdsOn

\* The ways a surface goes.
LEMMA OsdGoes ==
  ASSUME NEW S, NEW o \in OsdsOn(S)
  PROVE  /\ \A c \in {Rootless(CloseSurface(o)), Rootless(Withdrawn(o)), Rootless(DestroySurface(o)), Destroyed(o)} :
              c \in OsdsOn(S) /\ ~HasSurface(c) /\ c.configured = FALSE
         /\ Destroyed(o).output = NoOutput /\ Rootless(DestroySurface(o)).output = NoOutput
<1> USE OsdRecord DEF OsdsOn, Rootless, HasSurface, HostStates
<1>1. Rootless(CloseSurface(o)) \in OsdsOn(S) /\ Rootless(CloseSurface(o)).host = "none"
      /\ Rootless(CloseSurface(o)).configured = FALSE
  BY DEF CloseSurface
<1>2. Rootless(Withdrawn(o)) \in OsdsOn(S) /\ Rootless(Withdrawn(o)).host = "none"
      /\ Rootless(Withdrawn(o)).configured = FALSE
  <2> DEFINE waits == IF HasSurface(o) THEN o.output # NoOutput ELSE o.pending
             w == [o EXCEPT !.pending = waits]
  <2>1. waits \in BOOLEAN
    OBVIOUS
  <2> HIDE DEF waits
  <2>2. w \in OsdsOn(S)
    BY <2>1
  <2> HIDE DEF w
  <2>3. Rootless(CloseSurface(w)) \in OsdsOn(S) /\ Rootless(CloseSurface(w)).host = "none"
        /\ Rootless(CloseSurface(w)).configured = FALSE
    BY <2>2 DEF CloseSurface
  <2> QED
    BY <2>3 DEF Withdrawn, w, waits
<1>3. /\ Rootless(DestroySurface(o)) \in OsdsOn(S) /\ Rootless(DestroySurface(o)).host = "none"
      /\ Rootless(DestroySurface(o)).configured = FALSE /\ Rootless(DestroySurface(o)).output = NoOutput
  BY DEF DestroySurface, CloseSurface, ClearPending
<1>4. /\ Destroyed(o) \in OsdsOn(S) /\ Destroyed(o).host = "none"
      /\ Destroyed(o).configured = FALSE /\ Destroyed(o).output = NoOutput
  BY DEF Destroyed, DestroySurface, CloseSurface, ClearPending
<1> QED
  BY <1>1, <1>2, <1>3, <1>4

\* A surface is opened when its output is known and the provider there.
LEMMA OsdOpens ==
  ASSUME NEW S, NEW o \in OsdsOn(S), ~HasSurface(o), NEW out \in S, NEW opens \in BOOLEAN, NEW there \in BOOLEAN,
         NEW screen \in OsdOutputs
  PROVE  LET opened == [OpenSurface(o, out, there, opens) EXCEPT !.screen = screen] IN
         /\ opened \in OsdsOn(S) /\ opened.screen = screen /\ opened.configured = o.configured
         /\ ~there => ~HasSurface(opened)
         /\ opened.host \in {"none", "opening"}
<1> DEFINE asked == [o EXCEPT !.host = "none", !.pending = TRUE, !.output = out]
           opening == [asked EXCEPT !.pending = FALSE, !.host = IF opens THEN "opening" ELSE @]
           opened == OpenSurface(o, out, there, opens)
           on == [opened EXCEPT !.screen = screen]
<1>1. /\ asked \in OsdsOn(S) /\ asked.configured = o.configured /\ asked.host = "none" /\ asked.pending
      /\ asked.output = out
  BY OsdRecord DEF OsdsOn, HostStates
<1>2. [CloseSurface(o) EXCEPT !.pending = TRUE, !.output = out] = asked
  BY OsdRecord DEF OsdsOn, CloseSurface
<1>3. opened = IF there THEN OpenPending(asked, opens) ELSE asked
  BY <1>2 DEF OpenSurface
<1> HIDE DEF asked
<1>4. opening \in OsdsOn(S) /\ opening.configured = o.configured /\ opening.host \in {"none", "opening"}
  BY <1>1 DEF OsdsOn, HostStates
<1>5. OpenPending(asked, opens) \in {opening, asked}
  BY DEF OpenPending
<1> HIDE DEF opening, opened
<1>6. /\ opened \in OsdsOn(S) /\ opened.configured = o.configured /\ opened.host \in {"none", "opening"}
      /\ ~there => opened.host = "none"
  BY <1>1, <1>3, <1>4, <1>5
<1>7. /\ on \in OsdsOn(S) /\ on.screen = screen /\ on.configured = opened.configured /\ on.host = opened.host
  BY <1>6 DEF OsdsOn
<1> HIDE DEF on
<1>8. /\ on \in OsdsOn(S) /\ on.screen = screen /\ on.configured = o.configured
      /\ ~there => ~HasSurface(on)
      /\ on.host \in {"none", "opening"}
  BY <1>6, <1>7 DEF HasSurface
<1> QED
  BY <1>8 DEF on, opened

LEMMA OsdReopens ==
  ASSUME NEW S, NEW o \in OsdsOn(S), NEW opens \in BOOLEAN
  PROVE  LET opened == OpenPending(o, opens) IN
         /\ [opened EXCEPT !.stray = HasSurface(opened)] \in OsdsOn(S)
         /\ [opened EXCEPT !.stray = HasSurface(opened)].stray = HasSurface([opened EXCEPT !.stray = HasSurface(opened)])
         /\ [opened EXCEPT !.stray = HasSurface(opened)].configured = o.configured
<1> DEFINE opened == OpenPending(o, opens)
           there == HasSurface(opened)
<1>1. opened \in OsdsOn(S) /\ opened.configured = o.configured
  <2>1. PICK host \in HostStates : host = IF opens THEN "opening" ELSE o.host
    BY OsdRecord DEF HostStates
  <2>2. opened = o \/ opened = [o EXCEPT !.pending = FALSE, !.host = host]
    BY <2>1 DEF OpenPending
  <2> HIDE DEF opened
  <2> QED
    BY <2>2 DEF OsdsOn
<1>2. there \in BOOLEAN
  BY DEF HasSurface
<1> HIDE DEF opened
<1>3. there = HasSurface([opened EXCEPT !.stray = there])
  BY <1>1 DEF OsdsOn, HasSurface
<1> HIDE DEF there
<1>4. /\ [opened EXCEPT !.stray = there] \in OsdsOn(S) /\ [opened EXCEPT !.stray = there].stray = there
      /\ [opened EXCEPT !.stray = there].configured = opened.configured
  BY <1>1, <1>2 DEF OsdsOn
<1> QED
  BY <1>1, <1>3, <1>4 DEF there, opened

LEMMA OsdPresents ==
  ASSUME NEW S, NEW o \in OsdsOn(S)
  PROVE  /\ Presented(o) \in OsdsOn(S)
         /\ Presented(o).host = o.host /\ Presented(o).configured = o.configured /\ Presented(o).stray = o.stray
         /\ Presented(o).output = o.output
         /\ HasSurface(Presented(o)) = HasSurface(o)
BY OsdRecord DEF OsdsOn, Presented, HasSurface

\* The queue.
LEMMA PostFacts ==
  ASSUME NEW q \in Seq(OsdPosts)
  PROVE  /\ Len(q) \in Nat
         /\ \A i \in 1..Len(q) : q[i] \in OsdPosts /\ q[i].what \in {"configured", "ended", "teardown"} /\ q[i].current \in BOOLEAN
<1>1. Len(q) \in Nat /\ \A i \in 1..Len(q) : q[i] \in OsdPosts
  BY LenProperties, ElementOfSeq
<1> QED
  BY <1>1 DEF OsdPosts

LEMMA OutdatedAgrees ==
  ASSUME NEW q \in Seq(OsdPosts), NEW o
  PROVE  OsdOutdated(q) \in Seq(OsdPosts) /\ Len(OsdOutdated(q)) = Len(q) /\ PostsAgree(OsdOutdated(q), o)
<1> DEFINE g == OsdOutdated(q)
           old(i) == [q[i] EXCEPT !.current = @ /\ q[i].what = "teardown"]
<1>1. Len(q) \in Nat /\ DOMAIN q = 1..Len(q) /\ \A i \in 1..Len(q) : q[i] \in OsdPosts
  BY PostFacts, LenProperties
<1>2. \A i \in 1..Len(q) : /\ old(i) \in OsdPosts
                           /\ old(i).what = q[i].what /\ (old(i).current => old(i).what = "teardown")
  BY <1>1 DEF OsdPosts
<1>3. g = [i \in 1..Len(q) |-> old(i)]
  BY <1>1 DEF OsdOutdated
<1> HIDE DEF old
<1>4. g \in Seq(OsdPosts) /\ Len(g) = Len(q) /\ \A i \in 1..Len(q) : g[i] = old(i)
  BY <1>2, <1>3, <1>1, SeqDef, LenProperties
<1> HIDE DEF g
<1>5. PostsAgree(g, o)
  BY <1>2, <1>4 DEF PostsAgree
<1> QED
  BY <1>4, <1>5 DEF g

LEMMA TailAgrees ==
  ASSUME NEW q \in Seq(OsdPosts), q # <<>>, NEW o
  PROVE  /\ Head(q) \in OsdPosts /\ Tail(q) \in Seq(OsdPosts) /\ Len(Tail(q)) <= Len(q)
         /\ PostsAgree(q, o) =>
              /\ PostsAgree(Tail(q), o)
              /\ Head(q).current /\ Head(q).what # "teardown" =>
                   HasSurface(o) /\ (Head(q).what = "ended" => o.host = "ended")
BY HeadTailProperties, EmptySeq, LenProperties, PostFacts DEF PostsAgree

LEMMA PostAgrees ==
  ASSUME osdPosted \in Seq(OsdPosts), NEW what \in {"configured", "ended", "teardown"}, OsdPost(what), NEW o,
         PostsAgree(osdPosted, o),
         what # "teardown" => HasSurface(o) /\ (what = "ended" => o.host = "ended")
  PROVE  osdPosted' \in Seq(OsdPosts) /\ Len(osdPosted') <= MaxOsdPosted /\ PostsAgree(osdPosted', o)
BY PostFacts, OsdMaxPostedAssumption, AppendProperties DEF OsdPosts, OsdPost, PostsAgree

LEMMA DisplayInitInv == OsdInit => DisplayInv
<1> SUFFICES ASSUME OsdInit PROVE DisplayInv
  OBVIOUS
<1> USE DEF OsdInit
<1>1. osdPosted \in Seq(OsdPosts) /\ Len(osdPosted) = 0
  BY EmptySeq
<1>2. osd \in Osds /\ ~HasSurface(osd) /\ osd.configured = FALSE
  BY DEF Osds, HostStates, HasSurface
<1>3. OsdTypeOK
  <2>1. available \subseteq Channels /\ cache \in [Channels -> Values \cup {Unknown}]
    OBVIOUS
  <2>2. Len(osdPosted) <= MaxOsdPosted
    BY <1>1, OsdMaxPostedAssumption
  <2> QED
    BY <1>1, <1>2, <2>1, <2>2, OsdOutputsAssumption DEF OsdTypeOK
<1>4. CacheFollows
  BY DEF CacheFollows
<1>5. PostsAgree(osdPosted, osd)
  BY <1>1 DEF PostsAgree
<1> QED
  BY <1>2, <1>3, <1>4, <1>5 DEF DisplayInv, OsdIsTimed

\* The facts a step starts from.
LEMMA DisplayFacts ==
  ASSUME DisplayInv
  PROVE  /\ osd \in OsdsOn(osdOutputs) /\ osdPosted \in Seq(OsdPosts) /\ Len(osdPosted) \in Nat /\ MaxOsdPosted \in Nat
         /\ Len(osdPosted) <= MaxOsdPosted
         /\ osd.configured => HasSurface(osd)
         /\ PostsAgree(osdPosted, osd)
BY PostFacts, OsdMaxPostedAssumption DEF DisplayInv, OsdTypeOK, Osds, OsdsOn

\* A step that changes the display, its queue and its timer only.
LEMMA OnlyOsdChanges ==
  ASSUME DisplayInv, UNCHANGED <<osdShell, services, cache, gates>>,
         osd' \in OsdsOn(osdOutputs), osd'.configured => HasSurface(osd'),
         osdPosted' \in Seq(OsdPosts), Len(osdPosted') <= MaxOsdPosted, PostsAgree(osdPosted', osd'),
         timer' \in BOOLEAN, HasSurface(osd') /\ ~osd'.hiding /\ ~osd'.stray => timer',
         HasSurface(osd') => HasSurface(osd)
  PROVE  DisplayInv'
BY DEF Osds, OsdsOn, osdShell, DisplayInv, OsdTypeOK, services, gates, OsdIsTimed, CacheFollows

\* A value is observed: the cache follows, and a display is timed and current.
LEMMA ObservedStep ==
  ASSUME DisplayInv, NEW c \in Channels, NEW v \in Values, NEW opens \in BOOLEAN, Observed(c, v, opens),
         truth' = [truth EXCEPT ![c] = v], UNCHANGED available
  PROVE  /\ DisplayInv'
         /\ DisplayMoves
<1> USE DEF OsdTypeOK
<1>1. /\ truth \in [Channels -> Values] /\ cache \in [Channels -> Values \cup {Unknown}]
      /\ OsdTypeOK /\ CacheFollows
  BY DEF DisplayInv
<1>2. cache' = [cache EXCEPT ![c] = v] /\ UNCHANGED <<osdShell, gates>>
  BY DEF Observed, Cached
<1>3. truth' \in [Channels -> Values] /\ cache' \in [Channels -> Values \cup {Unknown}] /\ CacheFollows'
  BY <1>1, <1>2 DEF CacheFollows
<1>4. Worthy(c, v) => truth' # truth
  BY <1>1, <1>2 DEF Worthy, CacheFollows
<1>5. CASE ~Worthy(c, v)
  BY <1>5, <1>2, <1>1, <1>3 DEF Observed, Osds, osdShell, DisplayInv, OsdIsTimed, gates, DisplayMoves,
     OnlyChangesAppear, LiveOsdStays, IsLive, HasSurface
<1>6. CASE Worthy(c, v)
  <2> DEFINE e == Ensured(opens)
             n == [Presented(e) EXCEPT !.stray = FALSE]
  <2>1. /\ timer' = TRUE /\ osd' = n
        /\ osdPosted' = IF e = osd THEN osdPosted ELSE OsdOutdated(osdPosted)
    BY <1>6 DEF Observed
  <2>2. /\ osd \in OsdsOn(osdOutputs) /\ osdPosted \in Seq(OsdPosts) /\ Len(osdPosted) <= MaxOsdPosted
        /\ osd.configured => HasSurface(osd)
        /\ PostsAgree(osdPosted, osd)
    BY DisplayFacts
  <2>3. /\ e \in OsdsOn(osdOutputs) /\ (e.configured => HasSurface(e))
        /\ ~osdProvider => ~HasSurface(e)
    <3>1. CASE HasSurface(osd) /\ osd.screen = focus
      BY <2>2, <3>1 DEF Ensured, DisplayInv
    <3>2. CASE ~(HasSurface(osd) /\ osd.screen = focus)
      <4> DEFINE d == Destroyed(osd)
      <4>1. d \in OsdsOn(osdOutputs) /\ ~HasSurface(d) /\ d.configured = FALSE
        BY <2>2, OsdGoes
      <4>2. OsdTarget(focus) \in osdOutputs /\ osdProvider \in BOOLEAN /\ focus \in OsdOutputs
        BY <1>1 DEF OsdTarget
      <4>3. e = [OpenSurface(d, OsdTarget(focus), osdProvider, opens) EXCEPT !.screen = focus]
        BY <3>2 DEF Ensured
      <4> HIDE DEF d, e
      <4>4. e \in OsdsOn(osdOutputs) /\ e.configured = FALSE /\ (~osdProvider => ~HasSurface(e))
        BY <4>1, <4>2, <4>3, OsdOpens
      <4> QED
        BY <4>4
    <3> QED
      BY <3>1, <3>2
  <2> HIDE DEF e
  <2>4. /\ n \in OsdsOn(osdOutputs) /\ (n.configured => HasSurface(n)) /\ n.host = e.host
        /\ HasSurface(n) = HasSurface(e)
    <3> DEFINE p == Presented(e)
    <3>1. p \in OsdsOn(osdOutputs) /\ p.host = e.host /\ p.configured = e.configured /\ HasSurface(p) = HasSurface(e)
      BY <2>3, OsdPresents
    <3> HIDE DEF p
    <3>2. /\ [p EXCEPT !.stray = FALSE] \in OsdsOn(osdOutputs)
          /\ [p EXCEPT !.stray = FALSE].host = p.host /\ [p EXCEPT !.stray = FALSE].configured = p.configured
      BY <3>1 DEF OsdsOn
    <3>3. n.host = p.host /\ n.configured = p.configured /\ n \in OsdsOn(osdOutputs)
      BY <3>2 DEF p
    <3> QED
      BY <2>3, <3>1, <3>3 DEF HasSurface
  <2> HIDE DEF n
  <2>5. /\ osdPosted' \in Seq(OsdPosts) /\ Len(osdPosted') <= MaxOsdPosted
        /\ PostsAgree(osdPosted', n)
    BY <2>1, <2>2, <2>4, OutdatedAgrees DEF PostsAgree, HasSurface
  <2>6. osd' \in Osds'
    BY <1>2, <2>1, <2>4 DEF Osds, OsdsOn, osdShell
  <2>7. OsdTypeOK'
    BY <1>1, <1>2, <1>3, <2>1, <2>4, <2>5, <2>6 DEF osdShell, gates
  <2>8. DisplayInv'
    BY <1>2, <1>3, <2>1, <2>3, <2>4, <2>5, <2>7 DEF DisplayInv, OsdIsTimed, osdShell
  <2>9. DisplayMoves
    BY <1>4, <1>6 DEF DisplayMoves, OnlyChangesAppear, LiveOsdStays
  <2> QED
    BY <2>8, <2>9
<1> QED
  BY <1>5, <1>6

\* What leaves the display, its queue and its timer alone.
LEMMA ServiceStepKeeps ==
  ASSUME DisplayInv, UNCHANGED <<osdPosted, timer, osd, osdOutputs, osdProvider>>,
         OsdTypeOK', CacheFollows'
  PROVE  DisplayInv' /\ DisplayMoves
BY DEF DisplayInv, OsdIsTimed, DisplayMoves, OnlyChangesAppear, LiveOsdStays, IsLive, HasSurface

\* The timer hides what is there; a surface that shows nothing asks for its teardown at once.
LEMMA HideTimerStep == DisplayInv /\ HideTimer => DisplayInv' /\ DisplayMoves
<1> SUFFICES ASSUME DisplayInv, HideTimer PROVE DisplayInv' /\ DisplayMoves
  OBVIOUS
<1>1. /\ osd \in OsdsOn(osdOutputs) /\ osdPosted \in Seq(OsdPosts) /\ Len(osdPosted) <= MaxOsdPosted
      /\ osd.configured => HasSurface(osd)
      /\ PostsAgree(osdPosted, osd)
  BY DisplayFacts
<1>2. UNCHANGED <<osdShell, services, cache, gates>> /\ timer' = FALSE
  BY DEF HideTimer
<1>3. CASE Hides
  <2>1. osd' = [osd EXCEPT !.hiding = TRUE] /\ (OsdPost("teardown") \/ UNCHANGED osdPosted)
    BY <1>3 DEF HideTimer
  <2>2. /\ osd' \in OsdsOn(osdOutputs) /\ osd'.host = osd.host /\ osd'.hiding = TRUE /\ osd'.configured = osd.configured
        /\ HasSurface(osd') = HasSurface(osd)
    BY <1>1, <2>1 DEF OsdsOn, HasSurface
  <2>3. PostsAgree(osdPosted, osd')
    BY <1>1, <2>2 DEF PostsAgree
  <2>4. osdPosted' \in Seq(OsdPosts) /\ Len(osdPosted') <= MaxOsdPosted /\ PostsAgree(osdPosted', osd')
    BY <1>1, <2>3, PostAgrees, <2>1
  <2>5. DisplayInv'
    BY <1>1, <1>2, <2>2, <2>4, OnlyOsdChanges
  <2> QED
    BY <2>2, <2>5 DEF DisplayMoves, OnlyChangesAppear, LiveOsdStays, IsLive, HasSurface
<1>4. CASE ~Hides
  <2>1. UNCHANGED <<osd, osdPosted>> /\ (HasSurface(osd) => osd.hiding)
    BY <1>4 DEF HideTimer, Hides
  <2>2. DisplayInv'
    BY <1>1, <1>2, <2>1, OnlyOsdChanges
  <2> QED
    BY <2>1, <2>2 DEF DisplayMoves, OnlyChangesAppear, LiveOsdStays, IsLive, HasSurface
<1> QED
  BY <1>3, <1>4

\* The fade ends, or the compositor maps, closes or fails the surface.
LEMMA HostTellsStep ==
  ASSUME DisplayInv, FadeEnds \/ Mapped \/ Ends
  PROVE  DisplayInv' /\ DisplayMoves
BY DisplayFacts, PostAgrees, OnlyOsdChanges DEF DisplayInv, OsdIsTimed, OsdTypeOK, FadeEnds, Mapped, Ends, HasSurface,
   IsLive, OsdsOn, HostStates, PostsAgree, DisplayMoves, OnlyChangesAppear, LiveOsdStays

\* A queued signal or call is handled: it is of the current host or does nothing.
LEMMA QueueRunsStep == DisplayInv /\ QueueRuns => DisplayInv' /\ DisplayMoves
<1> SUFFICES ASSUME DisplayInv, QueueRuns PROVE DisplayInv' /\ DisplayMoves
  OBVIOUS
<1> DEFINE p == Head(osdPosted)
           c == [osd EXCEPT !.configured = TRUE, !.stray = @ \/ ~timer]
<1>1. /\ osd \in OsdsOn(osdOutputs) /\ osdPosted \in Seq(OsdPosts) /\ Len(osdPosted) <= MaxOsdPosted
      /\ osd.configured => HasSurface(osd)
      /\ PostsAgree(osdPosted, osd)
      /\ timer \in BOOLEAN /\ Len(osdPosted) \in Nat /\ MaxOsdPosted \in Nat
      /\ HasSurface(osd) /\ ~osd.hiding /\ ~osd.stray => timer
  BY DisplayFacts DEF DisplayInv, OsdIsTimed, OsdTypeOK
<1>2. UNCHANGED <<osdShell, services, cache, gates, timer>> /\ osdPosted # <<>>
  BY DEF QueueRuns
<1>3. /\ p \in OsdPosts /\ Tail(osdPosted) \in Seq(OsdPosts) /\ Len(Tail(osdPosted)) <= MaxOsdPosted
      /\ PostsAgree(Tail(osdPosted), osd)
      /\ p.current /\ p.what # "teardown" => HasSurface(osd) /\ (p.what = "ended" => osd.host = "ended")
  BY <1>1, <1>2, TailAgrees, PostFacts
<1>4. /\ osd' \in OsdsOn(osdOutputs)
      /\ osd'.configured => HasSurface(osd')
      /\ HasSurface(osd') => HasSurface(osd) /\ osd'.host = osd.host
      /\ HasSurface(osd') /\ ~osd'.hiding /\ ~osd'.stray => timer
      /\ IsLive(osd) /\ ~osd.hiding => HasSurface(osd')
  <2>1. CASE p.what = "teardown"
    <3>1. osd' = IF HasSurface(osd) /\ ~osd.hiding THEN osd ELSE Destroyed(osd)
      BY <2>1 DEF QueueRuns, TearsDown
    <3>2. Destroyed(osd) \in OsdsOn(osdOutputs) /\ ~HasSurface(Destroyed(osd)) /\ Destroyed(osd).configured = FALSE
      BY <1>1, OsdGoes
    <3> QED
      BY <1>1, <3>1, <3>2 DEF IsLive, HasSurface
  <2>2. CASE p.what = "configured" /\ p.current
    <3>1. osd' = Presented(c)
      BY <2>2 DEF QueueRuns
    <3>2. HasSurface(osd)
      BY <1>3, <2>2
    <3>3. c \in OsdsOn(osdOutputs) /\ c.host = osd.host /\ c.configured = TRUE /\ c.stray = (osd.stray \/ ~timer)
      BY <1>1 DEF OsdsOn
    <3> HIDE DEF c
    <3>4. /\ osd' \in OsdsOn(osdOutputs) /\ osd'.host = c.host /\ osd'.stray = c.stray
          /\ HasSurface(osd') = HasSurface(c)
      BY <3>1, <3>3, OsdPresents
    <3> QED
      BY <3>2, <3>3, <3>4 DEF HasSurface
  <2>3. CASE p.what = "ended" /\ p.current
    <3>1. osd' = Rootless(CloseSurface(osd))
      BY <2>3 DEF QueueRuns
    <3>2. osd' \in OsdsOn(osdOutputs) /\ ~HasSurface(osd') /\ osd'.configured = FALSE
      BY <1>1, <3>1, OsdGoes
    <3>3. ~IsLive(osd)
      BY <1>3, <2>3 DEF IsLive
    <3> QED
      BY <3>2, <3>3
  <2>4. CASE p.what # "teardown" /\ ~p.current
    BY <2>4, <1>1 DEF QueueRuns, IsLive, HasSurface
  <2> QED
    BY <1>3, <2>1, <2>2, <2>3, <2>4 DEF OsdPosts
<1>5. osdPosted' \in Seq(OsdPosts) /\ Len(osdPosted') <= MaxOsdPosted /\ PostsAgree(osdPosted', osd')
  <2>1. osdPosted' = IF HasSurface(osd') THEN Tail(osdPosted) ELSE OsdOutdated(Tail(osdPosted))
    BY DEF QueueRuns
  <2>2. CASE HasSurface(osd')
    BY <1>3, <1>4, <2>1, <2>2 DEF PostsAgree, HasSurface
  <2>3. CASE ~HasSurface(osd')
    BY <1>3, <2>1, <2>3, OutdatedAgrees
  <2> QED
    BY <2>2, <2>3
<1>6. DisplayInv'
  BY <1>1, <1>2, <1>4, <1>5, OnlyOsdChanges
<1>7. DisplayMoves
  BY <1>4 DEF DisplayMoves, OnlyChangesAppear, LiveOsdStays
<1> QED
  BY <1>6, <1>7

\* The provider goes and comes, an output is unplugged.
LEMMA ShellStep ==
  ASSUME DisplayInv,
         \/ OsdProviderLost
         \/ \E opens \in BOOLEAN : OsdProviderBack(opens)
         \/ \E o \in OsdOutputs : OsdOutputRemoved(o) \/ OsdOutputAdded(o) \/ OsdFocusMoves(o)
  PROVE  DisplayInv' /\ DisplayMoves
<1>1. /\ osd \in OsdsOn(osdOutputs) /\ osdPosted \in Seq(OsdPosts) /\ Len(osdPosted) <= MaxOsdPosted
      /\ osd.configured => HasSurface(osd)
      /\ PostsAgree(osdPosted, osd)
      /\ HasSurface(osd) /\ ~osd.hiding /\ ~osd.stray => timer
      /\ ~osdProvider => ~HasSurface(osd)
      /\ osdProvider \in BOOLEAN /\ focus \in OsdOutputs /\ osdOutputs \subseteq OsdOutputs /\ OsdPrimary \in osdOutputs
  BY DisplayFacts DEF DisplayInv, OsdIsTimed, OsdTypeOK
<1>2. /\ UNCHANGED <<services, cache, gates, timer>>
      /\ osdProvider' \in BOOLEAN /\ focus' \in OsdOutputs /\ osdOutputs' \subseteq OsdOutputs /\ OsdPrimary \in osdOutputs'
  BY <1>1 DEF OsdProviderLost, OsdProviderBack, OsdOutputRemoved, OsdOutputAdded, OsdFocusMoves
<1>3. ASSUME osd' \in OsdsOn(osdOutputs'), osd'.configured => HasSurface(osd'),
             osdPosted' \in Seq(OsdPosts), Len(osdPosted') <= MaxOsdPosted, PostsAgree(osdPosted', osd'),
             HasSurface(osd') /\ ~osd'.hiding /\ ~osd'.stray => timer,
             ~osdProvider' => ~HasSurface(osd')
      PROVE  DisplayInv'
  BY <1>3, <1>2 DEF Osds, OsdsOn, DisplayInv, OsdTypeOK, services, gates, OsdIsTimed, CacheFollows
<1>4. CASE OsdProviderLost
  <2>1. osd' = Rootless(Withdrawn(osd)) /\ osdPosted' = OsdOutdated(osdPosted) /\ osdOutputs' = osdOutputs /\ ~osdProvider'
    BY <1>4 DEF OsdProviderLost
  <2>2. osd' \in OsdsOn(osdOutputs) /\ ~HasSurface(osd') /\ osd'.configured = FALSE
    BY <1>1, <2>1, OsdGoes
  <2>3. osdPosted' \in Seq(OsdPosts) /\ Len(osdPosted') <= MaxOsdPosted /\ PostsAgree(osdPosted', osd')
    BY <1>1, <2>1, OutdatedAgrees
  <2>4. DisplayInv'
    BY <1>3, <2>1, <2>2, <2>3
  <2> QED
    BY <2>1, <2>2, <2>4 DEF DisplayMoves, OnlyChangesAppear, LiveOsdStays
<1>5. ASSUME NEW opens \in BOOLEAN, OsdProviderBack(opens) PROVE DisplayInv' /\ DisplayMoves
  <2> DEFINE n == [OpenPending(osd, opens) EXCEPT !.stray = HasSurface(OpenPending(osd, opens))]
  <2>1. /\ osd' = n /\ UNCHANGED <<osdOutputs, osdPosted>>
        /\ ~osdProvider /\ osdProvider' = TRUE
    BY <1>5 DEF OsdProviderBack
  <2>2. n \in OsdsOn(osdOutputs) /\ n.stray = HasSurface(n) /\ n.configured = osd.configured
    BY <1>1, OsdReopens
  <2> HIDE DEF n
  <2>3. ~HasSurface(osd) /\ osd.configured = FALSE
    BY <1>1, <2>1 DEF OsdsOn
  <2>4. PostsAgree(osdPosted', osd')
    BY <1>1, <2>1, <2>3 DEF PostsAgree
  <2>5. DisplayInv'
    BY <1>1, <1>3, <2>1, <2>2, <2>3, <2>4
  <2> QED
    BY <2>1, <2>3, <2>5 DEF DisplayMoves, OnlyChangesAppear, LiveOsdStays, IsLive, HasSurface
<1>6. ASSUME NEW o \in OsdOutputs, OsdOutputRemoved(o) PROVE DisplayInv' /\ DisplayMoves
  <2>1. osdOutputs' = osdOutputs \ {o} /\ UNCHANGED osdProvider
    BY <1>6 DEF OsdOutputRemoved
  <2>2. CASE osd.output = o
    <3>1. osd' = Rootless(DestroySurface(osd)) /\ osdPosted' = OsdOutdated(osdPosted)
      BY <1>6, <2>2 DEF OsdOutputRemoved
    <3>2. osd' \in OsdsOn(osdOutputs) /\ ~HasSurface(osd') /\ osd'.configured = FALSE /\ osd'.output = NoOutput
      BY <1>1, <3>1, OsdGoes
    <3>3. osd' \in OsdsOn(osdOutputs')
      BY <3>2 DEF OsdsOn
    <3>4. osdPosted' \in Seq(OsdPosts) /\ Len(osdPosted') <= MaxOsdPosted /\ PostsAgree(osdPosted', osd')
      BY <1>1, <3>1, OutdatedAgrees
    <3>5. DisplayInv'
      BY <1>3, <3>2, <3>3, <3>4
    <3> QED
      BY <2>1, <2>2, <3>2, <3>5 DEF DisplayMoves, OnlyChangesAppear, LiveOsdStays
  <2>3. CASE osd.output # o
    BY <1>6, <2>3, <1>1, <2>1, <1>3 DEF OsdOutputRemoved, OsdsOn, DisplayMoves, OnlyChangesAppear, LiveOsdStays,
       IsLive, HasSurface
  <2> QED
    BY <2>2, <2>3
<1>7. ASSUME NEW o \in OsdOutputs, OsdOutputAdded(o) \/ OsdFocusMoves(o) PROVE DisplayInv' /\ DisplayMoves
  BY <1>7, <1>1, <1>3 DEF OsdOutputAdded, OsdFocusMoves, OsdsOn, DisplayMoves, OnlyChangesAppear, LiveOsdStays,
     IsLive, HasSurface
<1> QED
  BY <1>4, <1>5, <1>6, <1>7

LEMMA DisplayStep == DisplayInv /\ [OsdNext]_osdVars => DisplayInv' /\ [DisplayMoves]_osdVars
<1> SUFFICES ASSUME DisplayInv, OsdNext PROVE DisplayInv' /\ DisplayMoves
  BY DEF osdVars, Osds, osdShell, DisplayInv, OsdTypeOK, services, gates, OsdIsTimed, CacheFollows
<1>1. OsdTypeOK /\ CacheFollows
  BY DEF DisplayInv
<1>2. ASSUME NEW c \in Channels, NEW v \in Values, NEW opens \in BOOLEAN, ValueChanges(c, v, opens)
      PROVE  DisplayInv' /\ DisplayMoves
  BY <1>2, ObservedStep DEF ValueChanges
<1>3. ASSUME NEW c \in Channels, NEW opens \in BOOLEAN, Rebroadcast(c, opens) PROVE DisplayInv' /\ DisplayMoves
  BY <1>1, <1>3, ObservedStep DEF OsdTypeOK, Rebroadcast, services
<1>4. ASSUME NEW c \in Channels, NEW v \in Values, SourceLost(c, v) PROVE DisplayInv' /\ DisplayMoves
  BY <1>4, <1>1, ServiceStepKeeps DEF SourceLost, Forgotten, Osds, osdShell, OsdTypeOK, gates, CacheFollows
<1>5. ASSUME NEW c \in Channels, SourceBack(c) PROVE DisplayInv' /\ DisplayMoves
  BY <1>5, <1>1, ServiceStepKeeps DEF SourceBack, Osds, osdShell, OsdTypeOK, CacheFollows, gates
<1>6. CASE (\E c \in Suppressible : SetSuppressed(c)) \/ (\E channels \in SUBSET Channels : Configured(channels)) \/ GraceEnds
  <2>1. UNCHANGED <<osdShell, osdPosted, services, cache, timer, osd>>
    BY <1>6 DEF SetSuppressed, Configured, GraceEnds
  <2>2. enabled' \subseteq Channels /\ suppressed' \subseteq Suppressible /\ grace' \in BOOLEAN
    BY <1>1, <1>6 DEF SetSuppressed, Configured, GraceEnds, OsdTypeOK
  <2>3. Osds' = Osds
    BY <2>1 DEF Osds, osdShell
  <2>4. OsdTypeOK' /\ CacheFollows'
    BY <1>1, <2>1, <2>2, <2>3 DEF OsdTypeOK, CacheFollows, osdShell, services
  <2> QED
    BY <2>1, <2>4, ServiceStepKeeps DEF osdShell
<1>7. CASE HideTimer \/ FadeEnds \/ QueueRuns \/ Mapped \/ Ends
  BY <1>7, HideTimerStep, HostTellsStep, QueueRunsStep
<1>8. CASE \/ OsdProviderLost
           \/ \E opens \in BOOLEAN : OsdProviderBack(opens)
           \/ \E o \in OsdOutputs : OsdOutputRemoved(o) \/ OsdOutputAdded(o) \/ OsdFocusMoves(o)
  BY <1>8, ShellStep
<1> QED
  BY <1>2, <1>3, <1>4, <1>5, <1>6, <1>7, <1>8 DEF OsdNext

\* An OSD that is up and not hiding has a timer that will hide it, unless it came back with
\* the provider or was configured after its time, for any channels, values and outputs.
THEOREM DisplayIsTimed == OsdSpec => []OsdIsTimed
<1>1. DisplayInv => OsdIsTimed
  BY DEF DisplayInv
<1> QED
  BY <1>1, DisplayInitInv, DisplayStep, PTL DEF OsdSpec

\* The state of the display, its queue and its controller is well formed.
THEOREM DisplayIsTyped == OsdSpec => []OsdTypeOK
<1>1. DisplayInv => OsdTypeOK
  BY DEF DisplayInv
<1> QED
  BY <1>1, DisplayInitInv, DisplayStep, PTL DEF OsdSpec

\* The display comes only with a changed value or the provider's return, and a live one that is
\* not hiding is never torn down by a late request.
THEOREM DisplayComesWithChanges == OsdSpec => [][OnlyChangesAppear /\ LiveOsdStays]_osdVars
BY DisplayInitInv, DisplayStep, PTL DEF OsdSpec, DisplayMoves

----------------------------------------------------------------------------
(***************************************************************************)
(* The overlays.                                                           *)
(***************************************************************************)

TooltipsOn(S) == [host : HostStates, pending : BOOLEAN, output : Maybe(S), visible : BOOLEAN, at : Maybe(Outputs)]
LaunchersOn(S) == [host : HostStates, pending : BOOLEAN, output : Maybe(S), visible : BOOLEAN, closing : BOOLEAN,
                   fading : BOOLEAN, wanted : Maybe(Outputs)]
OverviewsOn(S) == [host : HostStates, pending : BOOLEAN, output : Maybe(S), frozen : BOOLEAN]
PopupsOn(S) == [host : HostStates, pending : BOOLEAN, output : Maybe(S), visible : BOOLEAN, ready : BOOLEAN,
                id : Popups \cup {"none"}]

TooltipGood(t, S) == t \in TooltipsOn(S) /\ (t.visible => HasSurface(t))
LauncherGood(l, S) ==
  /\ l \in LaunchersOn(S) /\ (l.visible <=> HasSurface(l))
  /\ l.closing => l.visible /\ l.fading
OverviewGood(w, S) == w \in OverviewsOn(S) /\ (w.frozen => HasSurface(w))
PopupGood(p, S) ==
  /\ p \in PopupsOn(S) /\ (p.visible <=> HasSurface(p))
  /\ p.id # "none" <=> p.visible \/ p.pending
SidebarGood(s) ==
  /\ s \in Sidebars
  /\ s.open => HasSurface(s)
  /\ s.closing <=> HasSurface(s) /\ ~s.open
SidebarsGood(sb, S) ==
  /\ sb \in [Outputs -> Sidebars]
  /\ \A o, q \in Outputs : sb[o].open /\ sb[q].open => o = q
  /\ \A o \in Outputs : SidebarGood(sb[o]) /\ (sb[o].open => o \in S)

\* The host of every surface.
Hosts == [s \in Surfaces |-> HostOf(s)]

\* A queued signal that is current is of a surface that is there, and its end has been seen.
SignalsAgree(q, h) ==
  \A i \in 1..Len(q) : q[i].current =>
    h[q[i].surface] # "none" /\ (q[i].event = "ended" => h[q[i].surface] = "ended")

QueueGood(q, h) == q \in Seq(Posts) /\ Len(q) <= MaxPosted /\ SignalsAgree(q, h)

OverlayInv ==
  /\ provider \in BOOLEAN /\ outputs \subseteq Outputs /\ Primary \in outputs
  /\ {audioSuppressed, brightnessSuppressed, bluetoothActive} \subseteq BOOLEAN
  /\ TooltipGood(tooltip, outputs) /\ LauncherGood(launcher, outputs) /\ OverviewGood(overview, outputs)
  /\ PopupGood(popup, outputs) /\ SidebarsGood(sidebar, outputs)
  /\ FollowersAgree
  /\ QueueGood(posted, Hosts)
  /\ ~provider => \A s \in Surfaces : Hosts[s] = "none"

\* What the names stand for.
LEMMA HostsAre ==
  /\ Hosts \in [Surfaces -> {tooltip.host, launcher.host, overview.host, popup.host} \cup {sidebar[o].host : o \in Outputs}]
  /\ Hosts["tooltip"] = tooltip.host /\ Hosts["launcher"] = launcher.host
  /\ Hosts["overview"] = overview.host /\ Hosts["popup"] = popup.host
  /\ \A o \in Outputs : Hosts[o] = sidebar[o].host
BY SurfaceNamesAssumption DEF Surfaces, Names, HostOf, Named, Hosts

\* The queue.
LEMMA SignalFacts ==
  ASSUME NEW q \in Seq(Posts)
  PROVE  /\ Len(q) \in Nat /\ DOMAIN q = 1..Len(q)
         /\ \A i \in 1..Len(q) : q[i] \in Posts /\ q[i].surface \in Surfaces /\ q[i].current \in BOOLEAN
<1>1. Len(q) \in Nat /\ DOMAIN q = 1..Len(q) /\ \A i \in 1..Len(q) : q[i] \in Posts
  BY LenProperties, ElementOfSeq
<1> QED
  BY <1>1 DEF Posts

\* Where the signals of what changes are dropped, those left are true.
LEMMA OutdatedIsGood ==
  ASSUME NEW h, NEW h2, NEW q, q \in Seq(Posts), Len(q) <= MaxPosted, SignalsAgree(q, h), NEW S,
         \A s \in Surfaces \ S : h2[s] = h[s] \/ h[s] = "none"
  PROVE  QueueGood(Outdated(q, S), h2) /\ Len(Outdated(q, S)) = Len(q)
<1> DEFINE g == Outdated(q, S)
           old(i) == [q[i] EXCEPT !.current = @ /\ q[i].surface \notin S]
<1>1. Len(q) \in Nat /\ DOMAIN q = 1..Len(q) /\ \A i \in 1..Len(q) : q[i] \in Posts /\ q[i].surface \in Surfaces
  BY SignalFacts
<1>2. \A i \in 1..Len(q) : /\ old(i) \in Posts /\ old(i).surface = q[i].surface /\ old(i).event = q[i].event
                           /\ (old(i).current => q[i].current /\ q[i].surface \notin S)
  BY <1>1 DEF Posts
<1>3. g = [i \in 1..Len(q) |-> old(i)]
  BY <1>1 DEF Outdated
<1> HIDE DEF old
<1>4. g \in Seq(Posts) /\ Len(g) = Len(q) /\ \A i \in 1..Len(q) : g[i] = old(i)
  BY <1>2, <1>3, <1>1, SeqDef, LenProperties
<1> HIDE DEF g
<1>5. SignalsAgree(g, h2)
  BY <1>1, <1>2, <1>4 DEF SignalsAgree
<1> QED
  BY <1>4, <1>5 DEF QueueGood, g

LEMMA DropsIsGood ==
  ASSUME NEW h, NEW h2, QueueGood(posted, h), NEW S, Drops(S), \A s \in Surfaces \ S : h2[s] = h[s] \/ h[s] = "none"
  PROVE  QueueGood(posted', h2) /\ Len(posted') = Len(posted)
<1>1. posted \in Seq(Posts) /\ Len(posted) <= MaxPosted /\ SignalsAgree(posted, h)
  BY DEF QueueGood
<1>2. QueueGood(Outdated(posted, S), h2) /\ Len(Outdated(posted, S)) = Len(posted)
  BY <1>1, OutdatedIsGood
<1> QED
  BY <1>2 DEF Drops

LEMMA KeptIsGood ==
  ASSUME NEW h, NEW h2, QueueGood(posted, h), UNCHANGED posted, \A s \in Surfaces : h2[s] = h[s] \/ h[s] = "none"
  PROVE  QueueGood(posted', h2)
BY SignalFacts DEF QueueGood, SignalsAgree

LEMMA PostIsGood ==
  ASSUME NEW h, NEW h2, QueueGood(posted, h), NEW s \in Surfaces, NEW event \in {"configured", "ended"}, Post(s, event),
         \A r \in Surfaces \ {s} : h2[r] = h[r],
         h[s] # "ended", h2[s] # "none", event = "ended" => h2[s] = "ended"
  PROVE  QueueGood(posted', h2) /\ Len(posted') > Len(posted)
<1> DEFINE p == [surface |-> s, event |-> event, current |-> TRUE]
<1>1. p \in Posts /\ p.surface = s /\ p.event = event
  BY DEF Posts
<1>2. /\ posted' = Append(posted, p) /\ Len(posted) < MaxPosted /\ Len(posted) \in Nat /\ MaxPosted \in Nat
      /\ posted \in Seq(Posts) /\ SignalsAgree(posted, h)
      /\ \A i \in 1..Len(posted) : posted[i].surface \in Surfaces
  BY SignalFacts, MaxPostedAssumption DEF Post, QueueGood
<1> HIDE DEF p
<1>3. /\ posted' \in Seq(Posts) /\ Len(posted') = Len(posted) + 1
      /\ \A i \in 1..Len(posted) : posted'[i] = posted[i]
      /\ posted'[Len(posted) + 1] = p
  BY <1>1, <1>2, AppendProperties
<1>4. \A i \in 1..Len(posted') : i \in 1..Len(posted) \/ i = Len(posted) + 1
  BY <1>2, <1>3
<1>5. SignalsAgree(posted', h2)
  BY <1>1, <1>2, <1>3, <1>4 DEF SignalsAgree
<1> QED
  BY <1>2, <1>3, <1>5 DEF QueueGood

LEMMA TakeIsGood ==
  ASSUME NEW h, NEW h2, QueueGood(posted, h), NEW s, NEW S, Take(s, S),
         \A r \in Surfaces \ S : h2[r] = h[r] \/ h[r] = "none"
  PROVE  QueueGood(posted', h2)
<1>1. posted \in Seq(Posts) /\ posted # <<>> /\ Len(posted) \in Nat /\ MaxPosted \in Nat
  BY SignalFacts, MaxPostedAssumption DEF QueueGood, Take
<1>2. /\ Tail(posted) \in Seq(Posts) /\ Len(Tail(posted)) = Len(posted) - 1 /\ Len(posted) >= 1
      /\ \A i \in 1..Len(Tail(posted)) : Tail(posted)[i] = posted[i + 1]
  BY <1>1, HeadTailProperties, EmptySeq
<1>3. \A i \in 1..Len(Tail(posted)) : i + 1 \in 1..Len(posted)
  BY <1>1, <1>2
<1>4. SignalsAgree(Tail(posted), h)
  BY <1>2, <1>3 DEF QueueGood, SignalsAgree
<1>5. Len(Tail(posted)) <= MaxPosted
  BY <1>1, <1>2 DEF QueueGood
<1> QED
  BY <1>2, <1>4, <1>5, OutdatedIsGood DEF Take

\* What the answer at the head of the queue says is so.
LEMMA AnswerIsTrue ==
  ASSUME NEW h, QueueGood(posted, h), NEW s, NEW event, Answer(s, event)
  PROVE  h[s] # "none" /\ (event = "ended" => h[s] = "ended")
BY HeadTailProperties, EmptySeq, SignalFacts DEF QueueGood, Answer, SignalsAgree

(* The tooltip. *)
\* What a good tooltip can become.
TooltipMay(t, S) ==
  /\ TooltipGood([DestroySurface(t) EXCEPT !.visible = FALSE, !.at = NoOutput], S)
  /\ [DestroySurface(t) EXCEPT !.visible = FALSE, !.at = NoOutput].host = "none"
  /\ TooltipGood(TooltipTerminated(CloseSurface(t)), S) /\ TooltipTerminated(CloseSurface(t)).host = "none"
  /\ TooltipGood(TooltipTerminated(Withdrawn(t)), S) /\ TooltipTerminated(Withdrawn(t)).host = "none"
  /\ HasSurface(t) => /\ TooltipGood([t EXCEPT !.visible = TRUE], S)
                      /\ [t EXCEPT !.visible = TRUE].host = t.host
  /\ HasSurface(t) => \A state \in {"mapped", "ended"} :
       TooltipGood([t EXCEPT !.host = state], S) /\ [t EXCEPT !.host = state].host = state
  /\ \A opens \in BOOLEAN : ~HasSurface(t) => TooltipGood(OpenPending(t, opens), S)
  /\ \A o : TooltipGood(TooltipTerminated(DestroySurface(t)), S \ {o})
  /\ TooltipTerminated(DestroySurface(t)).host = "none"
  /\ \A o : t.output # o => TooltipGood(t, S \ {o})
  /\ \A o : TooltipGood(t, S \cup {o})

LEMMA TooltipMoves ==
  ASSUME NEW S, NEW t, TooltipGood(t, S)
  PROVE  TooltipMay(t, S)
<1> USE DEF TooltipGood, TooltipsOn, HasSurface, HostStates, Maybe
<1>1. /\ TooltipGood([DestroySurface(t) EXCEPT !.visible = FALSE, !.at = NoOutput], S)
      /\ [DestroySurface(t) EXCEPT !.visible = FALSE, !.at = NoOutput].host = "none"
  BY DEF DestroySurface, CloseSurface, ClearPending
<1>2. TooltipGood(TooltipTerminated(CloseSurface(t)), S) /\ TooltipTerminated(CloseSurface(t)).host = "none"
  BY DEF CloseSurface, TooltipTerminated
<1>3. TooltipGood(TooltipTerminated(Withdrawn(t)), S) /\ TooltipTerminated(Withdrawn(t)).host = "none"
  <2> DEFINE waits == IF HasSurface(t) THEN t.output # NoOutput ELSE t.pending
  <2>1. waits \in BOOLEAN
    OBVIOUS
  <2>2. Withdrawn(t) = CloseSurface([t EXCEPT !.pending = waits])
    BY DEF Withdrawn
  <2> HIDE DEF waits
  <2> QED
    BY <2>1, <2>2 DEF CloseSurface, TooltipTerminated
<1>4. HasSurface(t) => TooltipGood([t EXCEPT !.visible = TRUE], S) /\ [t EXCEPT !.visible = TRUE].host = t.host
  OBVIOUS
<1>5. HasSurface(t) => \A state \in {"mapped", "ended"} :
        TooltipGood([t EXCEPT !.host = state], S) /\ [t EXCEPT !.host = state].host = state
  OBVIOUS
<1>6. \A opens \in BOOLEAN : ~HasSurface(t) => TooltipGood(OpenPending(t, opens), S)
  BY DEF OpenPending
<1>7. /\ \A o : TooltipGood(TooltipTerminated(DestroySurface(t)), S \ {o})
      /\ TooltipTerminated(DestroySurface(t)).host = "none"
  BY DEF DestroySurface, CloseSurface, ClearPending, TooltipTerminated
<1>8. \A o : (t.output # o => TooltipGood(t, S \ {o})) /\ TooltipGood(t, S \cup {o})
  OBVIOUS
<1> QED
  BY <1>1, <1>2, <1>3, <1>4, <1>5, <1>6, <1>7, <1>8 DEF TooltipMay

LEMMA TooltipOpens ==
  ASSUME NEW S, NEW opened \in TooltipsOn(S), NEW at \in Outputs
  PROVE  /\ TooltipGood([opened EXCEPT !.visible = HasSurface(opened), !.at = at], S)
         /\ [opened EXCEPT !.visible = HasSurface(opened), !.at = at].host = opened.host
<1> USE DEF TooltipGood, TooltipsOn, HostStates, Maybe
<1> DEFINE shows == HasSurface(opened)
<1>1. shows \in BOOLEAN /\ (shows <=> opened.host # "none")
  BY DEF HasSurface
<1> HIDE DEF shows
<1>2. TooltipGood([opened EXCEPT !.visible = shows, !.at = at], S)
      /\ [opened EXCEPT !.visible = shows, !.at = at].host = opened.host
  BY <1>1 DEF HasSurface
<1> QED
  BY <1>2 DEF shows

(* The launcher. *)
\* What a good launcher can become.
LauncherMay(l, S) ==
  /\ LauncherGood(LauncherTerminated(l), S) /\ LauncherTerminated(l).host = "none"
  /\ LauncherGood(LauncherTerminated(Withdrawn(l)), S) /\ LauncherTerminated(Withdrawn(l)).host = "none"
  /\ LauncherGood(LauncherHides(l), S) /\ LauncherHides(l).host = l.host
  /\ LauncherGood([l EXCEPT !.fading = TRUE], S) /\ [l EXCEPT !.fading = TRUE].host = l.host
  /\ HasSurface(l) => LauncherGood([l EXCEPT !.host = "ended"], S) /\ [l EXCEPT !.host = "ended"].host = "ended"
  /\ \A o \in Maybe(Outputs) : LauncherGood([l EXCEPT !.wanted = o], S) /\ [l EXCEPT !.wanted = o].host = l.host
  /\ \A o : LauncherGood(LauncherTerminated(l), S \ {o})
  /\ \A o : l.output # o => LauncherGood(l, S \ {o})
  /\ \A o : LauncherGood(l, S \cup {o})

LEMMA LauncherMoves ==
  ASSUME NEW S, NEW l, LauncherGood(l, S)
  PROVE  LauncherMay(l, S)
<1> USE DEF LauncherGood, LaunchersOn, HasSurface, HostStates, Maybe
<1>1. LauncherGood(LauncherTerminated(l), S) /\ LauncherTerminated(l).host = "none"
  BY DEF LauncherTerminated, DestroySurface, CloseSurface, ClearPending
<1>2. LauncherGood(LauncherTerminated(Withdrawn(l)), S) /\ LauncherTerminated(Withdrawn(l)).host = "none"
  <2> DEFINE waits == IF HasSurface(l) THEN l.output # NoOutput ELSE l.pending
  <2>1. waits \in BOOLEAN
    OBVIOUS
  <2>2. Withdrawn(l) = CloseSurface([l EXCEPT !.pending = waits])
    BY DEF Withdrawn
  <2> HIDE DEF waits
  <2> QED
    BY <2>1, <2>2 DEF LauncherTerminated, DestroySurface, CloseSurface, ClearPending
<1>3. LauncherGood(LauncherHides(l), S) /\ LauncherHides(l).host = l.host
  BY DEF LauncherHides
<1>4. LauncherGood([l EXCEPT !.fading = TRUE], S) /\ [l EXCEPT !.fading = TRUE].host = l.host
  OBVIOUS
<1>5. HasSurface(l) => LauncherGood([l EXCEPT !.host = "ended"], S) /\ [l EXCEPT !.host = "ended"].host = "ended"
  OBVIOUS
<1>6. \A o \in Maybe(Outputs) : LauncherGood([l EXCEPT !.wanted = o], S) /\ [l EXCEPT !.wanted = o].host = l.host
  OBVIOUS
<1>7. \A o : LauncherGood(LauncherTerminated(l), S \ {o})
  BY DEF LauncherTerminated, DestroySurface, CloseSurface, ClearPending
<1>8. \A o : (l.output # o => LauncherGood(l, S \ {o})) /\ LauncherGood(l, S \cup {o})
  OBVIOUS
<1> QED
  BY <1>1, <1>2, <1>3, <1>4, <1>5, <1>6, <1>7, <1>8 DEF LauncherMay

LEMMA LauncherCreates ==
  ASSUME outputs \subseteq Outputs, Primary \in outputs, NEW l, LauncherGood(l, outputs), NEW o, NEW opens \in BOOLEAN
  PROVE  LauncherGood(LauncherCreated(l, o, opens), outputs)
<1> DEFINE opened == OpenSurface(DestroySurface(l), Target(o), TRUE, opens)
<1>1. Target(o) \in outputs
  BY DEF Target
<1>2. opened \in LaunchersOn(outputs)
  BY <1>1 DEF LauncherGood, LaunchersOn, HostStates, Maybe, OpenSurface, OpenPending, DestroySurface, CloseSurface, ClearPending
<1>3. LauncherCreated(l, o, opens) = IF HasSurface(opened)
        THEN [opened EXCEPT !.visible = TRUE, !.closing = FALSE, !.fading = FALSE] ELSE LauncherTerminated(opened)
  BY DEF LauncherCreated
<1> HIDE DEF opened
<1>4. HasSurface(opened) => LauncherGood([opened EXCEPT !.visible = TRUE, !.closing = FALSE, !.fading = FALSE], outputs)
  BY <1>2 DEF LauncherGood, LaunchersOn, HasSurface
<1>5. LauncherGood(LauncherTerminated(opened), outputs)
  BY <1>2 DEF LauncherGood, LaunchersOn, HasSurface, LauncherTerminated, DestroySurface, CloseSurface, ClearPending, HostStates, Maybe
<1> QED
  BY <1>3, <1>4, <1>5

(* The window overview. *)
\* What a good window overview can become.
OverviewMay(w, S) ==
  /\ OverviewGood([DestroySurface(w) EXCEPT !.frozen = FALSE], S)
  /\ [DestroySurface(w) EXCEPT !.frozen = FALSE].host = "none"
  /\ OverviewGood(OverviewTerminated(CloseSurface(w)), S) /\ OverviewTerminated(CloseSurface(w)).host = "none"
  /\ OverviewGood(OverviewTerminated(Withdrawn(w)), S) /\ OverviewTerminated(Withdrawn(w)).host = "none"
  /\ HasSurface(w) => OverviewGood([w EXCEPT !.host = "ended"], S) /\ [w EXCEPT !.host = "ended"].host = "ended"
  /\ \A opens \in BOOLEAN : ~HasSurface(w) => OverviewGood(OpenPending(w, opens), S)
  /\ \A o : OverviewGood([DestroySurface(w) EXCEPT !.frozen = FALSE], S \ {o})
  /\ \A o : w.output # o => OverviewGood(w, S \ {o})
  /\ \A o : OverviewGood(w, S \cup {o})

LEMMA OverviewMoves ==
  ASSUME NEW S, NEW w, OverviewGood(w, S)
  PROVE  OverviewMay(w, S)
<1> USE DEF OverviewGood, OverviewsOn, HasSurface, HostStates, Maybe
<1>1. /\ OverviewGood([DestroySurface(w) EXCEPT !.frozen = FALSE], S)
      /\ [DestroySurface(w) EXCEPT !.frozen = FALSE].host = "none"
      /\ \A o : OverviewGood([DestroySurface(w) EXCEPT !.frozen = FALSE], S \ {o})
  BY DEF DestroySurface, CloseSurface, ClearPending
<1>2. OverviewGood(OverviewTerminated(CloseSurface(w)), S) /\ OverviewTerminated(CloseSurface(w)).host = "none"
  BY DEF OverviewTerminated, CloseSurface
<1>3. OverviewGood(OverviewTerminated(Withdrawn(w)), S) /\ OverviewTerminated(Withdrawn(w)).host = "none"
  <2> DEFINE waits == IF HasSurface(w) THEN w.output # NoOutput ELSE w.pending
  <2>1. waits \in BOOLEAN
    OBVIOUS
  <2>2. Withdrawn(w) = CloseSurface([w EXCEPT !.pending = waits])
    BY DEF Withdrawn
  <2> HIDE DEF waits
  <2> QED
    BY <2>1, <2>2 DEF OverviewTerminated, CloseSurface
<1>4. HasSurface(w) => OverviewGood([w EXCEPT !.host = "ended"], S) /\ [w EXCEPT !.host = "ended"].host = "ended"
  OBVIOUS
<1>5. \A opens \in BOOLEAN : ~HasSurface(w) => OverviewGood(OpenPending(w, opens), S)
  BY DEF OpenPending
<1>6. \A o : (w.output # o => OverviewGood(w, S \ {o})) /\ OverviewGood(w, S \cup {o})
  OBVIOUS
<1> QED
  BY <1>1, <1>2, <1>3, <1>4, <1>5, <1>6 DEF OverviewMay

LEMMA OverviewOpens ==
  ASSUME provider \in BOOLEAN, outputs \subseteq Outputs, Primary \in outputs, NEW w, OverviewGood(w, outputs),
         NEW o, NEW opens \in BOOLEAN
  PROVE  OverviewGood(OverviewShown(w, o, opens), outputs) /\ (~provider => OverviewShown(w, o, opens).host = "none")
<1> USE DEF OverviewGood, OverviewsOn, HostStates, Maybe
<1> DEFINE opened == OpenSurface(w, Target(o), provider, opens)
           shows == HasSurface(opened)
<1>1. Target(o) \in outputs
  BY DEF Target
<1>2. opened \in OverviewsOn(outputs) /\ (~provider => opened.host = "none")
  BY <1>1 DEF OpenSurface, OpenPending, CloseSurface
<1>3. OverviewShown(w, o, opens) = [opened EXCEPT !.frozen = shows]
  BY DEF OverviewShown
<1> HIDE DEF opened
<1>4. shows \in BOOLEAN /\ (shows <=> opened.host # "none")
  BY DEF HasSurface
<1> HIDE DEF shows
<1>5. OverviewGood([opened EXCEPT !.frozen = shows], outputs) /\ [opened EXCEPT !.frozen = shows].host = opened.host
  BY <1>2, <1>4 DEF HasSurface
<1> QED
  BY <1>2, <1>3, <1>5

(* The status popup. *)
LEMMA PopupEndsWell ==
  ASSUME NEW S, NEW p \in PopupsOn(S), ~HasSurface(p), p.pending => p.id # "none"
  PROVE  PopupGood(PopupTerminated(p), S) /\ PopupTerminated(p).host = "none"
BY DEF PopupsOn, PopupGood, PopupTerminated, HasSurface, Popups

\* What a good popup can become.
PopupMay(p, S) ==
  /\ PopupGood([DestroySurface(p) EXCEPT !.visible = FALSE, !.ready = FALSE, !.id = "none"], S)
  /\ [DestroySurface(p) EXCEPT !.visible = FALSE, !.ready = FALSE, !.id = "none"].host = "none"
  /\ PopupGood(PopupTerminated([CloseSurface(p) EXCEPT !.pending = FALSE]), S)
  /\ PopupTerminated([CloseSurface(p) EXCEPT !.pending = FALSE]).host = "none"
  /\ PopupGood(PopupTerminated(Withdrawn(p)), S) /\ PopupTerminated(Withdrawn(p)).host = "none"
  /\ HasSurface(p) => \A state \in {"mapped", "ended"} :
       PopupGood([p EXCEPT !.host = state], S) /\ [p EXCEPT !.host = state].host = state
  /\ PopupGood([p EXCEPT !.ready = @ \/ p.host = "mapped"], S)
  /\ [p EXCEPT !.ready = @ \/ p.host = "mapped"].host = p.host
  /\ \A o : PopupGood([DestroySurface(p) EXCEPT !.visible = FALSE, !.ready = FALSE, !.id = "none"], S \ {o})
  /\ \A o : p.output # o => PopupGood(p, S \ {o})
  /\ \A o : PopupGood(p, S \cup {o})

LEMMA PopupMoves ==
  ASSUME NEW S, NEW p, PopupGood(p, S)
  PROVE  PopupMay(p, S)
<1> USE DEF PopupGood, PopupsOn, HasSurface, HostStates, Maybe
<1>1. /\ PopupGood([DestroySurface(p) EXCEPT !.visible = FALSE, !.ready = FALSE, !.id = "none"], S)
      /\ [DestroySurface(p) EXCEPT !.visible = FALSE, !.ready = FALSE, !.id = "none"].host = "none"
      /\ \A o : PopupGood([DestroySurface(p) EXCEPT !.visible = FALSE, !.ready = FALSE, !.id = "none"], S \ {o})
  BY DEF DestroySurface, CloseSurface, ClearPending
<1>2. /\ PopupGood(PopupTerminated([CloseSurface(p) EXCEPT !.pending = FALSE]), S)
      /\ PopupTerminated([CloseSurface(p) EXCEPT !.pending = FALSE]).host = "none"
  <2>1. /\ [CloseSurface(p) EXCEPT !.pending = FALSE] \in PopupsOn(S)
        /\ [CloseSurface(p) EXCEPT !.pending = FALSE].pending = FALSE
        /\ ~HasSurface([CloseSurface(p) EXCEPT !.pending = FALSE])
    BY DEF CloseSurface
  <2> QED
    BY <2>1, PopupEndsWell
<1>3. PopupGood(PopupTerminated(Withdrawn(p)), S) /\ PopupTerminated(Withdrawn(p)).host = "none"
  <2> DEFINE waits == IF HasSurface(p) THEN p.output # NoOutput ELSE p.pending
             w == CloseSurface([p EXCEPT !.pending = waits])
  <2>1. waits \in BOOLEAN /\ (waits => HasSurface(p) \/ p.pending)
    OBVIOUS
  <2>2. Withdrawn(p) = w
    BY DEF Withdrawn
  <2> HIDE DEF waits
  <2>3. w \in PopupsOn(S) /\ w.pending = waits /\ w.id = p.id /\ ~HasSurface(w)
    BY <2>1 DEF CloseSurface
  <2>4. w.pending => w.id # "none"
    BY <2>1, <2>3
  <2> HIDE DEF w
  <2> QED
    BY <2>2, <2>3, <2>4, PopupEndsWell
<1>4. HasSurface(p) => \A state \in {"mapped", "ended"} :
        PopupGood([p EXCEPT !.host = state], S) /\ [p EXCEPT !.host = state].host = state
  OBVIOUS
<1>5. /\ PopupGood([p EXCEPT !.ready = @ \/ p.host = "mapped"], S)
      /\ [p EXCEPT !.ready = @ \/ p.host = "mapped"].host = p.host
  OBVIOUS
<1>6. \A o : (p.output # o => PopupGood(p, S \ {o})) /\ PopupGood(p, S \cup {o})
  OBVIOUS
<1> QED
  BY <1>1, <1>2, <1>3, <1>4, <1>5, <1>6 DEF PopupMay

\* A popup that waits opens, or is gone.
LEMMA PopupOpens ==
  ASSUME NEW S, NEW p \in PopupsOn(S), ~HasSurface(p), p.visible = FALSE, p.pending <=> p.id # "none", NEW opens \in BOOLEAN
  PROVE  PopupGood(PopupOpened(p, opens), S)
<1> DEFINE opened == OpenPending(p, opens)
<1>1. /\ opened \in PopupsOn(S) /\ opened.id = p.id
      /\ opened # p => opened.pending = FALSE /\ p.pending = TRUE
  BY DEF PopupsOn, OpenPending, HostStates
<1>2. PopupOpened(p, opens) = CASE opened = p -> p
        [] HasSurface(opened) -> [opened EXCEPT !.visible = TRUE, !.ready = FALSE]
        [] OTHER -> PopupTerminated(opened)
  BY DEF PopupOpened
<1> HIDE DEF opened
<1>3. CASE opened = p
  BY <1>2, <1>3 DEF PopupGood
<1>4. CASE opened # p /\ HasSurface(opened)
  <2>1. PopupOpened(p, opens) = [opened EXCEPT !.visible = TRUE, !.ready = FALSE]
    BY <1>2, <1>4
  <2> QED
    BY <1>1, <1>4, <2>1 DEF PopupGood, PopupsOn, HasSurface
<1>5. CASE opened # p /\ ~HasSurface(opened)
  BY <1>2, <1>5, <1>1, PopupEndsWell
<1> QED
  BY <1>3, <1>4, <1>5

\* A popup that is shown has a surface, or waits for the provider, or has failed.
LEMMA PopupShows ==
  ASSUME provider \in BOOLEAN, outputs \subseteq Outputs, Primary \in outputs, PopupGood(popup, outputs),
         NEW id \in Popups, NEW o, NEW opens \in BOOLEAN
  PROVE  /\ PopupGood(PopupShown(id, o, opens), outputs)
         /\ ~provider => PopupShown(id, o, opens).host = "none"
<1> USE DEF PopupsOn, HostStates, Maybe
<1> DEFINE asked == OpenSurface([DestroySurface(popup) EXCEPT !.id = id], Target(o), FALSE, opens)
           opened == IF provider THEN PopupOpened(asked, opens) ELSE asked
           shows == HasSurface(opened)
<1>1. Target(o) \in outputs /\ Target(o) # NoOutput
  BY OutputsAssumption DEF Target
<1>2. /\ asked \in PopupsOn(outputs) /\ asked.host = "none" /\ asked.pending = TRUE
      /\ asked.output = Target(o) /\ asked.id = id
  BY <1>1 DEF PopupGood, OpenSurface, DestroySurface, CloseSurface, ClearPending
<1>3. PopupShown(id, o, opens) = [opened EXCEPT !.visible = shows, !.ready = FALSE]
  BY DEF PopupShown
<1> HIDE DEF asked
<1>4. provider => /\ PopupOpened(asked, opens) \in PopupsOn(outputs)
                  /\ PopupOpened(asked, opens).pending = FALSE
                  /\ PopupOpened(asked, opens).id # "none" <=> PopupOpened(asked, opens).host # "none"
  <2>1. CASE opens
    <3>1. OpenPending(asked, opens) = [asked EXCEPT !.pending = FALSE, !.host = "opening"]
      BY <1>1, <1>2, <2>1 DEF OpenPending
    <3> DEFINE p == [asked EXCEPT !.pending = FALSE, !.host = "opening"]
    <3>2. p \in PopupsOn(outputs) /\ p # asked /\ HasSurface(p) /\ p.id = id /\ p.pending = FALSE /\ p.host = "opening"
      BY <1>2 DEF HasSurface
    <3> HIDE DEF p
    <3>3. PopupOpened(asked, opens) = [p EXCEPT !.visible = TRUE, !.ready = FALSE]
      BY <3>1, <3>2 DEF PopupOpened, p
    <3> QED
      BY <3>2, <3>3 DEF Popups
  <2>2. CASE ~opens
    <3>1. OpenPending(asked, opens) = [asked EXCEPT !.pending = FALSE, !.host = asked.host]
      BY <1>1, <1>2, <2>2 DEF OpenPending
    <3> DEFINE p == [asked EXCEPT !.pending = FALSE, !.host = asked.host]
    <3>2. p \in PopupsOn(outputs) /\ p # asked /\ ~HasSurface(p) /\ p.pending = FALSE /\ p.host = "none"
      BY <1>2 DEF HasSurface
    <3> HIDE DEF p
    <3>3. PopupOpened(asked, opens) = PopupTerminated(p)
      BY <3>1, <3>2 DEF PopupOpened, p
    <3> QED
      BY <3>2, <3>3 DEF PopupTerminated
  <2> QED
    BY <2>1, <2>2
<1>5. /\ opened \in PopupsOn(outputs)
      /\ opened.id # "none" <=> opened.host # "none" \/ opened.pending
      /\ ~provider => opened.host = "none"
  BY <1>2, <1>4 DEF Popups
<1> HIDE DEF opened
<1>6. shows \in BOOLEAN /\ (shows <=> opened.host # "none")
  BY DEF HasSurface
<1> HIDE DEF shows
<1>7. /\ PopupGood([opened EXCEPT !.visible = shows, !.ready = FALSE], outputs)
      /\ [opened EXCEPT !.visible = shows, !.ready = FALSE].host = opened.host
  BY <1>5, <1>6 DEF PopupGood, HasSurface
<1> QED
  BY <1>3, <1>5, <1>7

(* The sidebars. *)
LEMMA ClosedIsGood ==
  ASSUME NEW s, SidebarGood(s)
  PROVE  /\ SidebarGood(SidebarClosed(s)) /\ ~SidebarClosed(s).open /\ SidebarClosed(s).host = s.host
         /\ SidebarClosed(s).tab = s.tab
<1> USE DEF SidebarGood, Sidebars, HasSurface
<1> DEFINE b == HasSurface(s)
<1>1. b \in BOOLEAN /\ (b <=> s.host # "none")
  OBVIOUS
<1> HIDE DEF b
<1>2. /\ [s EXCEPT !.open = FALSE, !.closing = b] \in Sidebars
      /\ [s EXCEPT !.open = FALSE, !.closing = b].host = s.host
      /\ [s EXCEPT !.open = FALSE, !.closing = b].tab = s.tab
      /\ [s EXCEPT !.open = FALSE, !.closing = b].open = FALSE
      /\ [s EXCEPT !.open = FALSE, !.closing = b].closing = b
  BY <1>1
<1>3. SidebarClosed(s) = [s EXCEPT !.open = FALSE, !.closing = b]
  BY DEF SidebarClosed, b
<1> QED
  BY <1>1, <1>2, <1>3

\* One sidebar becomes s, and all is well.
SetWell(sb2, sb, o, s, S) ==
  SidebarsGood(sb2, S) /\ sb2[o] = s /\ \A q \in Outputs \ {o} : sb2[q] = sb[q]

\* One sidebar changes: it does not open, or no other is open.
LEMMA SidebarIsSet ==
  ASSUME NEW S, NEW sb, SidebarsGood(sb, S), NEW o \in Outputs, NEW s, SidebarGood(s),
         s.open => sb[o].open \/ (o \in S /\ \A q \in Outputs : ~sb[q].open)
  PROVE  SetWell([sb EXCEPT ![o] = s], sb, o, s, S)
BY DEF SidebarsGood, SidebarGood, SetWell

LEMMA AllClosedIsGood ==
  ASSUME NEW S, NEW sb, SidebarsGood(sb, S)
  PROVE  /\ SidebarsGood(AllClosed(sb), S)
         /\ \A o \in Outputs : ~AllClosed(sb)[o].open /\ AllClosed(sb)[o].host = sb[o].host /\ AllClosed(sb)[o].tab = sb[o].tab
BY ClosedIsGood DEF AllClosed, SidebarsGood, SidebarGood

LEMMA SidebarOpens ==
  ASSUME provider \in BOOLEAN, NEW s, SidebarGood(s), ~s.open, NEW opens \in BOOLEAN
  PROVE  /\ SidebarGood(SidebarOpened(s, opens))
         /\ ~provider => SidebarOpened(s, opens) = s
         /\ s.host = "opening" => SidebarOpened(s, opens).host = "opening"
BY DEF SidebarGood, Sidebars, HasSurface, SidebarOpened

----------------------------------------------------------------------------
(* The steps.                                                              *)

\* A handler takes down nothing that has not ended.
SignalsSpare ==
  Len(posted') < Len(posted) => \A s \in Surfaces : HostOf(s) \in {"opening", "mapped"} => HostOf(s)' = HostOf(s)

LEMMA OverlaysAtFirst == Init => OverlayInv
<1> SUFFICES ASSUME Init PROVE OverlayInv
  OBVIOUS
<1>1. TooltipGood(tooltip, outputs) /\ LauncherGood(launcher, outputs) /\ OverviewGood(overview, outputs)
  BY DEF Init, TooltipGood, TooltipsOn, LauncherGood, LaunchersOn, OverviewGood, OverviewsOn, HostStates, Maybe, HasSurface
<1>2. PopupGood(popup, outputs)
  BY DEF Init, PopupGood, PopupsOn, HostStates, Maybe, HasSurface
<1>3. SidebarGood(NoSidebar) /\ ~NoSidebar.open /\ NoSidebar.host = "none" /\ NoSidebar \in Sidebars
  BY DEF SidebarGood, NoSidebar, Sidebars, Tabs, HasSurface
<1>4. SidebarsGood(sidebar, outputs) /\ \A o \in Outputs : ~sidebar[o].open /\ sidebar[o].host = "none"
  BY <1>3 DEF Init, SidebarsGood
<1>5. FollowersAgree
  <2>1. ~BrightnessShown(sidebar, outputs)
    <3>1. \A o \in outputs : ~sidebar[o].open
      BY <1>4 DEF Init
    <3> QED
      BY <3>1, Zenon DEF BrightnessShown
  <2>2. popup.visible = FALSE /\ audioSuppressed = FALSE /\ brightnessSuppressed = FALSE /\ bluetoothActive = FALSE
    BY DEF Init
  <2> QED
    BY <2>1, <2>2 DEF FollowersAgree
<1>6. QueueGood(posted, Hosts)
  BY EmptySeq, MaxPostedAssumption DEF Init, QueueGood, SignalsAgree
<1>7. \A s \in Surfaces : Hosts[s] = "none"
  BY <1>4, HostsAre DEF Init, Surfaces, Names
<1>8. provider \in BOOLEAN /\ outputs \subseteq Outputs /\ Primary \in outputs
      /\ {audioSuppressed, brightnessSuppressed, bluetoothActive} \subseteq BOOLEAN
  BY OutputsAssumption DEF Init
<1> QED
  BY <1>1, <1>2, <1>4, <1>5, <1>6, <1>7, <1>8 DEF OverlayInv

\* The hosts before and after a step.
LEMMA HostsMove ==
  /\ \A s \in Surfaces :
       \/ s = "tooltip" /\ Hosts[s] = tooltip.host /\ Hosts'[s] = tooltip'.host
       \/ s = "launcher" /\ Hosts[s] = launcher.host /\ Hosts'[s] = launcher'.host
       \/ s = "overview" /\ Hosts[s] = overview.host /\ Hosts'[s] = overview'.host
       \/ s = "popup" /\ Hosts[s] = popup.host /\ Hosts'[s] = popup'.host
       \/ s \in Outputs /\ s \notin Names /\ Hosts[s] = sidebar[s].host /\ Hosts'[s] = sidebar'[s].host
  /\ \A s \in Surfaces : HostOf(s) = Hosts[s] /\ HostOf(s)' = Hosts'[s]
  /\ Names \subseteq Surfaces /\ Outputs \subseteq Surfaces /\ Names = {"tooltip", "launcher", "overview", "popup"}
<1>1. /\ Hosts["tooltip"] = tooltip.host /\ Hosts["launcher"] = launcher.host
      /\ Hosts["overview"] = overview.host /\ Hosts["popup"] = popup.host
      /\ \A o \in Outputs : Hosts[o] = sidebar[o].host
  BY HostsAre
<1>2. /\ Hosts'["tooltip"] = tooltip'.host /\ Hosts'["launcher"] = launcher'.host
      /\ Hosts'["overview"] = overview'.host /\ Hosts'["popup"] = popup'.host
      /\ \A o \in Outputs : Hosts'[o] = sidebar'[o].host
  <2>1. (/\ Hosts["tooltip"] = tooltip.host /\ Hosts["launcher"] = launcher.host
         /\ Hosts["overview"] = overview.host /\ Hosts["popup"] = popup.host
         /\ \A o \in Outputs : Hosts[o] = sidebar[o].host)'
    BY <1>1, PTL
  <2> QED
    BY <2>1
<1>3. \A s \in Outputs : s \notin Names
  BY SurfaceNamesAssumption
<1>4. \A s \in Surfaces : HostOf(s) = Hosts[s] /\ HostOf(s)' = Hosts'[s]
  BY DEF Hosts
<1> QED
  BY <1>1, <1>2, <1>3, <1>4 DEF Surfaces, Names

\* What the invariant says of the hosts.
LEMMA HostsKnown ==
  ASSUME OverlayInv
  PROVE  /\ \A s \in Surfaces : Hosts[s] \in HostStates
         /\ ~provider => /\ tooltip.host = "none" /\ launcher.host = "none" /\ overview.host = "none" /\ popup.host = "none"
                         /\ \A o \in Outputs : sidebar[o].host = "none"
<1>1. /\ tooltip.host \in HostStates /\ launcher.host \in HostStates /\ overview.host \in HostStates
      /\ popup.host \in HostStates
  BY DEF OverlayInv, TooltipGood, TooltipsOn, LauncherGood, LaunchersOn, OverviewGood, OverviewsOn, PopupGood, PopupsOn
<1>2. \A o \in Outputs : sidebar[o].host \in HostStates
  BY DEF OverlayInv, SidebarsGood, SidebarGood, Sidebars, HostStates
<1>3. "tooltip" \in Surfaces /\ "launcher" \in Surfaces /\ "overview" \in Surfaces /\ "popup" \in Surfaces
      /\ Outputs \subseteq Surfaces
  BY HostsMove
<1>4. \A s \in Surfaces : Hosts[s] \in HostStates
  BY <1>1, <1>2, HostsMove
<1>5. ~provider => \A s \in Surfaces : Hosts[s] = "none"
  BY DEF OverlayInv
<1>6. ~provider => /\ Hosts["tooltip"] = "none" /\ Hosts["launcher"] = "none" /\ Hosts["overview"] = "none"
                   /\ Hosts["popup"] = "none" /\ \A o \in Outputs : Hosts[o] = "none"
  BY <1>3, <1>5
<1> QED
  BY <1>4, <1>6, HostsAre

\* A step that leaves provider and outputs alone.
LEMMA ShellStays ==
  ASSUME OverlayInv, UNCHANGED shell,
         TooltipGood(tooltip', outputs), LauncherGood(launcher', outputs), OverviewGood(overview', outputs),
         PopupGood(popup', outputs), SidebarsGood(sidebar', outputs),
         FollowersAgree', {audioSuppressed, brightnessSuppressed, bluetoothActive}' \subseteq BOOLEAN,
         QueueGood(posted', Hosts'), ~provider => \A s \in Surfaces : Hosts'[s] = "none"
  PROVE  OverlayInv'
BY DEF OverlayInv, shell

\* The followers agree when nothing they follow changes.
LEMMA FollowersStay ==
  ASSUME OverlayInv, UNCHANGED <<outputs, popup, sidebar, derived>>
  PROVE  FollowersAgree' /\ {audioSuppressed, brightnessSuppressed, bluetoothActive}' \subseteq BOOLEAN
BY DEF derived, followers, OverlayInv, FollowersAgree

\* PopupChanged tells the followers of the popup what it became.
LEMMA PopupIsFollowed ==
  ASSUME OverlayInv, PopupGood(popup', outputs'), PopupChanged
  PROVE  /\ audioSuppressed' \in BOOLEAN /\ bluetoothActive' \in BOOLEAN
         /\ audioSuppressed' <=> popup'.visible /\ popup'.id = "audio"
         /\ bluetoothActive' <=> popup'.visible /\ popup'.id = "bluetooth"
BY DEF PopupGood, PopupsOn, OverlayInv, FollowersAgree, PopupChanged, followers

\* SidebarsChanged does the same for the sidebars.
LEMMA SidebarsAreFollowed ==
  ASSUME OverlayInv, outputs' = outputs, SidebarsChanged
  PROVE  /\ brightnessSuppressed' \in BOOLEAN
         /\ brightnessSuppressed' <=> BrightnessShown(sidebar', outputs)
<1>1. outputs \subseteq Outputs /\ brightnessSuppressed \in BOOLEAN /\ (brightnessSuppressed <=> BrightnessShown(sidebar, outputs))
  BY DEF OverlayInv, FollowersAgree
<1>2. CASE \E o \in Outputs : sidebar'[o].open # sidebar[o].open \/ sidebar'[o].tab # sidebar[o].tab
  <2>1. brightnessSuppressed' = BrightnessShown(sidebar', outputs)
    BY <1>2 DEF SidebarsChanged
  <2>2. BrightnessShown(sidebar', outputs) \in BOOLEAN
    BY DEF BrightnessShown
  <2> QED
    BY <2>1, <2>2
<1>3. CASE ~ \E o \in Outputs : sidebar'[o].open # sidebar[o].open \/ sidebar'[o].tab # sidebar[o].tab
  <2>1. brightnessSuppressed' = brightnessSuppressed
    BY <1>3 DEF SidebarsChanged
  <2>2. \A o \in Outputs : sidebar'[o].open = sidebar[o].open /\ sidebar'[o].tab = sidebar[o].tab
    BY <1>3
  <2>3. BrightnessShown(sidebar', outputs) <=> BrightnessShown(sidebar, outputs)
    <3>1. \A o \in outputs : sidebar'[o].open = sidebar[o].open /\ sidebar'[o].tab = sidebar[o].tab
      BY <1>1, <2>2
    <3> QED
      BY <3>1, Zenon DEF BrightnessShown
  <2> QED
    BY <1>1, <2>1, <2>3
<1> QED
  BY <1>2, <1>3

\* A queue that grows or stays is no handler's step.
LEMMA NoneHandled ==
  ASSUME posted \in Seq(Posts), Len(posted') \in Nat, Len(posted') >= Len(posted)
  PROVE  SignalsSpare
BY LenProperties DEF SignalsSpare

\* Whoever handles a signal leaves the hosts alone, but for one that has ended.
LEMMA OneEnded ==
  ASSUME NEW r \in Surfaces, \A s \in Surfaces \ {r} : Hosts'[s] = Hosts[s],
         Hosts'[r] = Hosts[r] \/ Hosts[r] = "ended"
  PROVE  SignalsSpare
BY HostsMove DEF SignalsSpare

\* The four things a step does to the queue.
LEMMA QueueDrops ==
  ASSUME OverlayInv, NEW S, Drops(S), \A s \in Surfaces \ S : Hosts'[s] = Hosts[s] \/ Hosts[s] = "none"
  PROVE  QueueGood(posted', Hosts') /\ SignalsSpare
<1>1. QueueGood(posted, Hosts) /\ posted \in Seq(Posts)
  BY DEF OverlayInv, QueueGood
<1>2. QueueGood(posted', Hosts') /\ Len(posted') = Len(posted)
  BY <1>1, DropsIsGood
<1>3. Len(posted) \in Nat
  BY <1>1, LenProperties
<1> QED
  BY <1>1, <1>2, <1>3, NoneHandled

LEMMA QueueKept ==
  ASSUME OverlayInv, UNCHANGED posted, \A s \in Surfaces : Hosts'[s] = Hosts[s] \/ Hosts[s] = "none"
  PROVE  QueueGood(posted', Hosts') /\ SignalsSpare
BY KeptIsGood, LenProperties, NoneHandled DEF OverlayInv, QueueGood

LEMMA QueuePosted ==
  ASSUME OverlayInv, NEW r \in Surfaces, NEW event \in {"configured", "ended"}, Post(r, event),
         \A s \in Surfaces \ {r} : Hosts'[s] = Hosts[s],
         Hosts[r] # "ended", Hosts'[r] # "none", event = "ended" => Hosts'[r] = "ended"
  PROVE  QueueGood(posted', Hosts') /\ SignalsSpare
BY PostIsGood, LenProperties, NoneHandled DEF OverlayInv, QueueGood

LEMMA QueueTaken ==
  ASSUME OverlayInv, NEW r \in Surfaces, NEW S, Take(r, S), \A s \in Surfaces \ {r} : Hosts'[s] = Hosts[s],
         Hosts'[r] = Hosts[r] \/ (Hosts[r] = "ended" /\ r \in S)
  PROVE  QueueGood(posted', Hosts') /\ SignalsSpare
BY TakeIsGood, OneEnded DEF OverlayInv

\* What the invariant says of each part.
LEMMA PartsAreGood ==
  ASSUME OverlayInv
  PROVE  /\ provider \in BOOLEAN /\ outputs \subseteq Outputs /\ Primary \in outputs
         /\ TooltipGood(tooltip, outputs) /\ LauncherGood(launcher, outputs) /\ OverviewGood(overview, outputs)
         /\ PopupGood(popup, outputs) /\ SidebarsGood(sidebar, outputs) /\ QueueGood(posted, Hosts)
BY DEF OverlayInv

\* The hosts of a step of one overlay.
LEMMA OneHostMoves ==
  ASSUME NEW r \in Names,
         r # "tooltip" => tooltip' = tooltip, r # "launcher" => launcher' = launcher,
         r # "overview" => overview' = overview, r # "popup" => popup' = popup, sidebar' = sidebar
  PROVE  r \in Surfaces /\ \A s \in Surfaces \ {r} : Hosts'[s] = Hosts[s]
BY HostsMove

LEMMA TooltipStep == OverlayInv /\ TooltipNext => OverlayInv' /\ SignalsSpare
<1> SUFFICES ASSUME OverlayInv, TooltipNext PROVE OverlayInv' /\ SignalsSpare
  OBVIOUS
<1>1. UNCHANGED <<shell, launcher, overview, popup, sidebar, derived>>
  <2>1. ASSUME NEW o \in Outputs, NEW opens \in BOOLEAN, ShowTooltip(o, opens)
        PROVE  UNCHANGED <<shell, launcher, overview, popup, sidebar, derived>>
    BY <2>1 DEF ShowTooltip
  <2>2. HideTooltip \/ TooltipSignal \/ TooltipMapped \/ TooltipEnds =>
          UNCHANGED <<shell, launcher, overview, popup, sidebar, derived>>
    BY DEF HideTooltip, TooltipSignal, TooltipMapped, TooltipEnds
  <2> QED
    BY <2>1, <2>2 DEF TooltipNext
<1>2. /\ provider \in BOOLEAN /\ outputs \subseteq Outputs /\ Primary \in outputs /\ TooltipGood(tooltip, outputs)
      /\ QueueGood(posted, Hosts)
  BY PartsAreGood
<1>3. /\ "tooltip" \in Surfaces /\ Hosts["tooltip"] = tooltip.host /\ Hosts'["tooltip"] = tooltip'.host
      /\ \A s \in Surfaces \ {"tooltip"} : Hosts'[s] = Hosts[s]
  BY <1>1, OneHostMoves, HostsMove
<1>4. ~provider => tooltip.host = "none"
  BY HostsKnown
<1>m. TooltipMay(tooltip, outputs)
  BY <1>2, TooltipMoves
<1>5. ASSUME TooltipGood(tooltip', outputs), ~provider => tooltip'.host = "none", QueueGood(posted', Hosts')
      PROVE  OverlayInv'
  BY <1>3, <1>5, <1>1, FollowersStay, PartsAreGood, ShellStays DEF OverlayInv, shell
<1>6. ASSUME NEW o \in Outputs, NEW opens \in BOOLEAN, ShowTooltip(o, opens) PROVE OverlayInv' /\ SignalsSpare
  <2> DEFINE opened == OpenSurface(DestroySurface(tooltip), Target(o), provider, opens)
  <2>1. tooltip' = [opened EXCEPT !.visible = HasSurface(opened), !.at = o] /\ Drops({"tooltip"})
    BY <1>6 DEF ShowTooltip
  <2>2. Target(o) \in outputs
    BY <1>2 DEF Target
  <2>3. opened \in TooltipsOn(outputs) /\ (~provider => opened.host = "none")
    BY <1>2, <2>2 DEF TooltipGood, TooltipsOn, HostStates, Maybe, OpenSurface, OpenPending, DestroySurface,
                      CloseSurface, ClearPending
  <2> HIDE DEF opened
  <2>4. TooltipGood(tooltip', outputs) /\ (~provider => tooltip'.host = "none")
    <3>1. /\ TooltipGood([opened EXCEPT !.visible = HasSurface(opened), !.at = o], outputs)
          /\ [opened EXCEPT !.visible = HasSurface(opened), !.at = o].host = opened.host
      BY <2>3, TooltipOpens, Zenon
    <3>2. TooltipGood(tooltip', outputs) /\ tooltip'.host = opened.host
      BY <2>1, <3>1, Zenon
    <3> QED
      BY <2>3, <3>2
  <2>5. QueueGood(posted', Hosts') /\ SignalsSpare
    BY <1>3, <2>1, QueueDrops
  <2> QED
    BY <1>5, <2>4, <2>5
<1>7. CASE HideTooltip
  BY <1>7, <1>m, <1>3, QueueDrops, <1>5 DEF TooltipMay, HideTooltip, HiddenTooltip
<1>8. CASE TooltipSignal
  BY <1>8, <1>2, <1>3, AnswerIsTrue, <1>m, QueueTaken, <1>4, <1>5 DEF TooltipSignal, HasSurface, Answer, TooltipMay
<1>9. CASE TooltipMapped
  BY <1>9, <1>m, <1>3, QueuePosted, <1>4, <1>5 DEF TooltipMapped, TooltipMay, HasSurface
<1>10. CASE TooltipEnds
  BY <1>10, <1>m, <1>3, QueuePosted, <1>4, <1>5 DEF TooltipEnds, TooltipMay, HasSurface, IsLive
<1> QED
  BY <1>6, <1>7, <1>8, <1>9, <1>10 DEF TooltipNext

LEMMA LauncherStep == OverlayInv /\ LauncherNext => OverlayInv' /\ SignalsSpare
<1> SUFFICES ASSUME OverlayInv, LauncherNext PROVE OverlayInv' /\ SignalsSpare
  OBVIOUS
<1>1. UNCHANGED <<shell, tooltip, overview, popup, sidebar, derived>>
  BY DEF ShowLauncher, ToggleLauncher, LauncherFades, LauncherFaded, LauncherSignal, LauncherEnds, LauncherNext
<1>2. /\ provider \in BOOLEAN /\ outputs \subseteq Outputs /\ Primary \in outputs /\ LauncherGood(launcher, outputs)
      /\ QueueGood(posted, Hosts)
  BY PartsAreGood
<1>3. /\ "launcher" \in Surfaces /\ Hosts["launcher"] = launcher.host /\ Hosts'["launcher"] = launcher'.host
      /\ \A s \in Surfaces \ {"launcher"} : Hosts'[s] = Hosts[s]
  BY <1>1, OneHostMoves, HostsMove
<1>4. ~provider => launcher.host = "none"
  BY HostsKnown
<1>m. LauncherMay(launcher, outputs)
  BY <1>2, LauncherMoves
<1>5. ASSUME LauncherGood(launcher', outputs), ~provider => launcher'.host = "none", QueueGood(posted', Hosts')
      PROVE  OverlayInv'
  BY <1>3, <1>5, <1>1, FollowersStay, PartsAreGood, ShellStays DEF OverlayInv, shell
<1>6. ASSUME NEW o \in Outputs, NEW opens \in BOOLEAN, ShowLauncher(o, opens) PROVE OverlayInv' /\ SignalsSpare
  BY <1>6, <1>2, LauncherCreates, <1>3, QueueDrops, <1>5, <1>m, QueueKept, <1>4 DEF ShowLauncher, Drops, LauncherMay,
     Maybe
<1>7. ASSUME NEW o \in Outputs, NEW opens \in BOOLEAN, ToggleLauncher(o, opens) PROVE OverlayInv' /\ SignalsSpare
  BY <1>7, <1>m, <1>3, QueueKept, <1>4, <1>5, <1>6 DEF ToggleLauncher, LauncherMay
<1>8. CASE LauncherFades
  BY <1>8, <1>m, <1>3, QueueKept, <1>4, <1>5 DEF LauncherFades, LauncherMay
<1>9. CASE LauncherFaded
  BY <1>9, <1>m, <1>3, QueueDrops, <1>5 DEF LauncherFaded, LauncherMay
<1>10. CASE LauncherSignal
  BY <1>10, <1>2, <1>3, AnswerIsTrue, <1>m, QueueTaken, <1>4, <1>5 DEF LauncherSignal, LauncherMay, HasSurface
<1>11. CASE LauncherEnds
  BY <1>11, <1>m, <1>3, QueuePosted, <1>4, <1>5 DEF LauncherEnds, LauncherMay, HasSurface, IsLive
<1> QED
  BY <1>6, <1>7, <1>8, <1>9, <1>10, <1>11 DEF LauncherNext

LEMMA OverviewStep == OverlayInv /\ OverviewNext => OverlayInv' /\ SignalsSpare
<1> SUFFICES ASSUME OverlayInv, OverviewNext PROVE OverlayInv' /\ SignalsSpare
  OBVIOUS
<1>1. UNCHANGED <<shell, tooltip, launcher, popup, sidebar, derived>>
  BY DEF ToggleOverview, OpenMenu, HideOverview, OverviewSignal, OverviewEnds, OverviewNext
<1>2. /\ provider \in BOOLEAN /\ outputs \subseteq Outputs /\ Primary \in outputs /\ OverviewGood(overview, outputs)
      /\ QueueGood(posted, Hosts)
  BY PartsAreGood
<1>3. /\ "overview" \in Surfaces /\ Hosts["overview"] = overview.host /\ Hosts'["overview"] = overview'.host
      /\ \A s \in Surfaces \ {"overview"} : Hosts'[s] = Hosts[s]
  BY <1>1, OneHostMoves, HostsMove
<1>4. ~provider => overview.host = "none"
  BY HostsKnown
<1>m. OverviewMay(overview, outputs)
  BY <1>2, OverviewMoves
<1>5. ASSUME OverviewGood(overview', outputs), ~provider => overview'.host = "none", QueueGood(posted', Hosts')
      PROVE  OverlayInv'
  BY <1>3, <1>5, <1>1, FollowersStay, PartsAreGood, ShellStays DEF OverlayInv, shell
<1>6. OverviewGood(HiddenOverview, outputs) /\ HiddenOverview.host = "none"
  BY <1>m DEF OverviewMay, HiddenOverview
<1>7. ASSUME NEW o \in Outputs, NEW opens \in BOOLEAN, ToggleOverview(o, opens) \/ OpenMenu(o, opens)
      PROVE  OverlayInv' /\ SignalsSpare
  BY <1>7, <1>2, OverviewOpens, <1>6, <1>3, QueueDrops, <1>5 DEF ToggleOverview, OpenMenu
<1>8. CASE HideOverview
  BY <1>8, <1>3, QueueDrops, <1>5, <1>6 DEF HideOverview
<1>9. CASE OverviewSignal
  BY <1>9, <1>2, <1>3, AnswerIsTrue, <1>m, QueueTaken, <1>4, <1>5 DEF OverviewSignal, OverviewMay, HasSurface
<1>10. CASE OverviewEnds
  BY <1>10, <1>m, <1>3, QueuePosted, <1>4, <1>5 DEF OverviewEnds, OverviewMay, HasSurface, IsLive
<1> QED
  BY <1>7, <1>8, <1>9, <1>10 DEF OverviewNext

LEMMA PopupStep == OverlayInv /\ PopupNext => OverlayInv' /\ SignalsSpare
<1> SUFFICES ASSUME OverlayInv, PopupNext PROVE OverlayInv' /\ SignalsSpare
  OBVIOUS
<1>1. UNCHANGED <<shell, tooltip, launcher, overview, sidebar, brightnessSuppressed>>
  BY DEF ShowPopup, TogglePopup, PairingRequested, HidePopup, PopupSignal, PopupMapped, DismissMapped, PopupEnds,
     derived, PopupNext
<1>2. /\ provider \in BOOLEAN /\ outputs \subseteq Outputs /\ Primary \in outputs /\ PopupGood(popup, outputs)
      /\ QueueGood(posted, Hosts)
  BY PartsAreGood
<1>3. /\ "popup" \in Surfaces /\ Hosts["popup"] = popup.host /\ Hosts'["popup"] = popup'.host
      /\ \A s \in Surfaces \ {"popup"} : Hosts'[s] = Hosts[s]
  BY <1>1, OneHostMoves, HostsMove
<1>4. ~provider => popup.host = "none"
  BY HostsKnown
<1>m. PopupMay(popup, outputs)
  BY <1>2, PopupMoves
<1>a. outputs' = outputs
  BY <1>1 DEF shell
<1>5. ASSUME PopupGood(popup', outputs), ~provider => popup'.host = "none", QueueGood(posted', Hosts'),
             PopupChanged \/ (UNCHANGED derived /\ popup'.visible = popup.visible /\ popup'.id = popup.id)
      PROVE  OverlayInv'
  BY <1>3, <1>5, <1>a, PopupIsFollowed, <1>1, PartsAreGood, ShellStays DEF OverlayInv, PopupChanged, derived,
     FollowersAgree
<1>6. ASSUME NEW id \in Popups, NEW o \in Outputs, NEW opens \in BOOLEAN, ShowPopup(id, o, opens)
      PROVE  OverlayInv' /\ SignalsSpare
  BY <1>6, <1>2, PopupShows, <1>3, QueueDrops, <1>5 DEF ShowPopup
<1>7. ASSUME HidePopup PROVE OverlayInv' /\ SignalsSpare
  BY <1>7, <1>m, <1>3, QueueDrops, <1>5 DEF HidePopup, PopupMay, HiddenPopup
<1>8. ASSUME NEW id \in Popups, NEW o \in Outputs, NEW opens \in BOOLEAN, TogglePopup(id, o, opens)
      PROVE  OverlayInv' /\ SignalsSpare
  BY <1>6, <1>7, <1>8 DEF TogglePopup
<1>9. ASSUME NEW o \in Outputs, NEW opens \in BOOLEAN, PairingRequested(o, opens)
      PROVE  OverlayInv' /\ SignalsSpare
  BY <1>9, <1>6 DEF PairingRequested, Popups
<1>10. CASE PopupSignal
  BY <1>10, <1>m, <1>2, <1>3, AnswerIsTrue, QueueTaken, <1>4, <1>5 DEF PopupSignal, PopupMay, Answer, HasSurface
<1>11. CASE PopupMapped
  BY <1>11, <1>m, <1>2, <1>3, QueuePosted, <1>4, <1>5 DEF PopupMapped, PopupMay, HasSurface, PopupGood, PopupsOn
<1>12. CASE DismissMapped
  BY <1>12, <1>3, QueuePosted, <1>2, <1>4, <1>5 DEF DismissMapped, IsLive
<1>13. CASE PopupEnds
  BY <1>13, <1>m, <1>2, <1>3, QueuePosted, <1>4, <1>5 DEF PopupEnds, PopupMay, HasSurface, IsLive, PopupGood, PopupsOn
<1> QED
  BY <1>7, <1>8, <1>9, <1>10, <1>11, <1>12, <1>13 DEF PopupNext

\* The step of a sidebar, once its queue and its hosts are known.
LEMMA SidebarsStand ==
  ASSUME OverlayInv, UNCHANGED <<shell, tooltip, launcher, overview, popup, followers>>,
         SidebarsGood(sidebar', outputs), QueueGood(posted', Hosts'), \A o \in Outputs : ~provider => sidebar'[o].host = "none",
         SidebarsChanged
  PROVE  OverlayInv'
BY HostsMove, HostsKnown, SidebarsAreFollowed, PartsAreGood, ShellStays DEF shell, OverlayInv, FollowersAgree,
   followers

LEMMA SidebarStep == OverlayInv /\ SidebarNext => OverlayInv' /\ SignalsSpare
<1> SUFFICES ASSUME OverlayInv, NEW o \in Outputs,
                    \/ \E opens \in BOOLEAN : ToggleSidebar(o, opens)
                    \/ CloseSidebar(o)
                    \/ \E tab \in Tabs : TabChanged(o, tab)
                    \/ SidebarFaded(o)
                    \/ SidebarSignal(o)
                    \/ SidebarEnds(o)
             PROVE  OverlayInv' /\ SignalsSpare
  BY DEF SidebarNext
<1>1. UNCHANGED <<shell, tooltip, launcher, overview, popup, followers>>
  BY DEF ToggleSidebar, TabChanged, CloseSidebar, SidebarFaded, SidebarSignal, SidebarEnds, derived
<1>2. /\ provider \in BOOLEAN /\ outputs \subseteq Outputs /\ SidebarsGood(sidebar, outputs) /\ QueueGood(posted, Hosts)
      /\ SidebarGood(sidebar[o]) /\ (sidebar[o].open => o \in outputs) /\ sidebar[o] \in Sidebars
  BY PartsAreGood DEF SidebarsGood
<1>3. /\ o \in Surfaces /\ o \notin Names /\ Hosts[o] = sidebar[o].host
      /\ (\A q \in Outputs \ {o} : sidebar'[q].host = sidebar[q].host) =>
           \A s \in Surfaces \ {o} : Hosts'[s] = Hosts[s]
      /\ Hosts'[o] = sidebar'[o].host
  BY HostsMove, SurfaceNamesAssumption, <1>1
<1>4. \A q \in Outputs : ~provider => sidebar[q].host = "none"
  BY HostsKnown
<1>5. ASSUME NEW opens \in BOOLEAN, ToggleSidebar(o, opens) PROVE OverlayInv' /\ SignalsSpare
  <2> DEFINE S == IF sidebar[o].host = "ended" /\ ~sidebar[o].open /\ provider THEN {o} ELSE {}
  <2>1. o \in outputs /\ sidebar' = SidebarToggled(o, opens) /\ SidebarsChanged /\ Drops(S)
    BY <1>5 DEF ToggleSidebar
  <2>2. S = {} => ~(sidebar[o].host = "ended" /\ ~sidebar[o].open /\ provider)
    OBVIOUS
  <2>3. S = {} \/ S = {o}
    OBVIOUS
  <2> HIDE DEF S
  <2>4. CASE sidebar[o].open
    <3> DEFINE s == SidebarClosed(sidebar[o])
    <3>1. sidebar' = [sidebar EXCEPT ![o] = s]
      BY <2>1, <2>4 DEF SidebarToggled
    <3>2. SidebarGood(s) /\ ~s.open /\ s.host = sidebar[o].host
      BY <1>2, ClosedIsGood
    <3> HIDE DEF s
    <3>3. SidebarsGood(sidebar', outputs) /\ sidebar'[o] = s /\ \A q \in Outputs \ {o} : sidebar'[q] = sidebar[q]
      <4>1. SetWell(sidebar', sidebar, o, s, outputs)
        BY <1>2, <3>1, <3>2, SidebarIsSet
      <4> QED
        BY <4>1 DEF SetWell
    <3>4. \A s2 \in Surfaces : Hosts'[s2] = Hosts[s2]
      BY <1>3, <3>2, <3>3
    <3>5. QueueGood(posted', Hosts') /\ SignalsSpare
      BY <2>1, <3>4, QueueDrops
    <3>6. \A q \in Outputs : ~provider => sidebar'[q].host = "none"
      BY <1>4, <3>2, <3>3
    <3> QED
      BY <1>1, <2>1, <3>3, <3>5, <3>6, SidebarsStand
  <2>5. CASE ~sidebar[o].open
    <3> DEFINE sb == AllClosed(sidebar)
               s == SidebarOpened(sb[o], opens)
    <3>1. sidebar' = [sb EXCEPT ![o] = s]
      BY <2>1, <2>5 DEF SidebarToggled
    <3>2. SidebarsGood(sb, outputs) /\ \A q \in Outputs : ~sb[q].open /\ sb[q].host = sidebar[q].host
      BY <1>2, AllClosedIsGood
    <3>3. SidebarGood(sb[o])
      BY <3>2 DEF SidebarsGood
    <3>4. /\ SidebarGood(s)
          /\ ~provider => s = sb[o]
          /\ sb[o].host = "opening" => s.host = "opening"
      BY <1>2, <3>2, <3>3, SidebarOpens
    <3> HIDE DEF s, sb
    <3>5. SidebarsGood(sidebar', outputs) /\ sidebar'[o] = s /\ \A q \in Outputs \ {o} : sidebar'[q] = sb[q]
      <4>a. SidebarsGood(sb, outputs) /\ o \in outputs /\ \A q \in Outputs : ~sb[q].open
        BY <2>1, <3>2
      <4>b. SetWell([sb EXCEPT ![o] = s], sb, o, s, outputs)
        BY <3>4, <4>a, SidebarIsSet
      <4>1. SetWell(sidebar', sb, o, s, outputs)
        BY <3>1, <4>b
      <4> QED
        BY <4>1 DEF SetWell
    <3>6. \A s2 \in Surfaces \ {o} : Hosts'[s2] = Hosts[s2]
      BY <1>3, <3>2, <3>5
    <3>7. \A s2 \in Surfaces \ S : Hosts'[s2] = Hosts[s2] \/ Hosts[s2] = "none"
      BY <1>2, <1>3, <1>4, <2>2, <2>3, <2>5, <3>2, <3>4, <3>5, <3>6 DEF Sidebars
    <3>8. QueueGood(posted', Hosts') /\ SignalsSpare
      BY <2>1, <3>7, QueueDrops
    <3>9. \A q \in Outputs : ~provider => sidebar'[q].host = "none"
      BY <1>4, <3>2, <3>4, <3>5
    <3> QED
      BY <1>1, <2>1, <3>5, <3>8, <3>9, SidebarsStand
  <2> QED
    BY <2>4, <2>5
\* A sidebar is set to s, which keeps its host, and nothing happens to the queue.
<1>6. ASSUME NEW s, SidebarGood(s), s.open => sidebar[o].open, s.host = sidebar[o].host,
             sidebar' = [sidebar EXCEPT ![o] = s], posted' = posted, SidebarsChanged
      PROVE  OverlayInv' /\ SignalsSpare
  <2>1. SidebarsGood(sidebar', outputs) /\ sidebar'[o] = s /\ \A q \in Outputs \ {o} : sidebar'[q] = sidebar[q]
    <3>1. SetWell(sidebar', sidebar, o, s, outputs)
      BY <1>2, <1>6, SidebarIsSet
    <3> QED
      BY <3>1 DEF SetWell
  <2>2. \A s2 \in Surfaces : Hosts'[s2] = Hosts[s2]
    BY <1>3, <1>6, <2>1
  <2>3. QueueGood(posted', Hosts') /\ SignalsSpare
    BY <1>6, <2>2, QueueKept
  <2>4. \A q \in Outputs : ~provider => sidebar'[q].host = "none"
    BY <1>4, <1>6, <2>1
  <2> QED
    BY <1>1, <1>6, <2>1, <2>3, <2>4, SidebarsStand
<1>7. CASE CloseSidebar(o)
  <2> DEFINE s == SidebarClosed(sidebar[o])
  <2>1. sidebar' = [sidebar EXCEPT ![o] = s] /\ posted' = posted /\ SidebarsChanged
    BY <1>7 DEF CloseSidebar
  <2>2. SidebarGood(s) /\ ~s.open /\ s.host = sidebar[o].host
    BY <1>2, ClosedIsGood
  <2> HIDE DEF s
  <2> QED
    BY <1>6, <2>1, <2>2
<1>8. ASSUME NEW tab \in Tabs, TabChanged(o, tab) PROVE OverlayInv' /\ SignalsSpare
  <2> DEFINE s == [sidebar[o] EXCEPT !.tab = tab]
  <2>1. sidebar' = [sidebar EXCEPT ![o].tab = tab] /\ posted' = posted /\ SidebarsChanged
    BY <1>8 DEF TabChanged
  <2>2. sidebar' = [sidebar EXCEPT ![o] = s]
    BY <2>1
  <2>3. SidebarGood(s) /\ s.open = sidebar[o].open /\ s.host = sidebar[o].host
    BY <1>2 DEF SidebarGood, Sidebars, HasSurface
  <2> HIDE DEF s
  <2> QED
    BY <1>6, <2>1, <2>2, <2>3
<1>9. CASE SidebarFaded(o)
  <2> DEFINE s == [sidebar[o] EXCEPT !.host = "none", !.closing = FALSE]
  <2>1. /\ sidebar' = [sidebar EXCEPT ![o].host = "none", ![o].closing = FALSE] /\ Drops({o}) /\ ~sidebar[o].open
        /\ UNCHANGED derived
    BY <1>9 DEF SidebarFaded
  <2>2. sidebar' = [sidebar EXCEPT ![o] = s]
    BY <1>2, <2>1 DEF SidebarsGood
  <2>3. SidebarGood(s) /\ ~s.open /\ s.host = "none" /\ s.tab = sidebar[o].tab /\ s.open = sidebar[o].open
    BY <1>2, <2>1 DEF SidebarGood, Sidebars, HasSurface
  <2> HIDE DEF s
  <2>4. SidebarsGood(sidebar', outputs) /\ sidebar'[o] = s /\ \A q \in Outputs \ {o} : sidebar'[q] = sidebar[q]
    <3>1. SetWell(sidebar', sidebar, o, s, outputs)
      BY <1>2, <2>2, <2>3, SidebarIsSet
    <3> QED
      BY <3>1 DEF SetWell
  <2>5. SidebarsChanged
    <3>1. \A q \in Outputs : sidebar'[q].open = sidebar[q].open /\ sidebar'[q].tab = sidebar[q].tab
      BY <2>3, <2>4
    <3> QED
      BY <2>1, <3>1 DEF SidebarsChanged, derived
  <2>6. \A s2 \in Surfaces \ {o} : Hosts'[s2] = Hosts[s2]
    BY <1>3, <2>4
  <2>7. QueueGood(posted', Hosts') /\ SignalsSpare
    BY <2>1, <2>6, QueueDrops
  <2>8. \A q \in Outputs : ~provider => sidebar'[q].host = "none"
    BY <1>4, <2>3, <2>4
  <2> QED
    BY <1>1, <2>4, <2>5, <2>7, <2>8, SidebarsStand
<1>10. CASE SidebarSignal(o)
  <2> DEFINE S == IF HasSurface(sidebar'[o]) THEN {} ELSE {o}
             s == SidebarEnded(sidebar[o])
  <2>1. /\ SidebarsChanged /\ Take(o, S)
        /\ sidebar' = IF Answer(o, "ended") THEN [sidebar EXCEPT ![o] = s] ELSE sidebar
    BY <1>10 DEF SidebarSignal
  <2>2. o \notin S => HasSurface(sidebar'[o])
    OBVIOUS
  <2>3. SidebarGood(s) /\ ~s.open /\ s.host = "none"
    BY <1>2 DEF SidebarEnded, SidebarGood, Sidebars, HasSurface
  <2> HIDE DEF S, s
  <2>4. Answer(o, "ended") => sidebar[o].host = "ended"
    BY <1>2, <1>3, AnswerIsTrue
  <2>5. SidebarsGood([sidebar EXCEPT ![o] = s], outputs) /\ [sidebar EXCEPT ![o] = s][o] = s
        /\ \A q \in Outputs \ {o} : [sidebar EXCEPT ![o] = s][q] = sidebar[q]
    BY <1>2, <2>3, SidebarIsSet DEF SetWell
  <2>6. /\ SidebarsGood(sidebar', outputs)
        /\ \A q \in Outputs \ {o} : sidebar'[q] = sidebar[q]
        /\ sidebar'[o].host = sidebar[o].host \/ (sidebar'[o].host = "none" /\ sidebar[o].host = "ended")
    BY <2>1, <2>3, <2>4, <2>5, <1>2
  <2>7. \A s2 \in Surfaces \ {o} : Hosts'[s2] = Hosts[s2]
    BY <1>3, <2>6
  <2>8. Hosts'[o] = Hosts[o] \/ (Hosts[o] = "ended" /\ o \in S)
    BY <1>3, <2>2, <2>6 DEF HasSurface
  <2>9. QueueGood(posted', Hosts') /\ SignalsSpare
    BY <1>3, <2>1, <2>7, <2>8, QueueTaken
  <2>10. \A q \in Outputs : ~provider => sidebar'[q].host = "none"
    BY <1>4, <2>6
  <2> QED
    BY <1>1, <2>1, <2>6, <2>9, <2>10, SidebarsStand
<1>11. CASE SidebarEnds(o)
  <2> DEFINE s == [sidebar[o] EXCEPT !.host = "ended"]
  <2>1. sidebar[o].host = "opening" /\ sidebar' = [sidebar EXCEPT ![o].host = "ended"] /\ Post(o, "ended") /\ UNCHANGED derived
    BY <1>11 DEF SidebarEnds
  <2>2. sidebar' = [sidebar EXCEPT ![o] = s]
    BY <2>1
  <2>3. SidebarGood(s) /\ s.host = "ended" /\ s.tab = sidebar[o].tab /\ s.open = sidebar[o].open
    BY <1>2, <2>1 DEF SidebarGood, Sidebars, HasSurface
  <2> HIDE DEF s
  <2>4. SidebarsGood(sidebar', outputs) /\ sidebar'[o] = s /\ \A q \in Outputs \ {o} : sidebar'[q] = sidebar[q]
    <3>1. SetWell(sidebar', sidebar, o, s, outputs)
      BY <1>2, <2>2, <2>3, SidebarIsSet
    <3> QED
      BY <3>1 DEF SetWell
  <2>5. SidebarsChanged
    BY <2>3, <2>4, <2>1 DEF SidebarsChanged, derived
  <2>6. \A s2 \in Surfaces \ {o} : Hosts'[s2] = Hosts[s2]
    BY <1>3, <2>4
  <2>7. Hosts[o] = "opening" /\ Hosts'[o] = "ended"
    BY <1>3, <2>1, <2>3, <2>4
  <2>8. QueueGood(posted', Hosts') /\ SignalsSpare
    BY <1>3, <2>1, <2>6, <2>7, QueuePosted
  <2>9. \A q \in Outputs : ~provider => sidebar'[q].host = "none"
    BY <1>4, <2>1
  <2> QED
    BY <1>1, <2>4, <2>5, <2>8, <2>9, SidebarsStand
<1> QED
  BY <1>5, <1>7, <1>8, <1>9, <1>10, <1>11

\* FocusMoves: the tooltip, popup and overview go, the launcher starts to hide, the sidebars close.
LEMMA FocusStep == OverlayInv /\ FocusMoves => OverlayInv' /\ SignalsSpare
<1> SUFFICES ASSUME OverlayInv, FocusMoves PROVE OverlayInv' /\ SignalsSpare
  OBVIOUS
<1>1. /\ tooltip' = HiddenTooltip /\ popup' = HiddenPopup /\ launcher' = LauncherHides(launcher)
      /\ overview' = HiddenOverview /\ sidebar' = AllClosed(sidebar)
      /\ PopupChanged /\ SidebarsChanged /\ Drops({"tooltip", "popup", "overview"}) /\ UNCHANGED shell
  BY DEF FocusMoves
<1>2. outputs' = outputs /\ provider' = provider
  BY <1>1 DEF shell
<1>3. TooltipMay(tooltip, outputs) /\ LauncherMay(launcher, outputs) /\ OverviewMay(overview, outputs) /\ PopupMay(popup, outputs)
  BY PartsAreGood, TooltipMoves, LauncherMoves, OverviewMoves, PopupMoves
<1>4. TooltipGood(tooltip', outputs) /\ tooltip'.host = "none"
  BY <1>1, <1>3 DEF TooltipMay, HiddenTooltip
<1>5. LauncherGood(launcher', outputs) /\ launcher'.host = launcher.host
  BY <1>1, <1>3 DEF LauncherMay
<1>6. OverviewGood(overview', outputs) /\ overview'.host = "none"
  BY <1>1, <1>3 DEF OverviewMay, HiddenOverview
<1>7. PopupGood(popup', outputs) /\ popup'.host = "none"
  BY <1>1, <1>3 DEF PopupMay, HiddenPopup
<1>8. SidebarsGood(sidebar', outputs) /\ \A o \in Outputs : sidebar'[o].host = sidebar[o].host
  BY <1>1, PartsAreGood, AllClosedIsGood
<1>9. \A s \in Surfaces \ {"tooltip", "popup", "overview"} : Hosts'[s] = Hosts[s]
  BY <1>5, <1>8, HostsMove
<1>10. QueueGood(posted', Hosts') /\ SignalsSpare
  BY <1>1, <1>9, QueueDrops
<1>11. ~provider => \A s \in Surfaces : Hosts'[s] = "none"
  BY <1>4, <1>5, <1>6, <1>7, <1>8, HostsMove, HostsKnown
<1>12. FollowersAgree' /\ {audioSuppressed, brightnessSuppressed, bluetoothActive}' \subseteq BOOLEAN
  BY <1>1, <1>2, <1>7, PopupIsFollowed, SidebarsAreFollowed DEF FollowersAgree
<1> QED
  BY <1>1, <1>4, <1>5, <1>6, <1>7, <1>8, <1>10, <1>11, <1>12, ShellStays

\* The invariant after a step that changes provider or outputs.
LEMMA ShellChanges ==
  ASSUME provider' \in BOOLEAN, outputs' \subseteq Outputs, Primary \in outputs',
         TooltipGood(tooltip', outputs'), LauncherGood(launcher', outputs'), OverviewGood(overview', outputs'),
         PopupGood(popup', outputs'), SidebarsGood(sidebar', outputs'),
         FollowersAgree', {audioSuppressed, brightnessSuppressed, bluetoothActive}' \subseteq BOOLEAN,
         QueueGood(posted', Hosts'), ~provider' => \A s \in Surfaces : Hosts'[s] = "none"
  PROVE  OverlayInv'
BY DEF OverlayInv

LEMMA ProviderLostStep == OverlayInv /\ ProviderLost => OverlayInv' /\ SignalsSpare
<1> SUFFICES ASSUME OverlayInv, ProviderLost PROVE OverlayInv' /\ SignalsSpare
  OBVIOUS
<1>1. /\ provider' = FALSE /\ outputs' = outputs
      /\ tooltip' = TooltipTerminated(Withdrawn(tooltip))
      /\ launcher' = LauncherTerminated(Withdrawn(launcher))
      /\ overview' = OverviewTerminated(Withdrawn(overview))
      /\ popup' = PopupTerminated(Withdrawn(popup))
      /\ sidebar' = [o \in Outputs |-> IF HasSurface(sidebar[o]) THEN SidebarEnded(sidebar[o]) ELSE sidebar[o]]
      /\ PopupChanged /\ SidebarsChanged /\ Drops(Surfaces)
  BY DEF ProviderLost
<1>2. TooltipMay(tooltip, outputs) /\ LauncherMay(launcher, outputs) /\ OverviewMay(overview, outputs) /\ PopupMay(popup, outputs)
  BY PartsAreGood, TooltipMoves, LauncherMoves, OverviewMoves, PopupMoves
<1>3. TooltipGood(tooltip', outputs) /\ tooltip'.host = "none"
  BY <1>1, <1>2 DEF TooltipMay
<1>4. LauncherGood(launcher', outputs) /\ launcher'.host = "none"
  BY <1>1, <1>2 DEF LauncherMay
<1>5. OverviewGood(overview', outputs) /\ overview'.host = "none"
  BY <1>1, <1>2 DEF OverviewMay
<1>6. PopupGood(popup', outputs) /\ popup'.host = "none"
  BY <1>1, <1>2 DEF PopupMay
<1>7. SidebarsGood(sidebar', outputs) /\ \A o \in Outputs : sidebar'[o].host = "none" /\ ~sidebar'[o].open
  <2>1. SidebarsGood(sidebar, outputs)
    BY PartsAreGood
  <2>2. \A o \in Outputs : sidebar'[o] = IF HasSurface(sidebar[o]) THEN SidebarEnded(sidebar[o]) ELSE sidebar[o]
    BY <1>1
  <2>3. ASSUME NEW o \in Outputs PROVE SidebarGood(sidebar'[o]) /\ sidebar'[o].host = "none" /\ ~sidebar'[o].open
    <3>1. SidebarGood(sidebar[o])
      BY <2>1 DEF SidebarsGood
    <3>2. CASE HasSurface(sidebar[o])
      <4>1. sidebar'[o] = SidebarEnded(sidebar[o])
        BY <2>2, <3>2
      <4>2. SidebarGood(SidebarEnded(sidebar[o])) /\ ~SidebarEnded(sidebar[o]).open /\ SidebarEnded(sidebar[o]).host = "none"
        BY <3>1 DEF SidebarEnded, SidebarGood, Sidebars, HasSurface
      <4> QED
        BY <4>1, <4>2
    <3>3. CASE ~HasSurface(sidebar[o])
      BY <2>2, <3>1, <3>3 DEF SidebarGood, HasSurface
    <3> QED
      BY <3>2, <3>3
  <2>4. sidebar' = [o \in Outputs |-> sidebar'[o]]
    BY <1>1
  <2>5. \A o \in Outputs : sidebar'[o] \in Sidebars
    BY <2>3 DEF SidebarGood
  <2>6. sidebar' \in [Outputs -> Sidebars]
    BY <2>4, <2>5
  <2> QED
    BY <2>3, <2>6 DEF SidebarsGood
<1>8. QueueGood(posted', Hosts') /\ SignalsSpare
  BY <1>1, QueueDrops
<1>9. \A s \in Surfaces : Hosts'[s] = "none"
  BY <1>3, <1>4, <1>5, <1>6, <1>7, HostsMove
<1>10. FollowersAgree' /\ {audioSuppressed, brightnessSuppressed, bluetoothActive}' \subseteq BOOLEAN
  BY <1>1, <1>6, PopupIsFollowed, SidebarsAreFollowed DEF FollowersAgree
<1> QED
  BY <1>1, <1>3, <1>4, <1>5, <1>6, <1>7, <1>8, <1>9, <1>10, PartsAreGood, ShellChanges

LEMMA ProviderBackStep ==
  ASSUME OverlayInv, NEW opens \in SUBSET Names, ProviderBack(opens)
  PROVE  OverlayInv' /\ SignalsSpare
<1>1. /\ ~provider /\ provider' = TRUE
      /\ tooltip' = OpenPending(tooltip, "tooltip" \in opens)
      /\ launcher' = IF launcher.wanted = NoOutput THEN launcher
                     ELSE LauncherCreated([launcher EXCEPT !.wanted = NoOutput], launcher.wanted, "launcher" \in opens)
      /\ overview' = OpenPending(overview, "overview" \in opens)
      /\ popup' = PopupOpened(popup, "popup" \in opens)
      /\ PopupChanged
      /\ UNCHANGED <<outputs, posted, sidebar, brightnessSuppressed>>
  BY DEF ProviderBack
<1>2. \A n : (n \in opens) \in BOOLEAN
  OBVIOUS
<1>3. /\ tooltip.host = "none" /\ overview.host = "none" /\ popup.host = "none" /\ \A s \in Surfaces : Hosts[s] = "none"
  BY <1>1, HostsKnown DEF OverlayInv
<1>4. TooltipMay(tooltip, outputs) /\ LauncherMay(launcher, outputs) /\ OverviewMay(overview, outputs)
  BY PartsAreGood, TooltipMoves, LauncherMoves, OverviewMoves
<1>5. TooltipGood(tooltip', outputs)
  <2> DEFINE b == "tooltip" \in opens
  <2>1. b \in BOOLEAN /\ tooltip' = OpenPending(tooltip, b) /\ ~HasSurface(tooltip)
    BY <1>1, <1>2, <1>3 DEF HasSurface
  <2> HIDE DEF b
  <2> QED
    BY <1>4, <2>1 DEF TooltipMay
<1>6. LauncherGood(launcher', outputs)
  <2> DEFINE b == "launcher" \in opens
             l == [launcher EXCEPT !.wanted = NoOutput]
  <2>1. b \in BOOLEAN
    BY <1>2
  <2>2. LauncherGood(l, outputs)
    BY <1>4 DEF LauncherMay, Maybe
  <2>3. launcher' = launcher \/ launcher' = LauncherCreated(l, launcher.wanted, b)
    BY <1>1
  <2> HIDE DEF b, l
  <2>4. LauncherGood(LauncherCreated(l, launcher.wanted, b), outputs)
    BY <2>1, <2>2, PartsAreGood, LauncherCreates
  <2>5. LauncherGood(launcher, outputs)
    BY PartsAreGood
  <2> QED
    BY <2>3, <2>4, <2>5
<1>7. OverviewGood(overview', outputs)
  <2> DEFINE b == "overview" \in opens
  <2>1. b \in BOOLEAN /\ overview' = OpenPending(overview, b) /\ ~HasSurface(overview)
    BY <1>1, <1>2, <1>3 DEF HasSurface
  <2> HIDE DEF b
  <2> QED
    BY <1>4, <2>1 DEF OverviewMay
<1>8. PopupGood(popup', outputs)
  <2> DEFINE b == "popup" \in opens
  <2>1. b \in BOOLEAN /\ popup' = PopupOpened(popup, b) /\ ~HasSurface(popup)
    BY <1>1, <1>2, <1>3 DEF HasSurface
  <2>2. popup \in PopupsOn(outputs) /\ popup.visible = FALSE /\ (popup.pending <=> popup.id # "none")
    BY <2>1, PartsAreGood DEF PopupGood, PopupsOn
  <2> HIDE DEF b
  <2> QED
    BY <2>1, <2>2, PopupOpens
<1>9. SidebarsGood(sidebar', outputs)
  BY <1>1, PartsAreGood
<1>10. QueueGood(posted', Hosts') /\ SignalsSpare
  BY <1>1, <1>3, QueueKept
<1>11. FollowersAgree' /\ {audioSuppressed, brightnessSuppressed, bluetoothActive}' \subseteq BOOLEAN
  BY <1>1, <1>8, PopupIsFollowed DEF OverlayInv, FollowersAgree
<1> QED
  BY <1>1, <1>5, <1>6, <1>7, <1>8, <1>9, <1>10, <1>11, PartsAreGood, ShellChanges

\* An output goes, and what was on it.
LEMMA OutputRemovedStep ==
  ASSUME OverlayInv, NEW o \in Outputs, OutputRemoved(o)
  PROVE  OverlayInv' /\ SignalsSpare
<1> DEFINE S == {o} \cup {s \in Names : Named[s].output = o}
<1>1. /\ o \in outputs \ {Primary} /\ outputs' = outputs \ {o} /\ provider' = provider
      /\ tooltip' = IF tooltip.output = o THEN TooltipTerminated(DestroySurface(tooltip)) ELSE tooltip
      /\ launcher' = IF launcher.output = o THEN LauncherTerminated(launcher) ELSE launcher
      /\ overview' = IF overview.output = o THEN HiddenOverview ELSE overview
      /\ popup' = IF popup.output = o THEN HiddenPopup ELSE popup
      /\ sidebar' = [sidebar EXCEPT ![o] = NoSidebar]
      /\ PopupChanged /\ brightnessSuppressed' = BrightnessShown(sidebar', outputs')
      /\ Drops(S)
  BY Zenon DEF OutputRemoved
<1>2. /\ "tooltip" \notin S => tooltip.output # o
      /\ "launcher" \notin S => launcher.output # o
      /\ "overview" \notin S => overview.output # o
      /\ "popup" \notin S => popup.output # o
      /\ o \in S
  BY DEF Named, Names
<1> HIDE DEF S
<1>3. TooltipMay(tooltip, outputs) /\ LauncherMay(launcher, outputs) /\ OverviewMay(overview, outputs) /\ PopupMay(popup, outputs)
  BY PartsAreGood, TooltipMoves, LauncherMoves, OverviewMoves, PopupMoves
<1>4. /\ TooltipGood(tooltip', outputs \ {o})
      /\ tooltip'.host = "none" \/ tooltip' = tooltip
      /\ tooltip.output # o => tooltip' = tooltip
  BY <1>1, <1>3 DEF TooltipMay
<1>5. /\ LauncherGood(launcher', outputs \ {o})
      /\ launcher'.host = "none" \/ launcher' = launcher
      /\ launcher.output # o => launcher' = launcher
  BY <1>1, <1>3 DEF LauncherMay
<1>6. /\ OverviewGood(overview', outputs \ {o})
      /\ overview'.host = "none" \/ overview' = overview
      /\ overview.output # o => overview' = overview
  BY <1>1, <1>3 DEF OverviewMay, HiddenOverview
<1>7. /\ PopupGood(popup', outputs \ {o})
      /\ popup'.host = "none" \/ popup' = popup
      /\ popup.output # o => popup' = popup
  BY <1>1, <1>3 DEF PopupMay, HiddenPopup
<1>8. /\ SidebarsGood(sidebar', outputs \ {o})
      /\ sidebar'[o].host = "none" /\ \A q \in Outputs \ {o} : sidebar'[q] = sidebar[q]
  <2>1. SidebarsGood(sidebar, outputs)
    BY PartsAreGood
  <2>2. SidebarGood(NoSidebar) /\ ~NoSidebar.open /\ NoSidebar.host = "none" /\ NoSidebar \in Sidebars
    BY DEF SidebarGood, NoSidebar, Sidebars, Tabs, HasSurface
  <2>3. sidebar \in [Outputs -> Sidebars]
    BY <2>1 DEF SidebarsGood
  <2>4. sidebar' \in [Outputs -> Sidebars] /\ sidebar'[o] = NoSidebar /\ \A q \in Outputs \ {o} : sidebar'[q] = sidebar[q]
    BY <1>1, <2>2, <2>3
  <2>5. SidebarsGood(sidebar', outputs \ {o})
    BY <2>1, <2>2, <2>4 DEF SidebarsGood
  <2> QED
    BY <2>2, <2>4, <2>5
<1>9. \A s \in Surfaces \ S : Hosts'[s] = Hosts[s]
  <2>1. /\ "tooltip" \notin S => tooltip' = tooltip
        /\ "launcher" \notin S => launcher' = launcher
        /\ "overview" \notin S => overview' = overview
        /\ "popup" \notin S => popup' = popup
    BY <1>2, <1>4, <1>5, <1>6, <1>7
  <2>2. \A q \in Outputs \ S : sidebar'[q] = sidebar[q]
    BY <1>2, <1>8
  <2> QED
    BY <2>1, <2>2, HostsMove
<1>10. QueueGood(posted', Hosts') /\ SignalsSpare
  BY <1>1, <1>9, QueueDrops
<1>11. ~provider' => \A s \in Surfaces : Hosts'[s] = "none"
  BY <1>1, <1>4, <1>5, <1>6, <1>7, <1>8, HostsMove, HostsKnown
<1>12. FollowersAgree' /\ {audioSuppressed, brightnessSuppressed, bluetoothActive}' \subseteq BOOLEAN
  <2>1. /\ audioSuppressed' \in BOOLEAN /\ bluetoothActive' \in BOOLEAN
        /\ audioSuppressed' <=> popup'.visible /\ popup'.id = "audio"
        /\ bluetoothActive' <=> popup'.visible /\ popup'.id = "bluetooth"
    BY <1>1, <1>7, PopupIsFollowed
  <2>2. BrightnessShown(sidebar', outputs') \in BOOLEAN
    BY DEF BrightnessShown
  <2> QED
    BY <1>1, <2>1, <2>2 DEF FollowersAgree
<1>13. provider' \in BOOLEAN /\ outputs' \subseteq Outputs /\ Primary \in outputs'
  BY <1>1, PartsAreGood
<1> QED
  BY <1>1, <1>4, <1>5, <1>6, <1>7, <1>8, <1>10, <1>11, <1>12, <1>13, ShellChanges

LEMMA OutputAddedStep ==
  ASSUME OverlayInv, NEW o \in Outputs, OutputAdded(o)
  PROVE  OverlayInv' /\ SignalsSpare
<1>1. /\ outputs' = outputs \cup {o}
      /\ UNCHANGED <<provider, posted, tooltip, launcher, overview, popup, sidebar, derived>>
  BY DEF OutputAdded
<1>2. TooltipMay(tooltip, outputs) /\ LauncherMay(launcher, outputs) /\ OverviewMay(overview, outputs) /\ PopupMay(popup, outputs)
  BY PartsAreGood, TooltipMoves, LauncherMoves, OverviewMoves, PopupMoves
<1>3. /\ TooltipGood(tooltip', outputs') /\ LauncherGood(launcher', outputs')
      /\ OverviewGood(overview', outputs') /\ PopupGood(popup', outputs')
  BY <1>1, <1>2 DEF TooltipMay, LauncherMay, OverviewMay, PopupMay
<1>4. SidebarsGood(sidebar, outputs) /\ SidebarsGood(sidebar', outputs')
  <2>1. SidebarsGood(sidebar, outputs)
    BY PartsAreGood
  <2> QED
    BY <1>1, <2>1 DEF SidebarsGood
<1>5. \A s \in Surfaces : Hosts'[s] = Hosts[s]
  BY <1>1, HostsMove
<1>6. QueueGood(posted', Hosts') /\ SignalsSpare
  BY <1>1, <1>5, QueueKept
<1>7. ~provider' => \A s \in Surfaces : Hosts'[s] = "none"
  BY <1>1, <1>5 DEF OverlayInv
<1>8. FollowersAgree' /\ {audioSuppressed, brightnessSuppressed, bluetoothActive}' \subseteq BOOLEAN
  <2>1. outputs \subseteq Outputs /\ \A q \in Outputs : sidebar[q].open => q \in outputs
    BY <1>4, PartsAreGood DEF SidebarsGood
  <2>2. BrightnessShown(sidebar, outputs') <=> BrightnessShown(sidebar, outputs)
    <3>1. outputs \subseteq outputs' /\ \A q \in outputs' : sidebar[q].open => q \in outputs
      BY <1>1, <2>1
    <3> QED
      BY <3>1, Zenon DEF BrightnessShown
  <2>3. BrightnessShown(sidebar, outputs)' = BrightnessShown(sidebar, outputs')
    BY <1>1
  <2> QED
    BY <1>1, <2>2, <2>3 DEF OverlayInv, FollowersAgree, derived, followers
<1>9. provider' \in BOOLEAN /\ outputs' \subseteq Outputs /\ Primary \in outputs'
  BY <1>1, PartsAreGood
<1> QED
  BY <1>3, <1>4, <1>6, <1>7, <1>8, <1>9, ShellChanges

LEMMA OverlayStep == OverlayInv /\ [Next]_vars => OverlayInv' /\ [SignalsSpare]_vars
<1>1. OverlayInv /\ Next => OverlayInv' /\ SignalsSpare
  BY TooltipStep, LauncherStep, OverviewStep, PopupStep, SidebarStep, FocusStep, ProviderLostStep, ProviderBackStep,
     OutputRemovedStep, OutputAddedStep DEF Next, ShellNext
<1>2. OverlayInv /\ UNCHANGED vars => OverlayInv'
  BY HostsMove, QueueKept, FollowersStay, PartsAreGood, ShellStays DEF vars, shell, OverlayInv
<1> QED
  BY <1>1, <1>2

LEMMA OverlaysHold == Spec => [](OverlayInv) /\ [][SignalsSpare]_vars
<1>1. Init => OverlayInv
  BY OverlaysAtFirst
<1>2. OverlayInv /\ [Next]_vars => OverlayInv' /\ [SignalsSpare]_vars
  BY OverlayStep
<1> QED
  BY <1>1, <1>2, PTL DEF Spec

LEMMA OverlayInvSays == OverlayInv => OverlaysAgree /\ TypeOK
<1> SUFFICES ASSUME OverlayInv PROVE OverlaysAgree /\ TypeOK
  OBVIOUS
<1>1. SurfacesAgree
  BY PartsAreGood DEF SurfacesAgree, TooltipGood, LauncherGood, OverviewGood, PopupGood
<1>2. FollowersAgree
  BY DEF OverlayInv
<1>3. SidebarsAgree
  BY PartsAreGood DEF SidebarsAgree, SidebarsGood, SidebarGood
<1>4. TypeOK
  BY PartsAreGood DEF TooltipGood, LauncherGood, OverviewGood, PopupGood, SidebarsGood, QueueGood, OverlayInv, TypeOK,
     TooltipsOn, LaunchersOn, OverviewsOn, PopupsOn
<1> QED
  BY <1>1, <1>2, <1>3, <1>4 DEF OverlaysAgree

\* Whatever opens, fails, ends or waits, in whatever order the queued answers arrive, and whichever
\* output or provider goes: what the owners of the overlays say is on screen is, what the shell told
\* the on-screen display and the Bluetooth service to do follows from it, and one sidebar at most is
\* open (ShellApplication's updates, TransientSurfaceHost and its users).
THEOREM OverlaysAlwaysAgree == Spec => []OverlaysAgree
<1>1. OverlayInv => OverlaysAgree
  BY OverlayInvSays
<1> QED
  BY <1>1, OverlaysHold, PTL

\* The overlays stay well formed: outputs they are on are connected, the queue is within its bound.
THEOREM OverlaysAreTyped == Spec => []TypeOK
<1>1. OverlayInv => TypeOK
  BY OverlayInvSays
<1> QED
  BY <1>1, OverlaysHold, PTL

\* The handler of a queued signal takes down no surface that has not ended: what it hears of a
\* replaced host leaves the successor alone (generation_, is_current).
THEOREM SignalsEndOnlyTheEnded == Spec => OnlyEndedAreRemoved
BY OverlaysHold, PTL DEF OnlyEndedAreRemoved, SignalsSpare

----------------------------------------------------------------------------
(***************************************************************************)
(* A surface for each monitor.                                             *)
(***************************************************************************)

Worlds == [screens : Seq(Monitors), shell : BOOLEAN, covered : SUBSET Monitors, past : BOOLEAN,
           wallpapers : Seq(Pictures), art : Pictures \cup {NoPicture}]
SurfacesOf == [id : 0..MaxHosts, address : 0..MaxAddresses, state : {"none", "opening", "configured", "ended"},
               picture : Pictures \cup {NoPicture}, missing : Pictures \cup {NoPicture}, shows : BOOLEAN]
HostSignalsSet == [monitor : Monitors, id : 1..MaxHosts, address : 0..MaxAddresses, what : {"configured", "failed", "closed"}]
Managers == [started : BOOLEAN, made : 0..MaxHosts, visible : SUBSET Monitors, timer : BOOLEAN,
             asked : Pictures \cup {NoPicture}, generation : Nat]
Lookups == [monitor : Monitors, art : Pictures, generation : Nat]

SurfaceTypes ==
  /\ surfaceKind \in {"background", "clock", "media"} /\ surfaceWorld \in Worlds
  /\ surfaceHosts \in [Monitors -> SurfacesOf] /\ surfaceEvents \in Seq(HostSignalsSet)
  /\ surfaceManager \in Managers /\ surfaceArt \subseteq Lookups /\ surfaceLost \subseteq Monitors

\* Event e of the queue is of host h of monitor m.
Concerns(e, m, h) == e.monitor = m /\ e.id = h.id

\* The hosts, numbered as they are made; each end and each mapping of one that is there is in the queue
\* under its address, or has been heard.
HostsInv(hosts, made, events) ==
  /\ \A m \in Monitors : hosts[m].id <= made /\ (hosts[m].id = 0 => hosts[m].state = "none")
                         /\ (hosts[m].id # 0 => hosts[m].state # "none")
  /\ \A i \in 1..Len(events) : events[i].id <= made
  /\ \A i \in 1..Len(events), m \in Monitors : Concerns(events[i], m, hosts[m]) =>
       /\ events[i].address = hosts[m].address
       /\ IF events[i].what = "configured" THEN hosts[m].state # "opening" ELSE hosts[m].state = "ended"
  /\ \A m \in Monitors : hosts[m].state = "ended" =>
       \E i \in 1..Len(events) : Concerns(events[i], m, hosts[m]) /\ events[i].what # "configured"

\* The configuration of monitor m's host has been heard.
Heard(hosts, events, m) ==
  /\ hosts[m].state = "configured"
  /\ \A i \in 1..Len(events) : ~(Concerns(events[i], m, hosts[m]) /\ events[i].what = "configured")

ShownInv(kind, world, hosts, events, manager, art) ==
  \A m \in Monitors : Heard(hosts, events, m) =>
    /\ hosts[m].shows <=> m \notin world.covered
    /\ hosts[m].shows => m \in manager.visible /\ (manager.timer \/ (kind = "clock" /\ world.past))
    /\ kind = "media" /\ hosts[m].shows =>
         /\ manager.asked = world.art
         /\ \/ ShowsArt(hosts[m], world.art)
            \/ \E a \in art : a.monitor = m /\ a.art = manager.asked /\ a.generation = manager.generation

\* Each connected monitor has a surface or has lost it, and no other has one.
Served(world, hosts, manager, lost) ==
  /\ world.covered \subseteq ToSet(world.screens)
  /\ \A m \in Monitors :
       IF manager.started /\ m \in ToSet(world.screens) THEN hosts[m].id # 0 \/ m \in lost ELSE hosts[m].id = 0

\* The background shows the wallpaper of the monitor's place.
Pictured(world, hosts, art) ==
  art = {} /\ \A m \in Monitors : hosts[m].id # 0 => hosts[m].picture = WallpaperOf(world, m)

MonitorInv ==
  /\ SurfaceTypes
  /\ Served(surfaceWorld, surfaceHosts, surfaceManager, surfaceLost)
  /\ HostsInv(surfaceHosts, surfaceManager.made, surfaceEvents)
  /\ surfaceKind = "background" => Pictured(surfaceWorld, surfaceHosts, surfaceArt)
  /\ surfaceKind # "background" => ShownInv(surfaceKind, surfaceWorld, surfaceHosts, surfaceEvents, surfaceManager, surfaceArt)

(* The operators. *)
LEMMA ScreenSets ==
  ASSUME NEW s \in Seq(Monitors)
  PROVE  /\ Len(s) \in Nat /\ DOMAIN s = 1..Len(s) /\ \A i \in 1..Len(s) : s[i] \in Monitors
         /\ ToSet(s) = {s[i] : i \in 1..Len(s)} /\ ToSet(s) \subseteq Monitors
         /\ \A m : Contains(s, m) <=> m \in ToSet(s)
BY LenProperties, ElementOfSeq DEF ToSet, Contains

LEMMA AddedScreen ==
  ASSUME NEW s \in Seq(Monitors), NEW m \in Monitors
  PROVE  Append(s, m) \in Seq(Monitors) /\ ToSet(Append(s, m)) = ToSet(s) \cup {m}
<1>1. /\ Append(s, m) \in Seq(Monitors) /\ Len(Append(s, m)) = Len(s) + 1
      /\ \A i \in 1..Len(s) : Append(s, m)[i] = s[i]
      /\ Append(s, m)[Len(s) + 1] = m
  BY AppendProperties
<1>2. Len(s) \in Nat /\ ToSet(s) = {s[i] : i \in 1..Len(s)}
  BY ScreenSets
<1>3. ToSet(Append(s, m)) = {Append(s, m)[i] : i \in 1..(Len(s) + 1)}
  BY <1>1, ScreenSets
<1>4. 1..(Len(s) + 1) = 1..Len(s) \cup {Len(s) + 1}
  BY <1>2
<1> QED
  BY <1>1, <1>2, <1>3, <1>4

LEMMA RemovedScreen ==
  ASSUME NEW s \in Seq(Monitors), NEW m \in Monitors, NEW t, t = SubSeqAt(s, {i \in DOMAIN s : s[i] # m})
  PROVE  t \in Seq(Monitors) /\ ToSet(t) = ToSet(s) \ {m}
<1> DEFINE S == {i \in DOMAIN s : s[i] # m}
<1>1. Len(s) \in Nat /\ DOMAIN s = 1..Len(s) /\ S \in SUBSET (1..Len(s)) /\ ToSet(s) = {s[i] : i \in 1..Len(s)}
  BY ScreenSets
<1>2. \A i \in 1..Len(s) : i \in S <=> s[i] # m
  BY <1>1
<1>3. t = SubSeqAt(s, S)
  OBVIOUS
<1> HIDE DEF S
<1>4. /\ t \in Seq(Monitors)
      /\ \A k \in 1..Len(t) : IndexAt(S, k) \in S /\ t[k] = s[IndexAt(S, k)]
      /\ \A i \in S : \E k \in 1..Len(t) : t[k] = s[i]
  <2>1. /\ SubSeqAt(s, S) \in Seq(Monitors)
        /\ \A k \in 1..Len(SubSeqAt(s, S)) : IndexAt(S, k) \in S /\ SubSeqAt(s, S)[k] = s[IndexAt(S, k)]
        /\ \A i \in S : \E k \in 1..Len(SubSeqAt(s, S)) : SubSeqAt(s, S)[k] = s[i]
    BY <1>1, SubSeqAtProperties, Zenon
  <2> QED
    BY <1>3, <2>1, Zenon
<1>5. ToSet(t) = {t[k] : k \in 1..Len(t)}
  BY <1>4, ScreenSets
<1>6. ASSUME NEW x \in ToSet(t) PROVE x \in ToSet(s) \ {m}
  <2>1. PICK k \in 1..Len(t) : t[k] = x
    BY <1>5
  <2>2. IndexAt(S, k) \in S /\ x = s[IndexAt(S, k)]
    BY <1>4, <2>1
  <2> QED
    BY <1>1, <1>2, <2>2
<1>7. ASSUME NEW x \in ToSet(s) \ {m} PROVE x \in ToSet(t)
  <2>1. PICK i \in 1..Len(s) : s[i] = x
    BY <1>1
  <2>2. i \in S
    BY <1>2, <2>1
  <2>3. PICK k \in 1..Len(t) : t[k] = s[i]
    BY <1>4, <2>2
  <2> QED
    BY <1>5, <2>1, <2>3
<1> QED
  BY <1>4, <1>6, <1>7

LEMMA WallpaperIsPicture ==
  ASSUME NEW w \in Worlds, NEW m \in ToSet(w.screens)
  PROVE  WallpaperOf(w, m) \in Pictures \cup {NoPicture}
BY ScreenSets, LenProperties, ElementOfSeq, EmptySeq DEF Worlds, WallpaperOf

\* The hosts g after createSurface of those in list but failing.
OpenedFrom(g, hosts, made, list, failing, world) ==
  /\ g \in [Monitors -> SurfacesOf]
  /\ \A m \in Monitors : m \notin ToSet(list) \/ m \in failing => g[m] = hosts[m]
  /\ \A m \in ToSet(list) \ failing :
       /\ g[m].id \in (made + 1)..(made + Len(list)) /\ g[m].state = "opening"
       /\ surfaceKind = "background" => g[m].picture = WallpaperOf(world, m)

\* createSurface: those that open have numbers above all made before.
LEMMA OpenedFacts ==
  ASSUME NEW hosts \in [Monitors -> SurfacesOf], NEW made \in Nat, NEW list \in Seq(Monitors),
         made + Len(list) <= MaxHosts, NEW failing, NEW world \in Worlds, ToSet(list) \subseteq ToSet(world.screens),
         NEW address \in [ToSet(list) \ failing -> 1..MaxAddresses],
         NEW g, g = Opened(hosts, made, list, failing, address, world)
  PROVE  OpenedFrom(g, hosts, made, list, failing, world)
<1> DEFINE K(m) == {i \in DOMAIN list : list[i] \notin failing /\ \E j \in DOMAIN list : list[j] = m /\ i <= j}
           pic(m) == IF surfaceKind = "background" THEN WallpaperOf(world, m) ELSE NoPicture
           new(m) == [id |-> made + Cardinality(K(m)), address |-> address[m], state |-> "opening", shows |-> TRUE,
                      missing |-> NoPicture, picture |-> pic(m)]
<1>1. /\ Len(list) \in Nat /\ DOMAIN list = 1..Len(list) /\ ToSet(list) = {list[i] : i \in 1..Len(list)}
      /\ \A m : Contains(list, m) <=> m \in ToSet(list)
      /\ ToSet(list) \subseteq Monitors
  BY ScreenSets
<1>2. ASSUME NEW m \in ToSet(list) \ failing PROVE Cardinality(K(m)) \in 1..Len(list)
  <2>1. K(m) \in SUBSET (1..Len(list))
    BY <1>1
  <2>2. IsFiniteSet(K(m)) /\ Cardinality(K(m)) \in Nat /\ Cardinality(K(m)) <= Len(list)
    BY <1>1, <2>1, IndicesAreFinite
  <2>3. PICK j \in 1..Len(list) : list[j] = m
    BY <1>1
  <2>4. j \in K(m)
    BY <1>1, <2>3
  <2>5. Cardinality(K(m)) # 0
    <3> HIDE DEF K
    <3> QED
      BY <2>2, <2>4, FS_EmptySet
  <2> QED
    BY <1>1, <2>2, <2>5
<1>3. ASSUME NEW m \in ToSet(list) \ failing PROVE pic(m) \in Pictures \cup {NoPicture}
  BY WallpaperIsPicture
<1>4. g = [m \in Monitors |-> IF ~Contains(list, m) \/ m \in failing THEN hosts[m] ELSE new(m)]
  BY DEF Opened
<1> HIDE DEF K, pic
<1>5. ASSUME NEW m \in ToSet(list) \ failing
      PROVE  new(m) \in SurfacesOf /\ new(m).id \in (made + 1)..(made + Len(list)) /\ new(m).state = "opening"
             /\ new(m).picture = pic(m)
  <2>1. address[m] \in 0..MaxAddresses
    <3>1. address[m] \in 1..MaxAddresses
      OBVIOUS
    <3> QED
      BY <3>1, MaxHostsAssumption
  <2> DEFINE id == made + Cardinality(K(m))
  <2>2. id \in 0..MaxHosts /\ id \in (made + 1)..(made + Len(list))
    BY <1>1, <1>2, MaxHostsAssumption
  <2>3. pic(m) \in Pictures \cup {NoPicture}
    BY <1>3
  <2>4. new(m) = [id |-> id, address |-> address[m], state |-> "opening", shows |-> TRUE,
                  missing |-> NoPicture, picture |-> pic(m)]
    OBVIOUS
  <2> HIDE DEF id, new
  <2> QED
    BY <2>1, <2>2, <2>3, <2>4 DEF SurfacesOf
<1> HIDE DEF new
<1>6. \A m \in Monitors : g[m] = IF m \notin ToSet(list) \/ m \in failing THEN hosts[m] ELSE new(m)
  BY <1>1, <1>4
<1>7. \A m \in Monitors : g[m] \in SurfacesOf
  BY <1>5, <1>6
<1>8. g \in [Monitors -> SurfacesOf]
  BY <1>4, <1>7
<1>9. surfaceKind = "background" => \A m : pic(m) = WallpaperOf(world, m)
  BY DEF pic
<1> QED
  BY <1>1, <1>5, <1>6, <1>8, <1>9 DEF OpenedFrom

\* What the types say of a host and of an event.
LEMMA HostTypes ==
  ASSUME NEW hosts \in [Monitors -> SurfacesOf], NEW m \in Monitors
  PROVE  /\ hosts[m] \in SurfacesOf /\ hosts[m].id \in 0..MaxHosts /\ hosts[m].id \in Nat
         /\ hosts[m].missing \in Pictures \cup {NoPicture}
         /\ hosts[m].state \in {"none", "opening", "configured", "ended"}
         /\ hosts[m].picture \in Pictures \cup {NoPicture} /\ hosts[m].shows \in BOOLEAN
BY MaxHostsAssumption DEF SurfacesOf

LEMMA EventTypes ==
  ASSUME NEW events \in Seq(HostSignalsSet)
  PROVE  /\ Len(events) \in Nat
         /\ \A i \in 1..Len(events) :
              /\ events[i] \in HostSignalsSet /\ events[i].monitor \in Monitors /\ events[i].id \in 1..MaxHosts
              /\ events[i].id \in Nat /\ events[i].id # 0 /\ events[i].what \in {"configured", "failed", "closed"}
<1>1. Len(events) \in Nat /\ \A i \in 1..Len(events) : events[i] \in HostSignalsSet
  BY LenProperties, ElementOfSeq
<1> QED
  BY <1>1, MaxHostsAssumption DEF HostSignalsSet

\* Nothing is told of the hosts g that was not told of the hosts they come from.
ToldAsBefore(hosts, g, made, events) ==
  /\ HostsInv(g, made, events)
  /\ \A m \in Monitors : Heard(g, events, m) => g[m] = hosts[m] /\ Heard(hosts, events, m)

\* Hosts that are new have numbers no event knows, and have not been heard of.
LEMMA NewHosts ==
  ASSUME NEW hosts \in [Monitors -> SurfacesOf], NEW g \in [Monitors -> SurfacesOf], NEW events \in Seq(HostSignalsSet),
         NEW made \in Nat, NEW n \in Nat, HostsInv(hosts, made, events),
         \A m \in Monitors : \/ g[m] = hosts[m]
                             \/ hosts[m].id = 0 /\ g[m].id \in (made + 1)..(made + n) /\ g[m].state = "opening"
  PROVE  ToldAsBefore(hosts, g, made + n, events)
<1>1. /\ \A m \in Monitors : hosts[m].id \in Nat /\ g[m].id \in Nat
      /\ \A i \in 1..Len(events) : events[i].id \in Nat /\ events[i].id # 0
  BY HostTypes, EventTypes
<1>2. \A m \in Monitors : g[m].id <= made + n
  BY <1>1 DEF HostsInv
<1>3. \A m \in Monitors : (g[m].id = 0 => g[m].state = "none") /\ (g[m].id # 0 => g[m].state # "none")
  BY <1>1 DEF HostsInv
<1>4. \A i \in 1..Len(events) : events[i].id <= made + n
  BY <1>1 DEF HostsInv
<1>5. \A i \in 1..Len(events), m \in Monitors : Concerns(events[i], m, g[m]) => g[m] = hosts[m]
  BY <1>1 DEF HostsInv, Concerns
<1>6. \A m \in Monitors : g[m].state = "ended" \/ g[m].state = "configured" => g[m] = hosts[m]
  OBVIOUS
<1>7. \A i \in 1..Len(events), m \in Monitors : Concerns(events[i], m, g[m]) =>
        /\ events[i].address = g[m].address
        /\ IF events[i].what = "configured" THEN g[m].state # "opening" ELSE g[m].state = "ended"
  BY <1>5 DEF HostsInv
<1>8. \A m \in Monitors : g[m].state = "ended" =>
        \E i \in 1..Len(events) : Concerns(events[i], m, g[m]) /\ events[i].what # "configured"
  BY <1>6 DEF HostsInv
<1>9. \A m \in Monitors : Heard(g, events, m) => g[m] = hosts[m] /\ Heard(hosts, events, m)
  BY <1>6 DEF Heard
<1> QED
  BY <1>2, <1>3, <1>4, <1>7, <1>8, <1>9 DEF HostsInv, ToldAsBefore

\* Hosts that are taken down are not there for any event.
LEMMA GoneHosts ==
  ASSUME NEW hosts \in [Monitors -> SurfacesOf], NEW g \in [Monitors -> SurfacesOf], NEW events \in Seq(HostSignalsSet),
         NEW made \in Nat, HostsInv(hosts, made, events),
         \A m \in Monitors : \/ g[m].id = hosts[m].id /\ g[m].state = hosts[m].state /\ g[m].address = hosts[m].address
                             \/ g[m].id = 0 /\ g[m].state = "none"
  PROVE  /\ HostsInv(g, made, events)
         /\ \A m \in Monitors : Heard(g, events, m) => Heard(hosts, events, m) /\ g[m].id = hosts[m].id
<1>1. /\ \A m \in Monitors : hosts[m].id \in Nat /\ g[m].id \in Nat
      /\ \A i \in 1..Len(events) : events[i].id \in Nat /\ events[i].id # 0
  BY HostTypes, EventTypes
<1>2. \A i \in 1..Len(events), m \in Monitors : Concerns(events[i], m, g[m]) =>
        /\ Concerns(events[i], m, hosts[m])
        /\ g[m].state = hosts[m].state /\ g[m].address = hosts[m].address
  BY <1>1 DEF Concerns
<1>3. \A i \in 1..Len(events), m \in Monitors : Concerns(events[i], m, g[m]) =>
        /\ events[i].address = g[m].address
        /\ IF events[i].what = "configured" THEN g[m].state # "opening" ELSE g[m].state = "ended"
  BY <1>2 DEF HostsInv
<1>4. \A m \in Monitors : g[m].id <= made /\ (g[m].id = 0 => g[m].state = "none")
                         /\ (g[m].id # 0 => g[m].state # "none")
  BY <1>1 DEF HostsInv
<1>5. \A m \in Monitors : g[m].state = "ended" =>
        \E i \in 1..Len(events) : Concerns(events[i], m, g[m]) /\ events[i].what # "configured"
  BY DEF HostsInv, Concerns
<1>6. \A m \in Monitors : Heard(g, events, m) => Heard(hosts, events, m) /\ g[m].id = hosts[m].id
  BY DEF Heard, Concerns
<1> QED
  BY <1>3, <1>4, <1>5, <1>6 DEF HostsInv

\* No events are left but those of what was dropped.
LEMMA NoHostsNoEvents ==
  ASSUME NEW made \in Nat, NEW events \in Seq(HostSignalsSet), \A i \in 1..Len(events) : events[i].id <= made
  PROVE  /\ [m \in Monitors |-> NoHost] \in [Monitors -> SurfacesOf]
         /\ HostsInv([m \in Monitors |-> NoHost], made, events)
         /\ HostsInv([m \in Monitors |-> NoHost], made, <<>>)
         /\ \A e : \A m \in Monitors : ~Heard([k \in Monitors |-> NoHost], e, m)
BY MaxHostsAssumption, EventTypes DEF NoHost, SurfacesOf, HostsInv, Concerns, Heard

\* n is the manager r with four fields set.
IsSet(n, r, v, t, g, a) ==
  /\ n \in Managers /\ n.started = r.started /\ n.made = r.made
  /\ n.visible = v /\ n.timer = t /\ n.asked = a /\ n.generation = g

\* A record of the manager whose four fields are set.
LEMMA ManagerSet ==
  ASSUME NEW r \in Managers, NEW v \in SUBSET Monitors, NEW t \in BOOLEAN, NEW g \in Nat,
         NEW a \in Pictures \cup {NoPicture}, NEW n, n = [r EXCEPT !.visible = v, !.timer = t, !.generation = g, !.asked = a]
  PROVE  IsSet(n, r, v, t, g, a)
<1> USE DEF Managers
<1>1. n.started = r.started /\ n.made = r.made /\ n.visible = v /\ n.asked = a /\ n.generation = g
  OBVIOUS
<1>2. n.timer = t
  OBVIOUS
<1>3. n \in Managers
  OBVIOUS
<1> QED
  BY <1>1, <1>2, <1>3 DEF IsSet

\* What resyncSurface does to the manager, the hosts and the lookups.
Resynced(world, ms, hosts, visible, ticking) ==
  /\ surfaceManager' \in Managers /\ surfaceManager'.started = surfaceManager.started
  /\ surfaceManager'.made = surfaceManager.made /\ surfaceManager'.visible = visible
  /\ surfaceManager'.timer = ticking
  /\ surfaceManager'.asked = IF ms = {} THEN surfaceManager.asked ELSE world.art
  /\ surfaceManager.asked = world.art \/ ms = {} => surfaceManager'.generation = surfaceManager.generation
  /\ surfaceHosts' \in [Monitors -> SurfacesOf]
  /\ \A m \in Monitors :
       /\ surfaceHosts'[m].id = hosts[m].id /\ surfaceHosts'[m].state = hosts[m].state
       /\ surfaceHosts'[m].address = hosts[m].address /\ surfaceHosts'[m].missing = hosts[m].missing
       /\ surfaceHosts'[m].shows = hosts[m].shows
       /\ surfaceHosts'[m].picture = IF m \in ms /\ world.art = NoPicture THEN NoPicture ELSE hosts[m].picture
  /\ surfaceArt \subseteq surfaceArt' /\ surfaceArt' \subseteq Lookups
  /\ \A m \in ms : world.art # NoPicture =>
       \E a \in surfaceArt' : /\ a.monitor = m /\ a.art = surfaceManager'.asked
                              /\ a.generation = surfaceManager'.generation

\* resyncSurface of the monitors ms: the art of the track is asked for once.
LEMMA ResyncFacts ==
  ASSUME surfaceManager \in Managers, surfaceArt \subseteq Lookups, NEW world \in Worlds, NEW ms \in SUBSET Monitors,
         NEW hosts \in [Monitors -> SurfacesOf], NEW visible \in SUBSET Monitors, NEW ticking \in BOOLEAN,
         Resync(world, ms, hosts, visible, ticking)
  PROVE  Resynced(world, ms, hosts, visible, ticking)
<1> DEFINE art == world.art
           fresh == ms # {} /\ surfaceManager.asked # art
           generation == surfaceManager.generation + (IF fresh THEN 1 ELSE 0)
           asked == IF fresh THEN art ELSE surfaceManager.asked
           asks == [monitor : ms, art : {art}, generation : {generation}]
<1>1. surfaceManager' = [surfaceManager EXCEPT !.visible = visible, !.timer = ticking, !.generation = generation,
                                               !.asked = IF fresh THEN art ELSE @]
  BY DEF Resync
<1>2. surfaceHosts' = [m \in Monitors |-> IF m \in ms /\ art = NoPicture THEN [hosts[m] EXCEPT !.picture = NoPicture]
                                          ELSE hosts[m]]
  BY DEF Resync
<1>3. surfaceArt' = surfaceArt \cup (IF art = NoPicture THEN {} ELSE asks)
  BY DEF Resync
<1>4. art \in Pictures \cup {NoPicture} /\ art = world.art
  BY DEF Worlds
<1>5. /\ surfaceManager.generation \in Nat /\ generation \in Nat
      /\ asked \in Pictures \cup {NoPicture}
      /\ asked = IF ms = {} THEN surfaceManager.asked ELSE art
      /\ surfaceManager.asked = art \/ ms = {} => generation = surfaceManager.generation
  BY <1>4 DEF Managers
<1>6. surfaceManager' = [surfaceManager EXCEPT !.visible = visible, !.timer = ticking, !.generation = generation,
                                               !.asked = asked]
  BY <1>1 DEF Managers
<1>7. art # NoPicture =>
        /\ asks \subseteq Lookups
        /\ \A m \in ms : [monitor |-> m, art |-> art, generation |-> generation] \in asks
  BY <1>4, <1>5 DEF Lookups
<1> HIDE DEF fresh, generation, asked, asks, art
<1>8. /\ surfaceManager' \in Managers /\ surfaceManager'.started = surfaceManager.started
      /\ surfaceManager'.made = surfaceManager.made /\ surfaceManager'.visible = visible
      /\ surfaceManager'.timer = ticking /\ surfaceManager'.asked = asked /\ surfaceManager'.generation = generation
  <2>1. generation \in Nat /\ asked \in Pictures \cup {NoPicture} /\ surfaceManager \in Managers
    BY <1>5, Zenon
  <2>2. IsSet(surfaceManager', surfaceManager, visible, ticking, generation, asked)
    BY <1>6, <2>1, ManagerSet, Zenon
  <2> QED
    BY <2>2 DEF IsSet
<1>9. /\ surfaceHosts' \in [Monitors -> SurfacesOf]
      /\ \A m \in Monitors :
              /\ surfaceHosts'[m].id = hosts[m].id /\ surfaceHosts'[m].state = hosts[m].state
              /\ surfaceHosts'[m].address = hosts[m].address /\ surfaceHosts'[m].missing = hosts[m].missing
              /\ surfaceHosts'[m].shows = hosts[m].shows
              /\ surfaceHosts'[m].picture = IF m \in ms /\ art = NoPicture THEN NoPicture ELSE hosts[m].picture
  BY <1>2 DEF SurfacesOf
<1>10. surfaceArt \subseteq surfaceArt' /\ surfaceArt' \subseteq Lookups
  BY <1>3, <1>7
<1>11. ASSUME NEW m \in ms, art # NoPicture
       PROVE  \E a \in surfaceArt' : a.monitor = m /\ a.art = surfaceManager'.asked /\ a.generation = surfaceManager'.generation
  <2> DEFINE a == [monitor |-> m, art |-> art, generation |-> generation]
  <2>1. a \in surfaceArt' /\ a.monitor = m /\ a.art = art /\ a.generation = generation
    BY <1>3, <1>7, <1>11
  <2>2. asked = art
    BY <1>5
  <2> HIDE DEF a
  <2> QED
    BY <1>8, <2>1, <2>2
<1> QED
  BY <1>4, <1>5, <1>8, <1>9, <1>10, <1>11 DEF Resynced

\* What applyVisibility does to the manager, the hosts and the lookups.
Applied(world, ms) ==
  /\ surfaceManager' \in Managers /\ surfaceManager'.started = surfaceManager.started
  /\ surfaceManager'.made = surfaceManager.made
  /\ surfaceHosts' \in [Monitors -> SurfacesOf] /\ surfaceArt \subseteq surfaceArt' /\ surfaceArt' \subseteq Lookups
  /\ \A m \in Monitors :
       /\ surfaceHosts'[m].id = surfaceHosts[m].id /\ surfaceHosts'[m].state = surfaceHosts[m].state
       /\ surfaceHosts'[m].address = surfaceHosts[m].address /\ surfaceHosts'[m].missing = surfaceHosts[m].missing
       /\ IF m \in ms THEN surfaceHosts'[m].shows = (m \notin world.covered)
          ELSE surfaceHosts'[m].shows = surfaceHosts[m].shows /\ surfaceHosts'[m].picture = surfaceHosts[m].picture
       /\ IF m \in ms THEN surfaceHosts'[m].shows => m \in surfaceManager'.visible
          ELSE m \in surfaceManager.visible => m \in surfaceManager'.visible
       /\ surfaceKind = "media" /\ m \in ms /\ surfaceHosts'[m].shows =>
            /\ surfaceManager'.asked = world.art
            /\ \/ surfaceHosts'[m].picture = world.art
               \/ \E a \in surfaceArt' : /\ a.monitor = m /\ a.art = surfaceManager'.asked
                                         /\ a.generation = surfaceManager'.generation
  /\ IF ms = {} THEN surfaceManager'.timer = surfaceManager.timer
     ELSE surfaceManager'.timer \/ surfaceManager'.visible \cap {m \in Monitors : Has(m)} = {}
          \/ (surfaceKind = "clock" /\ surfaceWorld.past)
  /\ surfaceManager.asked = world.art =>
       surfaceManager'.asked = world.art /\ surfaceManager'.generation = surfaceManager.generation

\* applyVisibility of the monitors ms: what follows for each host.
LEMMA ApplyFacts ==
  ASSUME SurfaceTypes, NEW world \in Worlds, NEW ms \in SUBSET Monitors, ApplyVisibility(world, ms)
  PROVE  Applied(world, ms)
<1> DEFINE shown == {m \in ms : ContentVisible(world, m)}
           visible == (surfaceManager.visible \ ms) \cup shown
           rs == IF surfaceKind = "media" THEN shown ELSE {}
           base == [m \in Monitors |-> IF m \in ms THEN [surfaceHosts[m] EXCEPT !.shows = m \in shown] ELSE surfaceHosts[m]]
           ticking == IF ms = {} THEN surfaceManager.timer ELSE TimerRuns(visible, {m \in Monitors : Has(m)})
<1>1. Resync(world, rs, base, visible, ticking)
  BY Zenon DEF ApplyVisibility
<1>2. shown \subseteq ms /\ \A m \in ms : m \in shown <=> m \notin world.covered
  BY DEF ContentVisible
<1>3. visible \in SUBSET Monitors /\ rs \in SUBSET Monitors /\ rs \subseteq ms
      /\ (surfaceKind = "media" => rs = shown)
      /\ \A m \in shown : m \in visible
  BY DEF SurfaceTypes, Managers
<1>k. \A m \in Monitors : m \notin ms /\ m \in surfaceManager.visible => m \in visible
  OBVIOUS
<1>4. ticking \in BOOLEAN
  BY DEF TimerRuns, SurfaceTypes, Managers
<1>5. ms # {} => ticking \/ visible \cap {m \in Monitors : Has(m)} = {} \/ (surfaceKind = "clock" /\ surfaceWorld.past)
  BY DEF TimerRuns
<1>6. ms = {} => ticking = surfaceManager.timer
  OBVIOUS
<1>7. /\ base \in [Monitors -> SurfacesOf]
      /\ \A m \in Monitors :
           /\ base[m].id = surfaceHosts[m].id /\ base[m].state = surfaceHosts[m].state /\ base[m].picture = surfaceHosts[m].picture
           /\ base[m].address = surfaceHosts[m].address /\ base[m].missing = surfaceHosts[m].missing
           /\ base[m].shows = IF m \in ms THEN m \notin world.covered ELSE surfaceHosts[m].shows
  <2> HIDE DEF shown
  <2>1. \A h \in SurfacesOf, b \in BOOLEAN : LET c == [h EXCEPT !.shows = b] IN
          /\ c \in SurfacesOf /\ c.id = h.id /\ c.state = h.state /\ c.shows = b /\ c.picture = h.picture
          /\ c.address = h.address /\ c.missing = h.missing
    BY DEF SurfacesOf
  <2>2. \A m \in Monitors : base[m] = IF m \in ms THEN [surfaceHosts[m] EXCEPT !.shows = m \in shown] ELSE surfaceHosts[m]
    OBVIOUS
  <2>3. ASSUME NEW m \in Monitors
        PROVE  /\ base[m] \in SurfacesOf
               /\ base[m].id = surfaceHosts[m].id /\ base[m].state = surfaceHosts[m].state
               /\ base[m].address = surfaceHosts[m].address /\ base[m].missing = surfaceHosts[m].missing
               /\ base[m].picture = surfaceHosts[m].picture
               /\ base[m].shows = IF m \in ms THEN m \notin world.covered ELSE surfaceHosts[m].shows
    <3> DEFINE b == m \in shown
               out == m \notin world.covered
               c == base[m]
               h == surfaceHosts[m]
    <3>1. h \in SurfacesOf
      BY DEF SurfaceTypes
    <3>2. b \in BOOLEAN /\ (m \in ms => b = out)
      BY <1>2
    <3>3. c = IF m \in ms THEN [h EXCEPT !.shows = b] ELSE h
      BY <2>2
    <3> HIDE DEF b, out, c, h
    <3>4. /\ c \in SurfacesOf /\ c.id = h.id /\ c.state = h.state /\ c.picture = h.picture
          /\ c.address = h.address /\ c.missing = h.missing
          /\ c.shows = IF m \in ms THEN out ELSE h.shows
      BY <2>1, <3>1, <3>2, <3>3
    <3> QED
      BY <3>4 DEF out, c, h
  <2>4. base = [m \in Monitors |-> base[m]]
    OBVIOUS
  <2> HIDE DEF base
  <2>5. base \in [Monitors -> SurfacesOf]
    BY <2>3, <2>4
  <2> QED
    BY <2>3, <2>5
<1> HIDE DEF shown, visible, rs, base, ticking
<1>8. surfaceManager \in Managers /\ surfaceArt \subseteq Lookups
  BY DEF SurfaceTypes
<1>9. /\ surfaceManager' \in Managers /\ surfaceManager'.started = surfaceManager.started
      /\ surfaceManager'.made = surfaceManager.made /\ surfaceManager'.visible = visible
      /\ surfaceManager'.timer = ticking
      /\ surfaceManager'.asked = IF rs = {} THEN surfaceManager.asked ELSE world.art
      /\ surfaceManager.asked = world.art \/ rs = {} => surfaceManager'.generation = surfaceManager.generation
      /\ surfaceHosts' \in [Monitors -> SurfacesOf]
      /\ \A m \in Monitors :
           /\ surfaceHosts'[m].id = base[m].id /\ surfaceHosts'[m].state = base[m].state
           /\ surfaceHosts'[m].address = base[m].address /\ surfaceHosts'[m].missing = base[m].missing
           /\ surfaceHosts'[m].shows = base[m].shows
           /\ surfaceHosts'[m].picture = IF m \in rs /\ world.art = NoPicture THEN NoPicture ELSE base[m].picture
      /\ surfaceArt \subseteq surfaceArt' /\ surfaceArt' \subseteq Lookups
      /\ \A m \in rs : world.art # NoPicture =>
           \E a \in surfaceArt' : /\ a.monitor = m /\ a.art = surfaceManager'.asked
                                  /\ a.generation = surfaceManager'.generation
  <2>1. Resynced(world, rs, base, visible, ticking)
    BY <1>1, <1>3, <1>4, <1>7, <1>8, ResyncFacts
  <2> QED
    BY <2>1 DEF Resynced
<1>10. ASSUME NEW m \in Monitors
       PROVE  /\ surfaceHosts'[m].id = surfaceHosts[m].id /\ surfaceHosts'[m].state = surfaceHosts[m].state
              /\ surfaceHosts'[m].address = surfaceHosts[m].address /\ surfaceHosts'[m].missing = surfaceHosts[m].missing
              /\ IF m \in ms THEN surfaceHosts'[m].shows = (m \notin world.covered)
                 ELSE surfaceHosts'[m].shows = surfaceHosts[m].shows /\ surfaceHosts'[m].picture = surfaceHosts[m].picture
              /\ IF m \in ms THEN surfaceHosts'[m].shows => m \in surfaceManager'.visible
                 ELSE m \in surfaceManager.visible => m \in surfaceManager'.visible
              /\ surfaceKind = "media" /\ m \in ms /\ surfaceHosts'[m].shows =>
                   /\ surfaceManager'.asked = world.art
                   /\ \/ surfaceHosts'[m].picture = world.art
                      \/ \E a \in surfaceArt' : /\ a.monitor = m /\ a.art = surfaceManager'.asked
                                                /\ a.generation = surfaceManager'.generation
  <2> DEFINE out == m \notin world.covered
             found == \E a \in surfaceArt' : /\ a.monitor = m /\ a.art = surfaceManager'.asked
                                             /\ a.generation = surfaceManager'.generation
  <2>1. /\ surfaceHosts'[m].id = surfaceHosts[m].id /\ surfaceHosts'[m].state = surfaceHosts[m].state
        /\ surfaceHosts'[m].address = surfaceHosts[m].address /\ surfaceHosts'[m].missing = surfaceHosts[m].missing
        /\ surfaceHosts'[m].shows = IF m \in ms THEN out ELSE surfaceHosts[m].shows
        /\ surfaceHosts'[m].picture = IF m \in rs /\ world.art = NoPicture THEN NoPicture ELSE surfaceHosts[m].picture
        /\ m \in rs /\ world.art # NoPicture => found
    BY <1>7, <1>9
  <2>2. m \in ms => (m \in shown <=> out)
    BY <1>2
  <2>a. m \in ms => (surfaceHosts'[m].shows <=> out)
    BY <2>1, Zenon
  <2> HIDE DEF out, found
  <2>3. IF m \in ms THEN surfaceHosts'[m].shows => m \in surfaceManager'.visible
        ELSE m \in surfaceManager.visible => m \in surfaceManager'.visible
    BY <1>3, <1>9, <2>2, <2>a, <1>k
  <2>4. surfaceKind = "media" /\ m \in ms /\ surfaceHosts'[m].shows =>
          m \in rs /\ surfaceManager'.asked = world.art /\ (surfaceHosts'[m].picture = world.art \/ found)
    BY <1>3, <2>2, <2>a, <1>9, <2>1
  <2>5. m \notin ms => m \notin rs
    BY <1>3
  <2> QED
    BY <2>1, <2>3, <2>4, <2>5 DEF out, found
<1>11. IF ms = {} THEN surfaceManager'.timer = surfaceManager.timer
       ELSE surfaceManager'.timer \/ surfaceManager'.visible \cap {m \in Monitors : Has(m)} = {}
            \/ (surfaceKind = "clock" /\ surfaceWorld.past)
  BY <1>5, <1>6, <1>9
<1>12. surfaceManager.asked = world.art =>
         surfaceManager'.asked = world.art /\ surfaceManager'.generation = surfaceManager.generation
  BY <1>9
<1> QED
  BY <1>9, <1>10, <1>11, <1>12 DEF Applied

\* What createSurface of the monitors of list leaves.
Created(hosts, list, manager, events) ==
  /\ surfaceHosts' \in [Monitors -> SurfacesOf]
  /\ surfaceManager' \in Managers /\ surfaceManager'.started
  /\ surfaceManager'.visible = manager.visible /\ surfaceManager'.timer = manager.timer
  /\ surfaceManager'.asked = manager.asked /\ surfaceManager'.generation = manager.generation
  /\ surfaceLost' \subseteq surfaceLost \cup ToSet(list)
  /\ \A m \in Monitors : m \notin ToSet(list) =>
       surfaceHosts'[m] = hosts[m] /\ (m \in surfaceLost => m \in surfaceLost')
  /\ \A m \in ToSet(list) : surfaceHosts'[m].id # 0 \/ m \in surfaceLost'
  /\ HostsInv(surfaceHosts', surfaceManager'.made, events)
  /\ \A m \in Monitors : Heard(surfaceHosts', events, m) => surfaceHosts'[m] = hosts[m] /\ Heard(hosts, events, m)

\* Each surface made has a number no other had, and shows the wallpaper of its monitor.
LEMMA CreateFacts ==
  ASSUME NEW hosts \in [Monitors -> SurfacesOf], NEW list \in Seq(Monitors), NEW world \in Worlds,
         NEW manager \in Managers, NEW events \in Seq(HostSignalsSet),
         ToSet(list) \subseteq ToSet(world.screens), HostsInv(hosts, manager.made, events),
         \A m \in ToSet(list) : hosts[m].id = 0, Create(hosts, list, world, manager)
  PROVE  /\ Created(hosts, list, manager, events)
         /\ surfaceKind = "background" =>
              \A m \in ToSet(list) : surfaceHosts'[m].id # 0 => surfaceHosts'[m].picture = WallpaperOf(world, m)
<1>f. PICK failing \in SUBSET ToSet(list) : \E address \in [ToSet(list) \ failing -> Free(hosts)] :
        /\ manager.made + Len(list) <= MaxHosts
        /\ surfaceHosts' = Opened(hosts, manager.made, list, failing, address, world)
        /\ surfaceManager' = [manager EXCEPT !.started = TRUE, !.made = @ + Len(list)]
        /\ surfaceLost' = (surfaceLost \ ToSet(list)) \cup failing
  BY DEF Create
<1>1. PICK address \in [ToSet(list) \ failing -> Free(hosts)] :
        /\ manager.made + Len(list) <= MaxHosts
        /\ surfaceHosts' = Opened(hosts, manager.made, list, failing, address, world)
        /\ surfaceManager' = [manager EXCEPT !.started = TRUE, !.made = @ + Len(list)]
        /\ surfaceLost' = (surfaceLost \ ToSet(list)) \cup failing
  BY <1>f
<1>a. address \in [ToSet(list) \ failing -> 1..MaxAddresses]
  BY DEF Free
<1>2. Len(list) \in Nat /\ ToSet(list) \subseteq Monitors
  BY ScreenSets
<1>3. manager.made \in Nat /\ MaxHosts \in Nat
  BY MaxHostsAssumption DEF Managers
<1>4. /\ surfaceHosts' \in [Monitors -> SurfacesOf]
      /\ \A m \in Monitors : m \notin ToSet(list) \/ m \in failing => surfaceHosts'[m] = hosts[m]
      /\ \A m \in ToSet(list) \ failing :
           /\ surfaceHosts'[m].id \in (manager.made + 1)..(manager.made + Len(list)) /\ surfaceHosts'[m].state = "opening"
           /\ surfaceKind = "background" => surfaceHosts'[m].picture = WallpaperOf(world, m)
  <2>1. OpenedFrom(surfaceHosts', hosts, manager.made, list, failing, world)
    BY <1>1, <1>3, <1>a, OpenedFacts, Zenon
  <2> QED
    BY <2>1, Zenon DEF OpenedFrom
<1>5. /\ surfaceManager' \in Managers /\ surfaceManager'.started /\ surfaceManager'.made = manager.made + Len(list)
      /\ surfaceManager'.visible = manager.visible /\ surfaceManager'.timer = manager.timer
      /\ surfaceManager'.asked = manager.asked /\ surfaceManager'.generation = manager.generation
  <2> DEFINE k == manager.made + Len(list)
  <2>1. k \in 0..MaxHosts
    BY <1>1, <1>2, <1>3
  <2>2. surfaceManager' = [manager EXCEPT !.started = TRUE, !.made = k]
    BY <1>1 DEF Managers
  <2> HIDE DEF k
  <2>3. surfaceManager' \in Managers /\ surfaceManager'.started /\ surfaceManager'.made = k
    BY <2>1, <2>2 DEF Managers
  <2>4. /\ surfaceManager'.visible = manager.visible /\ surfaceManager'.timer = manager.timer
        /\ surfaceManager'.asked = manager.asked /\ surfaceManager'.generation = manager.generation
    BY <2>2 DEF Managers
  <2> QED
    BY <2>3, <2>4 DEF k
<1>6. /\ surfaceLost' \subseteq surfaceLost \cup ToSet(list)
      /\ \A m \in Monitors : m \notin ToSet(list) /\ m \in surfaceLost => m \in surfaceLost'
      /\ \A m \in failing : m \in surfaceLost'
  BY <1>1
<1>7. \A m \in Monitors : \/ surfaceHosts'[m] = hosts[m]
                          \/ /\ hosts[m].id = 0 /\ surfaceHosts'[m].state = "opening"
                             /\ surfaceHosts'[m].id \in (manager.made + 1)..(manager.made + Len(list))
  BY <1>4
<1>8. /\ HostsInv(surfaceHosts', manager.made + Len(list), events)
      /\ \A m \in Monitors : Heard(surfaceHosts', events, m) => surfaceHosts'[m] = hosts[m] /\ Heard(hosts, events, m)
  <2> DEFINE g == surfaceHosts'
             made == manager.made
             n == Len(list)
  <2>1. /\ g \in [Monitors -> SurfacesOf] /\ made \in Nat /\ n \in Nat /\ HostsInv(hosts, made, events)
        /\ \A m \in Monitors : \/ g[m] = hosts[m]
                               \/ hosts[m].id = 0 /\ g[m].id \in (made + 1)..(made + n) /\ g[m].state = "opening"
    BY <1>2, <1>3, <1>4, <1>7
  <2> HIDE DEF g, made, n
  <2>2. ToldAsBefore(hosts, g, made + n, events)
    BY <2>1, NewHosts, Zenon
  <2> QED
    BY <2>2 DEF g, made, n, ToldAsBefore
<1>9. \A m \in ToSet(list) : surfaceHosts'[m].id # 0 => m \notin failing
  BY <1>2, <1>4
<1>10. \A m \in ToSet(list) : surfaceHosts'[m].id # 0 \/ m \in surfaceLost'
  BY <1>2, <1>3, <1>4, <1>6
<1>11. Created(hosts, list, manager, events)
  BY <1>4, <1>5, <1>6, <1>8, <1>10 DEF Created
<1> QED
  BY <1>4, <1>9, <1>11

\* refreshAllWallpapers: only what the surfaces show changes.
LEMMA RefreshedFacts ==
  ASSUME NEW hosts \in [Monitors -> SurfacesOf], NEW world \in Worlds,
         \A m \in Monitors : hosts[m].id # 0 => m \in ToSet(world.screens),
         NEW g, g = Refreshed(hosts, world)
  PROVE  /\ g \in [Monitors -> SurfacesOf]
         /\ \A m \in Monitors : \/ g[m].id = hosts[m].id /\ g[m].state = hosts[m].state /\ g[m].address = hosts[m].address
                                \/ g[m].id = 0 /\ g[m].state = "none" /\ hosts[m].id = 0
         /\ surfaceKind # "background" => g = hosts
         /\ surfaceKind = "background" => \A m \in Monitors : g[m].id # 0 => g[m].picture = WallpaperOf(world, m)
BY MaxHostsAssumption, WallpaperIsPicture DEF Refreshed, SurfacesOf, NoHost

\* The head of the queue, unless it ends a surface that is there, leaves the others told as they were.
LEMMA HeadHeard ==
  ASSUME NEW hosts \in [Monitors -> SurfacesOf], NEW made \in Nat, NEW events \in Seq(HostSignalsSet), events # <<>>,
         HostsInv(hosts, made, events),
         \A m \in Monitors : Concerns(events[1], m, hosts[m]) => events[1].what = "configured"
  PROVE  /\ Tail(events) \in Seq(HostSignalsSet)
         /\ HostsInv(hosts, made, Tail(events))
         /\ \A m \in Monitors : Heard(hosts, Tail(events), m) =>
              Heard(hosts, events, m) \/ Concerns(events[1], m, hosts[m])
<1> DEFINE t == Tail(events)
<1>1. /\ Len(events) \in Nat /\ Len(events) # 0 /\ t \in Seq(HostSignalsSet) /\ Len(t) = Len(events) - 1
      /\ \A i \in 1..Len(t) : t[i] = events[i + 1] /\ i + 1 \in 1..Len(events)
  BY HeadTailProperties, LenProperties, EmptySeq
<1>2. \A i \in 1..Len(events) : i = 1 \/ (i - 1 \in 1..Len(t) /\ t[i - 1] = events[i])
  BY <1>1
<1> HIDE DEF t
<1>3. \A i \in 1..Len(t) : \E j \in 1..Len(events) : t[i] = events[j]
  BY <1>1
<1>4. /\ \A i \in 1..Len(t) : t[i].id <= made
      /\ \A i \in 1..Len(t), m \in Monitors : Concerns(t[i], m, hosts[m]) =>
           /\ t[i].address = hosts[m].address
           /\ IF t[i].what = "configured" THEN hosts[m].state # "opening" ELSE hosts[m].state = "ended"
  BY <1>3 DEF HostsInv
<1>5. ASSUME NEW m \in Monitors, hosts[m].state = "ended"
      PROVE  \E i \in 1..Len(t) : Concerns(t[i], m, hosts[m]) /\ t[i].what # "configured"
  <2>1. PICK i \in 1..Len(events) : Concerns(events[i], m, hosts[m]) /\ events[i].what # "configured"
    BY <1>5 DEF HostsInv
  <2>2. i # 1
    BY <2>1
  <2> QED
    BY <1>2, <2>1, <2>2
<1>6. HostsInv(hosts, made, t)
  BY <1>4, <1>5 DEF HostsInv
<1>7. ASSUME NEW m \in Monitors, Heard(hosts, t, m), ~Concerns(events[1], m, hosts[m])
      PROVE  Heard(hosts, events, m)
  BY <1>2, <1>7 DEF Heard
<1> QED
  BY <1>1, <1>6, <1>7 DEF t

\* What the invariant says of the types of the parts.
LEMMA MonitorFacts ==
  ASSUME MonitorInv
  PROVE  /\ surfaceKind \in {"background", "clock", "media"}
         /\ surfaceWorld \in Worlds /\ surfaceWorld.screens \in Seq(Monitors) /\ Screens \subseteq Monitors
         /\ surfaceWorld.covered \subseteq Screens
         /\ surfaceHosts \in [Monitors -> SurfacesOf] /\ surfaceEvents \in Seq(HostSignalsSet)
         /\ surfaceManager \in Managers /\ surfaceManager.made \in Nat /\ surfaceArt \subseteq Lookups
         /\ surfaceLost \subseteq Monitors
         /\ HostsInv(surfaceHosts, surfaceManager.made, surfaceEvents)
         /\ \A m \in Monitors : IF surfaceManager.started /\ m \in Screens
                                THEN surfaceHosts[m].id # 0 \/ m \in surfaceLost ELSE surfaceHosts[m].id = 0
         /\ \A m \in Monitors : Heard(surfaceHosts, surfaceEvents, m) => surfaceHosts[m].id # 0
BY MaxHostsAssumption, ScreenSets DEF MonitorInv, SurfaceTypes, Worlds, Managers, Screens, Served, HostsInv, Heard

\* What is heard is shown right as long as nothing it depends on changes.
LEMMA ShownKept ==
  ASSUME NEW kind, NEW world, NEW v, NEW hosts, NEW g, NEW events, NEW f, NEW manager, NEW n, NEW art, NEW b,
         ShownInv(kind, world, hosts, events, manager, art),
         \A m \in Monitors : Heard(g, f, m) =>
           /\ Heard(hosts, events, m) /\ g[m].shows = hosts[m].shows
           /\ g[m].picture = hosts[m].picture /\ g[m].missing = hosts[m].missing
           /\ m \in world.covered <=> m \in v.covered,
         world.past => v.past, v.art = world.art,
         n.visible = manager.visible, n.timer = manager.timer, n.asked = manager.asked, n.generation = manager.generation,
         art \subseteq b
  PROVE  ShownInv(kind, v, g, f, n, b)
BY DEF ShownInv, ShowsArt

LEMMA MonitorsStart ==
  ASSUME SurfacesInit
  PROVE  MonitorInv
<1>1. PICK k \in Monitors : surfaceWorld = [screens |-> <<k>>, shell |-> TRUE, covered |-> {}, past |-> FALSE,
                                           wallpapers |-> <<>>, art |-> NoPicture]
  BY DEF SurfacesInit
<1>2. /\ surfaceHosts = [m \in Monitors |-> NoHost] /\ surfaceEvents = <<>> /\ surfaceManager = NewManager
      /\ surfaceArt = {} /\ surfaceLost = {} /\ surfaceKind \in {"background", "clock", "media"}
  BY DEF SurfacesInit
<1>3. <<k>> \in Seq(Monitors) /\ <<>> \in Seq(Pictures) /\ <<>> \in Seq(HostSignalsSet)
  OBVIOUS
<1>4. surfaceWorld \in Worlds
  BY <1>1, <1>3 DEF Worlds
<1>5. NewManager \in Managers /\ NewManager.made = 0 /\ ~NewManager.started
  BY MaxHostsAssumption DEF NewManager, Managers
<1>6. /\ surfaceHosts \in [Monitors -> SurfacesOf] /\ HostsInv(surfaceHosts, 0, <<>>)
      /\ \A m \in Monitors : ~Heard(surfaceHosts, <<>>, m)
  <2>1. \A i \in 1..Len(<<>>) : <<>>[i].id <= 0
    OBVIOUS
  <2> DEFINE none == <<>>
  <2>2. none \in Seq(HostSignalsSet) /\ \A i \in 1..Len(none) : none[i].id <= 0
    BY <1>3, <2>1
  <2> HIDE DEF none
  <2>3. /\ [m \in Monitors |-> NoHost] \in [Monitors -> SurfacesOf]
        /\ HostsInv([m \in Monitors |-> NoHost], 0, <<>>)
        /\ \A e : \A m \in Monitors : ~Heard([q \in Monitors |-> NoHost], e, m)
    BY <2>2, NoHostsNoEvents
  <2> QED
    BY <1>2, <2>3
<1>7. SurfaceTypes
  BY <1>2, <1>3, <1>4, <1>5, <1>6 DEF SurfaceTypes
<1>8. \A m \in Monitors : surfaceHosts[m].id = 0
  BY <1>2 DEF NoHost
<1>9. Served(surfaceWorld, surfaceHosts, surfaceManager, surfaceLost)
  BY <1>1, <1>2, <1>5, <1>8 DEF Served
<1>10. HostsInv(surfaceHosts, surfaceManager.made, surfaceEvents)
  BY <1>2, <1>5, <1>6
<1>11. Pictured(surfaceWorld, surfaceHosts, surfaceArt)
  BY <1>2, <1>8 DEF Pictured
<1>12. ShownInv(surfaceKind, surfaceWorld, surfaceHosts, surfaceEvents, surfaceManager, surfaceArt)
  BY <1>2, <1>6 DEF ShownInv
<1> QED
  BY <1>7, <1>9, <1>10, <1>11, <1>12 DEF MonitorInv

LEMMA StartingKeeps ==
  ASSUME MonitorInv, StartSurfaces
  PROVE  MonitorInv'
<1> DEFINE list == surfaceWorld.screens
<1>1. /\ ~surfaceManager.started /\ Create(surfaceHosts, list, surfaceWorld, surfaceManager)
      /\ surfaceKind' = surfaceKind /\ surfaceWorld' = surfaceWorld /\ surfaceEvents' = surfaceEvents
      /\ surfaceArt' = surfaceArt
  BY DEF StartSurfaces
<1>2. \A m \in Monitors : surfaceHosts[m].id = 0 /\ ~Heard(surfaceHosts, surfaceEvents, m)
  BY <1>1, MonitorFacts
<1>3. list \in Seq(Monitors) /\ ToSet(list) = Screens /\ Screens \subseteq Monitors
  BY MonitorFacts DEF Screens
<1>4. /\ Created(surfaceHosts, list, surfaceManager, surfaceEvents)
      /\ surfaceKind = "background" => \A m \in ToSet(list) :
           surfaceHosts'[m].id # 0 => surfaceHosts'[m].picture = WallpaperOf(surfaceWorld, m)
  <2>1. \A m \in ToSet(list) : surfaceHosts[m].id = 0
    BY <1>2, <1>3
  <2>2. ToSet(list) \subseteq ToSet(surfaceWorld.screens)
    OBVIOUS
  <2> HIDE DEF list
  <2> QED
    BY <1>1, <1>3, <2>1, <2>2, MonitorFacts, CreateFacts
<1>5. SurfaceTypes'
  BY <1>1, <1>3, <1>4, MonitorFacts DEF SurfaceTypes, Created
<1>6. Served(surfaceWorld, surfaceHosts, surfaceManager, surfaceLost)'
  BY <1>1, <1>2, <1>3, <1>4, MonitorFacts DEF Served, Created, Screens
<1>7. HostsInv(surfaceHosts, surfaceManager.made, surfaceEvents)'
  BY <1>1, <1>4 DEF Created
<1>8. surfaceKind = "background" => Pictured(surfaceWorld, surfaceHosts, surfaceArt)'
  BY <1>1, <1>2, <1>3, <1>4 DEF Pictured, Created, MonitorInv
<1>9. ShownInv(surfaceKind, surfaceWorld, surfaceHosts, surfaceEvents, surfaceManager, surfaceArt)'
  BY <1>1, <1>2, <1>4 DEF ShownInv, Created
<1> QED
  BY <1>1, <1>5, <1>6, <1>7, <1>8, <1>9 DEF MonitorInv

LEMMA AddingKeeps ==
  ASSUME MonitorInv, NEW m \in Monitors, ScreenAdded(m)
  PROVE  MonitorInv'
<1> DEFINE world == [surfaceWorld EXCEPT !.screens = Append(@, m)]
           hosts == Refreshed(surfaceHosts, world)
<1>1. /\ m \notin Screens /\ surfaceWorld' = world
      /\ IF surfaceManager.started THEN Create(hosts, <<m>>, world, surfaceManager)
         ELSE UNCHANGED <<surfaceHosts, surfaceManager, surfaceLost>>
      /\ surfaceKind' = surfaceKind /\ surfaceEvents' = surfaceEvents /\ surfaceArt' = surfaceArt
  BY DEF ScreenAdded
<1>2. /\ world \in Worlds /\ ToSet(world.screens) = Screens \cup {m}
      /\ world.covered = surfaceWorld.covered /\ world.past = surfaceWorld.past /\ world.art = surfaceWorld.art
  <2> DEFINE s == Append(surfaceWorld.screens, m)
  <2>1. s \in Seq(Monitors) /\ ToSet(s) = Screens \cup {m}
    BY MonitorFacts, AddedScreen DEF Screens
  <2>2. world = [surfaceWorld EXCEPT !.screens = s]
    BY MonitorFacts DEF Worlds
  <2> HIDE DEF s, world
  <2> QED
    BY <2>1, <2>2, MonitorFacts DEF Worlds
<1> HIDE DEF world
<1>3. \A k \in Monitors : surfaceHosts[k].id # 0 => k \in Screens /\ k # m /\ surfaceManager.started
  BY <1>1, MonitorFacts
<1>4. surfaceArt = {} \/ surfaceKind # "background"
  BY DEF MonitorInv, Pictured
<1>5. CASE ~surfaceManager.started
  BY <1>5, MonitorFacts, <1>1, <1>2, <1>4 DEF SurfaceTypes, Served, Pictured, ShownInv, MonitorInv
<1>6. CASE surfaceManager.started
  <2>1. Create(hosts, <<m>>, world, surfaceManager)
    BY <1>1, <1>6
  <2>2. /\ hosts \in [Monitors -> SurfacesOf]
        /\ \A k \in Monitors : \/ /\ hosts[k].id = surfaceHosts[k].id /\ hosts[k].state = surfaceHosts[k].state
                                  /\ hosts[k].address = surfaceHosts[k].address
                               \/ hosts[k].id = 0 /\ hosts[k].state = "none" /\ surfaceHosts[k].id = 0
        /\ surfaceKind # "background" => hosts = surfaceHosts
        /\ surfaceKind = "background" => \A k \in Monitors : hosts[k].id # 0 => hosts[k].picture = WallpaperOf(world, k)
    BY <1>2, <1>3, MonitorFacts, RefreshedFacts
  <2> HIDE DEF hosts
  <2>3. /\ HostsInv(hosts, surfaceManager.made, surfaceEvents)
        /\ \A k \in Monitors : Heard(hosts, surfaceEvents, k) => Heard(surfaceHosts, surfaceEvents, k)
    <3>1. \A k \in Monitors : \/ /\ hosts[k].id = surfaceHosts[k].id /\ hosts[k].state = surfaceHosts[k].state
                                 /\ hosts[k].address = surfaceHosts[k].address
                              \/ hosts[k].id = 0 /\ hosts[k].state = "none"
      BY <2>2
    <3> QED
      BY <2>2, <3>1, MonitorFacts, GoneHosts
  <2>4. <<m>> \in Seq(Monitors) /\ ToSet(<<m>>) = {m}
    BY DEF ToSet
  <2>5. /\ Created(hosts, <<m>>, surfaceManager, surfaceEvents)
        /\ surfaceKind = "background" => \A k \in {m} :
             surfaceHosts'[k].id # 0 => surfaceHosts'[k].picture = WallpaperOf(world, k)
    <3> DEFINE list == <<m>>
    <3>1. list \in Seq(Monitors) /\ ToSet(list) = {m} /\ ToSet(list) \subseteq ToSet(world.screens)
          /\ Create(hosts, list, world, surfaceManager)
      BY <1>2, <2>1, <2>4
    <3>2. \A k \in {m} : hosts[k].id = 0
      BY <1>3, <2>2
    <3> HIDE DEF list
    <3>3. /\ Created(hosts, list, surfaceManager, surfaceEvents)
          /\ surfaceKind = "background" => \A k \in {m} :
               surfaceHosts'[k].id # 0 => surfaceHosts'[k].picture = WallpaperOf(world, k)
      BY <1>2, <2>2, <2>3, <3>1, <3>2, MonitorFacts, CreateFacts
    <3> QED
      BY <3>3 DEF list
  <2>6. SurfaceTypes'
    BY <1>1, <1>2, <2>4, <2>5, MonitorFacts DEF SurfaceTypes, Created
  <2>7. Served(surfaceWorld, surfaceHosts, surfaceManager, surfaceLost)'
    BY <1>2, MonitorFacts, <1>1, <1>6, <2>2, <2>4, <2>5 DEF Created, Served
  <2>8. HostsInv(surfaceHosts, surfaceManager.made, surfaceEvents)'
    BY <1>1, <2>5 DEF Created
  <2>9. surfaceKind = "background" => Pictured(surfaceWorld, surfaceHosts, surfaceArt)'
    BY <1>1, <1>4, <2>2, <2>4, <2>5 DEF Pictured, Created
  <2>10. ASSUME surfaceKind # "background"
         PROVE  ShownInv(surfaceKind, surfaceWorld, surfaceHosts, surfaceEvents, surfaceManager, surfaceArt)'
    BY <2>2, <2>5, <2>10, <1>2, ShownKept, <1>1 DEF Created, MonitorInv
  <2> QED
    BY <1>1, <2>6, <2>7, <2>8, <2>9, <2>10 DEF MonitorInv
<1> QED
  BY <1>5, <1>6

LEMMA RemovingKeeps ==
  ASSUME MonitorInv, NEW m \in Monitors, ScreenRemoved(m)
  PROVE  MonitorInv'
<1> DEFINE s == SubSeqAt(surfaceWorld.screens, {i \in DOMAIN surfaceWorld.screens : surfaceWorld.screens[i] # m})
           world == [surfaceWorld EXCEPT !.screens = s, !.covered = @ \ {m}]
           hosts == [surfaceHosts EXCEPT ![m] = NoHost]
<1>1. /\ surfaceWorld' = world /\ surfaceHosts' = Refreshed(hosts, world) /\ surfaceLost' = surfaceLost \ {m}
      /\ surfaceKind' = surfaceKind /\ surfaceEvents' = surfaceEvents /\ surfaceManager' = surfaceManager
      /\ surfaceArt' = surfaceArt
  BY DEF ScreenRemoved
<1>2. s \in Seq(Monitors) /\ ToSet(s) = Screens \ {m}
  BY MonitorFacts, RemovedScreen DEF Screens
<1> HIDE DEF s
<1>3. /\ world \in Worlds /\ ToSet(world.screens) = Screens \ {m}
      /\ world.covered = surfaceWorld.covered \ {m} /\ world.past = surfaceWorld.past /\ world.art = surfaceWorld.art
  BY <1>2, MonitorFacts DEF Worlds
<1> HIDE DEF world
<1>4. \A k \in Monitors : surfaceHosts[k].id # 0 => k \in Screens
  BY MonitorFacts
<1>5. /\ hosts \in [Monitors -> SurfacesOf] /\ hosts[m].id = 0 /\ hosts[m].state = "none"
      /\ \A k \in Monitors : k # m => hosts[k] = surfaceHosts[k]
  BY MaxHostsAssumption, MonitorFacts DEF NoHost, SurfacesOf
<1> HIDE DEF hosts
<1>6. \A k \in Monitors : hosts[k].id # 0 => k \in Screens \ {m}
  BY <1>4, <1>5
<1>7. /\ surfaceHosts' \in [Monitors -> SurfacesOf]
      /\ \A k \in Monitors : \/ /\ surfaceHosts'[k].id = hosts[k].id /\ surfaceHosts'[k].state = hosts[k].state
                                /\ surfaceHosts'[k].address = hosts[k].address
                             \/ surfaceHosts'[k].id = 0 /\ surfaceHosts'[k].state = "none" /\ hosts[k].id = 0
      /\ surfaceKind # "background" => surfaceHosts' = hosts
      /\ surfaceKind = "background" =>
           \A k \in Monitors : surfaceHosts'[k].id # 0 => surfaceHosts'[k].picture = WallpaperOf(world, k)
  BY <1>1, <1>3, <1>5, <1>6, RefreshedFacts
<1> DEFINE g == surfaceHosts'
<1>8. /\ HostsInv(surfaceHosts', surfaceManager.made, surfaceEvents)
      /\ \A k \in Monitors : Heard(surfaceHosts', surfaceEvents, k) =>
           Heard(surfaceHosts, surfaceEvents, k) /\ surfaceHosts'[k].id = surfaceHosts[k].id
  <2>1. \A k \in Monitors : \/ /\ g[k].id = surfaceHosts[k].id /\ g[k].state = surfaceHosts[k].state
                               /\ g[k].address = surfaceHosts[k].address
                            \/ g[k].id = 0 /\ g[k].state = "none"
    BY <1>5, <1>7
  <2>2. g \in [Monitors -> SurfacesOf]
    BY <1>7
  <2> HIDE DEF g
  <2>3. /\ HostsInv(g, surfaceManager.made, surfaceEvents)
        /\ \A k \in Monitors : Heard(g, surfaceEvents, k) =>
             Heard(surfaceHosts, surfaceEvents, k) /\ g[k].id = surfaceHosts[k].id
    BY <2>1, <2>2, MonitorFacts, GoneHosts
  <2> QED
    BY <2>3 DEF g
<1>9. SurfaceTypes'
  BY <1>1, <1>3, <1>7, MonitorFacts DEF SurfaceTypes
<1>10. Served(surfaceWorld, surfaceHosts, surfaceManager, surfaceLost)'
  BY <1>3, MonitorFacts, <1>7, <1>1, <1>5 DEF Served
<1>11. HostsInv(surfaceHosts, surfaceManager.made, surfaceEvents)'
  BY <1>1, <1>8
<1>12. surfaceKind = "background" => Pictured(surfaceWorld, surfaceHosts, surfaceArt)'
  BY <1>1, <1>7 DEF MonitorInv, Pictured
<1>13. ASSUME surfaceKind # "background"
       PROVE  ShownInv(surfaceKind, surfaceWorld, surfaceHosts, surfaceEvents, surfaceManager, surfaceArt)'
  BY <1>13, <1>8, MonitorFacts, <1>5, <1>7, <1>3, ShownKept, <1>1 DEF MonitorInv, g
<1> QED
  BY <1>1, <1>9, <1>10, <1>11, <1>12, <1>13 DEF MonitorInv

LEMMA ShellGoingKeeps ==
  ASSUME MonitorInv, ShellGoes
  PROVE  MonitorInv'
<1>1. /\ surfaceWorld' = [surfaceWorld EXCEPT !.shell = FALSE] /\ surfaceManager.started
      /\ surfaceHosts' = [m \in Monitors |-> NoHost] /\ surfaceLost' = Screens
      /\ surfaceKind' = surfaceKind /\ surfaceEvents' = surfaceEvents /\ surfaceManager' = surfaceManager
      /\ surfaceArt' = surfaceArt
  BY DEF ShellGoes
<1>2. \A i \in 1..Len(surfaceEvents) : surfaceEvents[i].id <= surfaceManager.made
  BY MonitorFacts DEF HostsInv
<1>3. /\ surfaceHosts' \in [Monitors -> SurfacesOf]
      /\ HostsInv(surfaceHosts', surfaceManager.made, surfaceEvents)
      /\ \A m \in Monitors : ~Heard(surfaceHosts', surfaceEvents, m)
  BY <1>1, <1>2, MonitorFacts, NoHostsNoEvents
<1>4. \A m \in Monitors : surfaceHosts'[m].id = 0
  BY <1>1 DEF NoHost
<1>5. surfaceWorld' \in Worlds /\ surfaceWorld'.screens = surfaceWorld.screens /\ surfaceWorld'.covered = surfaceWorld.covered
  BY <1>1, MonitorFacts DEF Worlds
<1>6. SurfaceTypes'
  BY <1>1, <1>3, <1>5, MonitorFacts DEF SurfaceTypes
<1>7. Served(surfaceWorld, surfaceHosts, surfaceManager, surfaceLost)'
  BY <1>1, <1>4, <1>5, MonitorFacts DEF Served, Screens
<1>8. HostsInv(surfaceHosts, surfaceManager.made, surfaceEvents)'
  BY <1>1, <1>3
<1>9. surfaceKind = "background" => Pictured(surfaceWorld, surfaceHosts, surfaceArt)'
  BY <1>1, <1>4 DEF Pictured, MonitorInv
<1>10. ShownInv(surfaceKind, surfaceWorld, surfaceHosts, surfaceEvents, surfaceManager, surfaceArt)'
  BY <1>1, <1>3 DEF ShownInv
<1> QED
  BY <1>1, <1>6, <1>7, <1>8, <1>9, <1>10 DEF MonitorInv

LEMMA RebuildingKeeps ==
  ASSUME MonitorInv, Rebuild
  PROVE  MonitorInv'
<1> DEFINE none == [m \in Monitors |-> NoHost]
           list == surfaceWorld.screens
           manager == IF surfaceKind = "background" THEN surfaceManager ELSE [NewManager EXCEPT !.made = surfaceManager.made]
           queue == surfaceEvents'
<1>1. /\ Create(none, list, surfaceWorld, manager)
      /\ queue = (IF surfaceKind = "background" THEN surfaceEvents ELSE <<>>)
      /\ surfaceArt' = {} /\ surfaceKind' = surfaceKind /\ surfaceWorld' = surfaceWorld
  BY DEF Rebuild
<1>2. manager \in Managers /\ manager.made = surfaceManager.made
  <2>1. NewManager \in Managers
    BY MaxHostsAssumption DEF NewManager, Managers
  <2>2. surfaceManager \in Managers /\ surfaceManager.made \in 0..MaxHosts
    BY MonitorFacts DEF Managers
  <2>3. \A r \in Managers, k \in 0..MaxHosts : [r EXCEPT !.made = k] \in Managers /\ [r EXCEPT !.made = k].made = k
    BY DEF Managers
  <2> QED
    BY <2>1, <2>2, <2>3
<1>3. /\ list \in Seq(Monitors) /\ ToSet(list) = Screens /\ Screens \subseteq Monitors
      /\ ToSet(list) \subseteq ToSet(surfaceWorld.screens)
  BY MonitorFacts DEF Screens
<1>4. queue \in Seq(HostSignalsSet) /\ \A i \in 1..Len(queue) : queue[i].id <= surfaceManager.made
  BY <1>1, MonitorFacts DEF HostsInv
<1> HIDE DEF manager, queue, list
<1>5. /\ none \in [Monitors -> SurfacesOf] /\ HostsInv(none, surfaceManager.made, queue)
      /\ \A m \in Monitors : ~Heard(none, queue, m)
  BY <1>4, MonitorFacts, NoHostsNoEvents
<1>6. \A m \in Monitors : none[m].id = 0
  BY DEF NoHost
<1> HIDE DEF none
<1>7. /\ Created(none, list, manager, queue)
      /\ surfaceKind = "background" => \A m \in ToSet(list) :
           surfaceHosts'[m].id # 0 => surfaceHosts'[m].picture = WallpaperOf(surfaceWorld, m)
  <2>1. \A m \in ToSet(list) : none[m].id = 0
    BY <1>3, <1>6
  <2> QED
    BY <1>1, <1>2, <1>3, <1>4, <1>5, <2>1, MonitorFacts, CreateFacts
<1>8. SurfaceTypes'
  BY <1>1, <1>3, <1>4, <1>7, MonitorFacts DEF SurfaceTypes, Created, queue
<1>9. Served(surfaceWorld, surfaceHosts, surfaceManager, surfaceLost)'
  BY <1>1, <1>3, <1>6, <1>7, MonitorFacts DEF Served, Created, Screens
<1>10. HostsInv(surfaceHosts, surfaceManager.made, surfaceEvents)'
  BY <1>7 DEF Created, queue
<1>11. surfaceKind = "background" => Pictured(surfaceWorld, surfaceHosts, surfaceArt)'
  BY <1>1, <1>3, <1>6, <1>7 DEF Pictured, Created
<1>12. ShownInv(surfaceKind, surfaceWorld, surfaceHosts, surfaceEvents, surfaceManager, surfaceArt)'
  BY <1>5, <1>7 DEF ShownInv, Created, queue
<1> QED
  BY <1>1, <1>8, <1>9, <1>10, <1>11, <1>12 DEF MonitorInv

\* The host of m alone is told of, in the last event of the queue f.
Signalled(hosts, g, made, events, f, m) ==
  /\ f \in Seq(HostSignalsSet) /\ HostsInv(g, made, f)
  /\ \A k \in Monitors : Heard(g, f, k) => k # m /\ Heard(hosts, events, k)

\* The hosts g are those of hosts but for the state of m's, of which the event e tells.
Changes(hosts, g, made, events, e, m) ==
  /\ hosts \in [Monitors -> SurfacesOf] /\ g \in [Monitors -> SurfacesOf]
  /\ made \in Nat /\ events \in Seq(HostSignalsSet) /\ HostsInv(hosts, made, events)
  /\ hosts[m].id # 0 /\ hosts[m].state # "ended"
  /\ e.what = "configured" => hosts[m].state = "opening"
  /\ \A k \in Monitors : k # m => g[k] = hosts[k]
  /\ g[m].id = hosts[m].id /\ g[m].address = hosts[m].address
  /\ e.what = "configured" => g[m].state = "configured"
  /\ e.what # "configured" => g[m].state = "ended"
  /\ e \in HostSignalsSet /\ e.monitor = m /\ e.id = hosts[m].id /\ e.address = hosts[m].address

LEMMA SignalledFacts ==
  ASSUME NEW m \in Monitors, NEW hosts, NEW g, NEW made, NEW events, NEW e, Changes(hosts, g, made, events, e, m)
  PROVE  Signalled(hosts, g, made, events, Append(events, e), m)
<1> USE DEF Changes
<1> DEFINE f == Append(events, e)
           n == Len(events)
<1>1. /\ n \in Nat /\ f \in Seq(HostSignalsSet) /\ Len(f) = n + 1 /\ f[n + 1] = e
      /\ \A i \in 1..n : f[i] = events[i] /\ i \in 1..Len(f)
  BY AppendProperties, LenProperties
<1>2. 1..Len(f) = 1..n \cup {n + 1}
  BY <1>1
<1> HIDE DEF f, n
<1>3. \A i \in 1..Len(f) : i \in 1..n \/ (i = n + 1 /\ f[i] = e)
  BY <1>1, <1>2
<1>4. /\ \A k \in Monitors : hosts[k].id <= made /\ (hosts[k].id = 0 => hosts[k].state = "none")
                             /\ (hosts[k].id # 0 => hosts[k].state # "none")
      /\ \A i \in 1..n : events[i].id <= made
      /\ \A i \in 1..n, k \in Monitors : Concerns(events[i], k, hosts[k]) =>
           /\ events[i].address = hosts[k].address
           /\ IF events[i].what = "configured" THEN hosts[k].state # "opening" ELSE hosts[k].state = "ended"
      /\ \A k \in Monitors : hosts[k].state = "ended" =>
           \E i \in 1..n : Concerns(events[i], k, hosts[k]) /\ events[i].what # "configured"
  BY DEF HostsInv, n
<1>5. /\ \A k \in Monitors : g[k].id <= made /\ (g[k].id = 0 => g[k].state = "none")
                             /\ (g[k].id # 0 => g[k].state # "none")
      /\ \A i \in 1..Len(f) : f[i].id <= made
  BY <1>1, <1>3, <1>4
<1>6. ASSUME NEW i \in 1..Len(f), NEW k \in Monitors, Concerns(f[i], k, g[k])
      PROVE  /\ f[i].address = g[k].address
             /\ IF f[i].what = "configured" THEN g[k].state # "opening" ELSE g[k].state = "ended"
  BY <1>1, <1>6, <1>4, <1>3 DEF Concerns
<1>7. ASSUME NEW k \in Monitors, g[k].state = "ended"
      PROVE  \E i \in 1..Len(f) : Concerns(f[i], k, g[k]) /\ f[i].what # "configured"
  BY <1>2, <1>1, <1>7, <1>4 DEF Concerns
<1>8. HostsInv(g, made, f)
  BY <1>5, <1>6, <1>7 DEF HostsInv
<1>9. ASSUME NEW k \in Monitors, Heard(g, f, k)
      PROVE  k # m /\ Heard(hosts, events, k)
  BY <1>9, <1>1, <1>2 DEF Heard, Concerns, n
<1> QED
  BY <1>1, <1>8, <1>9 DEF f, Signalled

LEMMA SignallingKeeps ==
  ASSUME MonitorInv, NEW m \in Monitors, NEW what \in {"configured", "failed", "closed"}, HostSignals(m, what)
  PROVE  MonitorInv'
<1> DEFINE g == surfaceHosts'
           state == IF what = "configured" THEN "configured" ELSE "ended"
           e == [monitor |-> m, id |-> surfaceHosts[m].id, address |-> surfaceHosts[m].address, what |-> what]
<1>1. /\ surfaceHosts[m].id # 0 /\ surfaceHosts[m].state # "ended"
      /\ what = "configured" => surfaceHosts[m].state = "opening"
      /\ g = [surfaceHosts EXCEPT ![m].state = state] /\ surfaceEvents' = Append(surfaceEvents, e)
      /\ surfaceKind' = surfaceKind /\ surfaceWorld' = surfaceWorld /\ surfaceManager' = surfaceManager
      /\ surfaceArt' = surfaceArt /\ surfaceLost' = surfaceLost
  BY DEF HostSignals, Has
<1>2. state \in {"none", "opening", "configured", "ended"}
  OBVIOUS
<1>3. /\ e \in HostSignalsSet /\ e.monitor = m /\ e.id = surfaceHosts[m].id /\ e.what = what
      /\ e.address = surfaceHosts[m].address
  <2>1. surfaceHosts[m].address \in 0..MaxAddresses /\ surfaceHosts[m].id \in 0..MaxHosts
    BY MonitorFacts DEF SurfacesOf
  <2> QED
    BY <1>1, <2>1, MaxHostsAssumption DEF HostSignalsSet
<1> HIDE DEF e, state
<1>4. /\ g \in [Monitors -> SurfacesOf] /\ \A k \in Monitors : k # m => g[k] = surfaceHosts[k]
      /\ g[m].state = state /\ \A k \in Monitors : g[k].id = surfaceHosts[k].id
      /\ \A k \in Monitors : g[k].address = surfaceHosts[k].address /\ g[k].missing = surfaceHosts[k].missing
      /\ \A k \in Monitors : g[k].picture = surfaceHosts[k].picture /\ g[k].shows = surfaceHosts[k].shows
  <2>1. surfaceHosts \in [Monitors -> SurfacesOf]
    BY MonitorFacts
  <2>2. \A h \in SurfacesOf : LET c == [h EXCEPT !.state = state] IN
          /\ c \in SurfacesOf /\ c.id = h.id /\ c.state = state /\ c.picture = h.picture /\ c.shows = h.shows
          /\ c.address = h.address /\ c.missing = h.missing
    BY <1>2 DEF SurfacesOf
  <2>3. g[m] = [surfaceHosts[m] EXCEPT !.state = state] /\ \A k \in Monitors : k # m => g[k] = surfaceHosts[k]
    BY <1>1, <2>1
  <2>4. surfaceHosts[m] \in SurfacesOf
    BY <2>1
  <2>5. /\ g[m] \in SurfacesOf /\ g[m].id = surfaceHosts[m].id /\ g[m].state = state
        /\ g[m].address = surfaceHosts[m].address /\ g[m].missing = surfaceHosts[m].missing
        /\ g[m].picture = surfaceHosts[m].picture /\ g[m].shows = surfaceHosts[m].shows
    BY <2>2, <2>3, <2>4
  <2>6. g = [k \in Monitors |-> g[k]]
    BY <1>1, <2>1
  <2>7. \A k \in Monitors : g[k] \in SurfacesOf
    BY <2>1, <2>3, <2>5
  <2>8. g \in [Monitors -> SurfacesOf]
    BY <2>6, <2>7
  <2> QED
    BY <2>3, <2>5, <2>8
<1> HIDE DEF g
<1>5. /\ surfaceEvents' \in Seq(HostSignalsSet) /\ HostsInv(g, surfaceManager.made, surfaceEvents')
      /\ \A k \in Monitors : Heard(g, surfaceEvents', k) => k # m /\ Heard(surfaceHosts, surfaceEvents, k)
  <2>1. /\ what = "configured" => g[m].state = "configured"
        /\ what # "configured" => g[m].state = "ended"
    BY <1>4 DEF state
  <2>2. /\ surfaceHosts \in [Monitors -> SurfacesOf] /\ surfaceManager.made \in Nat
        /\ surfaceEvents \in Seq(HostSignalsSet) /\ HostsInv(surfaceHosts, surfaceManager.made, surfaceEvents)
    BY MonitorFacts
  <2>3. Changes(surfaceHosts, g, surfaceManager.made, surfaceEvents, e, m)
    BY <1>1, <1>3, <1>4, <2>1, <2>2 DEF Changes
  <2>4. Signalled(surfaceHosts, g, surfaceManager.made, surfaceEvents, Append(surfaceEvents, e), m)
    BY <2>3, SignalledFacts, Zenon
  <2> QED
    BY <1>1, <2>4 DEF Signalled
<1>6. SurfaceTypes'
  BY <1>1, <1>4, <1>5, MonitorFacts DEF SurfaceTypes, g
<1>7. Served(surfaceWorld, surfaceHosts, surfaceManager, surfaceLost)'
  BY <1>1, <1>4 DEF Served, MonitorInv, g
<1>8. HostsInv(surfaceHosts, surfaceManager.made, surfaceEvents)'
  BY <1>1, <1>5 DEF g
<1>9. surfaceKind = "background" => Pictured(surfaceWorld, surfaceHosts, surfaceArt)'
  BY <1>1, <1>4 DEF Pictured, MonitorInv, g
<1>10. ASSUME surfaceKind # "background"
       PROVE  ShownInv(surfaceKind, surfaceWorld, surfaceHosts, surfaceEvents, surfaceManager, surfaceArt)'
  <2>1. ShownInv(surfaceKind, surfaceWorld, surfaceHosts, surfaceEvents, surfaceManager, surfaceArt)
    BY <1>10 DEF MonitorInv
  <2> DEFINE f == surfaceEvents'
  <2>2. \A k \in Monitors : Heard(g, f, k) =>
          /\ Heard(surfaceHosts, surfaceEvents, k) /\ g[k].shows = surfaceHosts[k].shows
          /\ g[k].picture = surfaceHosts[k].picture /\ g[k].missing = surfaceHosts[k].missing
    BY <1>4, <1>5
  <2> HIDE DEF f
  <2>3. ShownInv(surfaceKind, surfaceWorld, g, f, surfaceManager, surfaceArt)
    BY <2>1, <2>2, ShownKept
  <2> QED
    BY <1>1, <2>3 DEF f, g
<1> QED
  BY <1>1, <1>6, <1>7, <1>8, <1>9, <1>10 DEF MonitorInv

\* After applyVisibility the hosts it was for, and those heard before, show what they should.
LEMMA AppliedShows ==
  ASSUME SurfaceTypes, NEW world \in Worlds, NEW ms \in SUBSET Monitors, Applied(world, ms), surfaceKind # "background",
         ShownInv(surfaceKind, surfaceWorld, surfaceHosts, surfaceEvents, surfaceManager, surfaceArt),
         world.art = surfaceWorld.art, world.past = surfaceWorld.past,
         NEW g, g = surfaceHosts', NEW f,
         \A m \in Monitors : Heard(g, f, m) =>
           /\ surfaceHosts[m].id # 0
           /\ m \notin ms => Heard(surfaceHosts, surfaceEvents, m) /\ (m \in surfaceWorld.covered <=> m \in world.covered)
  PROVE  ShownInv(surfaceKind, world, g, f, surfaceManager', surfaceArt')
<1> SUFFICES ASSUME NEW m \in Monitors, Heard(g, f, m)
             PROVE  /\ g[m].shows <=> m \notin world.covered
                    /\ g[m].shows => m \in surfaceManager'.visible
                                     /\ (surfaceManager'.timer \/ (surfaceKind = "clock" /\ world.past))
                    /\ surfaceKind = "media" /\ g[m].shows =>
                         /\ surfaceManager'.asked = world.art
                         /\ \/ ShowsArt(g[m], world.art)
                            \/ \E a \in surfaceArt' : /\ a.monitor = m /\ a.art = surfaceManager'.asked
                                                      /\ a.generation = surfaceManager'.generation
  BY DEF ShownInv
<1> DEFINE found == \E a \in surfaceArt' : /\ a.monitor = m /\ a.art = surfaceManager'.asked
                                           /\ a.generation = surfaceManager'.generation
<1>1. /\ surfaceArt \subseteq surfaceArt'
      /\ IF m \in ms THEN g[m].shows = (m \notin world.covered)
         ELSE g[m].shows = surfaceHosts[m].shows /\ g[m].picture = surfaceHosts[m].picture
      /\ g[m].missing = surfaceHosts[m].missing
      /\ IF m \in ms THEN g[m].shows => m \in surfaceManager'.visible
         ELSE m \in surfaceManager.visible => m \in surfaceManager'.visible
      /\ surfaceKind = "media" /\ m \in ms /\ g[m].shows =>
           surfaceManager'.asked = world.art /\ (g[m].picture = world.art \/ found)
      /\ IF ms = {} THEN surfaceManager'.timer = surfaceManager.timer
         ELSE surfaceManager'.timer \/ surfaceManager'.visible \cap {k \in Monitors : Has(k)} = {}
              \/ (surfaceKind = "clock" /\ surfaceWorld.past)
      /\ surfaceManager.asked = world.art =>
           surfaceManager'.asked = world.art /\ surfaceManager'.generation = surfaceManager.generation
  BY DEF Applied
<1>2. m \notin ms =>
        /\ surfaceHosts[m].shows <=> m \notin world.covered
        /\ surfaceHosts[m].shows => m \in surfaceManager.visible /\ (surfaceManager.timer \/ (surfaceKind = "clock" /\ world.past))
        /\ surfaceKind = "media" /\ surfaceHosts[m].shows =>
             /\ surfaceManager.asked = world.art
             /\ \/ ShowsArt(surfaceHosts[m], world.art)
                \/ \E a \in surfaceArt : a.monitor = m /\ a.art = surfaceManager.asked /\ a.generation = surfaceManager.generation
  BY DEF ShownInv
<1>3. g[m].shows <=> m \notin world.covered
  <2>1. CASE m \in ms
    <3>1. g[m].shows = (m \notin world.covered)
      BY <1>1, <2>1, Zenon
    <3> QED
      BY <3>1, Zenon
  <2>2. CASE m \notin ms
    BY <1>1, <2>2, <1>2
  <2> QED
    BY <2>1, <2>2
<1>4. g[m].shows => m \in surfaceManager'.visible
  <2>1. CASE m \in ms
    BY <1>1, <2>1
  <2>2. CASE m \notin ms
    BY <1>1, <1>2, <2>2
  <2> QED
    BY <2>1, <2>2
<1>5. ASSUME g[m].shows PROVE surfaceManager'.timer \/ (surfaceKind = "clock" /\ world.past)
  <2>1. CASE ms = {}
    <3>1. m \notin ms /\ surfaceManager'.timer = surfaceManager.timer
      BY <1>1, <2>1
    <3>2. surfaceHosts[m].shows
      BY <1>1, <1>5, <3>1
    <3> QED
      BY <1>2, <3>1, <3>2
  <2>2. CASE ms # {}
    BY <1>4, <1>5, <1>1, <2>2 DEF Has
  <2> QED
    BY <2>1, <2>2
<1>6. ASSUME surfaceKind = "media", g[m].shows
      PROVE  surfaceManager'.asked = world.art /\ (ShowsArt(g[m], world.art) \/ found)
  <2>1. CASE m \in ms
    BY <1>1, <1>6, <2>1 DEF ShowsArt
  <2>2. CASE m \notin ms
    <3>1. surfaceHosts[m].shows /\ g[m].picture = surfaceHosts[m].picture
      BY <1>1, <1>6, <2>2
    <3>2. surfaceManager.asked = world.art
      BY <1>2, <1>6, <2>2, <3>1
    <3>3. surfaceManager'.asked = world.art /\ surfaceManager'.generation = surfaceManager.generation
      BY <1>1, <3>2
    <3>4. ShowsArt(surfaceHosts[m], world.art) => ShowsArt(g[m], world.art)
      BY <1>1, <3>1 DEF ShowsArt
    <3> QED
      BY <1>1, <1>2, <1>6, <2>2, <3>1, <3>2, <3>3, <3>4
  <2> QED
    BY <2>1, <2>2
<1> QED
  BY <1>3, <1>4, <1>5, <1>6 DEF found

LEMMA HearingKeeps ==
  ASSUME MonitorInv, HearHost
  PROVE  MonitorInv'
<1> DEFINE e == surfaceEvents[1]
           t == Tail(surfaceEvents)
           g == surfaceHosts'
<1>1. /\ surfaceEvents # <<>> /\ surfaceEvents' = t /\ Head(surfaceEvents) = e
      /\ surfaceKind' = surfaceKind /\ surfaceWorld' = surfaceWorld
  BY MonitorFacts DEF HearHost
<1>2. /\ e.monitor \in Monitors /\ e.id # 0 /\ e.what \in {"configured", "failed", "closed"}
      /\ 1 \in 1..Len(surfaceEvents)
  BY <1>1, MonitorFacts, LenProperties, EmptySeq, EventTypes
<1>3. IF ~IsCurrent(e) \/ (e.what = "configured" /\ surfaceKind = "background")
      THEN UNCHANGED <<surfaceHosts, surfaceManager, surfaceArt, surfaceLost>>
      ELSE IF e.what = "configured" THEN ApplyVisibility(surfaceWorld, {e.monitor}) /\ UNCHANGED surfaceLost
      ELSE /\ surfaceHosts' = [surfaceHosts EXCEPT ![e.monitor] = NoHost]
           /\ surfaceLost' = surfaceLost \cup {m \in {e.monitor} : surfaceHosts[m].state = "ended" \/ surfaceHosts[m].id # e.id}
           /\ UNCHANGED <<surfaceManager, surfaceArt>>
  BY <1>1 DEF HearHost
<1>4. Concerns(e, e.monitor, surfaceHosts[e.monitor]) => IsCurrent(e)
  BY <1>2, MonitorFacts DEF IsCurrent, Concerns, HostsInv, Has
<1>5. \A m \in Monitors, h \in [Monitors -> SurfacesOf] : Concerns(e, m, h[m]) => m = e.monitor
  BY DEF Concerns
<1> HIDE DEF e, t, g
<1>6. (\A m \in Monitors : Concerns(e, m, surfaceHosts[m]) => e.what = "configured") =>
        /\ t \in Seq(HostSignalsSet) /\ HostsInv(surfaceHosts, surfaceManager.made, t)
        /\ \A m \in Monitors : Heard(surfaceHosts, t, m) =>
             Heard(surfaceHosts, surfaceEvents, m) \/ Concerns(e, m, surfaceHosts[m])
  BY <1>1, MonitorFacts, HeadHeard DEF e, t
<1>7. CASE ~IsCurrent(e) \/ (e.what = "configured" /\ surfaceKind = "background")
  <2>1. UNCHANGED <<surfaceHosts, surfaceManager, surfaceArt, surfaceLost>>
    BY <1>3, <1>7
  <2>2. \A m \in Monitors : Concerns(e, m, surfaceHosts[m]) => e.what = "configured" /\ surfaceKind = "background"
    BY <1>4, <1>5, <1>7, MonitorFacts
  <2>3. /\ t \in Seq(HostSignalsSet) /\ HostsInv(surfaceHosts, surfaceManager.made, t)
        /\ \A m \in Monitors : Heard(surfaceHosts, t, m) =>
             Heard(surfaceHosts, surfaceEvents, m) \/ Concerns(e, m, surfaceHosts[m])
    BY <1>6, <2>2
  <2>4. SurfaceTypes'
    BY <1>1, <2>1, <2>3, MonitorFacts DEF SurfaceTypes
  <2>5. Served(surfaceWorld, surfaceHosts, surfaceManager, surfaceLost)'
    BY <1>1, <2>1 DEF MonitorInv
  <2>6. HostsInv(surfaceHosts, surfaceManager.made, surfaceEvents)'
    BY <1>1, <2>1, <2>3
  <2>7. surfaceKind = "background" => Pictured(surfaceWorld, surfaceHosts, surfaceArt)'
    BY <1>1, <2>1 DEF MonitorInv
  <2>8. ASSUME surfaceKind # "background"
        PROVE  ShownInv(surfaceKind, surfaceWorld, surfaceHosts, surfaceEvents, surfaceManager, surfaceArt)'
    BY <2>8, <2>2, <2>3, ShownKept, <1>1, <2>1 DEF MonitorInv
  <2> QED
    BY <1>1, <2>4, <2>5, <2>6, <2>7, <2>8 DEF MonitorInv
<1>8. CASE IsCurrent(e) /\ e.what = "configured" /\ surfaceKind # "background"
  <2>1. ApplyVisibility(surfaceWorld, {e.monitor}) /\ surfaceLost' = surfaceLost
    BY <1>3, <1>8
  <2>2. Applied(surfaceWorld, {e.monitor})
    BY <1>2, <2>1, MonitorFacts, ApplyFacts DEF MonitorInv
  <2>3. /\ surfaceManager' \in Managers /\ surfaceManager'.started = surfaceManager.started
        /\ surfaceManager'.made = surfaceManager.made /\ g \in [Monitors -> SurfacesOf] /\ surfaceArt' \subseteq Lookups
        /\ \A m \in Monitors : /\ g[m].id = surfaceHosts[m].id /\ g[m].state = surfaceHosts[m].state
                               /\ g[m].address = surfaceHosts[m].address
    BY <2>2 DEF Applied, g
  <2>4. /\ t \in Seq(HostSignalsSet) /\ HostsInv(surfaceHosts, surfaceManager.made, t)
        /\ \A m \in Monitors : Heard(surfaceHosts, t, m) =>
             Heard(surfaceHosts, surfaceEvents, m) \/ Concerns(e, m, surfaceHosts[m])
    BY <1>6, <1>8
  <2>5. /\ HostsInv(g, surfaceManager.made, t)
        /\ \A m \in Monitors : Heard(g, t, m) => Heard(surfaceHosts, t, m)
    <3>1. \A m \in Monitors : \/ /\ g[m].id = surfaceHosts[m].id /\ g[m].state = surfaceHosts[m].state
                                 /\ g[m].address = surfaceHosts[m].address
                              \/ g[m].id = 0 /\ g[m].state = "none"
      BY <2>3
    <3> QED
      BY <2>3, <2>4, <3>1, MonitorFacts, GoneHosts
  <2>6. \A m \in Monitors : Heard(g, t, m) =>
          /\ surfaceHosts[m].id # 0
          /\ m \notin {e.monitor} => Heard(surfaceHosts, surfaceEvents, m)
    BY <2>4, <2>5, <1>2, MonitorFacts DEF Concerns
  <2>7. SurfaceTypes'
    BY <1>1, <2>1, <2>3, <2>4, MonitorFacts DEF SurfaceTypes, g
  <2>8. Served(surfaceWorld, surfaceHosts, surfaceManager, surfaceLost)'
    BY <1>1, <2>1, <2>3 DEF MonitorInv, Served, g
  <2>9. HostsInv(surfaceHosts, surfaceManager.made, surfaceEvents)'
    BY <1>1, <2>3, <2>5 DEF g
  <2>10. ShownInv(surfaceKind, surfaceWorld, surfaceHosts, surfaceEvents, surfaceManager, surfaceArt)'
    BY <1>8, <1>2, MonitorFacts, <2>2, <2>6, AppliedShows, <1>1 DEF MonitorInv, g
  <2> QED
    BY <1>1, <1>8, <2>7, <2>8, <2>9, <2>10 DEF MonitorInv
<1>9. CASE IsCurrent(e) /\ e.what # "configured"
  <2>1. /\ surfaceHosts' = [surfaceHosts EXCEPT ![e.monitor] = NoHost]
        /\ surfaceLost' = surfaceLost \cup {m \in {e.monitor} : surfaceHosts[m].state = "ended" \/ surfaceHosts[m].id # e.id}
        /\ surfaceManager' = surfaceManager /\ surfaceArt' = surfaceArt
    BY <1>3, <1>9
  <2>2. surfaceHosts[e.monitor].state = "ended" \/ surfaceHosts[e.monitor].id # e.id
    BY <1>2, <1>9, MonitorFacts DEF HostsInv, Concerns, e
  <2>3. surfaceLost' = surfaceLost \cup {e.monitor}
    BY <2>1, <2>2
  <2>4. /\ g \in [Monitors -> SurfacesOf] /\ g[e.monitor].id = 0 /\ g[e.monitor].state = "none"
        /\ \A m \in Monitors : m # e.monitor => g[m] = surfaceHosts[m]
    BY MaxHostsAssumption, <1>2, <2>1, MonitorFacts DEF NoHost, SurfacesOf, g
  <2>5. /\ HostsInv(g, surfaceManager.made, surfaceEvents)
        /\ \A m \in Monitors : Heard(g, surfaceEvents, m) => Heard(surfaceHosts, surfaceEvents, m) /\ g[m].id = surfaceHosts[m].id
    BY <2>4, MonitorFacts, GoneHosts
  <2>6. \A m \in Monitors : ~Concerns(e, m, g[m])
    BY <1>2, <2>4 DEF Concerns
  <2>7. /\ t \in Seq(HostSignalsSet) /\ HostsInv(g, surfaceManager.made, t)
        /\ \A m \in Monitors : Heard(g, t, m) => Heard(g, surfaceEvents, m) \/ Concerns(e, m, g[m])
    BY <1>1, <2>4, <2>5, <2>6, MonitorFacts, HeadHeard DEF e, t
  <2>8. \A m \in Monitors : Heard(g, t, m) => Heard(surfaceHosts, surfaceEvents, m) /\ g[m] = surfaceHosts[m]
    BY <2>4, <2>5, <2>6, <2>7 DEF Heard
  <2>9. SurfaceTypes'
    BY <1>1, <1>2, <2>1, <2>3, <2>4, <2>7, MonitorFacts DEF SurfaceTypes, g
  <2>10. Served(surfaceWorld, surfaceHosts, surfaceManager, surfaceLost)'
    BY <1>1, <2>1, <2>3, <2>4 DEF MonitorInv, Served, g
  <2>11. HostsInv(surfaceHosts, surfaceManager.made, surfaceEvents)'
    BY <1>1, <2>1, <2>7 DEF g
  <2>12. surfaceKind = "background" => Pictured(surfaceWorld, surfaceHosts, surfaceArt)'
    BY <1>1, <2>1, <2>4 DEF Pictured, MonitorInv, g
  <2>13. ASSUME surfaceKind # "background"
         PROVE  ShownInv(surfaceKind, surfaceWorld, surfaceHosts, surfaceEvents, surfaceManager, surfaceArt)'
    <3>1. ShownInv(surfaceKind, surfaceWorld, surfaceHosts, surfaceEvents, surfaceManager, surfaceArt)
      BY <2>13 DEF MonitorInv
    <3>2. ShownInv(surfaceKind, surfaceWorld, g, t, surfaceManager, surfaceArt)
      BY <2>8, <3>1, ShownKept
    <3> QED
      BY <1>1, <2>1, <3>2 DEF g
  <2> QED
    BY <1>1, <2>9, <2>10, <2>11, <2>12, <2>13 DEF MonitorInv
<1> QED
  BY <1>7, <1>8, <1>9

LEMMA RevisionKeeps ==
  ASSUME MonitorInv, CompositorRevision
  PROVE  MonitorInv'
<1> DEFINE ms == {m \in Screens : Has(m)}
           g == surfaceHosts'
<1>1. PICK covered \in SUBSET Screens :
        /\ surfaceWorld' = [surfaceWorld EXCEPT !.covered = covered]
        /\ ApplyVisibility([surfaceWorld EXCEPT !.covered = covered], ms)
  BY DEF CompositorRevision
<1>2. /\ surfaceKind # "background" /\ surfaceManager.started /\ surfaceKind' = surfaceKind
      /\ surfaceEvents' = surfaceEvents /\ surfaceLost' = surfaceLost
  BY DEF CompositorRevision
<1> DEFINE world == [surfaceWorld EXCEPT !.covered = covered]
<1>3. /\ world \in Worlds /\ world.screens = surfaceWorld.screens /\ world.covered = covered
      /\ world.art = surfaceWorld.art /\ world.past = surfaceWorld.past
  BY MonitorFacts DEF Worlds
<1>4. surfaceWorld' = world /\ ApplyVisibility(world, ms)
  BY <1>1
<1>5. ms \in SUBSET Monitors /\ \A m \in Monitors : m \in ms <=> surfaceHosts[m].id # 0
  BY MonitorFacts DEF Has
<1> HIDE DEF world, ms
<1>6. Applied(world, ms)
  BY <1>3, <1>4, <1>5, ApplyFacts DEF MonitorInv
<1>7. /\ surfaceManager' \in Managers /\ surfaceManager'.started = surfaceManager.started
      /\ surfaceManager'.made = surfaceManager.made /\ g \in [Monitors -> SurfacesOf] /\ surfaceArt' \subseteq Lookups
      /\ \A m \in Monitors : /\ g[m].id = surfaceHosts[m].id /\ g[m].state = surfaceHosts[m].state
                             /\ g[m].address = surfaceHosts[m].address
  BY <1>6 DEF Applied
<1>8. g = surfaceHosts'
  OBVIOUS
<1> HIDE DEF g
<1>9. /\ HostsInv(g, surfaceManager.made, surfaceEvents)
      /\ \A m \in Monitors : Heard(g, surfaceEvents, m) => Heard(surfaceHosts, surfaceEvents, m)
  BY <1>7, MonitorFacts, GoneHosts
<1>10. \A m \in Monitors : Heard(g, surfaceEvents, m) => surfaceHosts[m].id # 0 /\ m \in ms
  BY <1>5, <1>9, MonitorFacts
<1>11. SurfaceTypes'
  BY <1>2, <1>3, <1>4, <1>7, <1>8, MonitorFacts DEF SurfaceTypes
<1>12. Served(surfaceWorld, surfaceHosts, surfaceManager, surfaceLost)'
  BY <1>2, <1>3, <1>4, <1>7, <1>8 DEF MonitorInv, Served, Screens
<1>13. HostsInv(surfaceHosts, surfaceManager.made, surfaceEvents)'
  BY <1>2, <1>7, <1>8, <1>9
<1>14. ShownInv(surfaceKind, surfaceWorld, surfaceHosts, surfaceEvents, surfaceManager, surfaceArt)'
  BY <1>2, <1>10, <1>3, <1>5, <1>6, <1>8, AppliedShows, <1>4 DEF MonitorInv
<1> QED
  BY <1>2, <1>11, <1>12, <1>13, <1>14 DEF MonitorInv

LEMMA TickingKeeps ==
  ASSUME MonitorInv, OnTick
  PROVE  MonitorInv'
<1> DEFINE b == TimerRuns(surfaceManager.visible, {m \in Monitors : Has(m)})
           n == surfaceManager'
<1>1. /\ surfaceKind = "clock" /\ n = [surfaceManager EXCEPT !.timer = b]
      /\ UNCHANGED <<surfaceKind, surfaceWorld, surfaceHosts, surfaceEvents, surfaceArt, surfaceLost>>
  BY DEF OnTick
<1>2. b \in BOOLEAN /\ (b \/ surfaceManager.visible \cap {m \in Monitors : Has(m)} = {} \/ surfaceWorld.past)
  BY DEF TimerRuns
<1> HIDE DEF b
<1>3. /\ n \in Managers /\ n.started = surfaceManager.started /\ n.made = surfaceManager.made
      /\ n.visible = surfaceManager.visible /\ n.timer = b
  BY <1>1, <1>2, MonitorFacts DEF Managers
<1>4. SurfaceTypes'
  BY <1>1, <1>3, MonitorFacts DEF SurfaceTypes
<1>5. Served(surfaceWorld, surfaceHosts, surfaceManager, surfaceLost)'
  BY <1>1, <1>3 DEF MonitorInv, Served
<1>6. HostsInv(surfaceHosts, surfaceManager.made, surfaceEvents)'
  BY <1>1, <1>3, MonitorFacts
<1>7. ShownInv(surfaceKind, surfaceWorld, surfaceHosts, surfaceEvents, surfaceManager, surfaceArt)'
  BY <1>1, MonitorFacts, <1>2, <1>3 DEF ShownInv, MonitorInv, Has
<1> QED
  BY <1>1, <1>4, <1>5, <1>6, <1>7 DEF MonitorInv

LEMMA DeadlineKeeps ==
  ASSUME MonitorInv, DeadlinePasses
  PROVE  MonitorInv'
<1>1. /\ surfaceKind = "clock" /\ surfaceWorld' = [surfaceWorld EXCEPT !.past = TRUE]
      /\ UNCHANGED <<surfaceKind, surfaceHosts, surfaceEvents, surfaceManager, surfaceArt, surfaceLost>>
  BY DEF DeadlinePasses
<1> DEFINE v == surfaceWorld'
<1>2. /\ v \in Worlds /\ v.screens = surfaceWorld.screens /\ v.covered = surfaceWorld.covered
      /\ v.art = surfaceWorld.art /\ v.past
  BY <1>1, MonitorFacts DEF Worlds
<1>3. SurfaceTypes'
  BY <1>1, <1>2, MonitorFacts DEF SurfaceTypes
<1>4. Served(surfaceWorld, surfaceHosts, surfaceManager, surfaceLost)'
  BY <1>1, <1>2 DEF MonitorInv, Served
<1>5. HostsInv(surfaceHosts, surfaceManager.made, surfaceEvents)'
  BY <1>1, MonitorFacts
<1>6. ShownInv(surfaceKind, surfaceWorld, surfaceHosts, surfaceEvents, surfaceManager, surfaceArt)'
  <2>1. ShownInv(surfaceKind, surfaceWorld, surfaceHosts, surfaceEvents, surfaceManager, surfaceArt)
    BY <1>1 DEF MonitorInv
  <2> HIDE DEF v
  <2>2. ShownInv(surfaceKind, v, surfaceHosts, surfaceEvents, surfaceManager, surfaceArt)
    BY <1>2, <2>1, ShownKept
  <2> QED
    BY <1>1, <2>2 DEF v
<1> QED
  BY <1>1, <1>3, <1>4, <1>5, <1>6 DEF MonitorInv

LEMMA TrackKeeps ==
  ASSUME MonitorInv, TrackChanges
  PROVE  MonitorInv'
<1> DEFINE ms == {m \in surfaceManager.visible : Has(m)}
           g == surfaceHosts'
<1>1. PICK art \in (Covers \cup {NoPicture}) \ {surfaceWorld.art} :
        /\ surfaceWorld' = [surfaceWorld EXCEPT !.art = art]
        /\ Resync([surfaceWorld EXCEPT !.art = art], ms, surfaceHosts, surfaceManager.visible, surfaceManager.timer)
  BY DEF TrackChanges
<1>2. /\ surfaceKind = "media" /\ surfaceKind' = surfaceKind /\ surfaceEvents' = surfaceEvents
      /\ surfaceLost' = surfaceLost
  BY DEF TrackChanges
<1> DEFINE world == [surfaceWorld EXCEPT !.art = art]
<1>3. /\ world \in Worlds /\ world.screens = surfaceWorld.screens /\ world.covered = surfaceWorld.covered
      /\ world.art = art /\ world.past = surfaceWorld.past
  BY MonitorFacts DEF Worlds, Pictures
<1>4. surfaceWorld' = world /\ Resync(world, ms, surfaceHosts, surfaceManager.visible, surfaceManager.timer)
  BY <1>1
<1>5. /\ surfaceManager.visible \in SUBSET Monitors /\ surfaceManager.timer \in BOOLEAN
      /\ ms \in SUBSET Monitors /\ \A m \in ms : m \in surfaceManager.visible
      /\ \A m \in Monitors : m \in surfaceManager.visible /\ surfaceHosts[m].id # 0 => m \in ms
  BY MonitorFacts DEF Managers, Has
<1> HIDE DEF world, ms
<1>6. Resynced(world, ms, surfaceHosts, surfaceManager.visible, surfaceManager.timer)
  BY <1>3, <1>4, <1>5, MonitorFacts, ResyncFacts
<1>7. /\ surfaceManager' \in Managers /\ surfaceManager'.started = surfaceManager.started
      /\ surfaceManager'.made = surfaceManager.made /\ surfaceManager'.visible = surfaceManager.visible
      /\ surfaceManager'.timer = surfaceManager.timer
      /\ surfaceManager'.asked = IF ms = {} THEN surfaceManager.asked ELSE world.art
      /\ g \in [Monitors -> SurfacesOf] /\ surfaceArt' \subseteq Lookups
      /\ \A m \in Monitors :
           /\ g[m].id = surfaceHosts[m].id /\ g[m].state = surfaceHosts[m].state
           /\ g[m].address = surfaceHosts[m].address /\ g[m].missing = surfaceHosts[m].missing
           /\ g[m].shows = surfaceHosts[m].shows
           /\ g[m].picture = IF m \in ms /\ world.art = NoPicture THEN NoPicture ELSE surfaceHosts[m].picture
      /\ \A m \in ms : world.art # NoPicture =>
           \E a \in surfaceArt' : /\ a.monitor = m /\ a.art = surfaceManager'.asked
                                  /\ a.generation = surfaceManager'.generation
  BY <1>6 DEF Resynced
<1>8. g = surfaceHosts'
  OBVIOUS
<1> HIDE DEF g
<1>9. /\ HostsInv(g, surfaceManager.made, surfaceEvents)
      /\ \A m \in Monitors : Heard(g, surfaceEvents, m) => Heard(surfaceHosts, surfaceEvents, m)
  <2>1. \A m \in Monitors : /\ g[m].id = surfaceHosts[m].id /\ g[m].state = surfaceHosts[m].state
                            /\ g[m].address = surfaceHosts[m].address
    BY <1>7
  <2> QED
    BY <1>7, <2>1, MonitorFacts, GoneHosts
<1>10. SurfaceTypes'
  BY <1>2, <1>3, <1>4, <1>7, <1>8, MonitorFacts DEF SurfaceTypes
<1>11. Served(surfaceWorld, surfaceHosts, surfaceManager, surfaceLost)'
  BY <1>2, <1>3, <1>4, <1>7, <1>8 DEF MonitorInv, Served
<1>12. HostsInv(surfaceHosts, surfaceManager.made, surfaceEvents)'
  BY <1>2, <1>7, <1>8, <1>9
<1>13. ShownInv(surfaceKind, surfaceWorld, surfaceHosts, surfaceEvents, surfaceManager, surfaceArt)'
  <2>1. \A m \in ms : g[m].picture = world.art \/ world.art # NoPicture
    BY <1>5, <1>7
  <2>2. \A m \in Monitors : g[m].picture = world.art => ShowsArt(g[m], world.art)
    BY DEF ShowsArt
  <2> QED
    BY <1>2, <1>4, <1>8, <1>9, MonitorFacts, <1>5, <1>7, <1>3, <2>1, <2>2 DEF ShownInv, MonitorInv
<1> QED
  BY <1>2, <1>10, <1>11, <1>12, <1>13 DEF MonitorInv

LEMMA ArtKeeps ==
  ASSUME MonitorInv, NEW a \in surfaceArt, NEW found \in BOOLEAN, ArtResolved(a, found)
  PROVE  MonitorInv'
<1> DEFINE counts == AnswerCounts(a) /\ a.monitor \in surfaceManager.visible /\ Has(a.monitor)
           g == surfaceHosts'
           shown == IF found THEN a.art ELSE NoPicture
           gone == IF found THEN NoPicture ELSE a.art
<1>1. /\ surfaceArt' = surfaceArt \ {a}
      /\ g = (IF counts THEN [surfaceHosts EXCEPT ![a.monitor].picture = shown, ![a.monitor].missing = gone]
              ELSE surfaceHosts)
      /\ UNCHANGED <<surfaceKind, surfaceWorld, surfaceEvents, surfaceManager, surfaceLost>>
  BY DEF ArtResolved
<1>2. surfaceKind # "background" /\ a.monitor \in Monitors /\ a.art \in Pictures \cup {NoPicture}
  BY MonitorFacts DEF MonitorInv, Pictured, Lookups
<1>d. /\ shown \in Pictures \cup {NoPicture} /\ gone \in Pictures \cup {NoPicture}
      /\ shown = a.art \/ (shown = NoPicture /\ gone = a.art)
  BY <1>2
<1> HIDE DEF g, shown, gone
<1>3. /\ g \in [Monitors -> SurfacesOf]
      /\ \A m \in Monitors : g[m].id = surfaceHosts[m].id /\ g[m].state = surfaceHosts[m].state /\ g[m].shows = surfaceHosts[m].shows
                             /\ g[m].address = surfaceHosts[m].address
      /\ \A m \in Monitors : ~(counts /\ m = a.monitor) => g[m] = surfaceHosts[m]
      /\ counts => g[a.monitor].picture = shown /\ g[a.monitor].missing = gone
  <2>1. CASE ~counts
    BY <1>1, <2>1, MonitorFacts
  <2>2. CASE counts
    <3> DEFINE k == a.monitor
               p == shown
    <3>1. k \in Monitors /\ p \in Pictures \cup {NoPicture} /\ surfaceHosts \in [Monitors -> SurfacesOf]
      BY <1>2, <1>d, MonitorFacts
    <3>2. g = [surfaceHosts EXCEPT ![k].picture = p, ![k].missing = gone]
      BY <1>1, <2>2
    <3> HIDE DEF k, p, counts
    <3>3. \A h \in SurfacesOf : LET c == [h EXCEPT !.picture = p, !.missing = gone] IN
            /\ c \in SurfacesOf /\ c.id = h.id /\ c.state = h.state /\ c.picture = p /\ c.shows = h.shows
            /\ c.address = h.address /\ c.missing = gone
      BY <1>d, <3>1 DEF SurfacesOf
    <3>4. g[k] = [surfaceHosts[k] EXCEPT !.picture = p, !.missing = gone] /\ \A m \in Monitors : m # k => g[m] = surfaceHosts[m]
      BY <3>1, <3>2
    <3>5. surfaceHosts[k] \in SurfacesOf
      BY <3>1
    <3>6. /\ g[k] \in SurfacesOf /\ g[k].id = surfaceHosts[k].id /\ g[k].state = surfaceHosts[k].state
          /\ g[k].picture = p /\ g[k].shows = surfaceHosts[k].shows
          /\ g[k].address = surfaceHosts[k].address /\ g[k].missing = gone
      <4> DEFINE h == surfaceHosts[k]
                 c == [h EXCEPT !.picture = p, !.missing = gone]
      <4>1. /\ c \in SurfacesOf /\ c.id = h.id /\ c.state = h.state /\ c.picture = p /\ c.shows = h.shows
            /\ c.address = h.address /\ c.missing = gone
        BY <3>3, <3>5, Zenon
      <4>2. g[k] = c
        BY <3>4
      <4> HIDE DEF c
      <4> QED
        BY <4>1, <4>2
    <3>7. g = [m \in Monitors |-> g[m]]
      BY <3>1, <3>2
    <3>8. \A m \in Monitors : g[m] \in SurfacesOf
      BY <3>1, <3>4, <3>6
    <3>9. g \in [Monitors -> SurfacesOf]
      BY <3>7, <3>8
    <3> QED
      BY <2>2, <3>4, <3>6, <3>9 DEF k, p
  <2> QED
    BY <2>1, <2>2
<1>4. counts <=> AnswerCounts(a) /\ a.monitor \in surfaceManager.visible /\ surfaceHosts[a.monitor].id # 0
  BY DEF Has
<1> HIDE DEF counts
<1>5. /\ HostsInv(g, surfaceManager.made, surfaceEvents)
      /\ \A m \in Monitors : Heard(g, surfaceEvents, m) => Heard(surfaceHosts, surfaceEvents, m)
  <2>1. \A m \in Monitors : \/ /\ g[m].id = surfaceHosts[m].id /\ g[m].state = surfaceHosts[m].state
                               /\ g[m].address = surfaceHosts[m].address
                            \/ g[m].id = 0 /\ g[m].state = "none"
    BY <1>3
  <2> QED
    BY <1>3, <2>1, MonitorFacts, GoneHosts
<1>6. SurfaceTypes'
  BY <1>1, <1>3, MonitorFacts DEF SurfaceTypes, g
<1>7. Served(surfaceWorld, surfaceHosts, surfaceManager, surfaceLost)'
  BY <1>1, <1>3 DEF MonitorInv, Served, g
<1>8. HostsInv(surfaceHosts, surfaceManager.made, surfaceEvents)'
  BY <1>1, <1>5 DEF g
<1>9. ShownInv(surfaceKind, surfaceWorld, surfaceHosts, surfaceEvents, surfaceManager, surfaceArt)'
  <2>1. SUFFICES ASSUME NEW m \in Monitors, Heard(g, surfaceEvents, m)
                 PROVE  /\ g[m].shows <=> m \notin surfaceWorld.covered
                        /\ g[m].shows => m \in surfaceManager.visible
                                         /\ (surfaceManager.timer \/ (surfaceKind = "clock" /\ surfaceWorld.past))
                        /\ surfaceKind = "media" /\ g[m].shows =>
                             /\ surfaceManager.asked = surfaceWorld.art
                             /\ \/ ShowsArt(g[m], surfaceWorld.art)
                                \/ \E b \in surfaceArt' : /\ b.monitor = m /\ b.art = surfaceManager.asked
                                                          /\ b.generation = surfaceManager.generation
    BY <1>1 DEF ShownInv, g
  <2>2. /\ surfaceHosts[m].shows <=> m \notin surfaceWorld.covered
        /\ surfaceHosts[m].shows => m \in surfaceManager.visible
                                    /\ (surfaceManager.timer \/ (surfaceKind = "clock" /\ surfaceWorld.past))
        /\ surfaceKind = "media" /\ surfaceHosts[m].shows =>
             /\ surfaceManager.asked = surfaceWorld.art
             /\ \/ ShowsArt(surfaceHosts[m], surfaceWorld.art)
                \/ \E b \in surfaceArt : /\ b.monitor = m /\ b.art = surfaceManager.asked
                                         /\ b.generation = surfaceManager.generation
    BY <1>2, <1>5, <2>1 DEF MonitorInv, ShownInv
  <2>3. surfaceHosts[m].id # 0
    BY <1>5, <2>1, MonitorFacts
  <2>4. g[m].shows = surfaceHosts[m].shows
    BY <1>3
  <2>5. ASSUME surfaceKind = "media", g[m].shows
        PROVE  /\ surfaceManager.asked = surfaceWorld.art
               /\ \/ ShowsArt(g[m], surfaceWorld.art)
                  \/ \E b \in surfaceArt' : /\ b.monitor = m /\ b.art = surfaceManager.asked
                                            /\ b.generation = surfaceManager.generation
    <3>1. surfaceHosts[m].shows /\ surfaceManager.asked = surfaceWorld.art
      BY <2>2, <2>4, <2>5
    <3>2. CASE counts /\ m = a.monitor
      <4>1. a.art = surfaceWorld.art
        BY <1>4, <3>1, <3>2 DEF AnswerCounts
      <4>2. ShowsArt(g[m], surfaceWorld.art)
        BY <1>d, <1>3, <3>2, <4>1 DEF ShowsArt
      <4> QED
        BY <3>1, <4>2
    <3>3. CASE ~(counts /\ m = a.monitor)
      BY <2>2, <2>3, <2>5, <1>1, <1>3, <1>4, <3>1, <3>3 DEF AnswerCounts
    <3> QED
      BY <3>2, <3>3
  <2> QED
    BY <2>2, <2>4, <2>5
<1> QED
  BY <1>1, <1>2, <1>6, <1>7, <1>8, <1>9 DEF MonitorInv

LEMMA BackgroundKeeps ==
  ASSUME MonitorInv, BackgroundChanged
  PROVE  MonitorInv'
<1> DEFINE g == surfaceHosts'
<1>n. PICK n \in 0..2 : \E images \in [1..n -> Wallpapers] :
        /\ surfaceWorld' = [surfaceWorld EXCEPT !.wallpapers = images]
        /\ g = Refreshed(surfaceHosts, [surfaceWorld EXCEPT !.wallpapers = images])
  BY DEF BackgroundChanged
<1>1. PICK images \in [1..n -> Wallpapers] :
        /\ surfaceWorld' = [surfaceWorld EXCEPT !.wallpapers = images]
        /\ g = Refreshed(surfaceHosts, [surfaceWorld EXCEPT !.wallpapers = images])
  BY <1>n
<1>2. /\ surfaceKind = "background"
      /\ UNCHANGED <<surfaceKind, surfaceEvents, surfaceManager, surfaceArt, surfaceLost>>
  BY DEF BackgroundChanged
<1> DEFINE world == [surfaceWorld EXCEPT !.wallpapers = images]
<1>3. images \in Seq(Pictures)
  BY SeqDef DEF Pictures
<1>4. /\ world \in Worlds /\ world.screens = surfaceWorld.screens /\ world.covered = surfaceWorld.covered
  BY <1>3, MonitorFacts DEF Worlds
<1>5. surfaceWorld' = world /\ g = Refreshed(surfaceHosts, world)
  BY <1>1
<1>6. g = surfaceHosts'
  OBVIOUS
<1> HIDE DEF world, g
<1>7. \A m \in Monitors : surfaceHosts[m].id # 0 => m \in ToSet(world.screens)
  BY <1>4, MonitorFacts DEF Screens
<1>8. /\ g \in [Monitors -> SurfacesOf]
      /\ \A m \in Monitors : \/ /\ g[m].id = surfaceHosts[m].id /\ g[m].state = surfaceHosts[m].state
                                /\ g[m].address = surfaceHosts[m].address
                             \/ g[m].id = 0 /\ g[m].state = "none" /\ surfaceHosts[m].id = 0
      /\ \A m \in Monitors : g[m].id # 0 => g[m].picture = WallpaperOf(world, m)
  BY <1>2, <1>4, <1>5, <1>7, MonitorFacts, RefreshedFacts
<1>9. HostsInv(g, surfaceManager.made, surfaceEvents)
  BY <1>8, MonitorFacts, GoneHosts
<1>10. SurfaceTypes'
  BY <1>2, <1>4, <1>5, <1>6, <1>8, MonitorFacts DEF SurfaceTypes
<1>11. Served(surfaceWorld, surfaceHosts, surfaceManager, surfaceLost)'
  BY <1>2, <1>4, <1>5, <1>6, <1>8 DEF MonitorInv, Served
<1>12. HostsInv(surfaceHosts, surfaceManager.made, surfaceEvents)'
  BY <1>2, <1>6, <1>9
<1>13. Pictured(surfaceWorld, surfaceHosts, surfaceArt)'
  BY <1>2, <1>5, <1>6, <1>8 DEF MonitorInv, Pictured
<1> QED
  BY <1>2, <1>10, <1>11, <1>12, <1>13 DEF MonitorInv

LEMMA MonitorStep ==
  ASSUME MonitorInv, [SurfacesNext]_surfaceVars
  PROVE  MonitorInv'
<1>1. CASE UNCHANGED surfaceVars
  BY <1>1 DEF surfaceVars, MonitorInv, SurfaceTypes
<1>2. CASE StartSurfaces
  BY <1>2, StartingKeeps
<1>3. CASE \E m \in Monitors : ScreenAdded(m)
  BY <1>3, AddingKeeps
<1>4. CASE \E m \in Monitors : ScreenRemoved(m)
  BY <1>4, RemovingKeeps
<1>5. CASE ShellGoes
  BY <1>5, ShellGoingKeeps
<1>6. CASE Rebuild
  BY <1>6, RebuildingKeeps
<1>7. CASE HearHost
  BY <1>7, HearingKeeps
<1>8. CASE \E m \in Monitors, what \in {"configured", "failed", "closed"} : HostSignals(m, what)
  BY <1>8, SignallingKeeps
<1>9. CASE CompositorRevision
  BY <1>9, RevisionKeeps
<1>10. CASE OnTick
  BY <1>10, TickingKeeps
<1>11. CASE DeadlinePasses
  BY <1>11, DeadlineKeeps
<1>12. CASE TrackChanges
  BY <1>12, TrackKeeps
<1>13. CASE \E a \in surfaceArt, found \in BOOLEAN : ArtResolved(a, found)
  BY <1>13, ArtKeeps
<1>14. CASE BackgroundChanged
  BY <1>14, BackgroundKeeps
<1> QED
  BY <1>1, <1>2, <1>3, <1>4, <1>5, <1>6, <1>7, <1>8, <1>9, <1>10, <1>11, <1>12, <1>13, <1>14 DEF SurfacesNext

LEMMA MonitorInvSays == MonitorInv => MonitorsAreServed /\ SurfaceTypeOK
<1> SUFFICES ASSUME MonitorInv PROVE MonitorsAreServed /\ SurfaceTypeOK
  OBVIOUS
<1>a. \A i \in 1..Len(surfaceEvents) : surfaceEvents[i].address \in 0..MaxAddresses
  BY MonitorFacts, EventTypes DEF HostSignalsSet
<1>1. SurfaceTypeOK
  <2>1. surfaceHosts \in [Monitors -> SurfacesOf]
    BY MonitorFacts
  <2>2. \A i \in DOMAIN surfaceEvents : /\ surfaceEvents[i].monitor \in Monitors /\ surfaceEvents[i].id \in 1..MaxHosts
                                        /\ surfaceEvents[i].address \in 0..MaxAddresses
    BY <1>a, MonitorFacts, LenProperties, EventTypes
  <2>3. /\ surfaceWorld \in Worlds /\ surfaceManager \in Managers /\ surfaceArt \subseteq Lookups
        /\ surfaceKind \in {"background", "clock", "media"} /\ surfaceLost \subseteq Monitors
    BY MonitorFacts
  <2>4. /\ surfaceWorld.screens \in Seq(Monitors) /\ surfaceWorld.shell \in BOOLEAN
        /\ surfaceWorld.covered \subseteq Monitors /\ surfaceWorld.past \in BOOLEAN
        /\ surfaceWorld.wallpapers \in Seq(Pictures) /\ surfaceWorld.art \in Pictures \cup {NoPicture}
    BY <2>3 DEF Worlds
  <2>5. /\ surfaceManager.started \in BOOLEAN /\ surfaceManager.made \in 0..MaxHosts
        /\ surfaceManager.visible \subseteq Monitors /\ surfaceManager.timer \in BOOLEAN
        /\ surfaceManager.asked \in Pictures \cup {NoPicture} /\ surfaceManager.generation \in Nat
    BY <2>3 DEF Managers
  <2>6. \A a \in surfaceArt : a.monitor \in Monitors /\ a.art \in Pictures
    BY <2>3 DEF Lookups
  <2> QED
    BY <2>1, <2>2, <2>3, <2>4, <2>5, <2>6, Zenon DEF SurfaceTypeOK, SurfacesOf
<1>2. SurfacesFollowScreens
  BY MonitorFacts DEF HostsInv, SurfacesFollowScreens, Has
<1>3. SurfacesShowTheState
  BY MonitorFacts, HostTypes DEF MonitorInv, Pictured, Has, Heard, ShownInv, ContentVisible, AnswerCounts,
     SurfacesShowTheState
<1> QED
  BY <1>1, <1>2, <1>3 DEF MonitorsAreServed

LEMMA MonitorsHold == SurfacesInit /\ [][SurfacesNext]_surfaceVars => []MonitorInv
BY MonitorsStart, MonitorStep, PTL

\* Screens come and go, the layer shell fails, windows cover monitors, tracks and wallpapers change,
\* and hosts are configured, fail and close in signals that may be of a host that was replaced: each
\* monitor has the surface it should have, and a configured one shows what it should show
\* (PerMonitorLayerManager, BackgroundManager, WidgetManager, MprisWidgetManager).
THEOREM MonitorsAreAlwaysServed == SurfacesInit /\ [][SurfacesNext]_surfaceVars => []MonitorsAreServed
<1>1. MonitorInv => MonitorsAreServed
  BY MonitorInvSays
<1> QED
  BY <1>1, MonitorsHold, PTL

\* All surfaces together, in every session: their states are well formed.
THEOREM SurfacesAreTyped == MCSpec => []TypesOK
<1>1. MCInit => Init /\ SurfacesInit
  BY DEF MCInit
<1>2. [MCNext]_allVars => [Next]_vars /\ [SurfacesNext]_surfaceVars
  BY DEF MCNext, allVars, Next
<1>3. MonitorInv => SurfaceTypeOK
  BY MonitorInvSays
<1> QED
  BY <1>1, <1>2, <1>3, MonitorsHold, OverlaysAreTyped, PTL DEF MCSpec, Spec, TypesOK
=============================================================================
