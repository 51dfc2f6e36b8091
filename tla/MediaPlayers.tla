---------------------------- MODULE MediaPlayers -----------------------------
(***************************************************************************)
(* MprisService: players that come, change and go on the session bus, and  *)
(* the one that is shown.  Signals wait in the order the bus sent them; a  *)
(* blocking read overtakes them and answers with what the player is now,   *)
(* or fails.                                                               *)
(* Positions are left out: only when they are read and reconciled.         *)
(***************************************************************************)
EXTENDS Naturals, SequencesExt, Subsequences

CONSTANTS Players,        \* MPRIS names
          NoPlayer,
          Tracks,
          Controllable,   \* players that let themselves be controlled
          MaxSignals,     \* bound: signals under way and PositionTrackingHandles together
          Unreliable,     \* bound: players on the bus that may not answer, or not be subscribed to
          MaxInterest     \* bound: PositionTrackingHandles

ASSUME MediaAssumption ==
  /\ IsFiniteSet(Players) /\ NoPlayer \notin Players /\ Controllable \subseteq Players
  /\ "unset" \notin Tracks
  /\ MaxInterest \in Nat

VARIABLES
  mediaActual,   \* the players themselves
  mediaBus,      \* signals for the shell, oldest first
  mediaPlayers,  \* players_
  media          \* active_..., reconcile_timer_, position_tracking_refcount_; ghosts: missed are the
                 \* players that could not be subscribed to, guess: the choice rests on a failed read

mediaVars == <<mediaActual, mediaBus, mediaPlayers, media>>

Statuses == {"Playing", "Paused", "Stopped"}
Unset == "unset"
Fields == {"status", "track"}
MediaSignals ==
  [kind : {"changed"}, player : Players, status : Statuses \cup {Unset}, track : Tracks \cup {Unset},
   invalid : SUBSET Fields]
  \cup [kind : {"came", "left", "replaced"}, player : Players]

\* Of activity timestamps only the order matters: 0 for unset, then from the oldest on. unread
\* (ghost) are the values that a failed read was to bring and no signal has since.
MediaTypeOK ==
  /\ \A p \in Players : mediaActual[p] \in [on : BOOLEAN, status : Statuses, track : Tracks]
  /\ mediaBus \in Seq(MediaSignals)
  /\ mediaPlayers \in Seq([name : Players, status : Statuses \cup {Unset}, track : Tracks \cup {Unset},
                           activity : 0..Cardinality(Players), unread : SUBSET Fields])
  /\ media \in [active : Players \cup {NoPlayer}, status : Statuses \cup {Unset}, track : Tracks \cup {Unset},
                paused : BOOLEAN, timer : BOOLEAN, interest : 0..MaxInterest,
                missed : SUBSET Players, guess : BOOLEAN]

MediaInit ==
  /\ mediaActual \in [Players -> [on : {FALSE}, status : {"Stopped"}, track : Tracks]]
  /\ mediaBus = <<>>
  /\ mediaPlayers = <<>>
  /\ media = [active |-> NoPlayer, status |-> Unset, track |-> Unset, paused |-> FALSE,
              timer |-> FALSE, interest |-> 0, missed |-> {}, guess |-> FALSE]

----------------------------------------------------------------------------
(* Properties of a player and the choice of the active one.                *)

Known(players) == {players[i].name : i \in 1..Len(players)}
IndexOf(players, p) == CHOOSE i \in 1..Len(players) : players[i].name = p

\* applyPlayerProperties of what a signal carries
Merge(r, s) == [r EXCEPT !.status = IF s.status = Unset THEN @ ELSE s.status,
                         !.track = IF s.track = Unset THEN @ ELSE s.track,
                         !.unread = {f \in @ : s[f] = Unset}]

\* applyPlayerProperties of some properties of a snapshot, or of all.
ReadPart(r, fields) == [r EXCEPT !.status = IF "status" \in fields THEN mediaActual[r.name].status ELSE @,
                                 !.track = IF "track" \in fields THEN mediaActual[r.name].track ELSE @,
                                 !.unread = @ \ fields]
ReadPlayer(r) == ReadPart(r, Fields)

\* Of the timestamps only the order is kept.
Ranked(players) ==
  LET used == {players[j].activity : j \in 1..Len(players)} \ {0} IN
  [j \in 1..Len(players) |-> [players[j] EXCEPT !.activity = Cardinality({a \in used : a <= players[j].activity})]]

\* MprisActivityTimestamp::update of the i-th player, which was old: it is later
\* than all others, or in the same millisecond as the latest.
Stamps(players, i, old) ==
  LET ranks == {players[j].activity : j \in 1..Len(players) \ {i}} \cup {0}
      last == CHOOSE a \in ranks : \A b \in ranks : b <= a IN
  IF players[i].status # "Playing" \/ (old.status = "Playing" /\ old.track = players[i].track) THEN {players}
  ELSE {Ranked([players EXCEPT ![i].activity = a]) : a \in {last + 1} \cup ({last} \ {0})}

\* selectActiveIndex: the first of the most recent that play, or else that pause.
Newest(players, status) ==
  LET among == {i \in 1..Len(players) : players[i].status = status}
      best == {i \in among : \A j \in among : players[j].activity <= players[i].activity} IN
  IF among = {} THEN 0 ELSE CHOOSE i \in best : \A j \in best : i <= j

\* Mutant: a paused player is shown although another plays.
SelectPausedFirst(players) ==
  IF Newest(players, "Paused") # 0 THEN Newest(players, "Paused") ELSE Newest(players, "Playing")

SelectActiveIndex(players) ==
  IF Newest(players, "Playing") # 0 THEN Newest(players, "Playing") ELSE Newest(players, "Paused")

\* paused_since_: started afresh by a switch, else by a change of the status.
PausedSince(m, r) ==
  IF r.name # m.active THEN r.status = "Paused"
  ELSE IF r.status = m.status THEN m.paused ELSE r.status = "Paused"

TimerRuns(m) == m.interest > 0 /\ m.status = "Playing"
\* updateReconcileTimerState
UpdateTimer(m) == [m EXCEPT !.timer = TimerRuns(m)]

\* applyActiveSnapshot, of the record of the active player or of none
ApplySnapshot(m, r, guess) ==
  UpdateTimer([m EXCEPT !.active = r.name, !.status = r.status, !.track = r.track,
                        !.paused = PausedSince(m, r), !.guess = guess])

Nobody == [name |-> NoPlayer, status |-> Unset, track |-> Unset, activity |-> 0, unread |-> {}]

\* Ghost: a status that could not be read had its part in the choice, or what is shown was not read.
Guessed(players, r) == r.unread # {} \/ \E i \in 1..Len(players) : "status" \in players[i].unread

Newcomer(p) == [name |-> p, status |-> Unset, track |-> Unset, activity |-> 0, unread |-> Fields]

\* A program that is gone answers no read.
Answers(p) == {ok \in BOOLEAN : IF ok THEN mediaActual[p].on ELSE ~mediaActual[p].on \/ p \in Unreliable}

\* reselectActivePlayer, which leaves one of these: a new player or track is read again after it
\* was chosen.
Selections(players, m) ==
  LET i == SelectActiveIndex(players) IN
  IF i = 0 THEN {[players |-> players, media |-> ApplySnapshot(m, Nobody, Guessed(players, Nobody))]}
  ELSE LET fresh == players[i].name # m.active \/ players[i].track # m.track
           read == {ok /\ fresh : ok \in Answers(players[i].name)}
           After(ok) == IF ok THEN [players EXCEPT ![i] = ReadPlayer(@)] ELSE players IN
       {[players |-> After(ok), media |-> ApplySnapshot(m, After(ok)[i], Guessed(players, After(ok)[i]))] : ok \in read}

NowIs(x) == mediaPlayers' = x.players /\ media' = x.media
Reselect(players, m) == \E x \in Selections(players, m) : NowIs(x)

\* refreshPositionMarkFromDbus: what it read stays in the record, unshown.
RefreshPosition(m) ==
  /\ media' = m
  /\ mediaPlayers' \in {mediaPlayers} \cup
       {[mediaPlayers EXCEPT ![i] = ReadPlayer(@)] :
          i \in {j \in 1..Len(mediaPlayers) : mediaPlayers[j].name = m.active /\ mediaActual[m.active].on}}

----------------------------------------------------------------------------
(* The players.                                                            *)

Emit(s) == Len(mediaBus) + media.interest < MaxSignals /\ mediaBus' = Append(mediaBus, s)
Changed(p, status, track, invalid) ==
  Emit([kind |-> "changed", player |-> p, status |-> status, track |-> track, invalid |-> invalid])

PlayerComesOrGoes(p) ==
  /\ \E on \in {~mediaActual[p].on, TRUE}, s \in Statuses :
       /\ on \/ s = "Stopped"
       /\ mediaActual' = [mediaActual EXCEPT ![p].on = on, ![p].status = s]
       /\ Emit([kind |-> IF ~on THEN "left" ELSE IF mediaActual[p].on THEN "replaced" ELSE "came", player |-> p])
  /\ UNCHANGED <<mediaPlayers, media>>

\* The signal carries the new values, or says that they are no longer valid.
PlayerChanges(p) ==
  /\ mediaActual[p].on
  /\ \E s \in Statuses, t \in Tracks :
       LET new == [status |-> s, track |-> t]
           changes == {f \in Fields : new[f] # mediaActual[p][f]} IN
       /\ changes # {}
       /\ mediaActual' = [mediaActual EXCEPT ![p].status = s, ![p].track = t]
       /\ \E invalid \in SUBSET changes :
            LET carried == changes \ invalid IN
            Changed(p, IF "status" \in carried THEN s ELSE Unset, IF "track" \in carried THEN t ELSE Unset, invalid)
  /\ UNCHANGED <<mediaPlayers, media>>

\* playPause: the guards, and the player that takes the call.
PlayPause ==
  /\ media.active \in Controllable /\ mediaActual[media.active].on
  /\ LET s == IF mediaActual[media.active].status = "Playing" THEN "Paused" ELSE "Playing" IN
     /\ mediaActual' = [mediaActual EXCEPT ![media.active].status = s]
     /\ Changed(media.active, s, Unset, {})
  /\ UNCHANGED <<mediaPlayers, media>>

----------------------------------------------------------------------------
(* What the shell does with a signal.                                      *)

Missed(m, p) == [m EXCEPT !.missed = @ \cup {p}]
Heeded(m, p) == [m EXCEPT !.missed = @ \ {p}]

\* acquirePlayer of one not known: without a subscription it is not known, and if the first read
\* fails there is no other.
Acquire(p, players, m) ==
  \/ p \in Unreliable /\ NowIs([players |-> players, media |-> Missed(m, p)])
  \/ \E ok \in Answers(p) :
       LET more == Append(players, IF ok THEN ReadPlayer(Newcomer(p)) ELSE Newcomer(p)) IN
       \E stamped \in Stamps(more, Len(more), Newcomer(p)) : Reselect(stamped, Heeded(m, p))

\* releasePlayer
Without(p) == SubSeqAt(mediaPlayers, {i \in DOMAIN mediaPlayers : mediaPlayers[i].name # p})

\* What releasePlayer leaves; of one that is not known nothing but the ghost.
AfterRelease(p) ==
  IF p \in Known(mediaPlayers) THEN Selections(Without(p), media)
  ELSE {[players |-> mediaPlayers, media |-> Heeded(media, p)]}

\* onNameOwnerChanged: a new owner is a release and an acquisition.
OnNameOwnerChanged(s) ==
  CASE s.kind = "came" -> IF s.player \in Known(mediaPlayers) THEN UNCHANGED <<mediaPlayers, media>>
                          ELSE Acquire(s.player, mediaPlayers, media)
    [] s.kind = "left" -> \E x \in AfterRelease(s.player) : NowIs(x)
    [] s.kind = "replaced" -> \E x \in AfterRelease(s.player) : Acquire(s.player, x.players, x.media)

\* onPlayerPropertiesChanged with refreshInvalidatedProperties: of what is invalid, and only that,
\* the player is asked, and may not answer.
OnPlayerPropertiesChanged(s) ==
  IF s.player \notin Known(mediaPlayers) THEN UNCHANGED <<mediaPlayers, media>>
  ELSE \E ok \in Answers(s.player) :
         LET i == IndexOf(mediaPlayers, s.player)
             old == mediaPlayers[i]
             merged == Merge(old, s)
             r == IF ok THEN ReadPart(merged, s.invalid) ELSE [merged EXCEPT !.unread = @ \cup s.invalid] IN
         \E stamped \in Stamps([mediaPlayers EXCEPT ![i] = r], i, old) : Reselect(stamped, media)

MediaSignal ==
  /\ mediaBus # <<>>
  /\ mediaBus' = Tail(mediaBus)
  /\ LET s == Head(mediaBus) IN
     IF s.kind = "changed" THEN OnPlayerPropertiesChanged(s) ELSE OnNameOwnerChanged(s)
  /\ UNCHANGED mediaActual

----------------------------------------------------------------------------
(* Position tracking.                                                      *)

AcquirePositionTracking ==
  /\ media.interest < MaxInterest /\ Len(mediaBus) + media.interest < MaxSignals
  /\ LET more == [media EXCEPT !.interest = @ + 1] IN
     IF media.interest = 0 THEN RefreshPosition(UpdateTimer(more))
     ELSE media' = more /\ UNCHANGED mediaPlayers
  /\ UNCHANGED <<mediaActual, mediaBus>>

ReleasePositionTracking ==
  /\ media.interest > 0
  /\ LET less == [media EXCEPT !.interest = @ - 1] IN
     media' = IF less.interest = 0 THEN UpdateTimer(less) ELSE less
  /\ UNCHANGED <<mediaActual, mediaBus, mediaPlayers>>

OnReconcileTimerTick ==
  /\ media.timer
  /\ RefreshPosition(media)
  /\ UNCHANGED <<mediaActual, mediaBus>>

MediaNext ==
  \/ \E p \in Players : PlayerComesOrGoes(p) \/ PlayerChanges(p)
  \/ PlayPause \/ MediaSignal
  \/ AcquirePositionTracking \/ ReleasePositionTracking \/ OnReconcileTimerTick

----------------------------------------------------------------------------
(* Properties.                                                             *)

\* Whatever signals a blocking read overtakes: once they are all delivered the
\* players known are those on the bus that could be subscribed to, with the status and the track
\* they have, unless a read of it failed and no signal brought it since; and the
\* one that is shown is a playing one if there is one, else a paused one,
\* shown as it is, unless it was chosen on what could not be read.
MediaShowsThePlayers ==
  mediaBus = <<>> =>
    /\ Known(mediaPlayers) = {p \in Players : mediaActual[p].on} \ media.missed
    /\ \A i \in 1..Len(mediaPlayers) :
         LET r == mediaPlayers[i] IN \A f \in Fields \ r.unread : r[f] = mediaActual[r.name][f]
    /\ LET among(s) == {p \in Known(mediaPlayers) : mediaActual[p].status = s} IN
       ~media.guess =>
       /\ media.active \in (IF among("Playing") # {} THEN among("Playing")
                            ELSE IF among("Paused") # {} THEN among("Paused") ELSE {NoPlayer})
       /\ media.active # NoPlayer => /\ media.status = mediaActual[media.active].status
                                     /\ media.track = mediaActual[media.active].track

\* The pause that is counted is the shown player's and the position is reconciled
\* exactly while somebody looks at a player that plays; the shown player is known.
MediaTimersAgree ==
  /\ media.paused = (media.status = "Paused")
  /\ media.timer = TimerRuns(media)
  /\ media.active # NoPlayer => media.active \in Known(mediaPlayers)

----------------------------------------------------------------------------
(***************************************************************************)
(* MprisArtworkCache: the widgets of all monitors ask for the same cover;  *)
(* one download and one decoding serve them all, and what they leave in    *)
(* the cache directory is kept within a budget, the oldest evicted first.  *)
(* Every file has the same size.                                           *)
(***************************************************************************)

CONSTANTS HttpCovers,    \* covers that are downloaded
          LocalCovers,   \* file: and data: covers, only decoded
          CacheBudget,   \* kCacheBudgetBytes, in files
          MaxAsked       \* bound: requests for covers

ASSUME ArtworkAssumption == CacheBudget \in Nat /\ HttpCovers \cap LocalCovers = {}

Covers == HttpCovers \cup LocalCovers

VARIABLES
  coverAsked,    \* resolve calls: the cover of each
  coverTold,     \* per call, the answers it got
  coverQueued,   \* calls answered by the event loop
  coverReplies,  \* pending_replies_: cover to the call that started it
  coverDecodes,  \* pending_: likewise
  coverWaiting,  \* queued_callbacks_
  coverEntries,  \* entries_, by last_touch, oldest first
  coverDisk      \* files on the disk: "good", or damaged

coverVars == <<coverAsked, coverTold, coverQueued, coverReplies, coverDecodes, coverWaiting, coverEntries, coverDisk>>
coverCalls == <<coverAsked, coverTold>>

ArtworkTypeOK ==
  /\ coverAsked \in Seq(Covers) /\ coverTold \in Seq(0..1) /\ Len(coverTold) = Len(coverAsked)
  /\ coverQueued \subseteq DOMAIN coverAsked
  /\ \A f \in {coverReplies, coverDecodes} : \A c \in DOMAIN f : c \in Covers /\ coverAsked[f[c]] = c
  /\ coverWaiting \in [Covers -> SUBSET DOMAIN coverAsked]
  /\ ToSet(coverEntries) \subseteq Covers
  /\ \A c \in DOMAIN coverDisk : c \in Covers /\ coverDisk[c] \in {"good", "damaged"}

\* scanCacheRoot and evictIfOverBudget at start: what a former run left.
ArtworkInit ==
  /\ coverAsked = <<>> /\ coverTold = <<>> /\ coverQueued = {}
  /\ coverReplies = <<>> /\ coverDecodes = <<>>
  /\ coverWaiting = [c \in Covers |-> {}]
  /\ coverDisk \in UNION {[S -> {"good", "damaged"}] : S \in {T \in SUBSET Covers : Cardinality(T) <= CacheBudget}}
  /\ coverEntries \in {s \in UNION {[1..n -> Covers] : n \in 0..CacheBudget} :
                         IsInjective(s) /\ ToSet(s) = DOMAIN coverDisk}

----------------------------------------------------------------------------
WithoutEntry(entries, c) == SubSeqAt(entries, {i \in DOMAIN entries : entries[i] # c})
CoverWithout(f, c) == [x \in DOMAIN f \ {c} |-> f[x]]
CoverWith(f, c, v) == [x \in DOMAIN f \cup {c} |-> IF x = c THEN v ELSE f[x]]

\* evictIfOverBudget: the oldest that can be removed go; a file that cannot be is
\* passed over.
Evict(entries, files, stuck) ==
  LET removable == {i \in DOMAIN entries : entries[i] \notin stuck}
      gone == {i \in removable : Cardinality({j \in removable : j < i}) + CacheBudget < Len(entries)} IN
  [entries |-> SubSeqAt(entries, DOMAIN entries \ gone),
   files |-> [x \in DOMAIN files \ {entries[i] : i \in gone} |-> files[x]]]

\* registerCacheEntry of a file just written
RegisterCover(c, stuck) ==
  LET kept == Evict(Append(WithoutEntry(coverEntries, c), c), CoverWith(coverDisk, c, "good"), stuck) IN
  coverEntries' = kept.entries /\ coverDisk' = kept.files

\* completeResolution: the call that started it and those that joined.
Complete(c, n) ==
  /\ coverTold' = [i \in DOMAIN coverTold |-> coverTold[i] + (IF i = n \/ i \in coverWaiting[c] THEN 1 ELSE 0)]
  /\ coverWaiting' = [coverWaiting EXCEPT ![c] = {}]

\* resolve of a cover that is not in the cache: join, decode or download.
ResolveMissing(c, n) ==
  /\ UNCHANGED coverQueued
  /\ IF c \in DOMAIN coverDecodes \cup DOMAIN coverReplies
     THEN coverWaiting' = [coverWaiting EXCEPT ![c] = @ \cup {n}] /\ UNCHANGED <<coverReplies, coverDecodes>>
     ELSE /\ coverReplies' = IF c \in HttpCovers THEN CoverWith(coverReplies, c, n) ELSE coverReplies
          /\ coverDecodes' = IF c \in LocalCovers THEN CoverWith(coverDecodes, c, n) ELSE coverDecodes
          /\ UNCHANGED coverWaiting

\* resolve: a readable file is touched and answers from the event loop, a damaged
\* one is removed if it can be.
Resolve(c) ==
  LET n == Len(coverAsked) + 1 IN
  /\ n <= MaxAsked
  /\ coverAsked' = Append(coverAsked, c) /\ coverTold' = Append(coverTold, 0)
  /\ IF c \in DOMAIN coverDisk /\ coverDisk[c] = "good"
     THEN /\ coverEntries' = Append(WithoutEntry(coverEntries, c), c)
          /\ coverQueued' = coverQueued \cup {n}
          /\ UNCHANGED <<coverReplies, coverDecodes, coverWaiting, coverDisk>>
     ELSE /\ ResolveMissing(c, n)
          /\ \/ UNCHANGED <<coverEntries, coverDisk>>
             \/ /\ c \in DOMAIN coverDisk
                /\ coverEntries' = WithoutEntry(coverEntries, c)
                /\ coverDisk' = CoverWithout(coverDisk, c)

\* The answer that was queued.
AnswerQueued(n) ==
  /\ n \in coverQueued
  /\ coverQueued' = coverQueued \ {n}
  /\ coverTold' = [coverTold EXCEPT ![n] = @ + 1]
  /\ UNCHANGED <<coverAsked, coverReplies, coverDecodes, coverWaiting, coverEntries, coverDisk>>

\* QNetworkReply::finished: timed out, failed or too large, or decoded next.
DownloadEnds(c) ==
  /\ c \in DOMAIN coverReplies
  /\ coverReplies' = CoverWithout(coverReplies, c)
  /\ \/ Complete(c, coverReplies[c]) /\ UNCHANGED coverDecodes
     \/ coverDecodes' = CoverWith(coverDecodes, c, coverReplies[c]) /\ UNCHANGED <<coverTold, coverWaiting>>
  /\ UNCHANGED <<coverAsked, coverQueued, coverEntries, coverDisk>>

\* QFutureWatcher::finished of trackDecodeFuture: the file is there, or nothing is.
DecodeEnds(c) ==
  /\ c \in DOMAIN coverDecodes
  /\ coverDecodes' = CoverWithout(coverDecodes, c)
  /\ Complete(c, coverDecodes[c])
  /\ \/ UNCHANGED <<coverEntries, coverDisk>>
     \/ \E stuck \in {{}} \cup {{x} : x \in Covers} : RegisterCover(c, stuck)
  /\ UNCHANGED <<coverAsked, coverQueued, coverReplies>>

ArtworkNext ==
  \/ \E c \in Covers : Resolve(c) \/ DownloadEnds(c) \/ DecodeEnds(c)
  \/ \E n \in DOMAIN coverAsked : AnswerQueued(n)

----------------------------------------------------------------------------
(* Properties.                                                             *)

\* Every call of resolve is answered once: until then something is under way that
\* will, and nothing is afterwards; no cover is downloaded and decoded at once.
EveryCoverIsTold ==
  LET underWay(n) == Cardinality({c \in DOMAIN coverReplies : coverReplies[c] = n})
                   + Cardinality({c \in DOMAIN coverDecodes : coverDecodes[c] = n})
                   + Cardinality({c \in DOMAIN coverReplies \cup DOMAIN coverDecodes : n \in coverWaiting[c]})
                   + Cardinality({n} \cap coverQueued) IN
  /\ \A n \in DOMAIN coverAsked : coverTold[n] + underWay(n) = 1
  /\ DOMAIN coverReplies \cap DOMAIN coverDecodes = {}

\* The files in the directory are those that are accounted for, each once, and
\* within the budget but for what could not be removed.
CacheIsAccounted ==
  /\ ToSet(coverEntries) = DOMAIN coverDisk
  /\ IsInjective(coverEntries)
=============================================================================
