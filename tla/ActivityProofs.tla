--------------------------- MODULE ActivityProofs ---------------------------
(***************************************************************************)
(* Safety of the services that poll the network, for any accounts, events  *)
(* and weather configurations and without a bound on what happens to them. *)
(***************************************************************************)
EXTENDS ActivityMC, TLAPS

(***************************************************************************)
(* The calendar.                                                           *)
(***************************************************************************)

\* An account's fetches in flight, and the one a removal lets start beside them.
FetchesOf(a) == workers[a] + IF inProgress[a] THEN 0 ELSE 1

\* The inductive strengthening of TypeOK: each further fetch of an account costs
\* a removal, which is a configuration change.
FetchesAreBounded ==
  \A a \in Accounts : IF Exists THEN FetchesOf(a) <= configs ELSE workers[a] = 0 /\ ~inProgress[a]

\* What every handler may rely on.
CalendarInv == TypeOK /\ FetchesAreBounded /\ CalendarAgrees

LEMMA LongerType ==
  ASSUME NEW b \in 0..MaxBackoff
  PROVE  Longer(b) \in 0..MaxBackoff
BY MaxBackoffAssumption DEF Longer

\* runProviderSync starts a fetch only where none is in progress, and keeps the
\* fetches of an account within their bound.
LEMMA StartsAreSafe ==
  ASSUME CalendarInv, NEW S \in SUBSET providers, StartSyncs(S),
         UNCHANGED <<configs, providers, removed>>
  PROVE  /\ workers' \in [Accounts -> 0..MaxConfigs]
         /\ inProgress' \in [Accounts -> BOOLEAN]
         /\ FetchesAreBounded'
         /\ OneSyncPerAccount'
<1> DEFINE begun == {a \in S : MayStart(a)}
<1>1. /\ workers' = [a \in Accounts |-> workers[a] + IF a \in begun THEN 1 ELSE 0]
      /\ inProgress' = [a \in Accounts |-> inProgress[a] \/ a \in begun]
  BY DEF StartSyncs
<1>2. \A a \in begun : ~inProgress[a] /\ Exists
  BY DEF MayStart, Exists
<1> HIDE DEF begun
<1>3. /\ workers \in [Accounts -> 0..MaxConfigs] /\ inProgress \in [Accounts -> BOOLEAN]
      /\ configs \in 0..MaxConfigs
  BY DEF CalendarInv, TypeOK
<1>4. inProgress' \in [Accounts -> BOOLEAN]
  BY <1>1, <1>3
<1>5. Exists' = Exists
  BY DEF Exists
<1>6. ASSUME NEW a \in Accounts
      PROVE  /\ workers'[a] \in 0..MaxConfigs
             /\ (IF Exists THEN FetchesOf(a) <= configs ELSE workers[a] = 0 /\ ~inProgress[a])'
             /\ a \notin removed => workers'[a] <= 1 /\ (inProgress'[a] <=> workers'[a] = 1)
  <2>1. /\ workers[a] \in 0..MaxConfigs /\ inProgress[a] \in BOOLEAN
        /\ workers'[a] = workers[a] + IF a \in begun THEN 1 ELSE 0
        /\ inProgress'[a] = (inProgress[a] \/ a \in begun)
    BY <1>1, <1>3
  <2>2. IF Exists THEN FetchesOf(a) <= configs ELSE workers[a] = 0 /\ ~inProgress[a]
    BY DEF CalendarInv, FetchesAreBounded
  <2>3. a \notin removed => workers[a] <= 1 /\ (inProgress[a] <=> workers[a] = 1)
    BY DEF CalendarInv, CalendarAgrees, OneSyncPerAccount
  <2>4. CASE a \in begun
    <3>1. ~inProgress[a] /\ Exists /\ workers'[a] = workers[a] + 1 /\ inProgress'[a]
      BY <1>2, <2>1, <2>4
    <3>2. workers[a] + 1 <= configs
      BY <2>2, <3>1 DEF FetchesOf
    <3> QED
      BY <1>3, <1>5, <2>1, <2>3, <3>1, <3>2, MaxConfigsAssumption DEF FetchesOf
  <2>5. CASE a \notin begun
    <3>1. workers'[a] = workers[a] /\ inProgress'[a] = inProgress[a]
      BY <2>1, <2>5
    <3> QED
      BY <1>5, <2>1, <2>2, <2>3, <3>1 DEF FetchesOf
  <2> QED
    BY <2>4, <2>5
<1>7. workers' \in [Accounts -> 0..MaxConfigs]
  BY <1>1, <1>6
<1>8. FetchesAreBounded' /\ OneSyncPerAccount'
  BY <1>6 DEF FetchesAreBounded, OneSyncPerAccount
<1> QED
  BY <1>4, <1>7, <1>8

\* The end of a fetch makes room for the next one.
LEMMA EndsAreSafe ==
  ASSUME CalendarInv, NEW a \in Accounts, workers[a] > 0, Ended(a),
         UNCHANGED <<configs, providers, removed>>
  PROVE  /\ workers' \in [Accounts -> 0..MaxConfigs]
         /\ inProgress' \in [Accounts -> BOOLEAN]
         /\ FetchesAreBounded'
         /\ OneSyncPerAccount'
<1>1. /\ workers \in [Accounts -> 0..MaxConfigs] /\ inProgress \in [Accounts -> BOOLEAN]
      /\ configs \in 0..MaxConfigs
  BY DEF CalendarInv, TypeOK
<1>2. /\ workers' = [workers EXCEPT ![a] = workers[a] - 1]
      /\ inProgress' = [inProgress EXCEPT ![a] = FALSE]
  BY DEF Ended
<1>3. workers[a] - 1 \in 0..MaxConfigs
  BY <1>1, MaxConfigsAssumption
<1>4. Exists' = Exists
  BY DEF Exists
<1>5. ASSUME NEW b \in Accounts
      PROVE  /\ (IF Exists THEN FetchesOf(b) <= configs ELSE workers[b] = 0 /\ ~inProgress[b])'
             /\ b \notin removed => workers'[b] <= 1 /\ (inProgress'[b] <=> workers'[b] = 1)
  <2>1. /\ workers[b] \in 0..MaxConfigs /\ inProgress[b] \in BOOLEAN
        /\ workers'[b] = IF b = a THEN workers[b] - 1 ELSE workers[b]
        /\ inProgress'[b] = IF b = a THEN FALSE ELSE inProgress[b]
    BY <1>1, <1>2
  <2>2. IF Exists THEN FetchesOf(b) <= configs ELSE workers[b] = 0 /\ ~inProgress[b]
    BY DEF CalendarInv, FetchesAreBounded
  <2>3. b \notin removed => workers[b] <= 1 /\ (inProgress[b] <=> workers[b] = 1)
    BY DEF CalendarInv, CalendarAgrees, OneSyncPerAccount
  <2>4. CASE b = a
    <3>1. workers[a] > 0 /\ Exists
      BY <2>2, <2>4
    <3> QED
      BY <1>1, <1>4, <2>1, <2>2, <2>3, <2>4, <3>1 DEF FetchesOf
  <2>5. CASE b # a
    <3>1. workers'[b] = workers[b] /\ inProgress'[b] = inProgress[b]
      BY <2>1, <2>5
    <3> QED
      BY <1>4, <2>1, <2>2, <2>3, <3>1 DEF FetchesOf
  <2> QED
    BY <2>4, <2>5
<1>6. FetchesAreBounded' /\ OneSyncPerAccount'
  BY <1>5 DEF FetchesAreBounded, OneSyncPerAccount
<1> QED
  BY <1>1, <1>2, <1>3, <1>6

\* Where fetches, cache and popup are left alone, they stay as good as they were.
LEMMA CalendarStays ==
  ASSUME CalendarInv, UNCHANGED <<configs, providers, removed, workers, inProgress>>
  PROVE  /\ workers' \in [Accounts -> 0..MaxConfigs]
         /\ inProgress' \in [Accounts -> BOOLEAN]
         /\ FetchesAreBounded'
         /\ OneSyncPerAccount'
BY DEF CalendarInv, TypeOK, FetchesAreBounded, FetchesOf, Exists, CalendarAgrees, OneSyncPerAccount

\* The three outcomes of a pause, and the pauses of polling that follow it.
LEMMA PausesAreSafe ==
  ASSUME CalendarInv, NEW pause \in BOOLEAN, NEW resume \in BOOLEAN,
         PauseOrResume(pause, resume), UNCHANGED <<configs, providers, removed>>
  PROVE  /\ workers' \in [Accounts -> 0..MaxConfigs]
         /\ inProgress' \in [Accounts -> BOOLEAN]
         /\ FetchesAreBounded'
         /\ OneSyncPerAccount'
         /\ timers' \in BOOLEAN
         /\ ~pause /\ resume => timers'
<1>0. timers \in BOOLEAN
  BY DEF CalendarInv, TypeOK
<1>1. CASE pause /\ timers' = FALSE /\ UNCHANGED syncs
  BY <1>1, CalendarStays DEF syncs
<1>2. CASE ~pause /\ resume /\ timers' = TRUE /\ StartSyncs(providers)
  BY <1>2, StartsAreSafe
<1>3. CASE ~pause /\ ~resume /\ UNCHANGED <<timers, syncs>>
  BY <1>0, <1>3, CalendarStays DEF syncs
<1> QED
  BY <1>1, <1>2, <1>3 DEF PauseOrResume

LEMMA CalendarInit == Init => CalendarInv
<1> SUFFICES ASSUME Init PROVE CalendarInv
  OBVIOUS
<1>1. TypeOK
  <2>1. 0 \in 0..MaxConfigs /\ 0 \in 0..MaxBackoff
    BY MaxConfigsAssumption, MaxBackoffAssumption
  <2> QED
    BY <2>1 DEF Init, TypeOK
<1>2. FetchesAreBounded
  BY DEF Init, FetchesAreBounded, Exists
<1>3. CalendarAgrees
  BY DEF Init, CalendarAgrees, OneSyncPerAccount, ModelShowsOnlyCached, UnpausedPolls
<1> QED
  BY <1>1, <1>2, <1>3 DEF CalendarInv

\* A removed account loses its fetch in progress, its events and its place in the popup.
LEMMA CalendarConfigStep ==
  ASSUME CalendarInv, NEW A \in SUBSET Accounts, ConfigChanged(A)
  PROVE  CalendarInv'
<1> DEFINE gone == known \ A
<1>ty. TypeOK /\ CalendarAgrees /\ FetchesAreBounded
  BY DEF CalendarInv
<1>1. /\ configs < MaxConfigs /\ configs' = configs + 1 /\ known' = A
      /\ configs' \in 0..MaxConfigs /\ configs < configs' /\ configs \in Nat
      /\ UNCHANGED <<timers, idle, timersPaused, idlePaused, lidPaused, workers, waiting>>
  BY <1>ty, MaxConfigsAssumption DEF ConfigChanged, TypeOK
<1>2. CASE /\ Exists
           /\ removed' = removed \cup gone
           /\ inProgress' = [a \in Accounts |-> inProgress[a] /\ a \notin gone]
           /\ backoff' = [a \in Accounts |-> IF a \in gone THEN 0 ELSE backoff[a]]
           /\ cache' \in {cache, [a \in Accounts |-> IF a \in gone THEN {} ELSE cache[a]]}
           /\ IF gone # {} THEN Refresh(cache') ELSE UNCHANGED model
           /\ UNCHANGED <<providers, testing, battery>>
  <2>1. gone \in SUBSET Accounts
    BY <1>ty DEF TypeOK
  <2> HIDE DEF gone
  <2>2. cache' \in [Accounts -> SUBSET Events]
    BY <1>ty, <1>2 DEF TypeOK
  <2>3. model' \in [Accounts -> SUBSET Events]
    BY <1>ty, <1>2, <2>2 DEF TypeOK, Refresh
  <2>4. backoff' \in [Accounts -> 0..MaxBackoff] /\ inProgress' \in [Accounts -> BOOLEAN]
    BY <1>ty, <1>2, MaxBackoffAssumption DEF TypeOK
  <2>5. TypeOK'
    BY <1>ty, <1>1, <1>2, <2>1, <2>2, <2>3, <2>4 DEF TypeOK
  <2>6. ASSUME NEW a \in Accounts
        PROVE  /\ (IF Exists THEN FetchesOf(a) <= configs ELSE workers[a] = 0 /\ ~inProgress[a])'
               /\ a \notin removed' => workers'[a] <= 1 /\ (inProgress'[a] <=> workers'[a] = 1)
    <3>1. /\ workers[a] \in Nat /\ inProgress[a] \in BOOLEAN /\ workers'[a] = workers[a]
          /\ inProgress'[a] = (inProgress[a] /\ a \notin gone)
      BY <1>ty, <1>1, <1>2 DEF TypeOK
    <3>2. Exists' /\ FetchesOf(a) <= configs
      BY <1>ty, <1>2 DEF FetchesAreBounded, Exists
    <3>3. workers[a] + 1 <= configs'
      BY <1>1, <3>1, <3>2 DEF FetchesOf
    <3>4. workers[a] <= configs'
      BY <1>1, <3>1, <3>3
    <3>5. FetchesOf(a)' <= configs'
      BY <3>1, <3>3, <3>4 DEF FetchesOf
    <3>6. a \notin removed' => a \notin removed /\ a \notin gone
      BY <1>2
    <3>7. a \notin removed => workers[a] <= 1 /\ (inProgress[a] <=> workers[a] = 1)
      BY <1>ty DEF CalendarAgrees, OneSyncPerAccount
    <3> QED
      BY <3>1, <3>2, <3>5, <3>6, <3>7
  <2>7. FetchesAreBounded' /\ OneSyncPerAccount'
    BY <2>6 DEF FetchesAreBounded, OneSyncPerAccount
  <2>8. ModelShowsOnlyCached'
    <3>1. CASE gone # {}
      BY <1>2, <3>1 DEF Refresh, ModelShowsOnlyCached
    <3>2. CASE gone = {}
      <4>1. [a \in Accounts |-> IF a \in gone THEN {} ELSE cache[a]] = cache
        BY <1>ty, <3>2 DEF TypeOK
      <4> QED
        BY <1>ty, <1>2, <3>2, <4>1 DEF CalendarAgrees, ModelShowsOnlyCached
    <3> QED
      BY <3>1, <3>2
  <2>9. UnpausedPolls'
    BY <1>ty, <1>1, <1>2 DEF CalendarAgrees, UnpausedPolls, Unpaused
  <2> QED
    BY <2>5, <2>7, <2>8, <2>9 DEF CalendarInv, CalendarAgrees
<1>3. CASE /\ ~Exists
           /\ providers' \in SUBSET Accounts
           /\ testing' = "posted" \/ (providers' = providers /\ testing' = testing)
           /\ battery' \in Levels \cup {"none"}
           /\ UNCHANGED <<removed, inProgress, backoff, cache, model>>
  <2>1. TypeOK'
    BY <1>ty, <1>1, <1>3 DEF TypeOK
  <2>2. \A a \in Accounts : workers'[a] = 0 /\ ~inProgress'[a]
    BY <1>ty, <1>1, <1>3 DEF FetchesAreBounded
  <2>3. FetchesAreBounded' /\ OneSyncPerAccount'
    <3>1. 1 <= configs'
      BY <1>1
    <3>2. \A a \in Accounts : FetchesOf(a)' = 1
      BY <2>2 DEF FetchesOf
    <3> QED
      BY <2>2, <3>1, <3>2 DEF FetchesAreBounded, OneSyncPerAccount
  <2>4. ModelShowsOnlyCached' /\ UnpausedPolls'
    BY <1>ty, <1>1, <1>3 DEF CalendarAgrees, ModelShowsOnlyCached, UnpausedPolls, Unpaused
  <2> QED
    BY <2>1, <2>3, <2>4 DEF CalendarInv, CalendarAgrees
<1>4. ~Exists => \/ /\ providers' = A /\ testing' = "posted" /\ battery' \in Levels \cup {"none"}
                    /\ UNCHANGED <<removed, inProgress, backoff, cache, model>>
                 \/ UNCHANGED <<removed, inProgress, backoff, cache, model, providers, testing, battery>>
  BY DEF ConfigChanged
<1>5. CASE ~Exists
  BY <1>ty, <1>3, <1>4, <1>5 DEF TypeOK
<1>6. CASE Exists
  BY <1>2, <1>6 DEF ConfigChanged
<1> QED
  BY <1>5, <1>6

\* The handlers' steps keep one fetch per account, the popup within the cache
\* and polling on while nothing pauses it.
LEMMA CalendarStep == CalendarInv /\ [Next]_vars => CalendarInv'
<1> SUFFICES ASSUME CalendarInv, [Next]_vars PROVE CalendarInv'
  OBVIOUS
<1>ty. TypeOK /\ CalendarAgrees
  BY DEF CalendarInv
\* What is left to show once the fetches are known to be safe.
<1> DEFINE FetchesSafe == /\ workers' \in [Accounts -> 0..MaxConfigs]
                          /\ inProgress' \in [Accounts -> BOOLEAN]
                          /\ FetchesAreBounded'
                          /\ OneSyncPerAccount'
<1> HIDE DEF FetchesSafe
<1>1. ASSUME NEW A \in SUBSET Accounts, ConfigChanged(A) PROVE CalendarInv'
  BY <1>1, CalendarConfigStep
<1>k. ASSUME FetchesSafe, UNCHANGED <<config, backoff, waiting, view>>,
             testing' \in {"none", "posted", "running", "done"},
             timers' \in BOOLEAN, idle' \in BOOLEAN, battery' \in Levels \cup {"none"},
             timersPaused' \in BOOLEAN, idlePaused' \in BOOLEAN, lidPaused' \in BOOLEAN,
             UnpausedPolls'
      PROVE  CalendarInv'
  <2>1. TypeOK' /\ ModelShowsOnlyCached'
    BY <1>ty, <1>k DEF FetchesSafe, TypeOK, CalendarAgrees, ModelShowsOnlyCached, config, view
  <2> QED
    BY <1>k, <2>1 DEF FetchesSafe, CalendarInv, CalendarAgrees
<1>2. CASE TestConnections
  <2>1. FetchesSafe
    BY <1>2, CalendarStays DEF TestConnections, config, syncs, FetchesSafe
  <2>2. UnpausedPolls'
    BY <1>2 DEF TestConnections, UnpausedPolls
  <2> QED
    BY <1>ty, <1>2, <1>k, <2>1, <2>2 DEF TestConnections, TypeOK, pauses
<1>3. CASE TestsFinished
  <2>1. FetchesSafe
    BY <1>3, StartsAreSafe DEF TestsFinished, config, FetchesSafe
  <2>2. UnpausedPolls'
    BY <1>3 DEF TestsFinished, UnpausedPolls, Unpaused, pauses
  <2> QED
    BY <1>ty, <1>3, <1>k, <2>1, <2>2 DEF TestsFinished, TypeOK, pauses, view
<1>4. ASSUME NEW kind \in {CalDav, Accounts \ CalDav}, Tick(kind) PROVE CalendarInv'
  <2>1. FetchesSafe
    BY <1>4, StartsAreSafe DEF Tick, config, FetchesSafe
  <2>2. UnpausedPolls'
    BY <1>4 DEF Tick, UnpausedPolls, Unpaused, pauses
  <2> QED
    BY <1>ty, <1>4, <1>k, <2>1, <2>2 DEF Tick, TypeOK, pauses, view
<1>5. ASSUME NEW a \in Accounts, TimePasses(a) PROVE CalendarInv'
  <2>1. FetchesSafe
    BY <1>5, CalendarStays DEF TimePasses, config, syncs, FetchesSafe
  <2>2. UnpausedPolls' /\ ModelShowsOnlyCached'
    BY <1>ty, <1>5
    DEF TimePasses, CalendarAgrees, UnpausedPolls, Unpaused, ModelShowsOnlyCached, pauses, view
  <2>3. TypeOK'
    BY <1>ty, <1>5, <2>1 DEF TimePasses, FetchesSafe, TypeOK, config, pauses, view
  <2> QED
    BY <2>1, <2>2, <2>3 DEF FetchesSafe, CalendarInv, CalendarAgrees
<1>6. CASE SidebarOpened
  <2>1. FetchesSafe
    BY <1>6, StartsAreSafe DEF SidebarOpened, config, FetchesSafe
  <2>2. UnpausedPolls' /\ ModelShowsOnlyCached'
    BY <1>ty, <1>6
    DEF SidebarOpened, Refresh, CalendarAgrees, UnpausedPolls, Unpaused, ModelShowsOnlyCached, pauses
  <2>3. TypeOK'
    BY <1>ty, <1>6, <2>1 DEF SidebarOpened, Refresh, FetchesSafe, TypeOK, config, pauses
  <2> QED
    BY <2>1, <2>2, <2>3 DEF FetchesSafe, CalendarInv, CalendarAgrees
<1>7. ASSUME NEW a \in Accounts, NEW upserted \in SUBSET Events, SyncFailed(a, upserted)
      PROVE  CalendarInv'
  <2>1. FetchesSafe
    BY <1>7, EndsAreSafe DEF SyncFailed, config, FetchesSafe
  <2>2. UnpausedPolls'
    BY <1>ty, <1>7 DEF SyncFailed, CalendarAgrees, UnpausedPolls, Unpaused, pauses
  <2>3. ModelShowsOnlyCached'
    BY <1>ty, <1>7 DEF SyncFailed, CalendarAgrees, ModelShowsOnlyCached, TypeOK
  <2>4. Longer(backoff[a]) \in 0..MaxBackoff
    BY <1>ty, LongerType DEF TypeOK
  <2>5. TypeOK'
    BY <1>ty, <1>7, <2>1, <2>4 DEF SyncFailed, FetchesSafe, TypeOK, config, pauses
  <2> QED
    BY <2>1, <2>2, <2>3, <2>5 DEF FetchesSafe, CalendarInv, CalendarAgrees
<1>8. ASSUME NEW a \in Accounts, NEW fresh \in SUBSET Events, SyncSucceeded(a, fresh)
      PROVE  CalendarInv'
  <2>1. FetchesSafe
    BY <1>8, EndsAreSafe DEF SyncSucceeded, config, FetchesSafe
  <2>2. UnpausedPolls'
    BY <1>ty, <1>8 DEF SyncSucceeded, CalendarAgrees, UnpausedPolls, Unpaused, pauses
  <2>3. ModelShowsOnlyCached'
    BY <1>8 DEF SyncSucceeded, Refresh, ModelShowsOnlyCached
  <2>4. TypeOK'
    <3>1. 0 \in 0..MaxBackoff
      BY MaxBackoffAssumption
    <3> QED
      BY <1>ty, <1>8, <2>1, <3>1 DEF SyncSucceeded, Refresh, FetchesSafe, TypeOK, config, pauses
  <2> QED
    BY <2>1, <2>2, <2>3, <2>4 DEF FetchesSafe, CalendarInv, CalendarAgrees
<1>9. CASE IdleChanged
  <2>1. CASE /\ Exists /\ idlePaused # idle'
             /\ idlePaused' = idle'
             /\ PauseOrResume(idle', Unpaused(timersPaused, FALSE, lidPaused))
    <3>1. idle' \in BOOLEAN /\ Unpaused(timersPaused, FALSE, lidPaused) \in BOOLEAN
      BY <1>ty, <1>9 DEF IdleChanged, TypeOK, Unpaused
    <3>2. /\ FetchesSafe /\ timers' \in BOOLEAN
          /\ ~idle' /\ Unpaused(timersPaused, FALSE, lidPaused) => timers'
      BY <1>9, <2>1, <3>1, PausesAreSafe DEF IdleChanged, config, FetchesSafe
    <3>3. UnpausedPolls'
      BY <1>9, <2>1, <3>2 DEF IdleChanged, UnpausedPolls, Unpaused
    <3> QED
      BY <1>ty, <1>9, <1>k, <2>1, <3>1, <3>2, <3>3 DEF IdleChanged, TypeOK
  <2>2. CASE UNCHANGED <<idlePaused, timers, syncs>>
    <3>1. FetchesSafe
      BY <1>9, <2>2, CalendarStays DEF IdleChanged, config, syncs, FetchesSafe
    <3>2. UnpausedPolls'
      BY <1>ty, <1>9, <2>2 DEF IdleChanged, CalendarAgrees, UnpausedPolls, Unpaused
    <3> QED
      BY <1>ty, <1>9, <1>k, <2>2, <3>1, <3>2 DEF IdleChanged, TypeOK
  <2> QED
    BY <1>9, <2>1, <2>2 DEF IdleChanged
<1>10. CASE LidChanged
  <2>1. lidPaused' \in BOOLEAN /\ Unpaused(timersPaused, idlePaused, FALSE) \in BOOLEAN
    BY <1>ty, <1>10 DEF LidChanged, TypeOK, Unpaused
  <2>2. /\ FetchesSafe /\ timers' \in BOOLEAN
        /\ ~lidPaused' /\ Unpaused(timersPaused, idlePaused, FALSE) => timers'
    BY <1>10, <2>1, PausesAreSafe DEF LidChanged, config, FetchesSafe
  <2>3. UnpausedPolls'
    BY <1>10, <2>2 DEF LidChanged, UnpausedPolls, Unpaused
  <2> QED
    BY <1>ty, <1>10, <1>k, <2>1, <2>2, <2>3 DEF LidChanged, TypeOK
<1>11. ASSUME NEW b \in Levels, BatteryChanged(b) PROVE CalendarInv'
  <2>1. FetchesSafe
    BY <1>11, CalendarStays DEF BatteryChanged, config, syncs, FetchesSafe
  <2>2. UnpausedPolls' /\ timers' \in BOOLEAN /\ timersPaused' \in BOOLEAN
    <3>1. CASE ~timersPaused /\ timersPaused' = TRUE /\ timers' = FALSE
      BY <3>1 DEF UnpausedPolls, Unpaused
    <3>2. CASE timersPaused' = FALSE /\ timers' = (timers \/ Unpaused(FALSE, idlePaused, lidPaused))
      BY <1>ty, <1>11, <3>2 DEF BatteryChanged, UnpausedPolls, Unpaused, TypeOK
    <3>3. CASE UNCHANGED <<timersPaused, timers>>
      BY <1>ty, <1>11, <3>3 DEF BatteryChanged, CalendarAgrees, UnpausedPolls, Unpaused, TypeOK
    <3> QED
      BY <1>11, <3>1, <3>2, <3>3 DEF BatteryChanged
  <2> QED
    BY <1>ty, <1>11, <1>k, <2>1, <2>2 DEF BatteryChanged, TypeOK
<1>12. CASE UNCHANGED vars
  BY <1>12 DEF vars, config, pauses, syncs, view, CalendarInv, TypeOK, FetchesAreBounded, FetchesOf,
     Exists, CalendarAgrees, OneSyncPerAccount, ModelShowsOnlyCached, UnpausedPolls, Unpaused
<1> QED
  BY <1>1, <1>2, <1>3, <1>4, <1>5, <1>6, <1>7, <1>8, <1>9, <1>10, <1>11, <1>12 DEF Next

\* However fetches, failures, removals and pauses interleave: one fetch per
\* account at a time unless it was removed, a popup of cached events only, and
\* polling timers that run whenever nothing pauses them.
THEOREM CalendarIsConsistent == Spec => []CalendarAgrees
<1>1. CalendarInv => CalendarAgrees
  BY DEF CalendarInv
<1> QED
  BY <1>1, CalendarInit, CalendarStep, PTL DEF Spec

(***************************************************************************)
(* The weather.                                                            *)
(***************************************************************************)

\* The requests are of configuration c: a fetch follows a resolved location, and
\* a configuration with coordinates is its own place and looks nothing up.
RequestIsOf(r, c) ==
  /\ r \in Requests
  /\ r.resolved => r.at \in Places /\ (c \in Fixed => r.at = c)
  /\ r.weather # NoData => r.resolved /\ r.weather.config = c /\ r.weather.place = r.at
  /\ r.geo => c \notin Fixed

\* A forecast for configuration c at a place.
ForecastIsOf(f, c, at) ==
  f # NoData => f.config = c /\ f.place = at /\ (c \in Fixed => f.place = c)

Quiet(r) == ~r.geo /\ r.weather = NoData /\ ~r.name

\* The inductive strengthening of WeatherIsForConfig: nothing is under way
\* before the service starts, and a cache file of a configuration with
\* coordinates is of that place.
WeatherInv ==
  /\ WeatherTypeOK
  /\ RequestIsOf(req, weatherConfig)
  /\ ForecastIsOf(shown, weatherConfig, req.at)
  /\ disk # NoData => ForecastIsOf(disk.forecast, disk.identity, disk.forecast.place)
  /\ disk # NoData => disk.forecast.config = disk.identity
  /\ Paused => Quiet(req) /\ timer = 0
  /\ ~started => Quiet(req) /\ ~req.resolved /\ timer = 0 /\ ~Paused

LEMMA DelayType == ASSUME NEW s PROVE Delay(s) \in 0..Interval
<1>1. Interval \in 0..Interval /\ (\A d \in 1..Interval : d \in 0..Interval)
  BY IntervalAssumption
<1> QED
  BY <1>1 DEF Delay

LEMMA SteppedType == ASSUME NEW s \in 0..MaxStep PROVE Stepped(s) \in 0..MaxStep
BY IntervalAssumption DEF Stepped

\* cancelPending leaves nothing of the network's under way.
LEMMA CancelledIsQuiet ==
  ASSUME NEW c, NEW r, RequestIsOf(r, c)
  PROVE  /\ RequestIsOf(Cancelled(r), c)
         /\ Quiet(Cancelled(r))
         /\ Cancelled(r).at = r.at
         /\ Cancelled(r) \in Requests
BY DEF RequestIsOf, Cancelled, Quiet, Requests

\* A fetch at a resolved place.
LEMMA FetchIsOf ==
  ASSUME NEW c \in Configs, NEW r \in Requests, r.resolved,
         r.at \in Places, c \in Fixed => r.at = c, r.geo => c \notin Fixed
  PROVE  RequestIsOf(Fetch(r, c), c) /\ Fetch(r, c).at = r.at
<1>1. [config |-> c, place |-> r.at] \in Forecasts
  BY DEF Forecasts
<1> DEFINE f == [config |-> c, place |-> r.at]
<1>2. /\ f \in Forecasts /\ f.config = c /\ f.place = r.at
      /\ Fetch(r, c) = [r EXCEPT !.failed = "none", !.fetchPending = TRUE, !.weather = f]
  BY <1>1 DEF Fetch
<1> HIDE DEF f
<1>3. Fetch(r, c) \in Requests
  <2>1. f \in Forecasts \cup {NoData} /\ "none" \in Failures
    BY <1>2 DEF Failures
  <2> QED
    BY <1>2, <2>1 DEF Requests
<1>4. /\ Fetch(r, c).resolved = r.resolved /\ Fetch(r, c).at = r.at
      /\ Fetch(r, c).weather = f /\ Fetch(r, c).geo = r.geo
  BY <1>2 DEF Requests
<1> QED
  BY <1>2, <1>3, <1>4 DEF RequestIsOf

\* resolveLocation: at once for a configuration with coordinates, through a
\* lookup for the others, and not at all while paused.
LEMMA ResolveIsOf ==
  ASSUME NEW c \in Configs, NEW r, RequestIsOf(r, c), NEW paused \in BOOLEAN
  PROVE  /\ RequestIsOf(Resolve(r, c, paused), c)
         /\ paused => Resolve(r, c, paused) = r
         /\ Resolve(r, c, paused).at # r.at => c \in Fixed /\ Resolve(r, c, paused).at = c
<1>1. CASE paused \/ c \in Unusable
  BY <1>1 DEF Resolve
<1>2. CASE ~paused /\ c \notin Unusable /\ c \in Lookup
  BY <1>2, ConfigsAssumption DEF Resolve, RequestIsOf, Requests
<1>3. CASE ~paused /\ c \notin Unusable /\ c \notin Lookup
  <2> DEFINE q == [r EXCEPT !.at = c, !.resolved = TRUE, !.name = r.name \/ c \in Named]
  <2>1. c \in Fixed /\ c \in Places /\ (r.name \/ c \in Named) \in BOOLEAN
    BY <1>3 DEF Configs, Places, RequestIsOf, Requests
  <2>2. Resolve(r, c, paused) = Fetch(q, c)
    BY <1>3 DEF Resolve
  <2>3. q \in Requests /\ q.resolved /\ q.at = c /\ q.geo = r.geo
    BY <2>1 DEF RequestIsOf, Requests
  <2> HIDE DEF q
  <2>4. RequestIsOf(Fetch(q, c), c) /\ Fetch(q, c).at = c
    BY <2>1, <2>3, FetchIsOf DEF RequestIsOf
  <2> QED
    BY <1>3, <2>1, <2>2, <2>4
<1> QED
  BY <1>1, <1>2, <1>3

LEMMA FetchOrResolveIsOf ==
  ASSUME NEW c \in Configs, NEW r, RequestIsOf(r, c)
  PROVE  /\ RequestIsOf(FetchOrResolve(r, c), c)
         /\ FetchOrResolve(r, c).at # r.at => c \in Fixed /\ FetchOrResolve(r, c).at = c
<1>1. CASE r.resolved
  BY <1>1, FetchIsOf DEF FetchOrResolve, RequestIsOf
<1>2. CASE ~r.resolved
  BY <1>2, ResolveIsOf DEF FetchOrResolve
<1> QED
  BY <1>1, <1>2

LEMMA WeatherInitInv == WeatherInit => WeatherInv
<1> SUFFICES ASSUME WeatherInit PROVE WeatherInv
  OBVIOUS
<1>1. req \in Requests
  BY DEF WeatherInit, NoRequest, Requests, Failures, NoPlace
<1>2. 0 \in 0..Interval /\ 0 \in 0..MaxStep
  BY IntervalAssumption
<1>3. WeatherTypeOK
  BY <1>1, <1>2 DEF WeatherInit, WeatherTypeOK
<1>4. RequestIsOf(req, weatherConfig) /\ Quiet(req) /\ ~req.resolved
  BY <1>1 DEF WeatherInit, NoRequest, RequestIsOf, Quiet
<1>5. disk # NoData => disk.forecast.config = disk.identity
                       /\ ForecastIsOf(disk.forecast, disk.identity, disk.forecast.place)
  BY DEF WeatherInit, ForecastIsOf
<1> QED
  BY <1>3, <1>4, <1>5 DEF WeatherInit, WeatherInv, ForecastIsOf, Paused

\* A configuration takes effect with requests r, shown the cache's forecast or nothing.
LEMMA BeginIsOf ==
  ASSUME WeatherInv, NEW c \in Configs, NEW r, RequestIsOf(r, c),
         ~r.resolved, Quiet(r), Begin(r, c)
  PROVE  /\ RequestIsOf(req', c)
         /\ ForecastIsOf(shown', c, req'.at)
         /\ shown' \in Forecasts \cup {NoData}
         /\ stale' \in BOOLEAN
         /\ Paused => Quiet(req')
<1> DEFINE f == Loaded(c)
           at == IF f = NoData THEN r.at ELSE f.place
           q == [r EXCEPT !.at = at]
<1>1. /\ shown' = f /\ stale' \in BOOLEAN
      /\ req' = Resolve(q, c, Paused)
  BY DEF Begin
<1>2. f \in Forecasts \cup {NoData} /\ ForecastIsOf(f, c, f.place)
  BY DEF Loaded, WeatherInv, WeatherTypeOK, Files, ForecastIsOf
<1> HIDE DEF f
<1>3. at \in Places \cup {NoPlace}
  BY <1>2 DEF RequestIsOf, Requests, Forecasts
<1>4. /\ f # NoData => f.place = at
      /\ (f = NoData) => at = r.at
  OBVIOUS
<1> HIDE DEF at
<1>5. q \in Requests /\ ~q.resolved /\ q.at = at /\ Quiet(q) /\ q.geo = r.geo /\ q.weather = NoData
  BY <1>3 DEF RequestIsOf, Requests, Quiet
<1> HIDE DEF q
<1>6. RequestIsOf(q, c)
  BY <1>5 DEF RequestIsOf, Quiet
<1>7. Paused \in BOOLEAN
  BY DEF Paused, WeatherInv, WeatherTypeOK
<1>8. /\ RequestIsOf(req', c)
      /\ Paused => req' = q
      /\ req'.at # at => c \in Fixed /\ req'.at = c
  BY <1>1, <1>5, <1>6, <1>7, ResolveIsOf
<1>9. ForecastIsOf(f, c, req'.at)
  BY <1>2, <1>4, <1>8 DEF ForecastIsOf
<1> QED
  BY <1>1, <1>2, <1>5, <1>8, <1>9

\* Every handler keeps requests, forecast, cache file and pauses of one configuration.
LEMMA WeatherStep == WeatherInv /\ [WeatherNext]_weatherVars => WeatherInv'
<1> SUFFICES ASSUME WeatherInv, [WeatherNext]_weatherVars PROVE WeatherInv'
  OBVIOUS
<1>ty. /\ WeatherTypeOK /\ RequestIsOf(req, weatherConfig)
       /\ ForecastIsOf(shown, weatherConfig, req.at)
       /\ 0 \in 0..Interval /\ Interval \in 0..Interval /\ 0 \in 0..MaxStep
  BY IntervalAssumption DEF WeatherInv
<1>1. CASE Start
  <2>1. /\ ~started /\ started' = TRUE /\ Begin(req, weatherConfig)
        /\ UNCHANGED <<weatherConfig, weatherIdle, lid, timer, step, aging, disk>>
    BY <1>1 DEF Start
  <2>2. Quiet(req) /\ ~Paused /\ timer = 0 /\ ~req.resolved
    BY <2>1 DEF WeatherInv
  <2>3. /\ RequestIsOf(req', weatherConfig) /\ ForecastIsOf(shown', weatherConfig, req'.at)
        /\ shown' \in Forecasts \cup {NoData} /\ stale' \in BOOLEAN
    BY <1>ty, <2>1, <2>2, BeginIsOf DEF WeatherTypeOK
  <2>4. WeatherTypeOK'
    BY <1>ty, <2>1, <2>3 DEF WeatherTypeOK, RequestIsOf
  <2> QED
    BY <2>1, <2>2, <2>3, <2>4 DEF WeatherInv, Paused
<1>2. ASSUME NEW c \in Configs, WeatherConfigChanged(c) PROVE WeatherInv'
  <2> DEFINE r == [Cancelled(req) EXCEPT !.resolved = FALSE]
  <2>1. /\ started /\ weatherConfig' = c /\ timer' = 0 /\ aging' = FALSE
        /\ step' = (IF c \in Unusable THEN step ELSE 0)
        /\ Begin(r, c)
        /\ UNCHANGED <<started, weatherIdle, lid, disk>>
    BY <1>2 DEF WeatherConfigChanged
  <2>2. RequestIsOf(r, c) /\ ~r.resolved /\ Quiet(r)
    <3>1. Cancelled(req) \in Requests /\ Quiet(Cancelled(req))
      BY <1>ty, CancelledIsQuiet
    <3> HIDE DEF Cancelled
    <3>2. r \in Requests /\ ~r.resolved /\ ~r.geo /\ r.weather = NoData /\ ~r.name
      BY <3>1 DEF Requests, Quiet
    <3> QED
      BY <3>2 DEF RequestIsOf, Quiet
  <2> HIDE DEF r
  <2>3. /\ RequestIsOf(req', c) /\ ForecastIsOf(shown', c, req'.at)
        /\ shown' \in Forecasts \cup {NoData} /\ stale' \in BOOLEAN
        /\ Paused => Quiet(req')
    BY <2>1, <2>2, BeginIsOf
  <2>4. WeatherTypeOK'
    BY <1>ty, <1>2, <2>1, <2>3 DEF WeatherTypeOK, RequestIsOf
  <2> QED
    BY <2>1, <2>3, <2>4 DEF WeatherInv, Paused
<1>3. CASE IntervalChanged
  <2>1. WeatherTypeOK'
    BY <1>ty, <1>3 DEF IntervalChanged, WeatherTypeOK
  <2> QED
    BY <1>3, <2>1 DEF IntervalChanged, WeatherInv, Paused
<1>4. CASE RefreshTimer
  <2>1. /\ timer # 0 /\ timer' = 0 /\ req' = FetchOrResolve(req, weatherConfig)
        /\ UNCHANGED <<started, weatherConfig, weatherIdle, lid, step, shown, stale, aging, disk>>
    BY <1>4 DEF RefreshTimer
  <2>2. started /\ ~Paused
    BY <2>1 DEF WeatherInv
  <2>3. /\ RequestIsOf(req', weatherConfig)
        /\ req'.at # req.at => weatherConfig \in Fixed /\ req'.at = weatherConfig
    BY <1>ty, <2>1, FetchOrResolveIsOf DEF WeatherTypeOK
  <2>4. ForecastIsOf(shown', weatherConfig', req'.at)
    BY <1>ty, <2>1, <2>3 DEF ForecastIsOf
  <2>5. WeatherTypeOK'
    BY <1>ty, <2>1, <2>3 DEF WeatherTypeOK, RequestIsOf
  <2> QED
    BY <2>1, <2>2, <2>3, <2>4, <2>5 DEF WeatherInv, Paused
<1>5. ASSUME NEW at \in Found, GeoFetched(at) PROVE WeatherInv'
  <2> DEFINE q == [req EXCEPT !.geo = FALSE, !.geoPending = FALSE, !.at = at, !.resolved = TRUE]
  <2>1. /\ req.geo /\ ~Paused /\ shown' = ShownAt(at) /\ req' = Fetch(q, weatherConfig)
        /\ UNCHANGED <<started, weatherConfig, weatherIdle, lid, timer, step, stale, aging, disk>>
    BY <1>5 DEF GeoFetched
  <2>2. started /\ weatherConfig \in Configs /\ weatherConfig \notin Fixed /\ at \in Places
    BY <1>ty, <2>1 DEF WeatherInv, Quiet, RequestIsOf, WeatherTypeOK, Places
  <2>3. q \in Requests /\ q.resolved /\ q.at = at /\ ~q.geo
    BY <1>ty, <2>2 DEF RequestIsOf, Requests
  <2> HIDE DEF q
  <2>4. RequestIsOf(req', weatherConfig) /\ req'.at = at
    BY <2>1, <2>2, <2>3, FetchIsOf
  <2>5. ForecastIsOf(shown', weatherConfig, at) /\ shown' \in Forecasts \cup {NoData}
    BY <1>ty, <2>1 DEF ShownAt, ForecastIsOf, WeatherTypeOK
  <2>6. WeatherTypeOK'
    BY <1>ty, <2>1, <2>4, <2>5 DEF WeatherTypeOK, RequestIsOf
  <2> QED
    BY <2>1, <2>2, <2>4, <2>5, <2>6 DEF WeatherInv, Paused
<1>6. CASE GeoError
  <2>1. /\ req.geo /\ ~Paused /\ req' = [req EXCEPT !.geo = FALSE, !.geoPending = FALSE]
        /\ stale' = TRUE /\ step' = Stepped(step) /\ timer' = Delay(Stepped(step))
        /\ UNCHANGED <<started, weatherConfig, weatherIdle, lid, shown, aging, disk>>
    BY <1>6 DEF GeoError
  <2>2. started
    BY <2>1 DEF WeatherInv, Quiet
  <2>3. RequestIsOf(req', weatherConfig) /\ req'.at = req.at
    BY <1>ty, <2>1 DEF RequestIsOf, Requests
  <2>4. step' \in 0..MaxStep /\ timer' \in 0..Interval
    BY <1>ty, <2>1, SteppedType, DelayType DEF WeatherTypeOK
  <2>5. WeatherTypeOK'
    BY <1>ty, <2>1, <2>3, <2>4 DEF WeatherTypeOK, RequestIsOf
  <2> QED
    BY <1>ty, <2>1, <2>2, <2>3, <2>5 DEF WeatherInv, Paused
<1>7. ASSUME NEW ok \in BOOLEAN, NEW written \in BOOLEAN, LocationReply(ok, written)
      PROVE  WeatherInv'
  <2>1. /\ req.name /\ req' = [req EXCEPT !.name = FALSE]
        /\ disk' = (IF ok /\ written /\ shown # NoData THEN Saved(shown) ELSE disk)
        /\ UNCHANGED <<started, weatherConfig, weatherIdle, lid, timer, step, shown, stale, aging>>
    BY <1>7 DEF LocationReply
  <2>2. RequestIsOf(req', weatherConfig) /\ req'.at = req.at
    BY <1>ty, <2>1 DEF RequestIsOf, Requests
  <2>3. started /\ ~Paused
    BY <2>1 DEF WeatherInv, Quiet
  <2>4. /\ disk' \in Files \cup {NoData}
        /\ disk' # NoData => disk'.forecast.config = disk'.identity
                             /\ ForecastIsOf(disk'.forecast, disk'.identity, disk'.forecast.place)
    <3>1. CASE ok /\ written /\ shown # NoData
      BY <1>ty, <2>1, <3>1 DEF Saved, Files, ForecastIsOf, WeatherTypeOK
    <3>2. CASE ~(ok /\ written /\ shown # NoData)
      BY <1>ty, <2>1, <3>2 DEF WeatherInv, WeatherTypeOK
    <3> QED
      BY <3>1, <3>2
  <2>5. WeatherTypeOK'
    BY <1>ty, <2>1, <2>2, <2>4 DEF WeatherTypeOK, RequestIsOf
  <2> QED
    BY <1>ty, <2>1, <2>2, <2>3, <2>4, <2>5 DEF WeatherInv, Paused
<1>8. ASSUME NEW written \in BOOLEAN, WeatherFetched(written) PROVE WeatherInv'
  <2>1. /\ req.weather # NoData /\ ~Paused /\ shown' = req.weather
        /\ req' = [req EXCEPT !.weather = NoData, !.fetchPending = FALSE]
        /\ stale' = FALSE /\ aging' = TRUE /\ step' = 0 /\ timer' = Interval
        /\ disk' = (IF written THEN Saved(req.weather) ELSE disk)
        /\ UNCHANGED <<started, weatherConfig, weatherIdle, lid>>
    BY <1>8 DEF WeatherFetched
  <2>2. started /\ req.weather \in Forecasts /\ ForecastIsOf(req.weather, weatherConfig, req.at)
    BY <1>ty, <2>1 DEF WeatherInv, Quiet, RequestIsOf, Requests, ForecastIsOf
  <2>3. RequestIsOf(req', weatherConfig) /\ req'.at = req.at
    BY <1>ty, <2>1 DEF RequestIsOf, Requests
  <2>4. /\ disk' \in Files \cup {NoData}
        /\ disk' # NoData => disk'.forecast.config = disk'.identity
                             /\ ForecastIsOf(disk'.forecast, disk'.identity, disk'.forecast.place)
    <3>1. CASE written
      BY <1>ty, <2>1, <2>2, <3>1 DEF Saved, Files, ForecastIsOf, WeatherTypeOK
    <3>2. CASE ~written
      BY <1>ty, <2>1, <3>2 DEF WeatherInv, WeatherTypeOK
    <3> QED
      BY <3>1, <3>2
  <2>5. WeatherTypeOK'
    BY <1>ty, <2>1, <2>2, <2>3, <2>4 DEF WeatherTypeOK, RequestIsOf
  <2> QED
    BY <2>1, <2>2, <2>3, <2>4, <2>5 DEF WeatherInv, Paused
<1>9. ASSUME NEW kind \in {"transient", "authentication"}, FetchError(kind) PROVE WeatherInv'
  <2>1. /\ req.weather # NoData /\ ~Paused
        /\ req' = [req EXCEPT !.weather = NoData, !.failed = kind]
        /\ stale' = TRUE
        /\ \/ step' = Stepped(step) /\ timer' = Delay(Stepped(step))
           \/ timer' = 0 /\ step' = step
        /\ UNCHANGED <<started, weatherConfig, weatherIdle, lid, shown, aging, disk>>
    BY <1>9 DEF FetchError
  <2>2. started
    BY <2>1 DEF WeatherInv, Quiet
  <2>3. RequestIsOf(req', weatherConfig) /\ req'.at = req.at
    BY <1>ty, <2>1 DEF RequestIsOf, Requests, Failures
  <2>4. step' \in 0..MaxStep /\ timer' \in 0..Interval
    BY <1>ty, <2>1, SteppedType, DelayType DEF WeatherTypeOK
  <2>5. WeatherTypeOK'
    BY <1>ty, <2>1, <2>3, <2>4 DEF WeatherTypeOK, RequestIsOf
  <2> QED
    BY <1>ty, <2>1, <2>2, <2>3, <2>5 DEF WeatherInv, Paused
<1>10. CASE StaleTimer
  BY <1>ty, <1>10 DEF StaleTimer, WeatherInv, WeatherTypeOK, Paused
\* A pause, or a resume into the pause pausing.
<1>11. ASSUME NEW other \in BOOLEAN, NEW pausing \in BOOLEAN,
              IF pausing THEN Pause ELSE Resume(other),
              Paused' = (pausing \/ other), started, started' = TRUE,
              weatherIdle' \in BOOLEAN, lid' \in BOOLEAN, ~pausing /\ other => Paused,
              UNCHANGED <<weatherConfig, step, shown, stale, aging, disk>>
       PROVE  WeatherInv'
  <2>1. /\ RequestIsOf(req', weatherConfig) /\ timer' \in 0..Interval
        /\ req'.at # req.at => weatherConfig \in Fixed /\ req'.at = weatherConfig
        /\ Paused' => Quiet(req') /\ timer' = 0
    <3>1. CASE pausing
      BY <1>ty, <1>11, <3>1, CancelledIsQuiet DEF Pause
    <3>2. CASE ~pausing /\ ~other /\ req' = FetchOrResolve(req, weatherConfig) /\ timer' = Interval
      BY <1>ty, <1>11, <3>2, FetchOrResolveIsOf DEF WeatherTypeOK
    <3>3. CASE ~pausing /\ UNCHANGED <<req, timer>>
      BY <1>ty, <1>11, <3>3 DEF WeatherInv, WeatherTypeOK
    <3> QED
      BY <1>11, <3>1, <3>2, <3>3 DEF Resume
  <2>2. ForecastIsOf(shown', weatherConfig', req'.at)
    BY <1>ty, <1>11, <2>1 DEF ForecastIsOf
  <2>3. WeatherTypeOK'
    BY <1>ty, <1>11, <2>1 DEF WeatherTypeOK, RequestIsOf
  <2> QED
    BY <1>11, <2>1, <2>2, <2>3 DEF WeatherInv
<1>12. CASE WeatherIdleChanged
  <2>1. /\ started /\ weatherIdle' = ~weatherIdle
        /\ IF weatherIdle' THEN Pause ELSE Resume(lid)
        /\ UNCHANGED <<started, weatherConfig, lid, step, shown, stale, aging, disk>>
    BY <1>12 DEF WeatherIdleChanged
  <2>2. /\ lid \in BOOLEAN /\ weatherIdle' \in BOOLEAN /\ Paused' = (weatherIdle' \/ lid)
        /\ lid => Paused
    BY <1>ty, <2>1 DEF WeatherTypeOK, Paused
  <2> QED
    BY <1>ty, <1>11, <2>1, <2>2 DEF WeatherTypeOK
<1>13. CASE WeatherLidChanged
  <2>1. /\ started /\ lid' = ~lid
        /\ IF lid' THEN Pause ELSE Resume(weatherIdle)
        /\ UNCHANGED <<started, weatherConfig, weatherIdle, step, shown, stale, aging, disk>>
    BY <1>13 DEF WeatherLidChanged
  <2>2. /\ weatherIdle \in BOOLEAN /\ lid' \in BOOLEAN /\ Paused' = (lid' \/ weatherIdle)
        /\ weatherIdle => Paused
    BY <1>ty, <2>1 DEF WeatherTypeOK, Paused
  <2> QED
    BY <1>ty, <1>11, <2>1, <2>2 DEF WeatherTypeOK
<1>14. CASE UNCHANGED weatherVars
  BY <1>14 DEF weatherVars, WeatherInv, WeatherTypeOK, Paused
<1> QED
  BY <1>1, <1>2, <1>3, <1>4, <1>5, <1>6, <1>7, <1>8, <1>9, <1>10, <1>12, <1>13, <1>14
  DEF WeatherNext, GeoReply, WeatherReply

\* Whatever is reconfigured, found, fetched or paused meanwhile: only the
\* forecast of the configuration in force is shown, asked for and filed, and
\* nothing is asked for while the user is away.
THEOREM WeatherFollowsConfig == WeatherSpec => []WeatherIsForConfig
<1>1. WeatherInv => WeatherIsForConfig
  BY DEF WeatherInv, WeatherIsForConfig, ShownIsForConfig, PausedIsQuiet, RequestIsOf,
     ForecastIsOf, Quiet, InFlight
<1> QED
  BY <1>1, WeatherInitInv, WeatherStep, PTL DEF WeatherSpec

(***************************************************************************)
(* Both, as the run composes them.                                         *)
(***************************************************************************)

\* The state of calendar and weather is well formed in every behaviour of the
\* composition: the fetches in flight stay within the configuration changes, and
\* no back-off passes its cap.
THEOREM ActivityIsTyped == MCSpec => []TypesOK
<1>1. MCInit => CalendarInv /\ WeatherInv
  BY CalendarInit, WeatherInitInv DEF MCInit
<1>2. CalendarInv /\ WeatherInv /\ [MCNext]_allVars => CalendarInv' /\ WeatherInv'
  BY CalendarStep, WeatherStep DEF MCNext, allVars
<1>3. CalendarInv /\ WeatherInv => TypesOK
  BY DEF CalendarInv, WeatherInv, TypesOK
<1> QED
  BY <1>1, <1>2, <1>3, PTL DEF MCSpec
=============================================================================
