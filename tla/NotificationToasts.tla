------------------------- MODULE NotificationToasts -------------------------
(***************************************************************************)
(* NotificationService, its live notifications: id allocation, placement   *)
(* on a monitor, the queue behind a full stack, auto-dismiss timers and    *)
(* the pointer that pauses them.  D-Bus calls, timers, the dialog's slots  *)
(* and configuration changes are each one event of the Qt main thread.     *)
(* Only notifications that evaluateFilter lets through are modelled: a     *)
(* suppressed one changes nothing here, also when it would replace.        *)
(***************************************************************************)
EXTENDS Naturals, SequencesExt, FiniteSets

CONSTANTS MaxId,      \* width of the notification id (2^32 - 1 in the code)
          Monitors,   \* output names
          Limits      \* values [notifications] max_visible may take

ASSUME MaxIdAssumption == MaxId \in Nat \ {0}
ASSUME LimitsAssumption == Limits # {} /\ Limits \subseteq Nat \ {0}

VARIABLES
  toasts,      \* all_notifications_, a function on the live ids
  visible,     \* visible_by_monitor_
  queue,       \* queue_by_monitor_
  timer,       \* timers_ with remaining_timeout_ms
  nextId,      \* next_id_
  maxVisible,  \* max_visible_
  pointer      \* the id of the toast under the pointer, NoToast for none

vars == <<toasts, visible, queue, timer, nextId, maxVisible, pointer>>

Ids == 1..MaxId
NoToast == 0
Urgencies == {"normal", "critical"}
Expiries == {"timed", "never", "default"}

\* "none" no QTimer; "running" active; "due" active with nothing remaining;
\* "paused" stopped with time remaining; "spent" stopped with none remaining.
TimerStates == {"none", "running", "due", "paused", "spent"}

Toasts == [monitor : Monitors, urgency : Urgencies, timed : BOOLEAN,
           life : {"Visible", "Queued"}]
Live == DOMAIN toasts

TypeOK ==
  /\ Live \subseteq Ids
  /\ toasts \in [Live -> Toasts]
  /\ visible \in [Monitors -> Seq(Ids)]
  /\ queue \in [Monitors -> Seq(Ids)]
  /\ timer \in [Ids -> TimerStates]
  /\ nextId \in Ids
  /\ maxVisible \in Limits
  /\ pointer \in Live \cup {NoToast}

Init ==
  /\ toasts = <<>>
  /\ visible = [m \in Monitors |-> <<>>]
  /\ queue = [m \in Monitors |-> <<>>]
  /\ timer = [i \in Ids |-> "none"]
  /\ nextId = 1
  /\ maxVisible \in Limits
  /\ pointer = NoToast

----------------------------------------------------------------------------
\* effectiveTimeoutMs is positive: the toast closes by itself.
EffectiveTimeout(expiry, urgency) ==
  expiry = "timed" \/ (expiry = "default" /\ urgency # "critical")

\* armTimeout, on the timer of one toast.
Armed(timed) == IF timed THEN "running" ELSE "none"

\* Mutant: next_id_ runs past its width.
SuccessorUnwrapped(i) == i + 1

\* next_id_ wraps to 1: zero is never an id.
Successor(i) == IF i = MaxId THEN 1 ELSE i + 1

\* The k-th candidate allocateNotificationId tries.
Candidate(k) == ((nextId - 1 + k) % MaxId) + 1

\* allocateNotificationId finds i: the first candidate that is not live.
Allocates(i) ==
  \E k \in 0..MaxId - 1 :
    /\ i = Candidate(k)
    /\ i \notin Live
    /\ \A j \in 0..k - 1 : Candidate(j) \in Live

\* The oldest visible toast of m a critical one may bump.
Bumpable(m) == {k \in DOMAIN visible[m] : toasts[visible[m][k]].urgency # "critical"}
BumpIndex(m) == CHOOSE k \in Bumpable(m) : \A l \in Bumpable(m) : k <= l
Bumped(m) == visible[m][BumpIndex(m)]

\* Mutant: the bumped toast is dropped.
BumpedDropped(q, b) == q

\* The queue after the bump of b.
BumpedFirst(q, b) == <<b>> \o q

\* Mutant: off by one.
PromotesLate(waiting, seen) == waiting # <<>> /\ Len(seen) < maxVisible - 1

\* promoteQueuedNotification finds a toast waiting and a slot.
Promotes(waiting, seen) == waiting # <<>> /\ Len(seen) < maxVisible

\* all_notifications_ with the data of the new toast i.
Inserted(live, i, data) == [j \in DOMAIN live \cup {i} |-> IF j = i THEN data ELSE live[j]]

\* A toast that leaves the screen takes the pointer's hover with it; hoverLeft
\* is not called for it.
Unhovered(i) == IF pointer = i THEN NoToast ELSE pointer

----------------------------------------------------------------------------
\* addOrReplace of a notification without, or with an unknown, replaces_id on
\* monitor m: place, with placeNotification's three outcomes.
Add(m, urgency, expiry) ==
  \E i \in Ids :
    LET timed == EffectiveTimeout(expiry, urgency)
        toast(life) == [monitor |-> m, urgency |-> urgency, timed |-> timed,
                        life |-> life] IN
    /\ Allocates(i)
    /\ nextId' = Successor(i)
    /\ \/ /\ Len(visible[m]) < maxVisible
          /\ visible' = [visible EXCEPT ![m] = Append(@, i)]
          /\ toasts' = Inserted(toasts, i, toast("Visible"))
          /\ timer' = [timer EXCEPT ![i] = Armed(timed)]
          /\ UNCHANGED <<queue, pointer>>
       \/ /\ Len(visible[m]) >= maxVisible
          /\ urgency = "critical" /\ Bumpable(m) # {}
          /\ LET b == Bumped(m) IN
               /\ visible' = [visible EXCEPT ![m] = Append(RemoveAt(@, BumpIndex(m)), i)]
               /\ queue' = [queue EXCEPT ![m] = BumpedFirst(@, b)]
               /\ toasts' = Inserted([toasts EXCEPT ![b].life = "Queued"], i, toast("Visible"))
               /\ timer' = [timer EXCEPT ![b] = "none", ![i] = Armed(timed)]
               /\ pointer' = Unhovered(b)
       \/ /\ Len(visible[m]) >= maxVisible
          /\ ~(urgency = "critical" /\ Bumpable(m) # {})
          /\ queue' = [queue EXCEPT ![m] = Append(@, i)]
          /\ toasts' = Inserted(toasts, i, toast("Queued"))
          /\ UNCHANGED <<visible, timer, pointer>>
    /\ UNCHANGED maxVisible

\* addOrReplace when every id is live: next_id_ has gone once round, plus one.
AddFails ==
  /\ Live = Ids
  /\ nextId' = Successor(nextId)
  /\ UNCHANGED <<toasts, visible, queue, timer, maxVisible, pointer>>

\* addOrReplace of live toast i: monitor and lifecycle stay, a visible toast
\* gets a fresh timer whether or not the pointer is over it.
Replace(i, urgency, expiry) ==
  /\ i \in Live
  /\ LET timed == EffectiveTimeout(expiry, urgency) IN
       /\ toasts' = [toasts EXCEPT ![i].urgency = urgency, ![i].timed = timed]
       /\ timer' = IF toasts[i].life = "Visible"
                     THEN [timer EXCEPT ![i] = Armed(timed)] ELSE timer
  /\ UNCHANGED <<visible, queue, nextId, maxVisible, pointer>>

\* closeNotification: removes i, then promotes the front of its monitor's
\* queue if that leaves a slot.
Close(i) ==
  /\ i \in Live
  /\ LET m == toasts[i].monitor
         seen == RemoveFirst(visible[m], i)
         waiting == RemoveFirst(queue[m], i)
         rest == [j \in Live \ {i} |-> toasts[j]] IN
     \/ /\ Promotes(waiting, seen)
        /\ LET p == Head(waiting) IN
             /\ visible' = [visible EXCEPT ![m] = Append(seen, p)]
             /\ queue' = [queue EXCEPT ![m] = Tail(waiting)]
             /\ toasts' = [rest EXCEPT ![p].life = "Visible"]
             /\ timer' = [timer EXCEPT ![i] = "none", ![p] = Armed(toasts[p].timed)]
     \/ /\ ~Promotes(waiting, seen)
        /\ visible' = [visible EXCEPT ![m] = seen]
        /\ queue' = [queue EXCEPT ![m] = waiting]
        /\ toasts' = rest
        /\ timer' = [timer EXCEPT ![i] = "none"]
  /\ pointer' = Unhovered(i)
  /\ UNCHANGED <<nextId, maxVisible>>

\* The auto-dismiss timer of i fires: reason Expired.
Expire(i) == timer[i] = "due" /\ Close(i)

\* The CloseNotification call, for any live id.
RequestClose(i) == Close(i)

\* A click on a visible toast dismisses it.
Dismiss(i) == i \in Live /\ toasts[i].life = "Visible" /\ Close(i)

\* A click on an action of a toast that is not resident; a resident one stays
\* as it is.
InvokeAction(i) == i \in Live /\ toasts[i].life = "Visible" /\ Close(i)

----------------------------------------------------------------------------
\* Time passes until i's running timer is due; its timeout is not yet handled.
Elapse(i) ==
  /\ timer[i] = "running"
  /\ timer' = [timer EXCEPT ![i] = "due"]
  /\ UNCHANGED <<toasts, visible, queue, nextId, maxVisible, pointer>>

\* hoverEntered: an active timer is stopped with what remains of it.
HoverEntered(i) ==
  /\ i \in Live
  /\ toasts[i].life = "Visible"
  /\ pointer = NoToast
  /\ pointer' = i
  /\ timer' = [timer EXCEPT ![i] = CASE @ = "running" -> "paused"
                                     [] @ = "due" -> "spent"
                                     [] OTHER -> @]
  /\ UNCHANGED <<toasts, visible, queue, nextId, maxVisible>>

\* hoverLeft: restarts a timer with time remaining, whatever its state.
HoverLeft ==
  /\ pointer # NoToast
  /\ pointer' = NoToast
  /\ timer' = [timer EXCEPT ![pointer] = IF @ \in {"running", "due", "paused"}
                                           THEN "running" ELSE @]
  /\ UNCHANGED <<toasts, visible, queue, nextId, maxVisible>>

\* onConfigChanged: the new limit is for later placements only.
ConfigChanged(limit) ==
  /\ limit # maxVisible
  /\ maxVisible' = limit
  /\ UNCHANGED <<toasts, visible, queue, timer, nextId, pointer>>

Next ==
  \/ \E m \in Monitors, u \in Urgencies, x \in Expiries : Add(m, u, x)
  \/ AddFails
  \/ \E i \in Ids, u \in Urgencies, x \in Expiries : Replace(i, u, x)
  \/ \E i \in Ids : Expire(i)
  \/ \E i \in Ids : RequestClose(i)
  \/ \E i \in Ids : Dismiss(i)
  \/ \E i \in Ids : InvokeAction(i)
  \/ \E i \in Ids : Elapse(i)
  \/ \E i \in Ids : HoverEntered(i)
  \/ HoverLeft
  \/ \E limit \in Limits : ConfigChanged(limit)

Spec == Init /\ [][Next]_vars

----------------------------------------------------------------------------
(* Properties.                                                             *)

Occurrences(s, i) == Cardinality({k \in DOMAIN s : s[k] = i})

\* After any sequence of placements, bumps, promotions and closes, each live
\* toast stands exactly once in the one list of its own monitor its lifecycle
\* names, and the lists hold nothing else: no toast is lost between the two.
ListsAgree ==
  \A m \in Monitors, i \in Ids :
    /\ Occurrences(visible[m], i) =
         IF i \in Live /\ toasts[i].monitor = m /\ toasts[i].life = "Visible" THEN 1 ELSE 0
    /\ Occurrences(queue[m], i) =
         IF i \in Live /\ toasts[i].monitor = m /\ toasts[i].life = "Queued" THEN 1 ELSE 0

\* A timer exists exactly for a visible toast that closes by itself: none is
\* left behind by a bump or a close to expire a later toast of the same id, and
\* every promotion or replacement arms one.
TimersServeVisible ==
  \A i \in Ids :
    timer[i] # "none" <=> i \in Live /\ toasts[i].life = "Visible" /\ toasts[i].timed

\* The lists, the lifecycles and the timers of the live toasts describe the same
\* toasts.
ToastsAgree == ListsAgree /\ TimersServeVisible

\* A toast waits on a monitor with a free slot only because max_visible was
\* raised: no arrival, close or bump leaves it there.
Idle(m) == queue[m] # <<>> /\ Len(visible[m]) < maxVisible
OnlyRaiseLeavesIdleSlot ==
  maxVisible' = maxVisible => \A m \in Monitors : Idle(m)' => Idle(m)

\* A toast that was on screen leaves it only closed, or bumped by a critical
\* one, and then to the front of the queue; critical ones are not bumped.
OnlyCriticalBumps ==
  \A i \in Live :
    toasts[i].life = "Visible" /\ i \in DOMAIN toasts' /\ toasts'[i].life = "Queued" =>
      /\ toasts[i].urgency # "critical"
      /\ Head(queue'[toasts[i].monitor]) = i
      /\ \E j \in DOMAIN toasts' \ Live :
           /\ toasts'[j].urgency = "critical"
           /\ toasts'[j].monitor = toasts[i].monitor

\* No step lets a toast wait beside a free slot of its monitor, or takes one off
\* the screen, for any other reason than these two.
ToastsMoveInTurn == [][OnlyRaiseLeavesIdleSlot /\ OnlyCriticalBumps]_vars

\* Once the pointer is elsewhere, a visible toast that closes by itself is
\* counting down.
NoStrandedToast ==
  \A i \in Live :
    toasts[i].life = "Visible" /\ toasts[i].timed /\ pointer # i => timer[i] \in {"running", "due"}
=============================================================================
