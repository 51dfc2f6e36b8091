------------------------- MODULE NotificationProofs -------------------------
(***************************************************************************)
(* Safety of the notification service, for every number of monitors, ids,  *)
(* limits, records, rules and edits: the live toasts, the history and its  *)
(* file, and the rules and theirs.                                         *)
(***************************************************************************)
EXTENDS NotificationsMC, SequenceTheorems, FiniteSetTheorems, NaturalsInduction, WellFoundedInduction, TLAPS

(***************************************************************************)
(* Lemmas about the lists of the live toasts.                              *)
(***************************************************************************)

\* The list s holds each id of S once, and no other.
Holds(s, S) ==
  /\ s \in Seq(Ids)
  /\ \A j, k \in 1..Len(s) : s[j] = s[k] => j = k
  /\ S = {s[k] : k \in 1..Len(s)}

LEMMA HoldsAppend ==
  ASSUME NEW s, NEW S, Holds(s, S), NEW i \in Ids, i \notin S
  PROVE  Holds(Append(s, i), S \cup {i})
<1>1. s \in Seq(Ids) /\ Len(s) \in Nat
  BY DEF Holds
<1>2. /\ Append(s, i) \in Seq(Ids)
      /\ Len(Append(s, i)) = Len(s) + 1
      /\ \A k \in 1..Len(s) : Append(s, i)[k] = s[k]
      /\ Append(s, i)[Len(s) + 1] = i
  BY <1>1, AppendProperties
<1>3. \A k \in 1..Len(s) : s[k] \in S
  BY DEF Holds
<1>4. \A k \in 1..Len(s) + 1 : k \in 1..Len(s) \/ k = Len(s) + 1
  BY <1>1
<1> DEFINE t == Append(s, i)
<1> HIDE DEF t
<1>5. ASSUME NEW j \in 1..Len(t), NEW k \in 1..Len(t), t[j] = t[k] PROVE j = k
  BY <1>2, <1>3, <1>4, <1>5 DEF Holds, t
<1>6. S \cup {i} = {t[k] : k \in 1..Len(t)}
  <2>1. ASSUME NEW x \in S PROVE \E k \in 1..Len(t) : x = t[k]
    BY <1>1, <1>2 DEF Holds, t
  <2>2. \E k \in 1..Len(t) : i = t[k]
    BY <1>1, <1>2 DEF t
  <2>3. \A k \in 1..Len(t) : t[k] \in S \cup {i}
    BY <1>2, <1>3, <1>4 DEF t
  <2> QED
    BY <2>1, <2>2, <2>3
<1> QED
  BY <1>2, <1>5, <1>6 DEF Holds, t

LEMMA HoldsFirst ==
  ASSUME NEW s, NEW S, Holds(s, S), NEW i \in Ids, i \notin S
  PROVE  Holds(<<i>> \o s, S \cup {i}) /\ Head(<<i>> \o s) = i
<1> DEFINE t == <<i>> \o s
<1>1. s \in Seq(Ids) /\ Len(s) \in Nat /\ <<i>> \in Seq(Ids) /\ Len(<<i>>) = 1 /\ <<i>>[1] = i
  BY DEF Holds
<1>2. /\ t \in Seq(Ids)
      /\ Len(t) = Len(s) + 1
      /\ \A k \in 1..Len(s) + 1 : t[k] = IF k <= 1 THEN <<i>>[k] ELSE s[k - 1]
  BY <1>1, ConcatProperties
<1> HIDE DEF t
<1>3. t[1] = i /\ \A k \in 2..Len(t) : k - 1 \in 1..Len(s) /\ t[k] = s[k - 1]
  BY <1>1, <1>2
<1>4. \A k \in 1..Len(s) : s[k] \in S /\ k + 1 \in 2..Len(t) /\ s[k] = t[k + 1]
  BY <1>1, <1>2, <1>3 DEF Holds
<1>5. \A k \in 1..Len(t) : k = 1 \/ k \in 2..Len(t)
  BY <1>1, <1>2
<1>6. ASSUME NEW j \in 1..Len(t), NEW k \in 1..Len(t), t[j] = t[k] PROVE j = k
  <2>0. ASSUME NEW l \in 2..Len(t) PROVE t[l] # t[1]
    <3>1. l - 1 \in 1..Len(s) /\ t[l] = s[l - 1]
      BY <1>3
    <3>2. s[l - 1] \in S
      BY <1>4, <3>1
    <3> QED
      BY <1>3, <3>1, <3>2
  <2>1. CASE j = 1 \/ k = 1
    BY <1>5, <1>6, <2>0, <2>1
  <2>2. CASE j # 1 /\ k # 1
    <3>1. j \in 2..Len(t) /\ k \in 2..Len(t)
      BY <1>5, <2>2
    <3>2. j - 1 = k - 1
      BY <1>3, <1>6, <3>1 DEF Holds
    <3> QED
      BY <3>1, <3>2
  <2> QED
    BY <2>1, <2>2
<1>7. S \cup {i} = {t[k] : k \in 1..Len(t)}
  <2>1. ASSUME NEW x \in S PROVE \E k \in 1..Len(t) : x = t[k]
    <3>1. PICK k \in 1..Len(s) : x = s[k]
      BY DEF Holds
    <3>2. k + 1 \in 1..Len(t) /\ t[k + 1] = x
      BY <1>1, <1>2, <1>4, <3>1
    <3> QED
      BY <3>2
  <2>2. \E k \in 1..Len(t) : i = t[k]
    BY <1>1, <1>2, <1>3
  <2>3. \A k \in 1..Len(t) : t[k] \in S \cup {i}
    BY <1>3, <1>4, <1>5
  <2> QED
    BY <2>1, <2>2, <2>3
<1>8. Head(t) = i
  BY <1>1, <1>2, <1>3
<1> QED
  BY <1>2, <1>6, <1>7, <1>8 DEF Holds, t

LEMMA HoldsRemoveAt ==
  ASSUME NEW s, NEW S, Holds(s, S), NEW n \in 1..Len(s)
  PROVE  Holds(RemoveAt(s, n), S \ {s[n]}) /\ Len(RemoveAt(s, n)) = Len(s) - 1
<1> DEFINE u == SubSeq(s, 1, n - 1)
           v == SubSeq(s, n + 1, Len(s))
           t == RemoveAt(s, n)
<1>1. s \in Seq(Ids) /\ Len(s) \in Nat /\ n \in Nat /\ n >= 1 /\ n <= Len(s)
  BY DEF Holds
<1>2. \A k \in 1..Len(s) : s[k] \in Ids
  BY <1>1, ElementOfSeq
<1>3. u \in Seq(Ids) /\ Len(u) = n - 1 /\ \A k \in 1..n - 1 : u[k] = s[k]
  <2>1. \A k \in 1..n - 1 : s[k] \in Ids
    BY <1>1, <1>2
  <2> QED
    BY <1>1, <2>1, SubSeqProperties
<1>4. v \in Seq(Ids) /\ Len(v) = Len(s) - n /\ \A k \in 1..Len(s) - n : v[k] = s[n + k]
  <2>1. \A k \in n + 1..Len(s) : s[k] \in Ids
    BY <1>1, <1>2
  <2> QED
    BY <1>1, <2>1, SubSeqProperties
<1> HIDE DEF u, v
<1>5. /\ t \in Seq(Ids)
      /\ Len(t) = Len(s) - 1
      /\ \A k \in 1..Len(s) - 1 : t[k] = IF k <= n - 1 THEN u[k] ELSE v[k - (n - 1)]
  <2>1. t = u \o v
    BY DEF RemoveAt, u, v
  <2>2. (n - 1) + (Len(s) - n) = Len(s) - 1
    BY <1>1
  <2> HIDE DEF t
  <2>3. /\ u \o v \in Seq(Ids)
        /\ Len(u \o v) = Len(u) + Len(v)
        /\ \A k \in 1..Len(u) + Len(v) : (u \o v)[k] = IF k <= Len(u) THEN u[k] ELSE v[k - Len(u)]
    BY <1>3, <1>4, ConcatProperties
  <2>4. Len(u) = n - 1 /\ Len(u) + Len(v) = Len(s) - 1
    BY <1>3, <1>4, <2>2
  <2> QED
    BY <2>1, <2>3, <2>4
<1> HIDE DEF t
\* Each position of the shorter list has one in the longer.
<1> DEFINE from(k) == IF k < n THEN k ELSE k + 1
<1>6. \A k \in 1..Len(t) : from(k) \in 1..Len(s) /\ from(k) # n /\ t[k] = s[from(k)]
  <2>1. ASSUME NEW k \in 1..Len(t), k < n PROVE t[k] = s[k] /\ k \in 1..Len(s)
    BY <1>1, <1>3, <1>5, <2>1
  <2>2. ASSUME NEW k \in 1..Len(t), ~(k < n) PROVE t[k] = s[k + 1] /\ k + 1 \in 1..Len(s) /\ k + 1 # n
    <3>1. k - (n - 1) \in 1..Len(s) - n /\ n + (k - (n - 1)) = k + 1
      BY <1>1, <1>5, <2>2
    <3>2. k \in 1..Len(s) - 1 /\ ~(k <= n - 1)
      BY <1>1, <1>5, <2>2
    <3>3. t[k] = v[k - (n - 1)]
      BY <1>5, <3>2
    <3> QED
      BY <1>1, <1>4, <1>5, <2>2, <3>1, <3>3
  <2> QED
    BY <1>1, <2>1, <2>2
<1>7. \A l \in 1..Len(s) : l # n => \E k \in 1..Len(t) : from(k) = l
  <2> SUFFICES ASSUME NEW l \in 1..Len(s), l # n PROVE \E k \in 1..Len(t) : from(k) = l
    OBVIOUS
  <2>1. CASE l < n
    <3>1. l \in 1..Len(t) /\ from(l) = l
      BY <1>1, <1>5, <2>1
    <3> QED
      BY <3>1
  <2>2. CASE ~(l < n)
    <3>1. l - 1 \in 1..Len(t) /\ from(l - 1) = l
      BY <1>1, <1>5, <2>2
    <3> QED
      BY <3>1
  <2> QED
    BY <2>1, <2>2
<1>8. \A j, k \in 1..Len(t) : from(j) = from(k) => j = k
  BY <1>1, <1>5
<1> HIDE DEF from
<1>9. \A j, k \in 1..Len(t) : t[j] = t[k] => j = k
  BY <1>6, <1>8 DEF Holds
<1>10. S \ {s[n]} = {t[k] : k \in 1..Len(t)}
  <2>1. ASSUME NEW x \in S \ {s[n]} PROVE \E k \in 1..Len(t) : x = t[k]
    <3>1. PICK l \in 1..Len(s) : x = s[l] /\ l # n
      BY DEF Holds
    <3> QED
      BY <1>6, <1>7, <3>1
  <2>2. \A k \in 1..Len(t) : t[k] \in S \ {s[n]}
    BY <1>6 DEF Holds
  <2> QED
    BY <2>1, <2>2
<1> QED
  BY <1>5, <1>9, <1>10 DEF Holds, t

LEMMA HoldsRemoveFirst ==
  ASSUME NEW s, NEW S, Holds(s, S), NEW i
  PROVE  /\ Holds(RemoveFirst(s, i), S \ {i})
         /\ Len(RemoveFirst(s, i)) = IF i \in S THEN Len(s) - 1 ELSE Len(s)
<1>1. CASE i \notin S
  <2>1. ~\E k \in 1..Len(s) : s[k] = i
    BY <1>1 DEF Holds
  <2>2. RemoveFirst(s, i) = s
    BY <2>1 DEF RemoveFirst
  <2>3. S \ {i} = S
    BY <1>1
  <2> QED
    BY <1>1, <2>2, <2>3
<1>2. CASE i \in S
  <2>1. PICK n \in 1..Len(s) : s[n] = i
    BY <1>2 DEF Holds
  <2> DEFINE I == {k \in 1..Len(s) : s[k] = i}
  <2>2. I = {n}
    BY <2>1 DEF Holds
  <2>3. n <= n
    BY <2>1
  <2>4. Min(I) = n
    BY <2>2, <2>3 DEF Min
  <2>5. SelectInSeq(s, LAMBDA v : v = i) = n
    BY <2>2, <2>4 DEF SelectInSeq
  <2>6. RemoveFirst(s, i) = RemoveAt(s, n)
    BY <2>1, <2>5 DEF RemoveFirst
  <2> QED
    BY <1>2, <2>1, <2>6, HoldsRemoveAt
<1> QED
  BY <1>1, <1>2

LEMMA HoldsTail ==
  ASSUME NEW s, NEW S, Holds(s, S), s # <<>>
  PROVE  /\ Head(s) \in S
         /\ Holds(Tail(s), S \ {Head(s)})
         /\ Len(Tail(s)) = Len(s) - 1
<1> DEFINE t == Tail(s)
<1>1. s \in Seq(Ids) /\ Len(s) \in Nat /\ Len(s) # 0 /\ Head(s) = s[1]
  BY EmptySeq DEF Holds
<1>2. t \in Seq(Ids) /\ Len(t) = Len(s) - 1 /\ \A k \in 1..Len(t) : t[k] = s[k + 1]
  BY <1>1, HeadTailProperties
<1> HIDE DEF t
<1>3. \A k \in 1..Len(t) : k + 1 \in 1..Len(s) /\ k + 1 # 1
  BY <1>1, <1>2
<1>4. \A l \in 1..Len(s) : l # 1 => l - 1 \in 1..Len(t) /\ t[l - 1] = s[l]
  BY <1>1, <1>2
<1>5. 1 \in 1..Len(s)
  BY <1>1
<1>6. \A j, k \in 1..Len(t) : t[j] = t[k] => j = k
  <2> SUFFICES ASSUME NEW j \in 1..Len(t), NEW k \in 1..Len(t), t[j] = t[k] PROVE j = k
    OBVIOUS
  <2>1. j + 1 = k + 1
    BY <1>2, <1>3 DEF Holds
  <2> QED
    BY <2>1
<1>7. S \ {s[1]} = {t[k] : k \in 1..Len(t)}
  <2>1. ASSUME NEW x \in S \ {s[1]} PROVE \E k \in 1..Len(t) : x = t[k]
    <3>1. PICK l \in 1..Len(s) : x = s[l] /\ l # 1
      BY DEF Holds
    <3> QED
      BY <1>4, <3>1
  <2>2. \A k \in 1..Len(t) : t[k] \in S \ {s[1]}
    BY <1>2, <1>3, <1>5 DEF Holds
  <2> QED
    BY <2>1, <2>2
<1> QED
  BY <1>1, <1>2, <1>5, <1>6, <1>7 DEF Holds, t

LEMMA HoldsOnce ==
  ASSUME NEW s, NEW S, Holds(s, S), NEW i
  PROVE  Occurrences(s, i) = IF i \in S THEN 1 ELSE 0
<1>1. DOMAIN s = 1..Len(s)
  BY LenProperties DEF Holds
<1>2. CASE i \in S
  <2>1. PICK n \in 1..Len(s) : s[n] = i
    BY <1>2 DEF Holds
  <2>2. {k \in DOMAIN s : s[k] = i} = {n}
    BY <1>1, <2>1 DEF Holds
  <2> QED
    BY <1>2, <2>2, FS_Singleton DEF Occurrences
<1>3. CASE i \notin S
  <2>1. {k \in DOMAIN s : s[k] = i} = {}
    BY <1>1, <1>3 DEF Holds
  <2> QED
    BY <1>3, <2>1, FS_EmptySet DEF Occurrences
<1> QED
  BY <1>2, <1>3

(***************************************************************************)
(* The live toasts.                                                        *)
(***************************************************************************)

\* The toasts of monitor m in lifecycle life.
Standing(m, life) == {i \in Live : toasts[i].monitor = m /\ toasts[i].life = life}

\* The inductive form of ToastsAgree: the lists as sets, and the types.
ToastsInv ==
  /\ TypeOK
  /\ \A m \in Monitors : Holds(visible[m], Standing(m, "Visible"))
  /\ \A m \in Monitors : Holds(queue[m], Standing(m, "Queued"))
  /\ TimersServeVisible

LEMMA ToastsInitInv == Init => ToastsInv
<1> SUFFICES ASSUME Init PROVE ToastsInv
  OBVIOUS
<1>1. Live = {} /\ toasts \in [Live -> Toasts]
  BY DEF Init, Live
<1>2. 1 \in Ids
  BY MaxIdAssumption DEF Ids
<1>3. <<>> \in Seq(Ids) /\ Len(<<>>) = 0
  BY EmptySeq
<1>4. TypeOK
  BY <1>1, <1>2, <1>3 DEF Init, TypeOK, TimerStates
<1>5. Holds(<<>>, {})
  BY <1>3 DEF Holds
<1>6. \A m \in Monitors, life \in {"Visible", "Queued"} : Standing(m, life) = {}
  BY <1>1 DEF Standing
<1>7. TimersServeVisible
  BY <1>1 DEF Init, TimersServeVisible
<1> QED
  BY <1>4, <1>5, <1>6, <1>7 DEF Init, ToastsInv

LEMMA SuccessorType == ASSUME NEW i \in Ids PROVE Successor(i) \in Ids
BY MaxIdAssumption DEF Ids, Successor

\* The oldest visible toast that may be bumped is one.
LEMMA BumpIndexIsFirst ==
  ASSUME ToastsInv, NEW m \in Monitors, Bumpable(m) # {}
  PROVE  /\ BumpIndex(m) \in 1..Len(visible[m])
         /\ Bumped(m) = visible[m][BumpIndex(m)]
         /\ Bumped(m) \in Standing(m, "Visible")
         /\ toasts[Bumped(m)].urgency # "critical"
<1>1. visible[m] \in Seq(Ids) /\ DOMAIN visible[m] = 1..Len(visible[m])
  BY LenProperties DEF ToastsInv, TypeOK
<1>2. Bumpable(m) \subseteq Nat /\ Bumpable(m) \subseteq 1..Len(visible[m])
  BY <1>1 DEF Bumpable
<1>3. BumpIndex(m) \in Bumpable(m)
  BY <1>2, LeastOf DEF BumpIndex
<1> QED
  BY <1>1, <1>2, <1>3 DEF Bumped, Bumpable, ToastsInv, Holds

\* The new toast of an Add, in lifecycle life.
Arrival(m, urgency, expiry, life) ==
  [monitor |-> m, urgency |-> urgency, timed |-> EffectiveTimeout(expiry, urgency), life |-> life]

LEMMA ArrivalType ==
  ASSUME NEW m \in Monitors, NEW u \in Urgencies, NEW x \in Expiries, NEW life \in {"Visible", "Queued"}
  PROVE  Arrival(m, u, x, life) \in Toasts
BY DEF Arrival, EffectiveTimeout, Toasts

\* placeNotification's three outcomes for a new toast i.
Placed(i, m, u, x) ==
  /\ Len(visible[m]) < maxVisible
  /\ visible' = [visible EXCEPT ![m] = Append(@, i)]
  /\ toasts' = Inserted(toasts, i, Arrival(m, u, x, "Visible"))
  /\ timer' = [timer EXCEPT ![i] = Armed(EffectiveTimeout(x, u))]
  /\ UNCHANGED <<queue, pointer>>
Bumps(i, m, u, x) ==
  /\ Len(visible[m]) >= maxVisible
  /\ u = "critical" /\ Bumpable(m) # {}
  /\ visible' = [visible EXCEPT ![m] = Append(RemoveAt(@, BumpIndex(m)), i)]
  /\ queue' = [queue EXCEPT ![m] = <<Bumped(m)>> \o @]
  /\ toasts' = Inserted([toasts EXCEPT ![Bumped(m)].life = "Queued"], i, Arrival(m, u, x, "Visible"))
  /\ timer' = [timer EXCEPT ![Bumped(m)] = "none", ![i] = Armed(EffectiveTimeout(x, u))]
  /\ pointer' = Unhovered(Bumped(m))
Queues(i, m, u, x) ==
  /\ Len(visible[m]) >= maxVisible
  /\ queue' = [queue EXCEPT ![m] = Append(@, i)]
  /\ toasts' = Inserted(toasts, i, Arrival(m, u, x, "Queued"))
  /\ UNCHANGED <<visible, timer, pointer>>

LEMMA AddPlaces ==
  ASSUME ToastsInv, NEW m \in Monitors, NEW u \in Urgencies, NEW x \in Expiries, Add(m, u, x)
  PROVE  \E i \in Ids \ Live :
           /\ nextId' = Successor(i) /\ maxVisible' = maxVisible
           /\ Placed(i, m, u, x) \/ Bumps(i, m, u, x) \/ Queues(i, m, u, x)
<1>1. PICK i \in Ids :
        LET timed == EffectiveTimeout(x, u)
            toast(life) == [monitor |-> m, urgency |-> u, timed |-> timed, life |-> life] IN
        /\ Allocates(i)
        /\ nextId' = Successor(i)
        /\ \/ /\ Len(visible[m]) < maxVisible
              /\ visible' = [visible EXCEPT ![m] = Append(@, i)]
              /\ toasts' = Inserted(toasts, i, toast("Visible"))
              /\ timer' = [timer EXCEPT ![i] = Armed(timed)]
              /\ UNCHANGED <<queue, pointer>>
           \/ /\ Len(visible[m]) >= maxVisible
              /\ u = "critical" /\ Bumpable(m) # {}
              /\ LET b == Bumped(m) IN
                   /\ visible' = [visible EXCEPT ![m] = Append(RemoveAt(@, BumpIndex(m)), i)]
                   /\ queue' = [queue EXCEPT ![m] = BumpedFirst(@, b)]
                   /\ toasts' = Inserted([toasts EXCEPT ![b].life = "Queued"], i, toast("Visible"))
                   /\ timer' = [timer EXCEPT ![b] = "none", ![i] = Armed(timed)]
                   /\ pointer' = Unhovered(b)
           \/ /\ Len(visible[m]) >= maxVisible
              /\ ~(u = "critical" /\ Bumpable(m) # {})
              /\ queue' = [queue EXCEPT ![m] = Append(@, i)]
              /\ toasts' = Inserted(toasts, i, toast("Queued"))
              /\ UNCHANGED <<visible, timer, pointer>>
        /\ UNCHANGED maxVisible
  BY DEF Add
<1>2. i \in Ids \ Live
  BY <1>1 DEF Allocates
<1> QED
  BY <1>1, <1>2 DEF Placed, Bumps, BumpedFirst, Queues, Arrival

\* A toast on screen of a new id.
LEMMA PlacedStep ==
  ASSUME ToastsInv, NEW m \in Monitors, NEW u \in Urgencies, NEW x \in Expiries,
         NEW i \in Ids \ Live, Placed(i, m, u, x),
         nextId' = Successor(i), maxVisible' = maxVisible
  PROVE  ToastsInv'
<1> DEFINE t == Arrival(m, u, x, "Visible")
<1>ty. TypeOK /\ TimersServeVisible
  BY DEF ToastsInv
<1>1. t \in Toasts /\ t.monitor = m /\ t.life = "Visible" /\ t.timed = EffectiveTimeout(x, u)
  BY ArrivalType DEF Arrival
<1> HIDE DEF t
<1>2. /\ Live' = Live \cup {i}
      /\ toasts' \in [Live' -> Toasts]
      /\ toasts'[i] = t
      /\ \A j \in Live : toasts'[j] = toasts[j]
  <2>1. toasts \in [Live -> Toasts] /\ i \notin Live /\ t \in Toasts
    BY <1>1, <1>ty DEF TypeOK
  <2>2. toasts' = Inserted(toasts, i, t)
    BY DEF Placed, t
  <2>3. /\ DOMAIN Inserted(toasts, i, t) = Live \cup {i}
        /\ Inserted(toasts, i, t) \in [Live \cup {i} -> Toasts]
        /\ Inserted(toasts, i, t)[i] = t
        /\ \A j \in Live : Inserted(toasts, i, t)[j] = toasts[j]
    BY <2>1 DEF Inserted
  <2> QED
    BY <2>2, <2>3 DEF Live
<1>3. \A n \in Monitors :
        /\ Standing(n, "Visible")' = IF n = m THEN Standing(n, "Visible") \cup {i} ELSE Standing(n, "Visible")
        /\ Standing(n, "Queued")' = Standing(n, "Queued")
  BY <1>1, <1>2 DEF Standing
<1>4. ASSUME NEW n \in Monitors
      PROVE  /\ Holds(visible'[n], Standing(n, "Visible")')
             /\ Holds(queue'[n], Standing(n, "Queued")')
  <2>1. Holds(queue'[n], Standing(n, "Queued")')
    BY <1>3 DEF Placed, ToastsInv
  <2>2. visible'[n] = IF n = m THEN Append(visible[m], i) ELSE visible[n]
    BY <1>ty DEF Placed, TypeOK
  <2>3. i \notin Standing(m, "Visible")
    BY DEF Standing
  <2> QED
    BY <1>3, <2>1, <2>2, <2>3, HoldsAppend DEF ToastsInv
<1>5. TimersServeVisible'
  <2>1. \A j \in Ids : timer'[j] = IF j = i THEN Armed(t.timed) ELSE timer[j]
    BY <1>1, <1>ty DEF Placed, TypeOK
  <2>2. t.timed \in BOOLEAN /\ (Armed(t.timed) # "none" <=> t.timed)
    BY <1>1 DEF Armed, Toasts
  <2> QED
    BY <1>1, <1>2, <1>ty, <2>1, <2>2 DEF TimersServeVisible
<1>6. TypeOK'
  <2>1. visible' \in [Monitors -> Seq(Ids)] /\ queue' \in [Monitors -> Seq(Ids)]
    BY <1>4, <1>ty DEF Placed, Holds, TypeOK
  <2>2. timer' \in [Ids -> TimerStates]
    BY <1>ty DEF Placed, TypeOK, Armed, TimerStates
  <2>3. Live' \subseteq Ids /\ pointer' \in Live' \cup {NoToast}
    BY <1>2, <1>ty DEF Placed, TypeOK
  <2> QED
    BY <1>2, <1>ty, <2>1, <2>2, <2>3, SuccessorType DEF TypeOK
<1> QED
  BY <1>4, <1>5, <1>6 DEF ToastsInv

\* A critical toast on screen, the bumped one at the front of the queue.
LEMMA BumpsStep ==
  ASSUME ToastsInv, NEW m \in Monitors, NEW u \in Urgencies, NEW x \in Expiries,
         NEW i \in Ids \ Live, Bumps(i, m, u, x),
         nextId' = Successor(i), maxVisible' = maxVisible
  PROVE  ToastsInv'
<1> DEFINE t == Arrival(m, u, x, "Visible")
           b == Bumped(m)
           g == [toasts EXCEPT ![b].life = "Queued"]
<1>ty. TypeOK /\ TimersServeVisible
  BY DEF ToastsInv
<1>1. t \in Toasts /\ t.monitor = m /\ t.life = "Visible" /\ t.timed = EffectiveTimeout(x, u)
  BY ArrivalType DEF Arrival
<1> HIDE DEF t
<1>2. /\ BumpIndex(m) \in 1..Len(visible[m]) /\ b = visible[m][BumpIndex(m)]
      /\ b \in Standing(m, "Visible")
  BY BumpIndexIsFirst DEF Bumps
<1>3. b \in Live /\ b \in Ids /\ b # i /\ toasts[b].monitor = m
  BY <1>2, <1>ty DEF Standing, TypeOK
<1>4. /\ visible' = [visible EXCEPT ![m] = Append(RemoveAt(visible[m], BumpIndex(m)), i)]
      /\ queue' = [queue EXCEPT ![m] = <<b>> \o queue[m]]
      /\ toasts' = Inserted(g, i, t)
      /\ timer' = [timer EXCEPT ![b] = "none", ![i] = Armed(t.timed)]
      /\ pointer' = Unhovered(b)
  BY <1>1 DEF Bumps, t
<1> HIDE DEF b
<1>5. /\ DOMAIN g = Live /\ g \in [Live -> Toasts]
      /\ g[b].life = "Queued" /\ g[b].monitor = m
      /\ \A j \in Live : j # b => g[j] = toasts[j]
  <2>1. toasts \in [Live -> Toasts] /\ b \in Live
    BY <1>3, <1>ty DEF TypeOK
  <2> DEFINE bumped == [toasts[b] EXCEPT !.life = "Queued"]
  <2>2. /\ bumped \in Toasts /\ bumped.life = "Queued" /\ bumped.monitor = m
        /\ g = [toasts EXCEPT ![b] = bumped]
    BY <1>3, <2>1 DEF Toasts
  <2> HIDE DEF bumped, g
  <2> QED
    BY <2>1, <2>2
<1> HIDE DEF g
<1>6. /\ Live' = Live \cup {i}
      /\ toasts' \in [Live' -> Toasts]
      /\ toasts'[i] = t
      /\ \A j \in Live : toasts'[j] = g[j]
  <2>1. g \in [Live -> Toasts] /\ i \notin Live /\ t \in Toasts
    BY <1>1, <1>5
  <2>2. /\ DOMAIN Inserted(g, i, t) = Live \cup {i}
        /\ Inserted(g, i, t) \in [Live \cup {i} -> Toasts]
        /\ Inserted(g, i, t)[i] = t
        /\ \A j \in Live : Inserted(g, i, t)[j] = g[j]
    BY <2>1 DEF Inserted
  <2> QED
    BY <1>4, <1>5, <2>2 DEF Live
<1>7. \A n \in Monitors :
        /\ Standing(n, "Visible")' =
             IF n = m THEN (Standing(n, "Visible") \ {b}) \cup {i} ELSE Standing(n, "Visible")
        /\ Standing(n, "Queued")' =
             IF n = m THEN Standing(n, "Queued") \cup {b} ELSE Standing(n, "Queued")
  <2> SUFFICES ASSUME NEW n \in Monitors
               PROVE  /\ Standing(n, "Visible")' =
                           IF n = m THEN (Standing(n, "Visible") \ {b}) \cup {i} ELSE Standing(n, "Visible")
                      /\ Standing(n, "Queued")' =
                           IF n = m THEN Standing(n, "Queued") \cup {b} ELSE Standing(n, "Queued")
    OBVIOUS
  <2>1. CASE n = m
    BY <1>1, <1>3, <1>5, <1>6, <2>1 DEF Standing
  <2>2. CASE n # m
    BY <1>1, <1>3, <1>5, <1>6, <2>2 DEF Standing
  <2> QED
    BY <2>1, <2>2
<1>8. ASSUME NEW n \in Monitors
      PROVE  /\ Holds(visible'[n], Standing(n, "Visible")')
             /\ Holds(queue'[n], Standing(n, "Queued")')
  <2>0. /\ visible'[n] = IF n = m THEN Append(RemoveAt(visible[m], BumpIndex(m)), i) ELSE visible[n]
        /\ queue'[n] = IF n = m THEN <<b>> \o queue[m] ELSE queue[n]
    BY <1>4, <1>ty DEF TypeOK
  <2>1. CASE n # m
    BY <1>7, <2>0, <2>1 DEF ToastsInv
  <2>2. CASE n = m
    <3>1. Holds(RemoveAt(visible[m], BumpIndex(m)), Standing(m, "Visible") \ {b})
      BY <1>2, HoldsRemoveAt DEF ToastsInv
    <3>2. i \notin Standing(m, "Visible") \ {b} /\ b \notin Standing(m, "Queued")
      BY <1>2 DEF Standing
    <3>3. Holds(visible'[n], Standing(n, "Visible")')
      BY <1>7, <2>0, <2>2, <3>1, <3>2, HoldsAppend
    <3>4. Holds(queue'[n], Standing(n, "Queued")')
      BY <1>3, <1>7, <2>0, <2>2, <3>2, HoldsFirst DEF ToastsInv
    <3> QED
      BY <3>3, <3>4
  <2> QED
    BY <2>1, <2>2
<1>9. TimersServeVisible'
  <2>1. \A j \in Ids : timer'[j] = IF j = i THEN Armed(t.timed) ELSE IF j = b THEN "none" ELSE timer[j]
    BY <1>3, <1>4, <1>ty DEF TypeOK
  <2>2. t.timed \in BOOLEAN /\ (Armed(t.timed) # "none" <=> t.timed)
    BY <1>1 DEF Armed, Toasts
  <2> QED
    BY <1>1, <1>3, <1>5, <1>6, <1>ty, <2>1, <2>2 DEF TimersServeVisible
<1>10. TypeOK'
  <2>1. visible' \in [Monitors -> Seq(Ids)] /\ queue' \in [Monitors -> Seq(Ids)]
    BY <1>4, <1>8, <1>ty DEF Holds, TypeOK
  <2>2. timer' \in [Ids -> TimerStates]
    BY <1>4, <1>ty DEF TypeOK, Armed, TimerStates
  <2>3. Live' \subseteq Ids /\ pointer' \in Live' \cup {NoToast}
    BY <1>4, <1>6, <1>ty DEF TypeOK, Unhovered
  <2> QED
    BY <1>6, <1>ty, <2>1, <2>2, <2>3, SuccessorType DEF TypeOK
<1> QED
  BY <1>8, <1>9, <1>10 DEF ToastsInv

\* A toast that waits, of a new id.
LEMMA QueuesStep ==
  ASSUME ToastsInv, NEW m \in Monitors, NEW u \in Urgencies, NEW x \in Expiries,
         NEW i \in Ids \ Live, Queues(i, m, u, x),
         nextId' = Successor(i), maxVisible' = maxVisible
  PROVE  ToastsInv'
<1> DEFINE t == Arrival(m, u, x, "Queued")
<1>ty. TypeOK /\ TimersServeVisible
  BY DEF ToastsInv
<1>1. t \in Toasts /\ t.monitor = m /\ t.life = "Queued"
  BY ArrivalType DEF Arrival
<1> HIDE DEF t
<1>2. /\ Live' = Live \cup {i}
      /\ toasts' \in [Live' -> Toasts]
      /\ toasts'[i] = t
      /\ \A j \in Live : toasts'[j] = toasts[j]
  <2>1. toasts \in [Live -> Toasts] /\ i \notin Live /\ t \in Toasts
    BY <1>1, <1>ty DEF TypeOK
  <2>2. toasts' = Inserted(toasts, i, t)
    BY DEF Queues, t
  <2>3. /\ DOMAIN Inserted(toasts, i, t) = Live \cup {i}
        /\ Inserted(toasts, i, t) \in [Live \cup {i} -> Toasts]
        /\ Inserted(toasts, i, t)[i] = t
        /\ \A j \in Live : Inserted(toasts, i, t)[j] = toasts[j]
    BY <2>1 DEF Inserted
  <2> QED
    BY <2>2, <2>3 DEF Live
<1>3. \A n \in Monitors :
        /\ Standing(n, "Visible")' = Standing(n, "Visible")
        /\ Standing(n, "Queued")' = IF n = m THEN Standing(n, "Queued") \cup {i} ELSE Standing(n, "Queued")
  BY <1>1, <1>2 DEF Standing
<1>4. ASSUME NEW n \in Monitors
      PROVE  /\ Holds(visible'[n], Standing(n, "Visible")')
             /\ Holds(queue'[n], Standing(n, "Queued")')
  <2>1. Holds(visible'[n], Standing(n, "Visible")')
    BY <1>3 DEF Queues, ToastsInv
  <2>2. queue'[n] = IF n = m THEN Append(queue[m], i) ELSE queue[n]
    BY <1>ty DEF Queues, TypeOK
  <2>3. i \notin Standing(m, "Queued")
    BY DEF Standing
  <2> QED
    BY <1>3, <2>1, <2>2, <2>3, HoldsAppend DEF ToastsInv
<1>5. TimersServeVisible'
  BY <1>1, <1>2, <1>ty DEF Queues, TimersServeVisible
<1>6. TypeOK'
  <2>1. visible' \in [Monitors -> Seq(Ids)] /\ queue' \in [Monitors -> Seq(Ids)]
    BY <1>4, <1>ty DEF Queues, Holds, TypeOK
  <2>2. Live' \subseteq Ids /\ pointer' \in Live' \cup {NoToast}
    BY <1>2, <1>ty DEF Queues, TypeOK
  <2> QED
    BY <1>2, <1>ty, <2>1, <2>2, SuccessorType DEF Queues, TypeOK
<1> QED
  BY <1>4, <1>5, <1>6 DEF ToastsInv

\* What a click, a call, an action or a timer closes; the front of the queue
\* follows if that leaves a slot.
LEMMA CloseStep ==
  ASSUME ToastsInv, NEW i \in Ids, Close(i)
  PROVE  ToastsInv'
<1>ty. TypeOK /\ TimersServeVisible
  BY DEF ToastsInv
<1>0. i \in Live /\ toasts[i] \in Toasts
  <2>1. i \in Live
    BY Zenon DEF Close
  <2> QED
    BY <1>ty, <2>1 DEF TypeOK
<1>1. PICK m \in Monitors : m = toasts[i].monitor
  BY <1>0 DEF Toasts
<1> DEFINE seen == RemoveFirst(visible[m], i)
           waiting == RemoveFirst(queue[m], i)
           rest == [j \in Live \ {i} |-> toasts[j]]
           p == Head(waiting)
<1>2. /\ pointer' = Unhovered(i) /\ UNCHANGED <<nextId, maxVisible>>
      /\ \/ /\ Promotes(waiting, seen)
            /\ visible' = [visible EXCEPT ![m] = Append(seen, p)]
            /\ queue' = [queue EXCEPT ![m] = Tail(waiting)]
            /\ toasts' = [rest EXCEPT ![p].life = "Visible"]
            /\ timer' = [timer EXCEPT ![i] = "none", ![p] = Armed(toasts[p].timed)]
         \/ /\ ~Promotes(waiting, seen)
            /\ visible' = [visible EXCEPT ![m] = seen]
            /\ queue' = [queue EXCEPT ![m] = waiting]
            /\ toasts' = rest
            /\ timer' = [timer EXCEPT ![i] = "none"]
  BY <1>1, ZenonT(60) DEF Close
<1>3. /\ Holds(seen, Standing(m, "Visible") \ {i})
      /\ Holds(waiting, Standing(m, "Queued") \ {i})
  BY HoldsRemoveFirst DEF ToastsInv
<1>4. /\ DOMAIN rest = Live \ {i} /\ rest \in [Live \ {i} -> Toasts]
      /\ \A j \in Live \ {i} : rest[j] = toasts[j]
  BY <1>ty DEF TypeOK
<1>5. \A n \in Monitors, life \in {"Visible", "Queued"} : n # m => i \notin Standing(n, life)
  BY <1>1 DEF Standing
<1> HIDE DEF seen, waiting, rest, p
\* It is enough to follow the lists of m, the timers and the types.
<1>6. ASSUME /\ visible' = [visible EXCEPT ![m] = visible'[m]]
             /\ queue' = [queue EXCEPT ![m] = queue'[m]],
             Live' = Live \ {i}, toasts' \in [Live' -> Toasts],
             \A n \in Monitors, life \in {"Visible", "Queued"} :
               n # m => Standing(n, life)' = Standing(n, life),
             Holds(visible'[m], Standing(m, "Visible")'),
             Holds(queue'[m], Standing(m, "Queued")'),
             timer' \in [Ids -> TimerStates], TimersServeVisible'
      PROVE  ToastsInv'
  <2>1. ASSUME NEW n \in Monitors
        PROVE  /\ Holds(visible'[n], Standing(n, "Visible")')
               /\ Holds(queue'[n], Standing(n, "Queued")')
    <3>1. CASE n = m
      BY <1>6, <3>1
    <3>2. CASE n # m
      <4>1. visible'[n] = visible[n] /\ queue'[n] = queue[n]
        BY <1>6, <1>ty, <3>2 DEF TypeOK
      <4>2. Standing(n, "Visible")' = Standing(n, "Visible") /\ Standing(n, "Queued")' = Standing(n, "Queued")
        BY <1>6, <3>2
      <4> QED
        BY <4>1, <4>2 DEF ToastsInv
    <3> QED
      BY <3>1, <3>2
  <2>2. visible' \in [Monitors -> Seq(Ids)] /\ queue' \in [Monitors -> Seq(Ids)]
    BY <1>6, <1>ty, <2>1 DEF Holds, TypeOK
  <2>3. Live' \subseteq Ids /\ pointer' \in Live' \cup {NoToast}
    BY <1>2, <1>6, <1>ty DEF TypeOK, Unhovered
  <2>4. TypeOK'
    BY <1>2, <1>6, <1>ty, <2>2, <2>3 DEF TypeOK
  <2> QED
    BY <1>6, <2>1, <2>4 DEF ToastsInv
<1>7. CASE /\ visible' = [visible EXCEPT ![m] = seen]
           /\ queue' = [queue EXCEPT ![m] = waiting]
           /\ toasts' = rest
           /\ timer' = [timer EXCEPT ![i] = "none"]
  <2>1. visible'[m] = seen /\ queue'[m] = waiting
    BY <1>7, <1>ty DEF TypeOK
  <2>2. Live' = Live \ {i} /\ toasts' \in [Live' -> Toasts] /\ \A j \in Live' : toasts'[j] = toasts[j]
    BY <1>4, <1>7 DEF Live
  <2>3. \A n \in Monitors, life \in {"Visible", "Queued"} : Standing(n, life)' = Standing(n, life) \ {i}
    BY <2>2 DEF Standing
  <2>4. \A n \in Monitors, life \in {"Visible", "Queued"} :
          n # m => Standing(n, life)' = Standing(n, life)
    <3> SUFFICES ASSUME NEW n \in Monitors, NEW life \in {"Visible", "Queued"}, n # m
                 PROVE  Standing(n, life)' = Standing(n, life)
      OBVIOUS
    <3>1. Standing(n, life)' = Standing(n, life) \ {i} /\ i \notin Standing(n, life)
      BY <1>5, <2>3
    <3> HIDE DEF Standing
    <3> QED
      BY <3>1
  <2>5. /\ timer' \in [Ids -> TimerStates]
        /\ \A j \in Ids : timer'[j] = IF j = i THEN "none" ELSE timer[j]
    BY <1>7, <1>ty DEF TypeOK, TimerStates
  <2>6. TimersServeVisible'
    BY <1>ty, <2>2, <2>5 DEF TimersServeVisible
  <2>7. Holds(visible'[m], Standing(m, "Visible")') /\ Holds(queue'[m], Standing(m, "Queued")')
    BY <1>3, <2>1, <2>3
  <2> QED
    BY <1>6, <1>7, <2>1, <2>2, <2>4, <2>5, <2>6, <2>7
<1>8. CASE /\ Promotes(waiting, seen)
           /\ visible' = [visible EXCEPT ![m] = Append(seen, p)]
           /\ queue' = [queue EXCEPT ![m] = Tail(waiting)]
           /\ toasts' = [rest EXCEPT ![p].life = "Visible"]
           /\ timer' = [timer EXCEPT ![i] = "none", ![p] = Armed(toasts[p].timed)]
  <2>1. waiting # <<>>
    BY <1>8 DEF Promotes
  <2>2. /\ p \in Standing(m, "Queued") \ {i}
        /\ Holds(Tail(waiting), (Standing(m, "Queued") \ {i}) \ {p})
    BY <1>3, <2>1, HoldsTail DEF p
  <2>3. /\ p \in Live /\ p \in Ids /\ p # i /\ toasts[p].monitor = m
        /\ toasts[p].life = "Queued" /\ toasts[p] \in Toasts
    BY <1>ty, <2>2 DEF Standing, TypeOK
  <2> DEFINE shown == [toasts[p] EXCEPT !.life = "Visible"]
  <2>4. /\ shown \in Toasts /\ shown.life = "Visible" /\ shown.monitor = m
        /\ shown.timed = toasts[p].timed
        /\ toasts' = [rest EXCEPT ![p] = shown]
    BY <1>4, <1>8, <2>3 DEF Toasts
  <2> HIDE DEF shown
  <2>5. /\ Live' = Live \ {i} /\ toasts' \in [Live' -> Toasts]
        /\ toasts'[p] = shown
        /\ \A j \in Live' : j # p => toasts'[j] = toasts[j]
    BY <1>4, <2>3, <2>4 DEF Live
  <2>6. visible'[m] = Append(seen, p) /\ queue'[m] = Tail(waiting)
    BY <1>8, <1>ty DEF TypeOK
  <2>7. /\ Standing(m, "Visible")' = (Standing(m, "Visible") \ {i}) \cup {p}
        /\ Standing(m, "Queued")' = (Standing(m, "Queued") \ {i}) \ {p}
    BY <2>3, <2>4, <2>5 DEF Standing
  <2>8. \A n \in Monitors, life \in {"Visible", "Queued"} :
          n # m => Standing(n, life)' = Standing(n, life)
    <3> SUFFICES ASSUME NEW n \in Monitors, NEW life \in {"Visible", "Queued"}, n # m
                 PROVE  Standing(n, life)' = Standing(n, life)
      OBVIOUS
    <3>1. i \notin Standing(n, life) /\ p \notin Standing(n, life)
      BY <1>5, <2>3 DEF Standing
    <3> QED
      BY <2>3, <2>4, <2>5, <3>1 DEF Standing
  <2>9. p \notin Standing(m, "Visible") \ {i}
    BY <2>3 DEF Standing
  <2>10. Holds(visible'[m], Standing(m, "Visible")')
    BY <1>3, <2>3, <2>6, <2>7, <2>9, HoldsAppend
  <2>11. Holds(queue'[m], Standing(m, "Queued")')
    BY <2>2, <2>6, <2>7
  <2>12. /\ timer' \in [Ids -> TimerStates]
         /\ \A j \in Ids : timer'[j] = IF j = p THEN Armed(toasts[p].timed)
                                       ELSE IF j = i THEN "none" ELSE timer[j]
    BY <1>8, <1>ty, <2>3 DEF TypeOK, TimerStates, Armed
  <2>13. TimersServeVisible'
    <3>1. toasts[p].timed \in BOOLEAN /\ (Armed(toasts[p].timed) # "none" <=> toasts[p].timed)
      BY <2>3 DEF Armed, Toasts
    <3> QED
      BY <1>ty, <2>3, <2>4, <2>5, <2>12, <3>1 DEF TimersServeVisible
  <2> QED
    BY <1>6, <1>8, <2>5, <2>6, <2>8, <2>10, <2>11, <2>12, <2>13
<1> QED
  BY <1>2, <1>7, <1>8

\* A replacement changes what the toast says, not where it stands.
LEMMA ReplaceStep ==
  ASSUME ToastsInv, NEW i \in Ids, NEW u \in Urgencies, NEW x \in Expiries, Replace(i, u, x)
  PROVE  ToastsInv'
<1> DEFINE timed == EffectiveTimeout(x, u)
           t == [toasts[i] EXCEPT !.urgency = u, !.timed = timed]
<1>ty. TypeOK /\ TimersServeVisible
  BY DEF ToastsInv
<1>1. /\ i \in Live
      /\ toasts' = [toasts EXCEPT ![i] = t]
      /\ timer' = IF toasts[i].life = "Visible" THEN [timer EXCEPT ![i] = Armed(timed)] ELSE timer
      /\ UNCHANGED <<visible, queue, nextId, maxVisible, pointer>>
  BY DEF Replace
<1>2. /\ timed \in BOOLEAN /\ toasts[i] \in Toasts
      /\ t \in Toasts /\ t.timed = timed /\ t.life = toasts[i].life /\ t.monitor = toasts[i].monitor
  BY <1>1, <1>ty DEF TypeOK, EffectiveTimeout, Toasts
<1> HIDE DEF t, timed
<1>3. /\ Live' = Live /\ toasts' \in [Live' -> Toasts] /\ toasts'[i] = t
      /\ \A j \in Live : j # i => toasts'[j] = toasts[j]
  BY <1>1, <1>2, <1>ty DEF TypeOK, Live
<1>4. \A n \in Monitors, life \in {"Visible", "Queued"} : Standing(n, life)' = Standing(n, life)
  BY <1>2, <1>3 DEF Standing
<1>5. Armed(timed) \in {"none", "running"} /\ (Armed(timed) # "none" <=> timed)
  BY <1>2 DEF Armed
<1>6. /\ timer' \in [Ids -> TimerStates]
      /\ \A j \in Ids : timer'[j] = IF j = i /\ toasts[i].life = "Visible" THEN Armed(timed) ELSE timer[j]
  BY <1>1, <1>5, <1>ty DEF TypeOK, TimerStates
<1>7. TimersServeVisible'
  BY <1>1, <1>2, <1>3, <1>5, <1>6, <1>ty DEF TimersServeVisible
<1>8. TypeOK'
  BY <1>1, <1>3, <1>6, <1>ty DEF TypeOK
<1> QED
  BY <1>1, <1>4, <1>7, <1>8 DEF ToastsInv

\* The toasts and the lists are left alone, and a timer neither comes nor goes.
LEMMA ToastsStay ==
  ASSUME ToastsInv, UNCHANGED <<toasts, visible, queue>>, TypeOK',
         \A i \in Ids : timer'[i] = "none" <=> timer[i] = "none"
  PROVE  ToastsInv'
<1>1. \A m, life : Standing(m, life)' = Standing(m, life)
  BY DEF Standing, Live
<1>2. TimersServeVisible'
  BY DEF ToastsInv, TimersServeVisible, Live
<1> QED
  BY <1>1, <1>2 DEF ToastsInv

LEMMA ToastsStep == ToastsInv /\ [Next]_vars => ToastsInv'
<1> SUFFICES ASSUME ToastsInv, [Next]_vars PROVE ToastsInv'
  OBVIOUS
<1>ty. TypeOK
  BY DEF ToastsInv
<1>1. ASSUME NEW m \in Monitors, NEW u \in Urgencies, NEW x \in Expiries, Add(m, u, x)
      PROVE  ToastsInv'
  BY <1>1, AddPlaces, PlacedStep, BumpsStep, QueuesStep
<1>2. CASE AddFails
  <2>1. TypeOK'
    BY <1>2, <1>ty, SuccessorType DEF AddFails, TypeOK, Live
  <2> QED
    BY <1>2, <2>1, ToastsStay DEF AddFails
<1>3. ASSUME NEW i \in Ids, NEW u \in Urgencies, NEW x \in Expiries, Replace(i, u, x)
      PROVE  ToastsInv'
  BY <1>3, ReplaceStep
<1>4. ASSUME NEW i \in Ids, Expire(i) \/ RequestClose(i) \/ Dismiss(i) \/ InvokeAction(i)
      PROVE  ToastsInv'
  BY <1>4, CloseStep DEF Expire, RequestClose, Dismiss, InvokeAction
<1>5. ASSUME NEW i \in Ids, Elapse(i) PROVE ToastsInv'
  <2>1. TypeOK'
    BY <1>5, <1>ty DEF Elapse, TypeOK, TimerStates, Live
  <2>2. \A j \in Ids : timer'[j] = "none" <=> timer[j] = "none"
    BY <1>5, <1>ty DEF Elapse, TypeOK
  <2> QED
    BY <1>5, <2>1, <2>2, ToastsStay DEF Elapse
<1>6. ASSUME NEW i \in Ids, HoverEntered(i) PROVE ToastsInv'
  <2> DEFINE to == CASE timer[i] = "running" -> "paused"
                     [] timer[i] = "due" -> "spent"
                     [] OTHER -> timer[i]
  <2>1. timer' = [timer EXCEPT ![i] = to]
    BY <1>6 DEF HoverEntered
  <2>2. timer[i] \in TimerStates
    BY <1>ty DEF TypeOK
  <2>3. to \in TimerStates /\ (to = "none" <=> timer[i] = "none")
    BY <2>2 DEF TimerStates
  <2> HIDE DEF to
  <2>4. TypeOK' /\ \A j \in Ids : timer'[j] = "none" <=> timer[j] = "none"
    BY <1>6, <1>ty, <2>1, <2>3 DEF HoverEntered, TypeOK, Live
  <2> QED
    BY <1>6, <2>4, ToastsStay DEF HoverEntered
<1>7. CASE HoverLeft
  <2> DEFINE to == IF timer[pointer] \in {"running", "due", "paused"} THEN "running" ELSE timer[pointer]
  <2>1. timer' = [timer EXCEPT ![pointer] = to] /\ pointer \in Ids
    BY <1>7, <1>ty DEF HoverLeft, TypeOK
  <2>2. timer[pointer] \in TimerStates
    BY <1>ty, <2>1 DEF TypeOK
  <2>3. to \in TimerStates /\ (to = "none" <=> timer[pointer] = "none")
    BY <2>2 DEF TimerStates
  <2> HIDE DEF to
  <2>4. TypeOK' /\ \A j \in Ids : timer'[j] = "none" <=> timer[j] = "none"
    BY <1>7, <1>ty, <2>1, <2>3 DEF HoverLeft, TypeOK, Live
  <2> QED
    BY <1>7, <2>4, ToastsStay DEF HoverLeft
<1>8. ASSUME NEW limit \in Limits, ConfigChanged(limit) PROVE ToastsInv'
  <2>1. TypeOK'
    BY <1>8, <1>ty DEF ConfigChanged, TypeOK, Live
  <2> QED
    BY <1>8, <2>1, ToastsStay DEF ConfigChanged
<1>9. CASE UNCHANGED vars
  <2>1. TypeOK'
    BY <1>9, <1>ty DEF vars, TypeOK, Live
  <2> QED
    BY <1>9, <2>1, ToastsStay DEF vars
<1> QED
  BY <1>1, <1>2, <1>3, <1>4, <1>5, <1>6, <1>7, <1>8, <1>9 DEF Next

\* After any placements, bumps, promotions, replacements and closes: each live
\* toast stands once, in the one list its lifecycle names, and a timer exists
\* exactly for the visible ones that close by themselves.
THEOREM ToastsAreConsistent == Spec => []ToastsAgree
<1>1. ToastsInv => ToastsAgree
  <2> SUFFICES ASSUME ToastsInv PROVE ToastsAgree
    OBVIOUS
  <2>1. ASSUME NEW m \in Monitors, NEW i \in Ids
        PROVE  /\ Occurrences(visible[m], i) = IF i \in Standing(m, "Visible") THEN 1 ELSE 0
               /\ Occurrences(queue[m], i) = IF i \in Standing(m, "Queued") THEN 1 ELSE 0
    BY HoldsOnce DEF ToastsInv
  <2>2. ListsAgree
    BY <2>1 DEF ListsAgree, Standing
  <2> QED
    BY <2>2 DEF ToastsAgree, ToastsInv
<1> QED
  BY <1>1, ToastsInitInv, ToastsStep, PTL DEF Spec

(***************************************************************************)
(* What a step may do to the toasts.                                       *)
(***************************************************************************)

\* An arrival leaves a slot beside waiting toasts only where there was one, and
\* takes off the screen only what a critical one bumps.
LEMMA ArrivalTurn ==
  ASSUME ToastsInv, NEW m \in Monitors, NEW u \in Urgencies, NEW x \in Expiries,
         NEW i \in Ids \ Live, maxVisible' = maxVisible,
         Placed(i, m, u, x) \/ Bumps(i, m, u, x) \/ Queues(i, m, u, x)
  PROVE  OnlyRaiseLeavesIdleSlot /\ OnlyCriticalBumps
<1>ty. TypeOK
  BY DEF ToastsInv
<1>0. /\ visible[m] \in Seq(Ids) /\ Len(visible[m]) \in Nat /\ i \in Ids
      /\ maxVisible \in Nat /\ maxVisible \in Limits
  BY <1>ty, LimitsAssumption DEF TypeOK
<1>1. CASE Placed(i, m, u, x)
  <2>1. \A n \in Monitors : n # m => visible'[n] = visible[n]
    BY <1>1, <1>ty DEF Placed, TypeOK
  <2>2. Len(visible'[m]) = Len(visible[m]) + 1
    <3>1. visible'[m] = Append(visible[m], i)
      BY <1>1, <1>ty DEF Placed, TypeOK
    <3> QED
      BY <1>0, <3>1, AppendProperties
  <2>3. ASSUME NEW n \in Monitors, Idle(n)' PROVE Idle(n)
    <3>1. CASE n = m
      BY <1>0, <1>1, <2>2, <2>3, <3>1 DEF Placed, Idle
    <3>2. CASE n # m
      BY <1>1, <2>1, <2>3, <3>2 DEF Placed, Idle
    <3> QED
      BY <3>1, <3>2
  <2>4. \A j \in Live : j # i /\ toasts'[j] = toasts[j]
    BY <1>1 DEF Placed, Inserted, Live
  <2>5. OnlyCriticalBumps
    BY <2>4 DEF OnlyCriticalBumps
  <2> QED
    BY <2>3, <2>5 DEF OnlyRaiseLeavesIdleSlot
<1>2. CASE Queues(i, m, u, x)
  <2>1. \A n \in Monitors : n # m => queue'[n] = queue[n]
    BY <1>2, <1>ty DEF Queues, TypeOK
  <2>2. ASSUME NEW n \in Monitors, Idle(n)' PROVE Idle(n)
    <3>1. CASE n = m
      BY <1>0, <1>2, <2>2, <3>1 DEF Queues, Idle
    <3>2. CASE n # m
      BY <1>2, <2>1, <2>2, <3>2 DEF Queues, Idle
    <3> QED
      BY <3>1, <3>2
  <2>3. \A j \in Live : j # i /\ toasts'[j] = toasts[j]
    BY <1>2 DEF Queues, Inserted, Live
  <2>4. OnlyCriticalBumps
    BY <2>3 DEF OnlyCriticalBumps
  <2> QED
    BY <2>2, <2>4 DEF OnlyRaiseLeavesIdleSlot
<1>3. CASE Bumps(i, m, u, x)
  <2> DEFINE t == Arrival(m, u, x, "Visible")
             b == Bumped(m)
             g == [toasts EXCEPT ![b].life = "Queued"]
  <2>1. /\ BumpIndex(m) \in 1..Len(visible[m])
        /\ b \in Standing(m, "Visible") /\ toasts[b].urgency # "critical"
    BY <1>3, BumpIndexIsFirst DEF Bumps
  <2>2. /\ u = "critical" /\ Len(visible[m]) >= maxVisible
        /\ visible' = [visible EXCEPT ![m] = Append(RemoveAt(visible[m], BumpIndex(m)), i)]
        /\ queue' = [queue EXCEPT ![m] = <<b>> \o queue[m]]
        /\ toasts' = Inserted(g, i, t)
    BY <1>3 DEF Bumps
  <2>3. t.urgency = "critical" /\ t.monitor = m
    BY <2>2 DEF Arrival
  <2> HIDE DEF t, b
  <2>4. b \in Live /\ b \in Ids /\ toasts[b].monitor = m
    BY <1>ty, <2>1 DEF Standing, TypeOK
  <2>5. visible'[m] = Append(RemoveAt(visible[m], BumpIndex(m)), i) /\ queue'[m] = <<b>> \o queue[m]
    BY <1>ty, <2>2 DEF TypeOK
  <2>6. Len(visible'[m]) = Len(visible[m])
    <3>1. /\ RemoveAt(visible[m], BumpIndex(m)) \in Seq(Ids)
          /\ Len(RemoveAt(visible[m], BumpIndex(m))) = Len(visible[m]) - 1
      BY <2>1, HoldsRemoveAt DEF ToastsInv, Holds
    <3>2. Len(visible'[m]) = (Len(visible[m]) - 1) + 1
      BY <1>0, <2>5, <3>1, AppendProperties
    <3> QED
      BY <1>0, <3>2
  <2>7. ASSUME NEW n \in Monitors, Idle(n)' PROVE Idle(n)
    <3>1. CASE n = m
      BY <1>0, <2>2, <2>6, <2>7, <3>1 DEF Idle
    <3>2. CASE n # m
      <4>1. visible'[n] = visible[n] /\ queue'[n] = queue[n]
        BY <1>ty, <2>2, <3>2 DEF TypeOK
      <4> QED
        BY <2>7, <4>1 DEF Idle
    <3> QED
      BY <3>1, <3>2
  <2>8. DOMAIN g = Live /\ \A j \in Live : j # b => g[j] = toasts[j]
    BY <1>ty, <2>4 DEF TypeOK
  <2> HIDE DEF g
  <2>9. /\ DOMAIN toasts' = Live \cup {i} /\ toasts'[i] = t
        /\ \A j \in Live : j # b => toasts'[j] = toasts[j]
    BY <2>2, <2>8 DEF Inserted
  <2>10. Head(queue'[m]) = b
    <3>1. Holds(queue[m], Standing(m, "Queued")) /\ b \notin Standing(m, "Queued")
      BY <2>1 DEF ToastsInv, Standing
    <3> QED
      BY <2>4, <2>5, <3>1, HoldsFirst
  <2>11. OnlyCriticalBumps
    <3> SUFFICES ASSUME NEW j \in Live, toasts[j].life = "Visible",
                        j \in DOMAIN toasts', toasts'[j].life = "Queued"
                 PROVE  /\ toasts[j].urgency # "critical"
                        /\ Head(queue'[toasts[j].monitor]) = j
                        /\ \E k \in DOMAIN toasts' \ Live :
                             /\ toasts'[k].urgency = "critical"
                             /\ toasts'[k].monitor = toasts[j].monitor
      BY DEF OnlyCriticalBumps
    <3>1. j = b
      BY <2>9
    <3>2. i \in DOMAIN toasts' \ Live /\ toasts'[i].urgency = "critical" /\ toasts'[i].monitor = m
      BY <2>3, <2>9
    <3> QED
      BY <2>1, <2>4, <2>10, <3>1, <3>2
  <2> QED
    BY <2>7, <2>11 DEF OnlyRaiseLeavesIdleSlot
<1> QED
  BY <1>1, <1>2, <1>3

\* A close promotes the front of the queue rather than leave the slot.
LEMMA CloseTurn ==
  ASSUME ToastsInv, NEW i \in Ids, Close(i)
  PROVE  OnlyRaiseLeavesIdleSlot /\ OnlyCriticalBumps
<1>ty. TypeOK
  BY DEF ToastsInv
<1>0. i \in Live /\ toasts[i] \in Toasts
  <2>1. i \in Live
    BY Zenon DEF Close
  <2> QED
    BY <1>ty, <2>1 DEF TypeOK
<1>1. PICK m \in Monitors : m = toasts[i].monitor
  BY <1>0 DEF Toasts
<1> DEFINE seen == RemoveFirst(visible[m], i)
           waiting == RemoveFirst(queue[m], i)
           rest == [j \in Live \ {i} |-> toasts[j]]
           p == Head(waiting)
<1>2. /\ UNCHANGED maxVisible
      /\ \/ /\ Promotes(waiting, seen)
            /\ visible' = [visible EXCEPT ![m] = Append(seen, p)]
            /\ queue' = [queue EXCEPT ![m] = Tail(waiting)]
            /\ toasts' = [rest EXCEPT ![p].life = "Visible"]
         \/ /\ ~Promotes(waiting, seen)
            /\ visible' = [visible EXCEPT ![m] = seen]
            /\ queue' = [queue EXCEPT ![m] = waiting]
            /\ toasts' = rest
  BY <1>1, ZenonT(60) DEF Close
<1>3. /\ seen \in Seq(Ids) /\ waiting \in Seq(Ids)
      /\ Len(seen) \in Nat /\ Len(visible[m]) \in Nat /\ maxVisible \in Nat
      /\ Len(visible[m]) <= Len(seen) + 1
      /\ waiting # <<>> => queue[m] # <<>>
  <2>1. /\ Holds(seen, Standing(m, "Visible") \ {i}) /\ Holds(waiting, Standing(m, "Queued") \ {i})
        /\ Len(seen) = IF i \in Standing(m, "Visible") THEN Len(visible[m]) - 1 ELSE Len(visible[m])
        /\ Len(waiting) = IF i \in Standing(m, "Queued") THEN Len(queue[m]) - 1 ELSE Len(queue[m])
    BY HoldsRemoveFirst DEF ToastsInv
  <2>2. visible[m] \in Seq(Ids) /\ queue[m] \in Seq(Ids) /\ maxVisible \in Nat
    BY <1>ty, LimitsAssumption DEF TypeOK
  <2>3. seen \in Seq(Ids) /\ waiting \in Seq(Ids)
    BY <2>1 DEF Holds
  <2> HIDE DEF seen, waiting
  <2>4. Len(visible[m]) <= Len(seen) + 1
    BY <2>1, <2>2, <2>3
  <2>5. waiting # <<>> => queue[m] # <<>>
    <3>1. Len(waiting) <= Len(queue[m])
      BY <2>1, <2>2
    <3> QED
      BY <2>2, <2>3, <3>1, EmptySeq
  <2> QED
    BY <2>2, <2>3, <2>4, <2>5
<1>4. DOMAIN rest = Live \ {i} /\ \A j \in Live \ {i} : rest[j] = toasts[j]
  OBVIOUS
<1> HIDE DEF seen, waiting, rest, p
<1>5. CASE /\ ~Promotes(waiting, seen)
           /\ visible' = [visible EXCEPT ![m] = seen]
           /\ queue' = [queue EXCEPT ![m] = waiting]
           /\ toasts' = rest
  <2>1. ASSUME NEW n \in Monitors, Idle(n)' PROVE Idle(n)
    <3>1. CASE n = m
      <4>1. visible'[m] = seen /\ queue'[m] = waiting
        BY <1>5, <1>ty DEF TypeOK
      <4> QED
        BY <1>2, <1>5, <2>1, <3>1, <4>1 DEF Idle, Promotes
    <3>2. CASE n # m
      <4>1. visible'[n] = visible[n] /\ queue'[n] = queue[n]
        BY <1>5, <1>ty, <3>2 DEF TypeOK
      <4> QED
        BY <1>2, <2>1, <4>1 DEF Idle
    <3> QED
      BY <3>1, <3>2
  <2>2. OnlyCriticalBumps
    BY <1>4, <1>5 DEF OnlyCriticalBumps
  <2> QED
    BY <2>1, <2>2 DEF OnlyRaiseLeavesIdleSlot
<1>6. CASE /\ Promotes(waiting, seen)
           /\ visible' = [visible EXCEPT ![m] = Append(seen, p)]
           /\ queue' = [queue EXCEPT ![m] = Tail(waiting)]
           /\ toasts' = [rest EXCEPT ![p].life = "Visible"]
  <2>0. waiting # <<>> /\ p \in Ids
    BY <1>3, <1>6, HeadTailProperties DEF Promotes, p
  <2>1. ASSUME NEW n \in Monitors, Idle(n)' PROVE Idle(n)
    <3>1. CASE n = m
      <4>1. visible'[m] = Append(seen, p)
        BY <1>6, <1>ty DEF TypeOK
      <4>2. Len(visible'[m]) = Len(seen) + 1
        BY <1>3, <2>0, <4>1, AppendProperties
      <4>3. Len(visible'[m]) < maxVisible
        BY <1>2, <2>1, <3>1 DEF Idle
      <4>4. Len(visible[m]) < maxVisible
        BY <1>3, <4>2, <4>3
      <4> QED
        BY <1>3, <2>0, <3>1, <4>4 DEF Idle
    <3>2. CASE n # m
      <4>1. visible'[n] = visible[n] /\ queue'[n] = queue[n]
        BY <1>6, <1>ty, <3>2 DEF TypeOK
      <4> QED
        BY <1>2, <2>1, <4>1 DEF Idle
    <3> QED
      BY <3>1, <3>2
  <2>2. p \in Live \ {i}
    <3>1. Holds(waiting, Standing(m, "Queued") \ {i})
      BY HoldsRemoveFirst DEF ToastsInv, waiting
    <3> QED
      BY <2>0, <3>1, HoldsTail DEF p, Standing
  <2>3. \A j \in DOMAIN toasts' : toasts'[j].life = "Queued" => j \in Live /\ toasts'[j] = toasts[j]
    <3> DEFINE shown == [rest[p] EXCEPT !.life = "Visible"]
    <3>1. /\ toasts' = [rest EXCEPT ![p] = shown]
          /\ shown.life = "Visible"
      <4>1. rest[p] \in Toasts
        BY <1>4, <1>ty, <2>2 DEF TypeOK
      <4> QED
        BY <1>6, <4>1 DEF Toasts
    <3> HIDE DEF shown
    <3> QED
      BY <1>4, <2>2, <3>1
  <2>4. OnlyCriticalBumps
    BY <2>3 DEF OnlyCriticalBumps
  <2> QED
    BY <2>1, <2>4 DEF OnlyRaiseLeavesIdleSlot
<1> QED
  BY <1>2, <1>5, <1>6

\* Every other event leaves lists, limit and lifecycles alone, or changes the limit.
LEMMA TurnStep == ToastsInv /\ [Next]_vars => [OnlyRaiseLeavesIdleSlot /\ OnlyCriticalBumps]_vars
<1> SUFFICES ASSUME ToastsInv, Next PROVE OnlyRaiseLeavesIdleSlot /\ OnlyCriticalBumps
  OBVIOUS
<1>1. ASSUME UNCHANGED <<visible, queue>>, \A j \in Live : toasts'[j].life = toasts[j].life
      PROVE  OnlyRaiseLeavesIdleSlot /\ OnlyCriticalBumps
  <2>1. OnlyRaiseLeavesIdleSlot
    BY <1>1 DEF OnlyRaiseLeavesIdleSlot, Idle
  <2>2. OnlyCriticalBumps
    BY <1>1 DEF OnlyCriticalBumps
  <2> QED
    BY <2>1, <2>2
<1>2. ASSUME NEW m \in Monitors, NEW u \in Urgencies, NEW x \in Expiries, Add(m, u, x)
      PROVE  OnlyRaiseLeavesIdleSlot /\ OnlyCriticalBumps
  BY <1>2, AddPlaces, ArrivalTurn
<1>3. ASSUME NEW i \in Ids, Expire(i) \/ RequestClose(i) \/ Dismiss(i) \/ InvokeAction(i)
      PROVE  OnlyRaiseLeavesIdleSlot /\ OnlyCriticalBumps
  BY <1>3, CloseTurn DEF Expire, RequestClose, Dismiss, InvokeAction
<1>4. ASSUME NEW i \in Ids, NEW u \in Urgencies, NEW x \in Expiries, Replace(i, u, x)
      PROVE  OnlyRaiseLeavesIdleSlot /\ OnlyCriticalBumps
  <2> DEFINE t == [toasts[i] EXCEPT !.urgency = u, !.timed = EffectiveTimeout(x, u)]
  <2>1. i \in Live /\ toasts' = [toasts EXCEPT ![i] = t] /\ UNCHANGED <<visible, queue>>
    BY <1>4 DEF Replace
  <2>2. toasts \in [Live -> Toasts]
    BY DEF ToastsInv, TypeOK
  <2>3. t.life = toasts[i].life
    BY <2>1, <2>2 DEF Toasts
  <2> HIDE DEF t
  <2>4. \A j \in Live : toasts'[j].life = toasts[j].life
    BY <2>1, <2>2, <2>3
  <2> QED
    BY <1>1, <2>1, <2>4
<1>5. CASE AddFails
  BY <1>1, <1>5 DEF AddFails
<1>6. ASSUME NEW i \in Ids, Elapse(i) \/ HoverEntered(i)
      PROVE  OnlyRaiseLeavesIdleSlot /\ OnlyCriticalBumps
  BY <1>1, <1>6 DEF Elapse, HoverEntered
<1>7. CASE HoverLeft
  BY <1>1, <1>7 DEF HoverLeft
<1>8. ASSUME NEW limit \in Limits, ConfigChanged(limit)
      PROVE  OnlyRaiseLeavesIdleSlot /\ OnlyCriticalBumps
  BY <1>1, <1>8 DEF ConfigChanged
<1> QED
  BY <1>2, <1>3, <1>4, <1>5, <1>6, <1>7, <1>8 DEF Next

\* No step lets a toast wait beside a free slot of its monitor, unless the limit
\* was raised, or takes one off the screen, unless it is closed or a critical one
\* bumps it to the front of the queue.
THEOREM ToastsTakeTurns == Spec => ToastsMoveInTurn
BY ToastsInitInv, ToastsStep, TurnStep, PTL DEF Spec, ToastsMoveInTurn

(***************************************************************************)
(* The history.                                                            *)
(***************************************************************************)

Lists == Seq(Entries)

\* h is in the order the notifications were closed, and none is of the future.
Ordered(h) == \A j, k \in 1..Len(h) : j < k => h[j].serial < h[k].serial
Past(h, n) == \A k \in 1..Len(h) : h[k].serial <= n

\* Snapshot b may follow snapshot a: what a did not hold any more does not come
\* back, and what was read in it is still.
Follows(b, a) ==
  \A i \in 1..Len(b), j \in 1..Len(a) :
    /\ b[i].serial <= a[j].serial => \E k \in 1..Len(a) : a[k].serial = b[i].serial
    /\ b[i].serial = a[j].serial /\ a[j].read => b[i].read

\* g holds some of the entries of h, in its order.
PartOf(g, h) ==
  \E f \in [1..Len(g) -> 1..Len(h)] :
    /\ \A j, k \in 1..Len(g) : j < k => f[j] < f[k]
    /\ \A k \in 1..Len(g) : g[k] = h[f[k]]

LEMMA ListFacts ==
  ASSUME NEW h \in Lists
  PROVE  /\ Len(h) \in Nat /\ DOMAIN h = 1..Len(h)
         /\ \A k \in 1..Len(h) : h[k] \in Entries /\ h[k].serial \in 1..MaxRecords /\ h[k].read \in BOOLEAN
<1>1. Len(h) \in Nat /\ DOMAIN h = 1..Len(h) /\ h \in [1..Len(h) -> Entries]
  BY LenProperties DEF Lists
<1> QED
  BY <1>1 DEF Entries

LEMMA PartOfKeeps ==
  ASSUME NEW h \in Lists, NEW g \in Lists, PartOf(g, h)
  PROVE  /\ Ordered(h) => Ordered(g)
         /\ \A n : Past(h, n) => Past(g, n)
         /\ \A a : Follows(h, a) => Follows(g, a)
<1>1. PICK f \in [1..Len(g) -> 1..Len(h)] :
        /\ \A j, k \in 1..Len(g) : j < k => f[j] < f[k]
        /\ \A k \in 1..Len(g) : g[k] = h[f[k]]
  BY DEF PartOf
<1>2. ASSUME Ordered(h) PROVE Ordered(g)
  BY <1>1, <1>2 DEF Ordered
<1>3. ASSUME NEW n, Past(h, n) PROVE Past(g, n)
  BY <1>1, <1>3 DEF Past
<1>4. ASSUME NEW a, Follows(h, a) PROVE Follows(g, a)
  BY <1>1, <1>4 DEF Follows
<1> QED
  BY <1>2, <1>3, <1>4

\* What runEviction leaves.
LEMMA EvictedProperties ==
  ASSUME NEW h \in Lists, NEW c \in Configs, NEW old
  PROVE  /\ Evicted(h, c, old) \in Lists
         /\ PartOf(Evicted(h, c, old), h)
         /\ Len(Evicted(h, c, old)) <= c.max
         /\ ~Evicts(h, c, old) => Evicted(h, c, old) = h
<1> DEFINE S == {k \in DOMAIN h : h[k].serial > old}
           young == SubSeqAt(h, S)
           surplus == Max({0, Len(young) - c.max})
           g == SubSeq(young, surplus + 1, Len(young))
<1>1. Len(h) \in Nat /\ DOMAIN h = 1..Len(h) /\ S \in SUBSET (1..Len(h)) /\ h \in Seq(Entries)
  BY ListFacts DEF Lists
<1>2. c.max \in Nat
  BY ItemLimitsAssumption DEF Configs
<1> HIDE DEF S
<1>3. /\ young \in Seq(Entries) /\ Len(young) = Cardinality(S)
      /\ Cardinality(S) \in Nat /\ Cardinality(S) <= Len(h)
      /\ \A k \in 1..Len(young) : IndexAt(S, k) \in S /\ young[k] = h[IndexAt(S, k)]
      /\ \A k, l \in 1..Len(young) : k < l => IndexAt(S, k) < IndexAt(S, l)
      /\ Cardinality(S) = Len(h) => young = h
  BY <1>1, SubSeqAtProperties
<1> HIDE DEF young
<1>4. /\ surplus \in Nat /\ surplus <= Len(young)
      /\ Len(young) - surplus <= c.max
      /\ Len(young) <= c.max => surplus = 0
  <2>1. Len(young) \in Nat
    BY <1>3
  <2>2. CASE Len(young) <= c.max
    <3>1. 0 \in {0, Len(young) - c.max} /\ \A y \in {0, Len(young) - c.max} : 0 >= y
      BY <2>1, <2>2, <1>2
    <3>2. surplus \in {0, Len(young) - c.max} /\ \A y \in {0, Len(young) - c.max} : surplus >= y
      BY <3>1 DEF Max
    <3>3. surplus = 0
      BY <3>2, <2>1, <2>2, <1>2
    <3> HIDE DEF surplus
    <3> QED
      BY <3>3, <2>1, <2>2, <1>2
  <2>3. CASE ~(Len(young) <= c.max)
    <3>1. Len(young) - c.max \in {0, Len(young) - c.max} /\ \A y \in {0, Len(young) - c.max} : Len(young) - c.max >= y
      BY <2>1, <2>3, <1>2
    <3>2. surplus \in {0, Len(young) - c.max} /\ \A y \in {0, Len(young) - c.max} : surplus >= y
      BY <3>1 DEF Max
    <3>3. surplus = Len(young) - c.max
      BY <3>2, <2>1, <2>3, <1>2
    <3> HIDE DEF surplus
    <3> QED
      BY <3>3, <2>1, <2>3, <1>2
  <2> QED
    BY <2>2, <2>3
<1>5. Evicted(h, c, old) = g
  BY DEF Evicted, young, S
<1> HIDE DEF surplus
<1>6. /\ g \in Seq(Entries) /\ Len(g) = Len(young) - surplus
      /\ \A k \in 1..Len(g) : g[k] = young[surplus + k]
  <2>1. Len(young) \in Nat /\ surplus + 1 \in 1..(Len(young) + 1) /\ Len(young) \in (surplus + 1) - 1 .. Len(young)
    BY <1>3, <1>4
  <2>2. /\ g \in Seq(Entries)
        /\ Len(g) = IF surplus + 1 <= Len(young) THEN Len(young) - (surplus + 1) + 1 ELSE 0
        /\ \A i \in 1..(Len(young) - (surplus + 1) + 1) : g[i] = young[(surplus + 1) + i - 1]
    BY <1>3, <2>1, SubSeqProperties
  <2>3. Len(g) = Len(young) - surplus
    BY <1>3, <1>4, <2>2
  <2>4. ASSUME NEW k \in 1..Len(g) PROVE g[k] = young[surplus + k]
    <3>1. k \in 1..(Len(young) - (surplus + 1) + 1) /\ (surplus + 1) + k - 1 = surplus + k
      BY <1>3, <1>4, <2>3
    <3> QED
      BY <2>2, <3>1
  <2> QED
    BY <2>2, <2>3, <2>4
<1> HIDE DEF g
<1>7. PartOf(g, h)
  <2> DEFINE f == [k \in 1..Len(g) |-> IndexAt(S, surplus + k)]
  <2>1. \A k \in 1..Len(g) : surplus + k \in 1..Len(young)
    BY <1>3, <1>4, <1>6
  <2>2. f \in [1..Len(g) -> 1..Len(h)]
    BY <1>1, <1>3, <2>1
  <2>3. ASSUME NEW j \in 1..Len(g), NEW k \in 1..Len(g), j < k PROVE f[j] < f[k]
    <3>1. surplus + j < surplus + k
      BY <1>3, <1>4, <1>6, <2>3
    <3> QED
      BY <1>3, <2>1, <3>1
  <2>4. \A k \in 1..Len(g) : g[k] = h[f[k]]
    BY <1>3, <1>6, <2>1
  <2> HIDE DEF f
  <2> QED
    BY <2>2, <2>3, <2>4 DEF PartOf
<1>8. ASSUME Len(g) = Len(h) PROVE g = h
  <2>1. surplus = 0 /\ Len(young) = Len(h) /\ Len(g) \in Nat
    BY <1>1, <1>3, <1>4, <1>6, <1>8
  <2>2. young = h
    BY <1>3, <2>1
  <2>3. \A k \in 1..Len(g) : g[k] = h[k]
    BY <1>6, <2>1, <2>2
  <2> QED
    BY <1>1, <1>6, <1>8, <2>3, SeqEqual
<1> QED
  BY <1>4, <1>5, <1>6, <1>7, <1>8 DEF Evicts, Lists

LEMMA AllReadProperties ==
  ASSUME NEW h \in Lists
  PROVE  /\ AllRead(h) \in Lists /\ Len(AllRead(h)) = Len(h)
         /\ \A k \in 1..Len(h) : AllRead(h)[k].serial = h[k].serial /\ AllRead(h)[k].read = TRUE
<1>1. Len(h) \in Nat /\ DOMAIN h = 1..Len(h)
  BY ListFacts
<1>2. \A k \in 1..Len(h) : h[k] \in Entries
  BY ListFacts
<1>3. AllRead(h) = [k \in 1..Len(h) |-> [h[k] EXCEPT !.read = TRUE]]
  BY <1>1 DEF AllRead
<1>4. \A k \in 1..Len(h) : [h[k] EXCEPT !.read = TRUE] \in Entries /\ [h[k] EXCEPT !.read = TRUE].serial = h[k].serial
                          /\ [h[k] EXCEPT !.read = TRUE].read = TRUE
  BY <1>2 DEF Entries
<1>5. AllRead(h) \in [1..Len(h) -> Entries]
  BY <1>3, <1>4
<1>6. AllRead(h) \in Seq(Entries) /\ Len(AllRead(h)) = Len(h)
  BY <1>1, <1>3, <1>5, SeqDef, LenProperties
<1> QED
  BY <1>3, <1>4, <1>6 DEF Lists

----------------------------------------------------------------------------
LEMMA AllReadKeeps ==
  ASSUME NEW h \in Lists
  PROVE  /\ Ordered(h) => Ordered(AllRead(h))
         /\ \A n : Past(h, n) => Past(AllRead(h), n)
         /\ \A a : Follows(h, a) => Follows(AllRead(h), a)
         /\ Serials(AllRead(h)) = Serials(h)
         /\ UnreadIn(AllRead(h)) = 0
<1>1. /\ AllRead(h) \in Lists /\ Len(AllRead(h)) = Len(h)
      /\ \A k \in 1..Len(h) : AllRead(h)[k].serial = h[k].serial /\ AllRead(h)[k].read = TRUE
  BY AllReadProperties
<1>2. Ordered(h) => Ordered(AllRead(h))
  BY <1>1 DEF Ordered
<1>3. \A n : Past(h, n) => Past(AllRead(h), n)
  BY <1>1 DEF Past
<1>4. \A a : Follows(h, a) => Follows(AllRead(h), a)
  BY <1>1 DEF Follows
<1>5. DOMAIN AllRead(h) = 1..Len(h) /\ DOMAIN h = 1..Len(h)
  BY <1>1, ListFacts
<1>6. Serials(AllRead(h)) = Serials(h)
  BY <1>1, <1>5 DEF Serials
<1>7. {k \in DOMAIN AllRead(h) : ~AllRead(h)[k].read} = {}
  BY <1>1, <1>5
<1>8. UnreadIn(AllRead(h)) = 0
  BY <1>7, FS_EmptySet DEF UnreadIn
<1> QED
  BY <1>2, <1>3, <1>4, <1>6, <1>8

\* An ordered list is no longer than there are serials, so that the count of the
\* unread is a count of notifications.
LEMMA UnreadIsInRange ==
  ASSUME NEW h \in Lists, Ordered(h)
  PROVE  UnreadIn(h) \in 0..MaxRecords
<1>1. /\ Len(h) \in Nat /\ DOMAIN h = 1..Len(h)
      /\ \A k \in 1..Len(h) : h[k].serial \in 1..MaxRecords
  BY ListFacts
<1>2. MaxRecords \in Nat
  BY MaxRecordsAssumption
<1> DEFINE Early == {k \in 1..Len(h) : h[k].serial < k}
<1>3. Early = {}
  <2> SUFFICES ASSUME Early # {} PROVE FALSE
    OBVIOUS
  <2>1. Early \subseteq Nat
    BY <1>1
  <2>2. PICK k \in Early : \A l \in Early : k <= l
    BY <2>1, LeastOf
  <2>3. k \in 1..Len(h) /\ h[k].serial < k /\ h[k].serial \in 1..MaxRecords
    BY <1>1, <2>2
  <2>4. k - 1 \in 1..Len(h) /\ k - 1 < k /\ ~(k <= k - 1)
    BY <1>1, <1>2, <2>3
  <2>5. ~(h[k - 1].serial < k - 1) /\ h[k - 1].serial < h[k].serial /\ h[k - 1].serial \in Nat
    BY <1>1, <1>2, <2>2, <2>3, <2>4 DEF Ordered
  <2> HIDE DEF Early
  <2> QED
    BY <1>1, <1>2, <2>3, <2>4, <2>5
<1>4. Len(h) <= MaxRecords
  <2>1. CASE Len(h) = 0
    BY <1>2, <2>1
  <2>2. CASE Len(h) # 0
    <3>1. Len(h) \in 1..Len(h) /\ Len(h) \notin Early
      BY <1>1, <1>3, <2>2
    <3>2. ~(h[Len(h)].serial < Len(h)) /\ h[Len(h)].serial \in 1..MaxRecords
      BY <1>1, <3>1
    <3> QED
      BY <1>1, <1>2, <3>2
  <2> QED
    BY <2>1, <2>2
<1> DEFINE U == {k \in DOMAIN h : ~h[k].read}
<1>5. U \in SUBSET (1..Len(h))
  BY <1>1
<1>6. Cardinality(U) \in Nat /\ Cardinality(U) <= Len(h)
  BY <1>1, <1>5, IndicesAreFinite
<1> QED
  BY <1>1, <1>2, <1>4, <1>6 DEF UnreadIn

\* A closed notification joins the history, as the newest.
LEMMA AppendKeeps ==
  ASSUME NEW h \in Lists, NEW n \in Nat, n < MaxRecords, Ordered(h), Past(h, n)
  PROVE  LET g == Append(h, [serial |-> n + 1, read |-> FALSE]) IN
         /\ g \in Lists /\ Ordered(g) /\ Past(g, n + 1)
         /\ \A a \in Lists : Past(a, n) /\ Follows(h, a) => Follows(g, a)
<1> DEFINE e == [serial |-> n + 1, read |-> FALSE]
           g == Append(h, e)
<1>1. e \in Entries /\ e.serial = n + 1 /\ e.read = FALSE /\ MaxRecords \in Nat
  BY MaxRecordsAssumption DEF Entries
<1> HIDE DEF e
<1>2. /\ g \in Lists /\ Len(g) = Len(h) + 1 /\ g[Len(h) + 1] = e
      /\ \A k \in 1..Len(h) : g[k] = h[k]
  BY <1>1, AppendProperties DEF Lists
<1> HIDE DEF g
<1>3. /\ Len(h) \in Nat
      /\ \A k \in 1..Len(h) : h[k].serial \in Nat /\ h[k].serial <= n
  BY ListFacts DEF Past
<1>4. \A k \in 1..Len(g) : k \in 1..Len(h) \/ k = Len(h) + 1
  BY <1>2, <1>3
<1>5. Ordered(g)
  <2> SUFFICES ASSUME NEW j \in 1..Len(g), NEW k \in 1..Len(g), j < k PROVE g[j].serial < g[k].serial
    BY DEF Ordered
  <2>1. j \in 1..Len(h)
    BY <1>2, <1>3
  <2>2. CASE k \in 1..Len(h)
    BY <1>2, <2>1, <2>2 DEF Ordered
  <2>3. CASE k = Len(h) + 1
    BY <1>1, <1>2, <1>3, <2>1, <2>3
  <2> QED
    BY <1>4, <2>2, <2>3
<1>6. Past(g, n + 1)
  <2> SUFFICES ASSUME NEW k \in 1..Len(g) PROVE g[k].serial <= n + 1
    BY DEF Past
  <2>1. CASE k \in 1..Len(h)
    BY <1>2, <1>3, <2>1
  <2>2. CASE k = Len(h) + 1
    BY <1>1, <1>2, <2>2
  <2> QED
    BY <1>4, <2>1, <2>2
<1>7. ASSUME NEW a \in Lists, Past(a, n), Follows(h, a) PROVE Follows(g, a)
  <2> SUFFICES ASSUME NEW i \in 1..Len(g), NEW j \in 1..Len(a)
               PROVE  /\ g[i].serial <= a[j].serial => \E k \in 1..Len(a) : a[k].serial = g[i].serial
                      /\ g[i].serial = a[j].serial /\ a[j].read => g[i].read
    BY DEF Follows
  <2>1. CASE i \in 1..Len(h)
    BY <1>2, <1>7, <2>1 DEF Follows
  <2>2. CASE i = Len(h) + 1
    <3>1. a[j].serial \in Nat /\ a[j].serial <= n
      BY <1>7, ListFacts DEF Past
    <3>2. g[i].serial = n + 1
      BY <1>1, <1>2, <2>2
    <3> QED
      BY <3>1, <3>2
  <2> QED
    BY <1>4, <2>1, <2>2
<1> QED
  BY <1>2, <1>5, <1>6, <1>7 DEF g, e

\* A snapshot may follow itself, in order.
LEMMA FollowsItself ==
  ASSUME NEW h \in Lists, Ordered(h)
  PROVE  Follows(h, h)
<1>1. Len(h) \in Nat /\ \A k \in 1..Len(h) : h[k].serial \in 1..MaxRecords
  BY ListFacts
<1>2. MaxRecords \in Nat
  BY MaxRecordsAssumption
<1>3. ASSUME NEW i \in 1..Len(h), NEW j \in 1..Len(h), h[i].serial = h[j].serial PROVE i = j
  BY <1>1, <1>2, <1>3 DEF Ordered
<1> QED
  BY <1>3 DEF Follows

----------------------------------------------------------------------------
\* What the chain of snapshots, from the file to the list in memory, keeps: each
\* is in order and follows those before it; the last one asked for is the one
\* that is buffered, else the one in flight, else the one in the file.
SnapshotsAreLists ==
  \A h \in {history, inflight, pending, disk, asked} : Ordered(h) /\ Past(h, recorded)
SnapshotsFollow ==
  /\ writer = "writing" => Follows(inflight, disk)
  /\ dirty => Follows(pending, disk) /\ (writer = "writing" => Follows(pending, inflight))
  /\ store => /\ Follows(history, disk)
              /\ writer = "writing" => Follows(history, inflight)
              /\ dirty => Follows(history, pending)
AskedIsUnderWay ==
  /\ writer = "idle" => ~dirty
  /\ store =>
       /\ running
       /\ Serials(asked) = Serials(history)
       /\ dirty => pending = asked
       /\ ~dirty /\ writer # "idle" => inflight = asked
       /\ ~failed /\ writer = "done" => disk = inflight
       /\ ~failed /\ writer = "idle" => disk = asked
StorelessIsEmpty ==
  ~store => /\ history = <<>> /\ unread = 0
            /\ writer = "idle"
            /\ running => disk = asked

HistoryInv ==
  /\ HistoryTypeOK
  /\ running => Len(history) <= config.max
  /\ SnapshotsAreLists
  /\ SnapshotsFollow
  /\ AskedIsUnderWay
  /\ StorelessIsEmpty

LEMMA PastGrows ==
  ASSUME NEW h \in Lists, NEW m \in Nat, NEW n \in Nat, m <= n, Past(h, m)
  PROVE  Past(h, n)
<1>1. MaxRecords \in Nat /\ \A k \in 1..Len(h) : h[k].serial \in 1..MaxRecords
  BY ListFacts, MaxRecordsAssumption
<1> QED
  BY <1>1 DEF Past

LEMMA EmptyList ==
  <<>> \in Lists /\ Len(<<>>) = 0 /\ Ordered(<<>>) /\ Serials(<<>>) = {}
  /\ (\A n : Past(<<>>, n)) /\ (\A a : Follows(<<>>, a))
<1>1. <<>> \in Lists /\ Len(<<>>) = 0 /\ DOMAIN <<>> = {}
  BY EmptySeq DEF Lists
<1> QED
  BY <1>1 DEF Ordered, Serials, Past, Follows

LEMMA HistoryInitInv == HistoryInit => HistoryInv
<1> SUFFICES ASSUME HistoryInit PROVE HistoryInv
  OBVIOUS
<1>0. <<>> \in Seq(Entries) /\ 0 \in 0..MaxRecords /\ 0 \in 0..0
  BY EmptySeq, MaxRecordsAssumption
<1>1. HistoryTypeOK
  BY <1>0 DEF HistoryInit, HistoryTypeOK
<1>2. SnapshotsAreLists
  BY EmptyList DEF HistoryInit, SnapshotsAreLists
<1> QED
  BY <1>1, <1>2 DEF HistoryInit, HistoryInv, SnapshotsFollow, AskedIsUnderWay, StorelessIsEmpty

\* A list that may follow the file and the snapshot in flight becomes the
\* history and is persisted.
LEMMA PersistStep ==
  ASSUME HistoryInv, NEW g \in Lists, Ordered(g), Past(g, recorded'),
         Follows(g, disk), writer = "writing" => Follows(g, inflight),
         Persist(g), history' = g, store' = TRUE, running' = TRUE,
         unread' \in 0..MaxRecords, config' \in Configs, Len(g) <= config'.max,
         recorded' \in 0..MaxRecords, recorded <= recorded', aged' \in 0..recorded',
         ~store => writer = "idle"
  PROVE  HistoryInv'
<1>1. /\ inflight \in Lists /\ pending \in Lists /\ disk \in Lists /\ writer \in {"idle", "writing", "done"}
      /\ recorded \in Nat /\ dirty \in BOOLEAN /\ failed \in BOOLEAN
  BY MaxRecordsAssumption DEF HistoryInv, HistoryTypeOK, Lists
<1>2. asked' = g /\ disk' = disk /\ failed' = failed
  BY DEF Persist
<1>3. Follows(g, g)
  BY FollowsItself
<1>4. recorded' \in Nat /\ MaxRecords \in Nat
  BY MaxRecordsAssumption
<1>5. \A h \in {inflight, pending, disk} : Ordered(h) /\ Past(h, recorded')
  BY <1>1, <1>4, PastGrows DEF HistoryInv, SnapshotsAreLists
<1>6. CASE writer # "idle"
  <2>1. dirty' = TRUE /\ pending' = g /\ writer' = writer /\ inflight' = inflight
    BY <1>6 DEF Persist
  <2>2. HistoryTypeOK'
    BY <1>1, <1>2, <2>1 DEF HistoryTypeOK, Lists
  <2>3. SnapshotsAreLists'
    BY <1>2, <1>5, <2>1 DEF SnapshotsAreLists
  <2>4. SnapshotsFollow'
    BY <1>2, <1>3, <2>1 DEF SnapshotsFollow, HistoryInv
  <2>5. store
    BY <1>6
  <2>6. AskedIsUnderWay'
    BY <1>2, <1>6, <2>1, <2>5 DEF AskedIsUnderWay, HistoryInv
  <2> QED
    BY <2>2, <2>3, <2>4, <2>6 DEF HistoryInv, StorelessIsEmpty
<1>7. CASE writer = "idle"
  <2>1. dirty' = FALSE /\ pending' = pending /\ writer' = "writing" /\ inflight' = g
    BY <1>7 DEF Persist, Launch
  <2>2. HistoryTypeOK'
    BY <1>1, <1>2, <2>1 DEF HistoryTypeOK, Lists
  <2>3. SnapshotsAreLists'
    BY <1>2, <1>5, <2>1 DEF SnapshotsAreLists
  <2>4. SnapshotsFollow'
    BY <1>2, <1>3, <2>1 DEF SnapshotsFollow
  <2>5. AskedIsUnderWay'
    BY <1>2, <2>1 DEF AskedIsUnderWay
  <2> QED
    BY <2>2, <2>3, <2>4, <2>5 DEF HistoryInv, StorelessIsEmpty
<1> QED
  BY <1>6, <1>7

\* What eviction leaves of a list that may follow the others may follow them.
LEMMA EvictedKeeps ==
  ASSUME NEW h \in Lists, NEW c \in Configs, NEW old, Ordered(h)
  PROVE  LET g == Evicted(h, c, old) IN
         /\ g \in Lists /\ Ordered(g) /\ Len(g) <= c.max
         /\ \A n : Past(h, n) => Past(g, n)
         /\ \A a : Follows(h, a) => Follows(g, a)
         /\ UnreadIn(g) \in 0..MaxRecords
         /\ ~Evicts(h, c, old) => g = h
<1> DEFINE g == Evicted(h, c, old)
<1>1. /\ g \in Lists /\ PartOf(g, h) /\ Len(g) <= c.max
      /\ ~Evicts(h, c, old) => g = h
  BY EvictedProperties
<1> HIDE DEF g
<1>2. /\ Ordered(g)
      /\ \A n : Past(h, n) => Past(g, n)
      /\ \A a : Follows(h, a) => Follows(g, a)
  BY <1>1, PartOfKeeps
<1>3. UnreadIn(g) \in 0..MaxRecords
  BY <1>1, <1>2, UnreadIsInRange
<1> QED
  BY <1>1, <1>2, <1>3 DEF g

\* The constructor.
LEMMA StartStep ==
  ASSUME HistoryInv, NEW c \in Configs, Start(c)
  PROVE  HistoryInv'
<1> DEFINE loaded == IF c.enabled THEN disk ELSE <<>>
           e == Evicted(loaded, c, aged)
           g == AllRead(e)
<1>1. /\ ~running /\ running' = TRUE /\ config' = c /\ store' = c.enabled /\ unread' = 0
      /\ history' = g /\ recorded' = recorded /\ aged' = aged
      /\ \/ Evicts(loaded, c, aged) /\ Persist(g)
         \/ /\ ~Evicts(loaded, c, aged) /\ asked' = disk
            /\ UNCHANGED <<writer, inflight, dirty, pending, disk, failed>>
  BY DEF Start
<1>2. /\ disk \in Lists /\ recorded \in 0..MaxRecords /\ aged \in 0..recorded /\ recorded \in Nat
      /\ ~store /\ writer = "idle" /\ ~dirty /\ Ordered(disk) /\ Past(disk, recorded) /\ 0 \in 0..MaxRecords
      /\ c.enabled \in BOOLEAN
  BY <1>1, MaxRecordsAssumption DEF HistoryInv, HistoryTypeOK, Lists, SnapshotsAreLists, AskedIsUnderWay, StorelessIsEmpty, Configs
<1>3. loaded \in Lists /\ Ordered(loaded) /\ Past(loaded, recorded) /\ Follows(loaded, disk)
  <2>1. Follows(disk, disk)
    BY <1>2, FollowsItself
  <2> QED
    BY <1>2, <2>1, EmptyList
<1> HIDE DEF loaded
<1>4. /\ e \in Lists /\ Ordered(e) /\ Len(e) <= c.max /\ Past(e, recorded) /\ Follows(e, disk)
      /\ ~Evicts(loaded, c, aged) => e = loaded
  BY <1>3, EvictedKeeps
<1> HIDE DEF e
<1>5. /\ g \in Lists /\ Ordered(g) /\ Len(g) <= c.max /\ Past(g, recorded) /\ Follows(g, disk)
      /\ Serials(g) = Serials(e)
  <2>1. g \in Lists /\ Len(g) = Len(e)
    BY <1>4, AllReadProperties
  <2>2. /\ Ordered(g) /\ Past(g, recorded) /\ Follows(g, disk)
        /\ Serials(g) = Serials(e)
    BY <1>4, AllReadKeeps
  <2> QED
    BY <1>4, <2>1, <2>2
<1> HIDE DEF g
<1>6. CASE c.enabled /\ Evicts(loaded, c, aged)
  BY <1>1, <1>2, <1>5, <1>6, PersistStep
<1>7. CASE ~c.enabled
  <2>1. loaded = <<>> /\ Len(loaded) = 0
    BY <1>7, EmptyList DEF loaded
  <2>2. Len(e) = 0 /\ ~Evicts(loaded, c, aged)
    <3>1. /\ Len(Evicted(loaded, c, aged)) \in Nat
          /\ \E f \in [1..Len(Evicted(loaded, c, aged)) -> 1..Len(loaded)] : TRUE
      BY <1>3, EvictedProperties, ListFacts DEF PartOf
    <3>2. Len(Evicted(loaded, c, aged)) = 0
      <4> SUFFICES ASSUME Len(Evicted(loaded, c, aged)) # 0 PROVE FALSE
        OBVIOUS
      <4>1. 1 \in 1..Len(Evicted(loaded, c, aged)) /\ 1..Len(loaded) = {}
        BY <2>1, <3>1
      <4> QED
        BY <3>1, <4>1
    <3> QED
      BY <2>1, <3>2 DEF Evicts, e
  <2>3. g = <<>>
    <3>1. g \in Lists /\ Len(g) = 0
      BY <1>4, <2>2, AllReadProperties DEF g
    <3> QED
      BY <3>1, EmptySeq DEF Lists
  <2>4. /\ asked' = disk /\ history' = <<>> /\ ~store'
        /\ UNCHANGED <<writer, inflight, dirty, pending, disk, failed>>
    BY <1>1, <1>7, <2>2, <2>3
  <2>5. HistoryTypeOK'
    BY <1>1, <1>2, <1>5, <2>4 DEF HistoryTypeOK, HistoryInv, Lists
  <2>6. SnapshotsAreLists'
    BY <1>1, <1>5, <2>4 DEF SnapshotsAreLists, HistoryInv
  <2> QED
    BY <1>1, <1>2, <1>5, <2>4, <2>5, <2>6 DEF HistoryInv, SnapshotsFollow, AskedIsUnderWay, StorelessIsEmpty
<1>8. CASE c.enabled /\ ~Evicts(loaded, c, aged)
  <2>1. /\ asked' = disk /\ history' = g /\ store' = TRUE
        /\ UNCHANGED <<writer, inflight, dirty, pending, disk, failed>>
    BY <1>1, <1>8
  <2>2. Serials(g) = Serials(disk)
    BY <1>4, <1>5, <1>8 DEF loaded
  <2>3. HistoryTypeOK'
    BY <1>1, <1>2, <1>5, <2>1 DEF HistoryTypeOK, HistoryInv, Lists
  <2>4. SnapshotsAreLists'
    BY <1>1, <1>2, <1>5, <2>1 DEF SnapshotsAreLists, HistoryInv
  <2>5. SnapshotsFollow'
    BY <1>2, <1>5, <2>1 DEF SnapshotsFollow
  <2>6. AskedIsUnderWay'
    BY <1>1, <1>2, <2>1, <2>2 DEF AskedIsUnderWay
  <2> QED
    BY <1>1, <1>5, <2>1, <2>3, <2>4, <2>5, <2>6 DEF HistoryInv, StorelessIsEmpty
<1> QED
  BY <1>1, <1>6, <1>7, <1>8

LEMMA CloseNotificationStep ==
  ASSUME HistoryInv, CloseNotification
  PROVE  HistoryInv'
<1> DEFINE h == Append(history, [serial |-> recorded + 1, read |-> FALSE])
           g == Evicted(h, config, aged)
<1>1. /\ running /\ config.enabled /\ store /\ recorded < MaxRecords /\ recorded' = recorded + 1
      /\ history' = g /\ unread' = UnreadIn(g) /\ Persist(g)
      /\ running' = running /\ config' = config /\ store' = store /\ aged' = aged
  BY DEF CloseNotification
<1>2. /\ history \in Lists /\ disk \in Lists /\ inflight \in Lists /\ config \in Configs
      /\ running \in BOOLEAN /\ store \in BOOLEAN
      /\ recorded \in Nat /\ MaxRecords \in Nat /\ aged \in 0..recorded
  BY MaxRecordsAssumption DEF HistoryInv, HistoryTypeOK, Lists
<1>3. \A s \in {history, inflight, disk} : Ordered(s) /\ Past(s, recorded)
  BY DEF HistoryInv, SnapshotsAreLists
<1>4. Follows(history, disk) /\ (writer = "writing" => Follows(history, inflight))
  BY <1>1 DEF HistoryInv, SnapshotsFollow
<1>5. /\ h \in Lists /\ Ordered(h) /\ Past(h, recorded + 1)
      /\ \A a \in Lists : Past(a, recorded) /\ Follows(history, a) => Follows(h, a)
  BY <1>1, <1>2, <1>3, AppendKeeps
<1> HIDE DEF h
<1>6. Follows(h, disk) /\ (writer = "writing" => Follows(h, inflight))
  BY <1>2, <1>3, <1>4, <1>5
<1>7. /\ g \in Lists /\ Ordered(g) /\ Len(g) <= config.max
      /\ \A n : Past(h, n) => Past(g, n)
      /\ \A a : Follows(h, a) => Follows(g, a)
      /\ UnreadIn(g) \in 0..MaxRecords
  BY <1>2, <1>5, EvictedKeeps
<1> HIDE DEF g
<1>8. /\ Past(g, recorded') /\ Follows(g, disk) /\ (writer = "writing" => Follows(g, inflight))
  BY <1>1, <1>5, <1>6, <1>7
<1>9. recorded' \in 0..MaxRecords /\ recorded <= recorded' /\ aged' \in 0..recorded'
  BY <1>1, <1>2
<1> QED
  BY <1>1, <1>2, <1>7, <1>8, <1>9, PersistStep

LEMMA SidebarOpenedStep ==
  ASSUME HistoryInv, SidebarOpened
  PROVE  HistoryInv'
<1> DEFINE g == AllRead(history)
<1>1. /\ running /\ unread # 0 /\ history' = g /\ unread' = 0
      /\ store => Persist(g)
      /\ running' = running /\ config' = config /\ store' = store
      /\ recorded' = recorded /\ aged' = aged
  BY DEF SidebarOpened
<1>2. store
  BY <1>1 DEF HistoryInv, StorelessIsEmpty
<1>3. /\ history \in Lists /\ config \in Configs /\ running \in BOOLEAN /\ store \in BOOLEAN
      /\ recorded \in 0..MaxRecords /\ recorded \in Nat /\ MaxRecords \in Nat /\ aged \in 0..recorded
      /\ Len(history) <= config.max /\ Ordered(history) /\ Past(history, recorded)
      /\ Follows(history, disk) /\ (writer = "writing" => Follows(history, inflight))
  BY <1>1, <1>2, MaxRecordsAssumption DEF HistoryInv, HistoryTypeOK, Lists, SnapshotsAreLists, SnapshotsFollow
<1>4. g \in Lists /\ Len(g) = Len(history)
  BY <1>3, AllReadProperties
<1>5. /\ Ordered(g) /\ Past(g, recorded) /\ Follows(g, disk)
      /\ writer = "writing" => Follows(g, inflight)
  BY <1>3, AllReadKeeps
<1> HIDE DEF g
<1>6. 0 \in 0..MaxRecords /\ recorded <= recorded
  BY <1>3
<1> QED
  BY <1>1, <1>2, <1>3, <1>4, <1>5, <1>6, PersistStep

LEMMA HistoryConfigChangedStep ==
  ASSUME HistoryInv, NEW c \in Configs, NEW old \in 0..MaxRecords, HistoryConfigChanged(c, old)
  PROVE  HistoryInv'
<1> DEFINE h == IF c.enabled /\ ~store THEN disk ELSE history
           g == Evicted(h, c, old)
<1>1. /\ running /\ old <= recorded /\ config' = c /\ aged' = old /\ store' = (store \/ c.enabled)
      /\ \/ /\ Evicts(h, c, old) /\ history' = g /\ unread' = UnreadIn(g) /\ Persist(g)
         \/ ~Evicts(h, c, old) /\ history' = h /\ UNCHANGED <<unread, files>>
      /\ running' = running /\ recorded' = recorded
  BY DEF HistoryConfigChanged
<1>2. /\ history \in Lists /\ disk \in Lists /\ running \in BOOLEAN /\ store \in BOOLEAN /\ c.enabled \in BOOLEAN
      /\ recorded \in 0..MaxRecords /\ recorded \in Nat /\ MaxRecords \in Nat /\ old \in 0..recorded
  BY <1>1, MaxRecordsAssumption DEF HistoryInv, HistoryTypeOK, Lists, Configs
<1>3. \A s \in {history, inflight, disk} : Ordered(s) /\ Past(s, recorded)
  BY DEF HistoryInv, SnapshotsAreLists
<1>4. ~store => history = <<>> /\ writer = "idle" /\ ~dirty /\ disk = asked
  BY <1>1 DEF HistoryInv, StorelessIsEmpty, AskedIsUnderWay
<1>5. /\ h \in Lists /\ Ordered(h) /\ Past(h, recorded) /\ Follows(h, disk)
      /\ writer = "writing" => Follows(h, inflight)
  <2>1. Follows(disk, disk) /\ Follows(<<>>, disk)
    BY <1>2, <1>3, FollowsItself, EmptyList
  <2> QED
    BY <1>2, <1>3, <1>4, <2>1 DEF HistoryInv, SnapshotsFollow
<1> HIDE DEF h
<1>6. /\ g \in Lists /\ Ordered(g) /\ Len(g) <= c.max
      /\ \A n : Past(h, n) => Past(g, n)
      /\ \A a : Follows(h, a) => Follows(g, a)
      /\ UnreadIn(g) \in 0..MaxRecords
      /\ ~Evicts(h, c, old) => g = h
  BY <1>5, EvictedKeeps
<1> HIDE DEF g
<1>7. CASE Evicts(h, c, old)
  <2>1. store \/ c.enabled
    <3> SUFFICES ASSUME ~store, ~c.enabled PROVE FALSE
      OBVIOUS
    <3>1. h = <<>>
      BY <1>4 DEF h
    <3>2. Len(g) = Len(h)
      <4>1. PartOf(g, h) /\ Len(g) \in Nat /\ Len(h) = 0
        BY <1>5, <1>6, <3>1, EvictedProperties, ListFacts, EmptyList DEF g
      <4>2. Len(g) # 0 => 1 \in 1..Len(g) /\ 1..Len(h) = {}
        BY <4>1
      <4> QED
        BY <4>1, <4>2 DEF PartOf
    <3> QED
      BY <1>7, <3>2 DEF Evicts, g
  <2>2. /\ Past(g, recorded') /\ Follows(g, disk) /\ (writer = "writing" => Follows(g, inflight))
        /\ recorded <= recorded'
    BY <1>1, <1>2, <1>5, <1>6
  <2> QED
    BY <1>1, <1>2, <1>4, <1>6, <1>7, <2>1, <2>2, PersistStep
<1>8. CASE ~Evicts(h, c, old)
  <2>1. /\ history' = h /\ Len(h) <= c.max
        /\ UNCHANGED <<unread, writer, inflight, dirty, pending, disk, asked, failed>>
    BY <1>1, <1>6, <1>8 DEF files
  <2>2. HistoryTypeOK'
    BY <1>1, <1>2, <1>5, <2>1 DEF HistoryTypeOK, HistoryInv, Lists
  <2>3. SnapshotsAreLists'
    BY <1>1, <1>5, <2>1 DEF SnapshotsAreLists, HistoryInv
  <2>4. CASE store
    <3>1. history' = history /\ store' = TRUE
      BY <1>1, <2>1, <2>4 DEF h
    <3>2. SnapshotsFollow' /\ AskedIsUnderWay'
      BY <1>1, <2>1, <2>4, <3>1 DEF HistoryInv, SnapshotsFollow, AskedIsUnderWay
    <3> QED
      BY <1>1, <2>1, <2>2, <2>3, <3>1, <3>2 DEF HistoryInv, StorelessIsEmpty
  <2>5. CASE ~store /\ c.enabled
    <3>1. history' = disk /\ store' = TRUE
      BY <1>1, <2>1, <2>5 DEF h
    <3>2. SnapshotsFollow' /\ AskedIsUnderWay'
      BY <1>1, <1>4, <1>5, <2>1, <2>5, <3>1 DEF HistoryInv, SnapshotsFollow, AskedIsUnderWay
    <3> QED
      BY <1>1, <2>1, <2>2, <2>3, <3>1, <3>2 DEF HistoryInv, StorelessIsEmpty
  <2>6. CASE ~store /\ ~c.enabled
    <3>1. history' = history /\ store' = FALSE
      BY <1>1, <2>1, <2>6 DEF h
    <3>2. SnapshotsFollow' /\ AskedIsUnderWay' /\ StorelessIsEmpty'
      BY <1>1, <1>4, <2>1, <2>6, <3>1 DEF HistoryInv, SnapshotsFollow, AskedIsUnderWay, StorelessIsEmpty
    <3> QED
      BY <1>1, <2>1, <2>2, <2>3, <3>1, <3>2 DEF HistoryInv
  <2> QED
    BY <1>2, <2>4, <2>5, <2>6
<1> QED
  BY <1>7, <1>8

LEMMA WriterRunsStep ==
  ASSUME HistoryInv, NEW ok \in BOOLEAN, WriterRuns(ok)
  PROVE  HistoryInv'
<1>1. /\ running /\ writer = "writing" /\ writer' = "done"
      /\ disk' = (IF ok THEN inflight ELSE disk) /\ failed' = ~ok
      /\ UNCHANGED <<running, config, store, history, unread, inflight, dirty, pending, asked, recorded, aged>>
  BY DEF WriterRuns, main
<1>2. HistoryTypeOK'
  BY <1>1 DEF HistoryTypeOK, HistoryInv
<1>3. SnapshotsAreLists'
  BY <1>1 DEF SnapshotsAreLists, HistoryInv
<1>4. SnapshotsFollow'
  BY <1>1 DEF SnapshotsFollow, HistoryInv
<1>5. AskedIsUnderWay' /\ StorelessIsEmpty'
  BY <1>1 DEF AskedIsUnderWay, StorelessIsEmpty, HistoryInv
<1> QED
  BY <1>1, <1>2, <1>3, <1>4, <1>5 DEF HistoryInv

LEMMA WriteFinishedStep ==
  ASSUME HistoryInv, WriteFinished
  PROVE  HistoryInv'
<1> DEFINE h == Evicted(history, config, aged)
<1>1. /\ running /\ writer = "done"
      /\ UNCHANGED <<running, config, store, disk, failed, recorded, aged>>
      /\ \/ /\ Evicts(history, config, aged) /\ history' = h /\ unread' = UnreadIn(h)
            /\ asked' = h /\ Launch(h) /\ UNCHANGED pending
         \/ /\ ~Evicts(history, config, aged) /\ dirty /\ Launch(pending) /\ pending' = <<>>
            /\ UNCHANGED <<history, unread, asked>>
         \/ /\ ~Evicts(history, config, aged) /\ ~dirty /\ writer' = "idle"
            /\ UNCHANGED <<history, unread, inflight, dirty, pending, asked>>
  BY DEF WriteFinished
<1>2. store
  BY <1>1 DEF HistoryInv, StorelessIsEmpty
<1>3. /\ history \in Lists /\ pending \in Lists /\ config \in Configs /\ Ordered(history) /\ Past(history, recorded)
      /\ Follows(history, disk) /\ Len(history) <= config.max
  BY <1>1, <1>2 DEF HistoryInv, HistoryTypeOK, Lists, SnapshotsAreLists, SnapshotsFollow
<1>4. /\ h \in Lists /\ Ordered(h) /\ Len(h) <= config.max /\ UnreadIn(h) \in 0..MaxRecords
      /\ Past(h, recorded) /\ Follows(h, disk) /\ Follows(h, h)
  BY <1>3, EvictedKeeps, FollowsItself
<1> HIDE DEF h
<1>5. CASE history' = h /\ unread' = UnreadIn(h) /\ asked' = h /\ Launch(h) /\ UNCHANGED pending
  <2>1. writer' = "writing" /\ inflight' = h /\ dirty' = FALSE
    BY <1>5 DEF Launch
  <2>2. HistoryTypeOK'
    BY <1>1, <1>4, <1>5, <2>1 DEF HistoryTypeOK, HistoryInv, Lists
  <2>3. SnapshotsAreLists'
    BY <1>1, <1>4, <1>5, <2>1 DEF SnapshotsAreLists, HistoryInv
  <2>4. SnapshotsFollow' /\ AskedIsUnderWay' /\ StorelessIsEmpty'
    BY <1>1, <1>2, <1>4, <1>5, <2>1 DEF SnapshotsFollow, AskedIsUnderWay, StorelessIsEmpty
  <2> QED
    BY <1>1, <1>4, <1>5, <2>2, <2>3, <2>4 DEF HistoryInv
<1>6. CASE dirty /\ Launch(pending) /\ pending' = <<>> /\ UNCHANGED <<history, unread, asked>>
  <2>1. writer' = "writing" /\ inflight' = pending /\ dirty' = FALSE
    BY <1>6 DEF Launch
  <2>2. <<>> \in Seq(Entries) /\ Ordered(<<>>) /\ Past(<<>>, recorded)
    BY EmptyList DEF Lists
  <2>3. HistoryTypeOK'
    BY <1>1, <1>6, <2>1, <2>2 DEF HistoryTypeOK, HistoryInv
  <2>4. SnapshotsAreLists'
    BY <1>1, <1>6, <2>1, <2>2 DEF SnapshotsAreLists, HistoryInv
  <2>5. SnapshotsFollow' /\ AskedIsUnderWay' /\ StorelessIsEmpty'
    BY <1>1, <1>2, <1>6, <2>1 DEF SnapshotsFollow, AskedIsUnderWay, StorelessIsEmpty, HistoryInv
  <2> QED
    BY <1>1, <1>3, <1>6, <2>3, <2>4, <2>5 DEF HistoryInv
<1>7. CASE ~dirty /\ writer' = "idle" /\ UNCHANGED <<history, unread, inflight, dirty, pending, asked>>
  <2>1. HistoryTypeOK'
    BY <1>1, <1>7 DEF HistoryTypeOK, HistoryInv
  <2>2. SnapshotsAreLists'
    BY <1>1, <1>7 DEF SnapshotsAreLists, HistoryInv
  <2>3. SnapshotsFollow' /\ AskedIsUnderWay' /\ StorelessIsEmpty'
    BY <1>1, <1>2, <1>7 DEF SnapshotsFollow, AskedIsUnderWay, StorelessIsEmpty, HistoryInv
  <2> QED
    BY <1>1, <1>3, <1>7, <2>1, <2>2, <2>3 DEF HistoryInv
<1> QED
  BY <1>1, <1>5, <1>6, <1>7

LEMMA EndStep ==
  ASSUME HistoryInv, NEW commits \in BOOLEAN, End(commits)
  PROVE  HistoryInv'
<1>1. /\ running /\ running' = FALSE /\ (commits => writer = "writing")
      /\ disk' = (IF commits THEN inflight ELSE disk)
      /\ store' = FALSE /\ history' = <<>> /\ unread' = 0 /\ writer' = "idle"
      /\ inflight' = <<>> /\ dirty' = FALSE /\ pending' = <<>>
      /\ UNCHANGED <<config, asked, failed, recorded, aged>>
  BY DEF End
<1>2. <<>> \in Seq(Entries) /\ Ordered(<<>>) /\ Past(<<>>, recorded) /\ 0 \in 0..MaxRecords
  BY EmptyList, MaxRecordsAssumption DEF Lists
<1>3. HistoryTypeOK'
  BY <1>1, <1>2 DEF HistoryTypeOK, HistoryInv
<1>4. SnapshotsAreLists'
  BY <1>1, <1>2 DEF SnapshotsAreLists, HistoryInv
<1>5. SnapshotsFollow' /\ AskedIsUnderWay' /\ StorelessIsEmpty'
  BY <1>1 DEF SnapshotsFollow, AskedIsUnderWay, StorelessIsEmpty
<1> QED
  BY <1>1, <1>3, <1>4, <1>5 DEF HistoryInv

LEMMA HistoryStep == HistoryInv /\ [HistoryNext]_historyVars => HistoryInv'
<1> SUFFICES ASSUME HistoryInv, [HistoryNext]_historyVars PROVE HistoryInv'
  OBVIOUS
<1>1. CASE \E c \in Configs : Start(c)
  BY <1>1, StartStep
<1>2. CASE CloseNotification
  BY <1>2, CloseNotificationStep
<1>3. CASE SidebarOpened
  BY <1>3, SidebarOpenedStep
<1>4. CASE \E c \in Configs, old \in 0..MaxRecords : HistoryConfigChanged(c, old)
  BY <1>4, HistoryConfigChangedStep
<1>5. CASE \E ok \in BOOLEAN : WriterRuns(ok)
  BY <1>5, WriterRunsStep
<1>6. CASE WriteFinished
  BY <1>6, WriteFinishedStep
<1>7. CASE Age
  <2>1. /\ aged < recorded /\ aged' = aged + 1
        /\ UNCHANGED <<running, config, store, history, unread, writer, inflight, dirty, pending, disk, asked, failed, recorded>>
    BY <1>7 DEF Age, main, files
  <2>2. aged' \in 0..recorded
    BY <2>1, MaxRecordsAssumption DEF HistoryInv, HistoryTypeOK
  <2>3. HistoryTypeOK'
    BY <2>1, <2>2 DEF HistoryInv, HistoryTypeOK
  <2> QED
    BY <2>1, <2>3 DEF HistoryInv, SnapshotsAreLists, SnapshotsFollow, AskedIsUnderWay, StorelessIsEmpty
<1>8. CASE \E commits \in BOOLEAN : End(commits)
  BY <1>8, EndStep
<1>9. CASE UNCHANGED historyVars
  <2>1. UNCHANGED <<running, config, store, history, unread, writer, inflight, dirty, pending, disk, asked, failed, recorded, aged>>
    BY <1>9 DEF historyVars, main, files
  <2>2. HistoryTypeOK'
    BY <2>1 DEF HistoryInv, HistoryTypeOK
  <2> QED
    BY <2>1, <2>2 DEF HistoryInv, SnapshotsAreLists, SnapshotsFollow, AskedIsUnderWay, StorelessIsEmpty
<1> QED
  BY <1>1, <1>2, <1>3, <1>4, <1>5, <1>6, <1>7, <1>8, <1>9 DEF HistoryNext

\* What the user keeps of the notifications is bounded, in order, and once
\* nothing is under way the same on the disk as in memory, whatever fails, is
\* reconfigured or restarted before.
THEOREM HistoryIsSafe == HistorySpec => []HistoryIsKept
<1>1. HistoryInv => HistoryIsKept
  <2> SUFFICES ASSUME HistoryInv PROVE HistoryIsKept
    OBVIOUS
  <2>1. DOMAIN history = 1..Len(history)
    BY ListFacts DEF HistoryInv, HistoryTypeOK, Lists
  <2>2. HistoryIsBounded
    BY <2>1 DEF HistoryInv, SnapshotsAreLists, HistoryIsBounded, Ordered
  <2>3. QuietDiskIsCurrent
    BY DEF HistoryInv, AskedIsUnderWay, QuietDiskIsCurrent
  <2> QED
    BY <2>2, <2>3 DEF HistoryIsKept
<1> QED
  BY HistoryInitInv, HistoryStep, <1>1, PTL DEF HistorySpec

\* No snapshot reaches the file after a newer one: an evicted entry never comes
\* back on the disk and a read one never turns unread, through every crash.
THEOREM DiskGoesForward == HistorySpec => DiskNeverGoesBack
<1> DEFINE Step ==
      LET old == disk
          new == disk'
          seen == {s \in 1..MaxRecords : \E t \in Serials(old) : s <= t} IN
      /\ Serials(new) \cap seen \subseteq Serials(old)
      /\ \A s \in ReadIn(old) : s \in Serials(new) => s \in ReadIn(new)
<1>1. HistoryInv /\ HistoryInv' /\ [HistoryNext]_historyVars => Step
  <2> SUFFICES ASSUME HistoryInv, HistoryInv', [HistoryNext]_historyVars PROVE Step
    OBVIOUS
  <2>1. disk' = disk \/ (writer = "writing" /\ disk' = inflight)
    BY DEF HistoryNext, Start, CloseNotification, SidebarOpened, HistoryConfigChanged, WriterRuns,
           WriteFinished, Age, End, Persist, files, historyVars
  <2>2. disk \in Lists /\ disk' \in Lists /\ Ordered(disk)
    BY DEF HistoryInv, HistoryTypeOK, Lists, SnapshotsAreLists
  <2>3. Follows(disk', disk)
    BY <2>1, <2>2, FollowsItself DEF HistoryInv, SnapshotsFollow
  <2>4. DOMAIN disk = 1..Len(disk) /\ DOMAIN (disk') = 1..Len(disk')
    BY <2>2, ListFacts
  <2> DEFINE new == disk'
  <2>5. Follows(new, disk) /\ DOMAIN new = 1..Len(new)
    BY <2>3, <2>4
  <2> HIDE DEF new
  <2>6. \A i \in 1..Len(new) : new[i].serial \in Serials(new)
    BY <2>5 DEF Serials
  <2>7. ASSUME NEW s \in Serials(new), NEW t \in Serials(disk), s <= t PROVE s \in Serials(disk)
    BY <2>4, <2>5, <2>7 DEF Follows, Serials
  <2>8. ASSUME NEW s \in ReadIn(disk), s \in Serials(new) PROVE s \in ReadIn(new)
    BY <2>4, <2>5, <2>8 DEF Follows, Serials, ReadIn
  <2> QED
    BY <2>7, <2>8 DEF new
<1> QED
  BY HistoryInitInv, HistoryStep, <1>1, PTL DEF HistorySpec, DiskNeverGoesBack

(***************************************************************************)
(* The rules.                                                              *)
(***************************************************************************)

Rules == [app : RuleApps, enabled : BOOLEAN, filter : Filters, seen : Nat]

Stores == [writing : BOOLEAN, snapshot : Seq(Rules), dirty : BOOLEAN, pending : Seq(Rules), failed : BOOLEAN]

\* A list of rules, with one for each application at most.
Distinct(list) ==
  /\ list \in Seq(Rules)
  /\ \A i, j \in 1..Len(list) : list[i].app = list[j].app => i = j

\* What the filter lets through for a rule list.
LetsThrough(list, dnd, app, urgency) ==
  urgency = "critical" \/ (~dnd /\ \A i \in 1..Len(list) : list[i].app = app =>
                                     list[i].enabled /\ list[i].filter \notin {"both", urgency})

RulesInv ==
  /\ Distinct(ruleDisk) /\ Distinct(rules) /\ Distinct(ruleStore.snapshot) /\ Distinct(ruleStore.pending)
  /\ ruleStore \in Stores
  /\ ruleDnd \in BOOLEAN /\ ruleEdits \in 0..MaxEdits
  /\ ruleShown \subseteq RuleApps \X RuleUrgencies
  /\ Len(rules) <= MaxRules
  /\ IF ruleStore.dirty THEN ruleStore.pending = rules
     ELSE IF ruleStore.writing THEN ruleStore.snapshot = rules
     ELSE ruleStore.failed \/ ruleDisk = rules
  /\ \A shown \in ruleShown : LetsThrough(rules, ruleDnd, shown[1], shown[2])

LEMMA RulesFacts ==
  ASSUME NEW list, Distinct(list)
  PROVE  /\ Len(list) \in Nat /\ DOMAIN list = 1..Len(list)
         /\ list \in Seq(Rules)
         /\ \A i \in 1..Len(list) : list[i] \in Rules /\ list[i].app \in RuleApps
<1>1. list \in Seq(Rules)
  BY DEF Distinct
<1>2. Len(list) \in Nat /\ DOMAIN list = 1..Len(list) /\ list \in [1..Len(list) -> Rules]
  BY <1>1, LenProperties
<1> QED
  BY <1>1, <1>2 DEF Rules

LEMMA NoRules == Distinct(<<>>) /\ Len(<<>>) = 0
BY EmptySeq DEF Distinct

\* A list that loses rules stays one.
LEMMA SubSeqIsDistinct ==
  ASSUME NEW list, Distinct(list), NEW S \in SUBSET (1..Len(list))
  PROVE  /\ Distinct(SubSeqAt(list, S))
         /\ Len(SubSeqAt(list, S)) = Cardinality(S)
         /\ Len(SubSeqAt(list, S)) <= Len(list)
         /\ Len(SubSeqAt(list, S)) = Len(list) => SubSeqAt(list, S) = list
<1> DEFINE g == SubSeqAt(list, S)
<1>1. /\ list \in Seq(Rules) /\ Len(list) \in Nat
      /\ \A i, j \in 1..Len(list) : list[i].app = list[j].app => i = j
  BY RulesFacts DEF Distinct
<1>2. /\ g \in Seq(Rules) /\ Len(g) = Cardinality(S) /\ Cardinality(S) \in Nat /\ Cardinality(S) <= Len(list)
      /\ \A k \in 1..Len(g) : IndexAt(S, k) \in S /\ g[k] = list[IndexAt(S, k)]
      /\ \A k, l \in 1..Len(g) : k < l => IndexAt(S, k) < IndexAt(S, l)
      /\ Cardinality(S) = Len(list) => g = list
  BY <1>1, SubSeqAtProperties
<1> HIDE DEF g
<1>3. ASSUME NEW k \in 1..Len(g), NEW l \in 1..Len(g), g[k].app = g[l].app PROVE k = l
  <2>1. IndexAt(S, k) \in 1..Len(list) /\ IndexAt(S, l) \in 1..Len(list)
    BY <1>2
  <2>2. IndexAt(S, k) = IndexAt(S, l)
    BY <1>1, <1>2, <1>3, <2>1
  <2>3. IndexAt(S, k) \in Nat /\ ~(IndexAt(S, k) < IndexAt(S, k))
    BY <2>1
  <2>4. k < l \/ l < k \/ k = l
    BY <1>2
  <2> QED
    BY <1>2, <2>2, <2>3, <2>4
<1> QED
  BY <1>2, <1>3 DEF Distinct, g

\* There are no more than MaxRules rules with fewer than MaxRules newer ones:
\* the others are all newer than the one of them with the most.
LEMMA FewAreRecent ==
  ASSUME NEW list, Distinct(list)
  PROVE  Cardinality({i \in DOMAIN list : Cardinality(Newer(list, i)) < MaxRules}) <= MaxRules
<1> DEFINE S == {i \in DOMAIN list : Cardinality(Newer(list, i)) < MaxRules}
           count(i) == Cardinality(Newer(list, i))
<1>1. /\ Len(list) \in Nat /\ DOMAIN list = 1..Len(list) /\ MaxRules \in Nat
      /\ \A i \in 1..Len(list) : list[i].seen \in Nat
  BY RulesFacts, RuleBoundsAssumption DEF Rules
<1>2. S \in SUBSET (1..Len(list)) /\ IsFiniteSet(S) /\ Cardinality(S) \in Nat
  <2>1. S \in SUBSET (1..Len(list))
    BY <1>1
  <2> QED
    BY <1>1, <2>1, IndicesAreFinite
<1>3. \A i \in 1..Len(list) : /\ Newer(list, i) \in SUBSET (1..Len(list)) /\ IsFiniteSet(Newer(list, i))
                              /\ count(i) \in Nat
  <2>1. \A i \in 1..Len(list) : Newer(list, i) \in SUBSET (1..Len(list))
    BY <1>1 DEF Newer
  <2> QED
    BY <1>1, <2>1, IndicesAreFinite
<1> SUFFICES Cardinality(S) <= MaxRules
  OBVIOUS
<1>4. CASE S = {}
  <2> HIDE DEF S
  <2>1. Cardinality(S) = 0
    BY <1>4, FS_EmptySet
  <2> QED
    BY <1>1, <2>1
<1>5. CASE S # {}
  <2> DEFINE Slack == {MaxRules - count(i) : i \in S}
  <2>1. \A i \in S : count(i) \in Nat /\ count(i) < MaxRules
    BY <1>1, <1>3
  <2>2. Slack \subseteq Nat /\ Slack # {}
    <3> HIDE DEF count, S
    <3> QED
      BY <1>1, <1>5, <2>1
  <2>3. PICK a \in Slack : \A b \in Slack : a <= b
    BY <2>2, LeastOf
  <2>4. PICK i \in S : a = MaxRules - count(i)
    BY <2>3
  <2>5. \A j \in S : count(j) <= count(i)
    <3> HIDE DEF count, S
    <3> TAKE j \in S
    <3>1. MaxRules - count(j) \in Slack
      OBVIOUS
    <3> QED
      BY <1>1, <2>1, <2>3, <2>4, <3>1
  <2>6. ASSUME NEW j \in S, j # i PROVE j \in Newer(list, i)
    <3> SUFFICES ASSUME j \notin Newer(list, i) PROVE FALSE
      OBVIOUS
    <3>1. /\ i \in 1..Len(list) /\ j \in 1..Len(list) /\ i \in Nat /\ j \in Nat
          /\ list[i].seen \in Nat /\ list[j].seen \in Nat
      BY <1>1
    <3>2. list[i].seen > list[j].seen \/ (list[i].seen = list[j].seen /\ i > j)
      BY <1>1, <2>6, <3>1 DEF Newer
    <3>3. i \in Newer(list, j) /\ i \notin Newer(list, i)
      BY <1>1, <3>1, <3>2 DEF Newer
    <3>4. Newer(list, i) \subseteq Newer(list, j)
      <4> SUFFICES ASSUME NEW l \in Newer(list, i) PROVE l \in Newer(list, j)
        OBVIOUS
      <4>1. l \in 1..Len(list) /\ list[l].seen \in Nat /\ l \in Nat
            /\ (list[l].seen > list[i].seen \/ (list[l].seen = list[i].seen /\ l > i))
        BY <1>1 DEF Newer
      <4>2. list[l].seen > list[j].seen \/ (list[l].seen = list[j].seen /\ l > j)
        BY <3>1, <3>2, <4>1
      <4> QED
        BY <1>1, <4>1, <4>2 DEF Newer
    <3>5. count(i) <= count(j) /\ (count(i) = count(j) => Newer(list, i) = Newer(list, j))
      BY <1>3, <3>1, <3>4, FS_Subset
    <3>6. count(j) <= count(i) /\ count(i) \in Nat /\ count(j) \in Nat
      BY <1>3, <2>5, <3>1
    <3> HIDE DEF count
    <3> QED
      BY <3>3, <3>5, <3>6
  <2>7. S \ {i} \subseteq Newer(list, i) /\ i \in 1..Len(list)
    BY <2>6, <1>1
  <2>8. Cardinality(S \ {i}) <= count(i)
    BY <1>3, <2>7, FS_Subset
  <2>9. Cardinality(S \ {i}) = Cardinality(S) - 1
    BY <1>2, FS_RemoveElement
  <2>10. count(i) \in Nat /\ count(i) < MaxRules
    BY <2>1
  <2> HIDE DEF S, count
  <2> QED
    BY <1>1, <1>2, <2>8, <2>9, <2>10
<1> QED
  BY <1>4, <1>5

\* What is loaded of the rules written: few enough, and all of them if none went.
LEMMA LoadedProperties ==
  ASSUME NEW written, Distinct(written), NEW gone
  PROVE  /\ Distinct(Loaded(written, gone))
         /\ Len(Loaded(written, gone)) <= MaxRules
         /\ Len(Loaded(written, gone)) = Len(written) => Loaded(written, gone) = written
<1> DEFINE S == {i \in DOMAIN written : written[i].app \notin gone}
           kept == SubSeqAt(written, S)
           R == {i \in DOMAIN kept : Cardinality(Newer(kept, i)) < MaxRules}
           g == SubSeqAt(kept, R)
<1>1. Len(written) \in Nat /\ S \in SUBSET (1..Len(written))
  BY RulesFacts
<1> HIDE DEF S
<1>2. /\ Distinct(kept) /\ Len(kept) <= Len(written)
      /\ Len(kept) = Len(written) => kept = written
  BY <1>1, SubSeqIsDistinct
<1> HIDE DEF kept
<1>3. Len(kept) \in Nat /\ R \in SUBSET (1..Len(kept)) /\ Cardinality(R) <= MaxRules
  BY <1>2, RulesFacts, FewAreRecent
<1> HIDE DEF R
<1>4. /\ Distinct(g) /\ Len(g) = Cardinality(R) /\ Len(g) <= Len(kept)
      /\ Len(g) = Len(kept) => g = kept
  BY <1>2, <1>3, SubSeqIsDistinct
<1> HIDE DEF g
<1>5. Loaded(written, gone) = g
  BY DEF Loaded, Bounded, g, R, kept, S
<1>6. Len(g) \in Nat
  BY <1>4, RulesFacts
<1> QED
  BY <1>1, <1>2, <1>3, <1>4, <1>5, <1>6

\* The store has the snapshot it is given, in flight or waiting.
LEMMA PersistRulesProperties ==
  ASSUME NEW s \in Stores, NEW list \in Seq(Rules)
  PROVE  /\ PersistRules(s, list) \in Stores
         /\ PersistRules(s, list).writing = TRUE
         /\ PersistRules(s, list).failed = s.failed
         /\ PersistRules(s, list).dirty = s.writing
         /\ s.writing => PersistRules(s, list).pending = list /\ PersistRules(s, list).snapshot = s.snapshot
         /\ ~s.writing => PersistRules(s, list).snapshot = list /\ PersistRules(s, list).pending = s.pending
BY DEF PersistRules, Stores

\* The rule of an application, if there is one, is the only one.
LEMMA RowIsUnique ==
  ASSUME NEW list, Distinct(list), NEW app
  PROVE  /\ RowOf(list, app) \in 0..Len(list)
         /\ RowOf(list, app) # 0 => list[RowOf(list, app)].app = app
         /\ \A i \in 1..Len(list) : list[i].app = app => RowOf(list, app) = i
<1>1. Len(list) \in Nat /\ DOMAIN list = 1..Len(list)
  BY RulesFacts
<1>2. CASE \E i \in DOMAIN list : list[i].app = app
  <2>1. RowOf(list, app) \in DOMAIN list /\ list[RowOf(list, app)].app = app
    BY <1>2 DEF RowOf
  <2> QED
    BY <1>1, <2>1 DEF Distinct
<1>3. CASE ~\E i \in DOMAIN list : list[i].app = app
  BY <1>1, <1>3 DEF RowOf
<1> QED
  BY <1>2, <1>3

\* A notification's application has its rule at the end, or the list is full
\* and as it was; what the rules let through changes for no application.
LEMMA EnsuredProperties ==
  ASSUME NEW list, Distinct(list), Len(list) <= MaxRules, NEW app \in RuleApps, NEW now \in Nat
  PROVE  /\ Distinct(Ensured(list, app, now))
         /\ Len(Ensured(list, app, now)) <= MaxRules
         /\ RowOf(Ensured(list, app, now), app) = 0 => Ensured(list, app, now) = list
         /\ \A dnd \in BOOLEAN, a \in RuleApps, u \in RuleUrgencies :
              LetsThrough(list, dnd, a, u) => LetsThrough(Ensured(list, app, now), dnd, a, u)
<1> DEFINE row == RowOf(list, app)
           new == [app |-> app, enabled |-> TRUE, filter |-> "none", seen |-> now]
           g == Ensured(list, app, now)
<1>1. /\ list \in Seq(Rules) /\ Len(list) \in Nat /\ MaxRules \in Nat
      /\ \A i \in 1..Len(list) : list[i] \in Rules
      /\ \A i, j \in 1..Len(list) : list[i].app = list[j].app => i = j
  BY RulesFacts, RuleBoundsAssumption DEF Distinct
<1>2. /\ row \in 0..Len(list)
      /\ row # 0 => list[row].app = app
      /\ \A i \in 1..Len(list) : list[i].app = app => row = i
  BY RowIsUnique
<1>3. g = IF row # 0 THEN [list EXCEPT ![row].seen = now]
          ELSE IF Len(list) >= MaxRules THEN list ELSE Append(list, new)
  BY DEF Ensured
<1>4. new \in Rules /\ new.app = app /\ new.enabled = TRUE /\ new.filter = "none"
  BY DEF Rules, Filters
<1> HIDE DEF row, new, g
<1>5. CASE row # 0
  <2> DEFINE rule == [list[row] EXCEPT !.seen = now]
  <2>1. row \in 1..Len(list) /\ list[row] \in Rules
    BY <1>1, <1>2, <1>5
  <2>2. rule \in Rules /\ rule.app = list[row].app /\ rule.enabled = list[row].enabled /\ rule.filter = list[row].filter
    BY <2>1 DEF Rules
  <2>3. g = [list EXCEPT ![row] = rule]
    BY <1>3, <1>5
  <2> HIDE DEF rule
  <2>4. g \in Seq(Rules) /\ Len(g) = Len(list) /\ \A i \in 1..Len(g) : g[i] = IF i = row THEN rule ELSE list[i]
    BY <1>1, <2>1, <2>2, <2>3, ExceptSeq
  <2>5. \A i \in 1..Len(g) : g[i].app = list[i].app /\ g[i].enabled = list[i].enabled /\ g[i].filter = list[i].filter
    BY <2>2, <2>4
  <2>6. Distinct(g)
    BY <1>1, <2>4, <2>5 DEF Distinct
  <2>7. RowOf(g, app) # 0
    BY <1>2, <1>5, <2>1, <2>4, <2>5, <2>6, RowIsUnique
  <2>8. \A dnd \in BOOLEAN, a \in RuleApps, u \in RuleUrgencies :
          LetsThrough(list, dnd, a, u) => LetsThrough(g, dnd, a, u)
    BY <2>4, <2>5 DEF LetsThrough
  <2> QED
    BY <2>4, <2>6, <2>7, <2>8 DEF g
<1>6. CASE row = 0 /\ Len(list) >= MaxRules
  BY <1>3, <1>6 DEF g
<1>7. CASE row = 0 /\ ~(Len(list) >= MaxRules)
  <2>1. /\ g \in Seq(Rules) /\ Len(g) = Len(list) + 1 /\ g[Len(list) + 1] = new
        /\ \A i \in 1..Len(list) : g[i] = list[i]
    BY <1>1, <1>3, <1>4, <1>7, AppendProperties
  <2>2. \A i \in 1..Len(g) : i \in 1..Len(list) \/ i = Len(list) + 1
    BY <1>1, <2>1
  <2>3. \A i \in 1..Len(list) : list[i].app # app
    BY <1>1, <1>2, <1>7
  <2>4. ASSUME NEW i \in 1..Len(g), NEW j \in 1..Len(g), g[i].app = g[j].app PROVE i = j
    BY <1>1, <1>4, <2>1, <2>2, <2>3, <2>4
  <2>5. Distinct(g)
    BY <2>1, <2>4 DEF Distinct
  <2>6. Len(list) + 1 \in 1..Len(g) /\ g[Len(list) + 1].app = app
    BY <1>1, <1>4, <2>1
  <2>7. RowOf(g, app) # 0
    <3>1. RowOf(g, app) = Len(list) + 1
      BY <2>5, <2>6, RowIsUnique
    <3> QED
      BY <1>1, <3>1
  <2>8. ASSUME NEW dnd \in BOOLEAN, NEW a \in RuleApps, NEW u \in RuleUrgencies, LetsThrough(list, dnd, a, u)
        PROVE  LetsThrough(g, dnd, a, u)
    <3>1. u # "none"
      BY DEF RuleUrgencies
    <3>2. \A i \in 1..Len(g) : (i \in 1..Len(list) /\ g[i] = list[i]) \/ (g[i].enabled = TRUE /\ g[i].filter = "none")
      BY <1>4, <2>1, <2>2
    <3> QED
      BY <2>8, <3>1, <3>2 DEF LetsThrough
  <2>9. Len(g) <= MaxRules
    BY <1>1, <1>7, <2>1
  <2> QED
    BY <2>5, <2>7, <2>8, <2>9 DEF g
<1> QED
  BY <1>5, <1>6, <1>7

\* What is not suppressed is let through.
LEMMA NotSuppressedIsLetThrough ==
  ASSUME NEW list, Distinct(list), NEW dnd \in BOOLEAN, NEW app, NEW urgency, ~Suppressed(list, dnd, app, urgency)
  PROVE  LetsThrough(list, dnd, app, urgency)
<1>1. /\ RowOf(list, app) \in 0..Len(list)
      /\ \A i \in 1..Len(list) : list[i].app = app => RowOf(list, app) = i
      /\ Len(list) \in Nat
  BY RowIsUnique, RulesFacts
<1> QED
  BY <1>1 DEF Suppressed, LetsThrough

LEMMA RestIsAStore ==
  /\ StoreAtRest \in Stores /\ Distinct(StoreAtRest.snapshot) /\ Distinct(StoreAtRest.pending)
  /\ StoreAtRest.writing = FALSE /\ StoreAtRest.dirty = FALSE /\ StoreAtRest.failed = FALSE
BY NoRules, EmptySeq DEF StoreAtRest, Stores

\* A store that is given the rules has them last, and only rules.
LEMMA PersistedIsLatest ==
  ASSUME NEW s \in Stores, Distinct(s.snapshot), Distinct(s.pending), NEW list, Distinct(list)
  PROVE  /\ PersistRules(s, list) \in Stores
         /\ Distinct(PersistRules(s, list).snapshot) /\ Distinct(PersistRules(s, list).pending)
         /\ IF PersistRules(s, list).dirty THEN PersistRules(s, list).pending = list
            ELSE PersistRules(s, list).writing /\ PersistRules(s, list).snapshot = list
<1>1. list \in Seq(Rules) /\ s.writing \in BOOLEAN
  BY DEF Distinct, Stores
<1> DEFINE p == PersistRules(s, list)
<1>2. /\ p \in Stores /\ p.writing = TRUE /\ p.dirty = s.writing
      /\ s.writing => p.pending = list /\ p.snapshot = s.snapshot
      /\ ~s.writing => p.snapshot = list /\ p.pending = s.pending
  BY <1>1, PersistRulesProperties
<1> HIDE DEF p
<1>3. Distinct(p.snapshot) /\ Distinct(p.pending)
  BY <1>1, <1>2
<1>4. IF p.dirty THEN p.pending = list ELSE p.writing /\ p.snapshot = list
  BY <1>1, <1>2
<1> QED
  BY <1>2, <1>3, <1>4 DEF p

\* However a process starts with rules on the disk, it starts with the invariant.
LEMMA StartedProperties ==
  ASSUME NEW written, Distinct(written), NEW gone, NEW loaded, loaded = Loaded(written, gone),
         NEW stored, stored = IF Len(loaded) # Len(written) THEN PersistRules(StoreAtRest, loaded) ELSE StoreAtRest
  PROVE  /\ Distinct(loaded) /\ Len(loaded) <= MaxRules
         /\ stored \in Stores /\ Distinct(stored.snapshot) /\ Distinct(stored.pending)
         /\ IF stored.dirty THEN stored.pending = loaded
            ELSE IF stored.writing THEN stored.snapshot = loaded
            ELSE stored.failed \/ written = loaded
<1>1. Distinct(loaded) /\ Len(loaded) <= MaxRules /\ (Len(loaded) = Len(written) => loaded = written)
  BY LoadedProperties
<1>2. CASE Len(loaded) # Len(written)
  BY <1>1, <1>2, RestIsAStore, PersistedIsLatest
<1>3. CASE Len(loaded) = Len(written)
  BY <1>1, <1>3, RestIsAStore
<1> QED
  BY <1>2, <1>3

LEMMA RulesInitInv == RulesInit => RulesInv
<1> SUFFICES ASSUME RulesInit PROVE RulesInv
  OBVIOUS
<1>1. Distinct(ruleDisk)
  <2>1. CASE ruleDisk = <<>>
    BY <2>1, NoRules
  <2>2. CASE ruleDisk # <<>>
    <3>1. PICK a \in RuleApps, b \in RuleApps :
            ruleDisk = <<[app |-> a, enabled |-> FALSE, filter |-> "none", seen |-> 1],
                         [app |-> b, enabled |-> TRUE, filter |-> "low", seen |-> 0]>>
      BY <2>2 DEF RulesInit
    <3>2. /\ ruleDisk \in Seq(Rules) /\ Len(ruleDisk) = 2 /\ DOMAIN ruleDisk = 1..2
          /\ ruleDisk[1].app = a /\ ruleDisk[2].app = b
      BY <3>1 DEF Rules, Filters
    <3>3. a # b
      <4> DEFINE apps == [i \in DOMAIN ruleDisk |-> ruleDisk[i].app]
      <4>1. \A i, j \in DOMAIN apps : apps[i] = apps[j] => i = j
        BY DEF RulesInit, IsInjective
      <4>2. 1 \in DOMAIN apps /\ 2 \in DOMAIN apps /\ apps[1] = a /\ apps[2] = b
        BY <3>2
      <4> HIDE DEF apps
      <4> QED
        BY <4>1, <4>2
    <3>4. \A i \in 1..Len(ruleDisk) : i = 1 \/ i = 2
      BY <3>2
    <3> QED
      BY <3>2, <3>3, <3>4 DEF Distinct
  <2> QED
    BY <2>1, <2>2
<1>2. /\ rules = Loaded(ruleDisk, {})
      /\ ruleStore = IF Len(rules) # Len(ruleDisk) THEN PersistRules(StoreAtRest, rules) ELSE StoreAtRest
      /\ ruleDnd = FALSE /\ ruleEdits = 0 /\ ruleShown = {}
  BY DEF RulesInit
<1>3. 0 \in 0..MaxEdits
  BY RuleBoundsAssumption
<1>4. /\ Distinct(rules) /\ Len(rules) <= MaxRules
      /\ ruleStore \in Stores /\ Distinct(ruleStore.snapshot) /\ Distinct(ruleStore.pending)
      /\ IF ruleStore.dirty THEN ruleStore.pending = rules
         ELSE IF ruleStore.writing THEN ruleStore.snapshot = rules
         ELSE ruleStore.failed \/ ruleDisk = rules
  BY <1>1, <1>2, StartedProperties
<1> QED
  BY <1>1, <1>2, <1>3, <1>4 DEF RulesInv

\* A write ends, well or not, and what waits is written next.
LEMMA RulesWrittenInv == RulesInv /\ RulesWritten => RulesInv'
<1> SUFFICES ASSUME RulesInv, RulesWritten PROVE RulesInv'
  OBVIOUS
<1> USE DEF RulesInv
<1>1. PICK ok \in BOOLEAN :
        /\ ruleDisk' = IF ok THEN ruleStore.snapshot ELSE ruleDisk
        /\ ruleStore' = IF ruleStore.dirty
                        THEN [ruleStore EXCEPT !.snapshot = ruleStore.pending, !.dirty = FALSE, !.pending = <<>>, !.failed = ~ok]
                        ELSE [StoreAtRest EXCEPT !.failed = ~ok]
  BY DEF RulesWritten
<1>2. ruleStore.writing /\ UNCHANGED <<rules, ruleDnd, ruleEdits, ruleShown>>
  BY DEF RulesWritten
<1>3. Distinct(ruleDisk')
  BY <1>1
<1>4. CASE ruleStore.dirty
  <2>1. ruleStore' = [ruleStore EXCEPT !.snapshot = ruleStore.pending, !.dirty = FALSE, !.pending = <<>>, !.failed = ~ok]
    BY <1>1, <1>4
  <2>2. /\ ruleStore'.snapshot = ruleStore.pending /\ ruleStore'.dirty = FALSE /\ ruleStore'.pending = <<>>
        /\ ruleStore'.writing = ruleStore.writing /\ ruleStore' \in Stores
    BY <2>1, EmptySeq DEF Stores
  <2> QED
    BY <1>2, <1>3, <1>4, <2>2, NoRules
<1>5. CASE ~ruleStore.dirty
  <2>1. ruleStore' = [StoreAtRest EXCEPT !.failed = ~ok]
    BY <1>1, <1>5
  <2>2. /\ ruleStore'.snapshot = <<>> /\ ruleStore'.dirty = FALSE /\ ruleStore'.pending = <<>>
        /\ ruleStore'.writing = FALSE /\ ruleStore'.failed = ~ok /\ ruleStore' \in Stores
    BY <2>1, EmptySeq DEF Stores, StoreAtRest
  <2>3. ruleStore'.failed \/ ruleDisk' = rules
    BY <1>1, <1>2, <1>5, <2>2
  <2> QED
    BY <1>2, <1>3, <2>2, <2>3, NoRules
<1> QED
  BY <1>4, <1>5

\* A notification sees to it that its application has a rule, and is shown if the rules let it through.
LEMMA NotifiedInv ==
  ASSUME RulesInv, NEW app \in RuleApps, NEW urgency \in RuleUrgencies, Notified(app, urgency)
  PROVE  RulesInv'
<1> USE DEF RulesInv
<1> DEFINE list == Ensured(rules, app, ruleEdits + 1)
<1>1. /\ ruleEdits \in Nat /\ ruleEdits + 1 \in Nat /\ ruleEdits' \in 0..MaxEdits
      /\ ruleEdits < MaxEdits
  BY RuleBoundsAssumption DEF Notified
<1>2. /\ rules' = list
      /\ ruleStore' = IF RowOf(list, app) # 0 THEN PersistRules(ruleStore, list) ELSE ruleStore
      /\ ruleShown' = IF Suppressed(list, ruleDnd, app, urgency) THEN ruleShown ELSE ruleShown \cup {<<app, urgency>>}
      /\ UNCHANGED <<ruleDisk, ruleDnd>>
  BY DEF Notified
<1>3. /\ Distinct(list) /\ Len(list) <= MaxRules
      /\ RowOf(list, app) = 0 => list = rules
      /\ \A dnd \in BOOLEAN, a \in RuleApps, u \in RuleUrgencies :
           LetsThrough(rules, dnd, a, u) => LetsThrough(list, dnd, a, u)
  BY <1>1, EnsuredProperties
<1> HIDE DEF list
<1>4. /\ ruleStore' \in Stores /\ Distinct(ruleStore'.snapshot) /\ Distinct(ruleStore'.pending)
      /\ IF ruleStore'.dirty THEN ruleStore'.pending = rules'
         ELSE IF ruleStore'.writing THEN ruleStore'.snapshot = rules'
         ELSE ruleStore'.failed \/ ruleDisk' = rules'
  <2>1. CASE RowOf(list, app) # 0
    BY <1>2, <1>3, <2>1, PersistedIsLatest
  <2>2. CASE RowOf(list, app) = 0
    BY <1>2, <1>3, <2>2
  <2> QED
    BY <2>1, <2>2
<1>5. ruleShown' \subseteq RuleApps \X RuleUrgencies
  BY <1>2
<1>6. \A shown \in ruleShown' : LetsThrough(rules', ruleDnd', shown[1], shown[2])
  <2> SUFFICES ASSUME NEW shown \in ruleShown' PROVE LetsThrough(list, ruleDnd, shown[1], shown[2])
    BY <1>2
  <2>1. CASE shown \in ruleShown
    <3>1. shown[1] \in RuleApps /\ shown[2] \in RuleUrgencies /\ LetsThrough(rules, ruleDnd, shown[1], shown[2])
      BY <2>1
    <3> QED
      BY <1>3, <3>1
  <2>2. CASE shown \notin ruleShown
    <3>1. shown = <<app, urgency>> /\ ~Suppressed(list, ruleDnd, app, urgency)
      BY <1>2, <2>2
    <3>2. LetsThrough(list, ruleDnd, app, urgency)
      BY <1>3, <3>1, NotSuppressedIsLetThrough
    <3>3. shown[1] = app /\ shown[2] = urgency
      BY <3>1
    <3> QED
      BY <3>2, <3>3
  <2> QED
    BY <2>1, <2>2
<1> QED
  BY <1>1, <1>2, <1>3, <1>4, <1>5, <1>6

\* The user's edit is of one rule, and what the others let through stays.
LEMMA EditInv ==
  ASSUME RulesInv, NEW row \in DOMAIN rules, Edit(row)
  PROVE  RulesInv'
<1> USE DEF RulesInv
<1>1. PICK rule \in {[rules[row] EXCEPT !.enabled = ~@]} \cup
                    {[rules[row] EXCEPT !.filter = f] : f \in Filters \ {rules[row].filter}} :
        /\ rules' = [rules EXCEPT ![row] = rule]
        /\ ruleStore' = PersistRules(ruleStore, rules')
        /\ ruleShown' = {shown \in ruleShown : shown[1] # rule.app}
  BY DEF Edit
<1>2. UNCHANGED <<ruleDisk, ruleDnd>> /\ ruleEdits' \in 0..MaxEdits
  BY RuleBoundsAssumption DEF Edit
<1>3. /\ Len(rules) \in Nat /\ DOMAIN rules = 1..Len(rules) /\ row \in 1..Len(rules)
      /\ rules \in Seq(Rules) /\ rules[row] \in Rules
  BY RulesFacts
<1>4. rule \in Rules /\ rule.app = rules[row].app
  BY <1>1, <1>3 DEF Rules
<1>5. /\ rules' \in Seq(Rules) /\ Len(rules') = Len(rules)
      /\ \A i \in 1..Len(rules') : rules'[i] = IF i = row THEN rule ELSE rules[i]
  BY <1>1, <1>3, <1>4, ExceptSeq
<1>6. Distinct(rules')
  BY <1>4, <1>5 DEF Distinct
<1>7. /\ ruleStore' \in Stores /\ Distinct(ruleStore'.snapshot) /\ Distinct(ruleStore'.pending)
      /\ IF ruleStore'.dirty THEN ruleStore'.pending = rules'
         ELSE IF ruleStore'.writing THEN ruleStore'.snapshot = rules'
         ELSE ruleStore'.failed \/ ruleDisk' = rules'
  BY <1>1, <1>6, PersistedIsLatest
<1>8. ruleShown' \subseteq RuleApps \X RuleUrgencies
  BY <1>1
<1>9. \A shown \in ruleShown' : LetsThrough(rules', ruleDnd', shown[1], shown[2])
  <2> TAKE shown \in ruleShown'
  <2>1. shown \in ruleShown /\ shown[1] # rule.app /\ LetsThrough(rules, ruleDnd, shown[1], shown[2])
    BY <1>1
  <2> QED
    BY <1>2, <1>5, <2>1 DEF LetsThrough
<1> QED
  BY <1>2, <1>5, <1>6, <1>7, <1>8, <1>9

LEMMA RulesStep == RulesInv /\ [RulesNext]_ruleVars => RulesInv'
<1> SUFFICES ASSUME RulesInv, [RulesNext]_ruleVars PROVE RulesInv'
  OBVIOUS
<1>1. CASE RulesWritten
  BY <1>1, RulesWrittenInv
<1>2. CASE ToggleDnd
  <2>1. /\ UNCHANGED <<ruleDisk, rules, ruleStore>> /\ ruleShown' = {} /\ ruleDnd' \in BOOLEAN
        /\ ruleEdits' \in 0..MaxEdits
    BY <1>2, RuleBoundsAssumption DEF ToggleDnd, RulesInv
  <2> QED
    BY <2>1 DEF RulesInv
<1>3. CASE Restart
  <2>1. PICK written \in {ruleDisk, ruleStore.snapshot}, gone \in SUBSET RuleApps :
          /\ ruleDisk' = written /\ rules' = Loaded(written, gone)
          /\ ruleStore' = IF Len(rules') # Len(written) THEN PersistRules(StoreAtRest, rules') ELSE StoreAtRest
          /\ ruleDnd' = FALSE /\ ruleShown' = {} /\ UNCHANGED ruleEdits
    BY <1>3, Zenon DEF Restart, Started
  <2>2. Distinct(written)
    BY DEF RulesInv
  <2>3. /\ Distinct(rules') /\ Len(rules') <= MaxRules
        /\ ruleStore' \in Stores /\ Distinct(ruleStore'.snapshot) /\ Distinct(ruleStore'.pending)
        /\ IF ruleStore'.dirty THEN ruleStore'.pending = rules'
           ELSE IF ruleStore'.writing THEN ruleStore'.snapshot = rules'
           ELSE ruleStore'.failed \/ written = rules'
    BY <2>1, <2>2, StartedProperties
  <2> QED
    BY <2>1, <2>2, <2>3 DEF RulesInv
<1>4. ASSUME NEW app \in RuleApps, NEW urgency \in RuleUrgencies, Notified(app, urgency) PROVE RulesInv'
  BY <1>4, NotifiedInv
<1>5. ASSUME NEW row \in DOMAIN rules, Edit(row) PROVE RulesInv'
  BY <1>5, EditInv
<1>6. CASE UNCHANGED ruleVars
  BY <1>6 DEF RulesInv, ruleVars
<1> QED
  BY <1>1, <1>2, <1>3, <1>4, <1>5, <1>6 DEF RulesNext

LEMMA RulesInvObeyed == RulesInv => RulesAreObeyed
<1> SUFFICES ASSUME RulesInv, NEW shown \in ruleShown, shown[2] # "critical"
             PROVE  LET row == RowOf(rules, shown[1]) IN
                    ~ruleDnd /\ (row = 0 \/ (rules[row].enabled /\ rules[row].filter \notin {"both", shown[2]}))
  BY DEF RulesInv, RulesAreObeyed
<1>1. /\ RowOf(rules, shown[1]) \in 0..Len(rules)
      /\ RowOf(rules, shown[1]) # 0 => rules[RowOf(rules, shown[1])].app = shown[1]
      /\ Len(rules) \in Nat
  BY RowIsUnique, RulesFacts DEF RulesInv
<1>2. LetsThrough(rules, ruleDnd, shown[1], shown[2])
  BY DEF RulesInv
<1> QED
  BY <1>1, <1>2 DEF LetsThrough

LEMMA RulesInvTyped == RulesInv => RuleTypeOK
<1> SUFFICES ASSUME RulesInv PROVE RuleTypeOK
  OBVIOUS
<1>1. \A list \in {ruleDisk, rules, ruleStore.snapshot, ruleStore.pending} :
        \A i \in DOMAIN list : list[i] \in Rules
  BY RulesFacts DEF RulesInv
<1>2. ruleStore.writing \in BOOLEAN /\ ruleStore.dirty \in BOOLEAN /\ ruleStore.failed \in BOOLEAN
  BY DEF RulesInv, Stores
<1> QED
  BY <1>1, <1>2 DEF RulesInv, RuleTypeOK, Rules

\* Whatever is notified, edited, written, lost or removed between two starts, the rules fit, the latest
\* are on the disk or on their way there unless the last write failed, and nothing was shown
\* that an application's rule, as it is since, suppresses.
THEOREM RulesAreSafe == RulesSpec => []RulesAreObeyed
<1>1. RulesSpec => []RulesInv
  BY RulesInitInv, RulesStep, PTL DEF RulesSpec
<1> QED
  BY <1>1, RulesInvObeyed, PTL

(***************************************************************************)
(* The service.                                                            *)
(***************************************************************************)

LEMMA ServiceStep ==
  ToastsInv /\ HistoryInv /\ RulesInv /\ [MCNext]_allVars => (ToastsInv /\ HistoryInv /\ RulesInv)'
<1> SUFFICES ASSUME ToastsInv, HistoryInv, RulesInv, [MCNext]_allVars
             PROVE  ToastsInv' /\ HistoryInv' /\ RulesInv'
  OBVIOUS
<1>1. [Next]_vars /\ [HistoryNext]_historyVars /\ [RulesNext]_ruleVars
  BY DEF MCNext, allVars
<1> QED
  BY <1>1, ToastsStep, HistoryStep, RulesStep

\* The state of the toasts, of the history and its files and of the rules is well formed
\* in every behaviour the runs explore.
THEOREM NotificationsAreTyped == MCSpec => []TypesOK
<1>1. MCInit => ToastsInv /\ HistoryInv /\ RulesInv
  BY ToastsInitInv, HistoryInitInv, RulesInitInv DEF MCInit
<1>2. MCSpec => [](ToastsInv /\ HistoryInv /\ RulesInv)
  BY <1>1, ServiceStep, PTL DEF MCSpec
<1>3. ToastsInv /\ HistoryInv /\ RulesInv => TypesOK
  BY RulesInvTyped DEF TypesOK, ToastsInv, HistoryInv
<1> QED
  BY <1>2, <1>3, PTL
=============================================================================
