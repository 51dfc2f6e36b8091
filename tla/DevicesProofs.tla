---------------------------- MODULE DevicesProofs ----------------------------
(***************************************************************************)
(* What the services that follow the devices keep true, for any devices,   *)
(* profiles, streams, windows and bounds.                                  *)
(***************************************************************************)
EXTENDS DevicesMC, Subsequences, TLAPS

----------------------------------------------------------------------------
(***************************************************************************)
(* Queues.                                                                 *)
(***************************************************************************)

\* The first of a queue is taken from it.
LEMMA TakenFrom ==
  ASSUME NEW T, NEW q \in Seq(T), q # <<>>
  PROVE  /\ Tail(q) \in Seq(T) /\ Head(q) = q[1] /\ Head(q) \in T
         /\ Len(q) \in Nat \ {0} /\ Len(Tail(q)) = Len(q) - 1
         /\ \A i \in 1..(Len(q) - 1) : Tail(q)[i] = q[i + 1]
OBVIOUS

\* One more is put at its end.
LEMMA PutAtTheEnd ==
  ASSUME NEW T, NEW q \in Seq(T), NEW x \in T
  PROVE  /\ Append(q, x) \in Seq(T) /\ Len(q) \in Nat /\ Len(Append(q, x)) = Len(q) + 1
         /\ Append(q, x)[Len(q) + 1] = x
         /\ \A i \in 1..Len(q) : Append(q, x)[i] = q[i]
OBVIOUS

\* An empty queue is one of length 0.
LEMMA EmptyQueue ==
  ASSUME NEW T, NEW q \in Seq(T)
  PROVE  q = <<>> <=> Len(q) = 0
OBVIOUS

\* What is in one sequence after the other.
LEMMA JoinedHas ==
  ASSUME NEW T, NEW a \in Seq(T), NEW b \in Seq(T)
  PROVE  ToSet(a \o b) = ToSet(a) \cup ToSet(b)
<1> DEFINE r == a \o b
<1>1. /\ r \in Seq(T) /\ Len(a) \in Nat /\ Len(b) \in Nat /\ Len(r) = Len(a) + Len(b)
      /\ DOMAIN a = 1..Len(a) /\ DOMAIN b = 1..Len(b) /\ DOMAIN r = 1..Len(r)
      /\ \A i \in 1..Len(a) : r[i] = a[i]
      /\ \A i \in 1..Len(b) : r[Len(a) + i] = b[i]
  OBVIOUS
<1>2. \A i \in 1..Len(r) : i \in 1..Len(a) \/ \E k \in 1..Len(b) : i = Len(a) + k
  <2>1. ASSUME NEW i \in 1..Len(r), i \notin 1..Len(a) PROVE i - Len(a) \in 1..Len(b) /\ i = Len(a) + (i - Len(a))
    BY <1>1, <2>1
  <2> QED
    BY <2>1
<1>3. \A i \in 1..Len(a) : i \in 1..Len(r)
  BY <1>1
<1>4. \A k \in 1..Len(b) : Len(a) + k \in 1..Len(r)
  BY <1>1
<1>5. ToSet(r) = ToSet(a) \cup ToSet(b)
  <2>0. ToSet(a) = {a[i] : i \in 1..Len(a)} /\ ToSet(b) = {b[i] : i \in 1..Len(b)} /\ ToSet(r) = {r[i] : i \in 1..Len(r)}
    BY <1>1 DEF ToSet
  <2>1. ASSUME NEW x \in ToSet(r) PROVE x \in ToSet(a) \cup ToSet(b)
    BY <2>0, <1>1, <1>2
  <2>2. ASSUME NEW i \in 1..Len(a) PROVE a[i] \in ToSet(r)
    BY <1>1, <1>3, <2>0
  <2>3. ASSUME NEW i \in 1..Len(b) PROVE b[i] \in ToSet(r)
    BY <1>1, <1>4, <2>0
  <2> QED
    BY <2>0, <2>1, <2>2, <2>3
<1> QED
  BY <1>5

\* Nothing is twice in one sequence after the other if it is in only one of them, and once.
LEMMA JoinedOnce ==
  ASSUME NEW T, NEW a \in Seq(T), NEW b \in Seq(T), IsInjective(a), IsInjective(b), ToSet(a) \cap ToSet(b) = {}
  PROVE  IsInjective(a \o b)
<1> DEFINE r == a \o b
<1>1. /\ r \in Seq(T) /\ Len(a) \in Nat /\ Len(b) \in Nat /\ Len(r) = Len(a) + Len(b)
      /\ DOMAIN a = 1..Len(a) /\ DOMAIN b = 1..Len(b) /\ DOMAIN r = 1..Len(r)
      /\ \A i \in 1..Len(a) : r[i] = a[i]
      /\ \A i \in 1..Len(b) : r[Len(a) + i] = b[i]
  OBVIOUS
<1>2. \A i \in 1..Len(r) : i \in 1..Len(a) \/ \E k \in 1..Len(b) : i = Len(a) + k
  <2>1. ASSUME NEW i \in 1..Len(r), i \notin 1..Len(a) PROVE i - Len(a) \in 1..Len(b) /\ i = Len(a) + (i - Len(a))
    BY <1>1, <2>1
  <2> QED
    BY <2>1
<1>3. \A i \in 1..Len(a) : i \in 1..Len(r)
  BY <1>1
<1>4. \A k \in 1..Len(b) : Len(a) + k \in 1..Len(r)
  BY <1>1
<1>5. IsInjective(r)
  <2>1. \A i \in 1..Len(a), k \in 1..Len(b) : a[i] # b[k]
    BY <1>1 DEF ToSet
  <2>2. ASSUME NEW i \in 1..Len(r), NEW j \in 1..Len(r), r[i] = r[j] PROVE i = j
    <3>1. CASE i \in 1..Len(a) /\ j \in 1..Len(a)
      BY <1>1, <2>2, <3>1 DEF IsInjective
    <3>2. CASE i \notin 1..Len(a) /\ j \notin 1..Len(a)
      <4>1. PICK k \in 1..Len(b), l \in 1..Len(b) : i = Len(a) + k /\ j = Len(a) + l
        BY <1>2, <3>2
      <4>2. b[k] = b[l]
        BY <1>1, <2>2, <4>1
      <4> QED
        BY <1>1, <4>1, <4>2 DEF IsInjective
    <3>3. ASSUME NEW k \in 1..Len(a), NEW l \in 1..Len(b) PROVE r[k] # r[Len(a) + l]
      BY <1>1, <2>1
    <3> QED
      BY <1>2, <2>2, <3>1, <3>2, <3>3
  <2> QED
    BY <1>1, <2>2 DEF IsInjective
<1> QED
  BY <1>5

\* The first of two sequences begins the two together.
LEMMA BeginsTheTwo ==
  ASSUME NEW T, NEW a \in Seq(T), NEW b \in Seq(T), NEW r, r = a \o b
  PROVE  r \in Seq(T) /\ IsPrefix(a, r)
BY DEF IsPrefix

\* The elements of r stand in s in the same order.
KeepsOrder(r, s) ==
  \A k, l \in 1..Len(r) : k < l => \E i, j \in 1..Len(s) : i < j /\ r[k] = s[i] /\ r[l] = s[j]

LEMMA KeptInOrder ==
  ASSUME NEW T, NEW s \in Seq(T), NEW E
  PROVE  KeepsOrder(ElementsIn(s, E), s)
BY ElementsInProperties DEF KeepsOrder

\* What is kept of a list that has everything once has it once.
LEMMA KeptOnce ==
  ASSUME NEW T, NEW s \in Seq(T), IsInjective(s), NEW E, NEW r, r = ElementsIn(s, E)
  PROVE  /\ r \in Seq(T) /\ IsInjective(r) /\ ToSet(r) = ToSet(s) \cap E
         /\ \A k, l \in 1..Len(r) : k < l => \E i, j \in 1..Len(s) : i < j /\ r[k] = s[i] /\ r[l] = s[j]
<1>1. /\ r \in Seq(T) /\ Len(s) \in Nat /\ Len(r) \in Nat
      /\ \A k \in 1..Len(r) : r[k] \in E /\ \E i \in 1..Len(s) : r[k] = s[i]
      /\ \A i \in 1..Len(s) : s[i] \in E => \E k \in 1..Len(r) : r[k] = s[i]
      /\ \A k, l \in 1..Len(r) : k < l => \E i, j \in 1..Len(s) : i < j /\ r[k] = s[i] /\ r[l] = s[j]
  <2>1. ElementsIn(s, E) \in Seq(T)
    BY ElementsInProperties
  <2>2. \A k \in 1..Len(ElementsIn(s, E)) : ElementsIn(s, E)[k] \in E /\ \E i \in 1..Len(s) : ElementsIn(s, E)[k] = s[i]
    BY ElementsInProperties
  <2>3. \A i \in 1..Len(s) : s[i] \in E => \E k \in 1..Len(ElementsIn(s, E)) : ElementsIn(s, E)[k] = s[i]
    BY ElementsInProperties
  <2>4. \A k, l \in 1..Len(ElementsIn(s, E)) : k < l =>
          \E i, j \in 1..Len(s) : i < j /\ ElementsIn(s, E)[k] = s[i] /\ ElementsIn(s, E)[l] = s[j]
    BY ElementsInProperties
  <2> QED
    BY <2>1, <2>2, <2>3, <2>4
<1>2. DOMAIN s = 1..Len(s) /\ DOMAIN r = 1..Len(r)
  BY <1>1
<1>3. ToSet(r) = ToSet(s) \cap E
  <2>0. ToSet(s) = {s[i] : i \in 1..Len(s)} /\ ToSet(r) = {r[i] : i \in 1..Len(r)}
    BY <1>2 DEF ToSet
  <2>1. ASSUME NEW x \in ToSet(r) PROVE x \in ToSet(s) \cap E
    BY <2>0, <1>1
  <2>2. ASSUME NEW x \in ToSet(s) \cap E PROVE x \in ToSet(r)
    BY <1>1, <2>0, <2>2
  <2> QED
    BY <2>1, <2>2
<1>4. \A i, j \in 1..Len(s) : i < j => s[i] # s[j]
  BY <1>1, <1>2 DEF IsInjective
<1>5. \A k, l \in 1..Len(r) : k < l => r[k] # r[l]
  BY <1>1, <1>4
<1>6. IsInjective(r)
  BY <1>1, <1>5, <1>2 DEF IsInjective
<1> QED
  BY <1>1, <1>3, <1>6

\* The elements of one sequence after the other.
LEMMA JoinedAt ==
  ASSUME NEW T, NEW a \in Seq(T), NEW b \in Seq(T)
  PROVE  /\ a \o b \in Seq(T) /\ Len(a) \in Nat /\ Len(b) \in Nat /\ Len(a \o b) = Len(a) + Len(b)
         /\ \A i \in 1..Len(a) : (a \o b)[i] = a[i]
         /\ \A i \in 1..Len(b) : (a \o b)[Len(a) + i] = b[i]
OBVIOUS

\* A set of numbers with a bound has a greatest element.
LEMMA GreatestOf ==
  ASSUME NEW n \in Nat, NEW S, S \subseteq 0..n, S # {}
  PROVE  \E k \in S : \A l \in S : l <= k
<1> DEFINE tops == {u \in Nat : \A v \in S : v <= u}
<1>1. \A v \in S : v \in Nat /\ v <= n
  OBVIOUS
<1>2. PICK u \in tops : \A l \in tops : u <= l
  <2>1. n \in tops
    BY <1>1
  <2> QED
    BY <2>1, LeastOf
<1>3. u \in Nat /\ \A v \in S : v <= u
  OBVIOUS
<1>4. u \in S
  <2>1. ASSUME u \notin S PROVE FALSE
    <3>1. \A v \in S : v < u
      BY <1>1, <1>3, <2>1
    <3>2. PICK w \in S : TRUE
      OBVIOUS
    <3>3. u - 1 \in Nat /\ \A v \in S : v <= u - 1
      BY <1>1, <3>1, <1>3
    <3>4. u <= u - 1
      BY <1>2, <3>3
    <3> QED
      BY <1>3, <3>4
  <2> QED
    BY <2>1
<1> QED
  BY <1>3, <1>4

\* One element is replaced.
Replaces(r, s, i, x) == r = [s EXCEPT ![i] = x]

LEMMA ReplacedAt ==
  ASSUME NEW T, NEW s \in Seq(T), NEW i \in 1..Len(s), NEW x \in T, NEW r, Replaces(r, s, i, x)
  PROVE  /\ r \in Seq(T) /\ Len(r) = Len(s) /\ r[i] = x
         /\ \A j \in 1..Len(s) : j # i => r[j] = s[j]
BY DEF Replaces

----------------------------------------------------------------------------
(***************************************************************************)
(* The battery.                                                            *)
(***************************************************************************)

Signals == [device : Devices, changed : SUBSET Names]
Batteries == [charging : BOOLEAN, discharging : BOOLEAN, fully : BOOLEAN, present : BOOLEAN,
              percent : Percents \cup {0}, stage : {"new", "read", "started"}, missed : BOOLEAN]
WarnedRecords == [warning : BOOLEAN, critical : BOOLEAN, told : SUBSET Levels, lost : SUBSET Levels, again : BOOLEAN]
\* A flag says that its notice was sent, once, or found no service; a critical one stands for both.
Warned == {s \in WarnedRecords :
  /\ s.told \cap s.lost = {} /\ ~s.again
  /\ s.critical <=> "critical" \in s.told \cup s.lost
  /\ s.warning <=> s.told \cup s.lost # {}}

\* The warnings the battery shown calls for are given.
IsWarned(b, sent) ==
  /\ b.present /\ b.discharging =>
       /\ b.percent <= Warning => sent.warning
       /\ b.percent <= CriticalThreshold => sent.critical
  /\ ~b.charging \/ ~b.discharging

\* Property n of the device d is shown by b.
Agrees(b, d, n) ==
  CASE n = "State" -> /\ b.charging = (d.state = "charging") /\ b.discharging = (d.state = "discharging")
                      /\ b.fully = (d.state = "fully_charged")
    [] n = "Percentage" -> b.percent = d.percent
    [] n = "IsPresent" -> b.present = d.present

\* Property n is the same in d and e.
Same(d, e, n) ==
  CASE n = "State" -> d.state = e.state [] n = "Percentage" -> d.percent = e.percent
    [] n = "IsPresent" -> d.present = e.present

\* Each property is shown as the device has it, or a signal that is not heard yet brings it:
\* a signal's device has what the next one does not bring, and the last is the device.
SignalsLead(b, inbox, d) ==
  \A n \in Names :
    /\ inbox = <<>> => Agrees(b, d, n)
    /\ inbox # <<>> =>
         /\ n \in inbox[1].changed \/ Agrees(b, inbox[1].device, n)
         /\ \A i \in 1..(Len(inbox) - 1) : n \in inbox[i + 1].changed \/ Same(inbox[i].device, inbox[i + 1].device, n)
         /\ Same(inbox[Len(inbox)].device, d, n)

BatteryInv ==
  /\ batteryDevice \in Devices /\ batteryInbox \in Seq(Signals) /\ battery \in Batteries /\ batteryWarned \in Warned
  /\ IsWarned(battery, batteryWarned)
  /\ battery.stage # "started" => batteryInbox = <<>>
  /\ battery.stage # "new" /\ ~battery.missed => SignalsLead(battery, batteryInbox, batteryDevice)

\* What b shows of the properties that changed, and of the others.
Takes(b, r, device, changed) ==
  /\ r.charging = (IF "State" \in changed THEN device.state = "charging" ELSE b.charging)
  /\ r.discharging = (IF "State" \in changed THEN device.state = "discharging" ELSE b.discharging)
  /\ r.fully = (IF "State" \in changed THEN device.state = "fully_charged" ELSE b.fully)
  /\ r.present = (IF "IsPresent" \in changed THEN device.present ELSE b.present)
  /\ r.percent = (IF "Percentage" \in changed THEN device.percent ELSE b.percent)
  /\ r.stage = b.stage /\ r.missed = b.missed

LEMMA NoneIsSent == NoneSent \in Warned
<1>1. NoneSent \in WarnedRecords
  BY DEF NoneSent, WarnedRecords
<1>2. NoneSent.told = {} /\ NoneSent.lost = {} /\ ~NoneSent.again /\ NoneSent.critical = FALSE /\ NoneSent.warning = FALSE
  BY DEF NoneSent
<1> HIDE DEF NoneSent
<1>3. NoneSent.told \cup NoneSent.lost = {} /\ NoneSent.told \cap NoneSent.lost = {}
  BY <1>2
<1>4. NoneSent.critical <=> "critical" \in NoneSent.told \cup NoneSent.lost
  BY <1>2
<1>5. NoneSent.warning <=> NoneSent.told \cup NoneSent.lost # {}
  BY <1>2, <1>3
<1> QED
  BY <1>1, <1>2, <1>3, <1>4, <1>5 DEF Warned

\* A check sends what is due and was not sent.
LEMMA CheckIsCounted ==
  ASSUME NEW s \in Warned, NEW c \in Batteries, NEW heard \in SUBSET Levels, NEW r, r = CheckThresholds(s, c, heard)
  PROVE  /\ r \in Warned /\ (s.warning => r.warning) /\ (s.critical => r.critical)
         /\ c.discharging /\ c.percent <= Warning => r.warning
         /\ c.discharging /\ c.percent <= CriticalThreshold => r.critical
<1>1. ASSUME NEW level \in Levels, level \notin s.told \cup s.lost, NEW critical \in BOOLEAN,
             critical = (s.critical \/ level = "critical"),
             NEW n, n = SendNotification([s EXCEPT !.critical = critical, !.warning = TRUE], level, heard)
      PROVE  n \in Warned /\ n.warning /\ n.critical = critical
  <2>1. PICK told \in SUBSET Levels : told = IF level \in heard THEN s.told \cup {level} ELSE s.told
    BY DEF Warned, WarnedRecords
  <2>2. PICK lost \in SUBSET Levels : lost = IF level \in heard THEN s.lost ELSE s.lost \cup {level}
    BY DEF Warned, WarnedRecords
  <2>3. s \in WarnedRecords /\ ~s.again
    BY DEF Warned
  <2>4. n = [warning |-> TRUE, critical |-> critical, told |-> told, lost |-> lost, again |-> FALSE]
    <3>1. PICK v : v = [s EXCEPT !.critical = critical, !.warning = TRUE]
      OBVIOUS
    <3>2. /\ v \in WarnedRecords /\ v.warning = TRUE /\ v.critical = critical /\ v.told = s.told /\ v.lost = s.lost
          /\ v.again = FALSE
      BY <2>3, <3>1 DEF WarnedRecords
    <3>3. n = SendNotification(v, level, heard)
      BY <1>1, <3>1
    <3>4. n = [v EXCEPT !.told = told, !.lost = lost]
      <4>1. CASE level \in heard
        <5>1. PICK again \in BOOLEAN : again = (v.again \/ level \in s.told)
          OBVIOUS
        <5>2. again = FALSE
          BY <1>1, <3>2, <5>1
        <5>3. n = [v EXCEPT !.told = v.told \cup {level}, !.again = again]
          BY <3>2, <3>3, <4>1, <5>1 DEF SendNotification
        <5> QED
          BY <2>1, <2>2, <3>2, <4>1, <5>2, <5>3 DEF WarnedRecords
      <4>2. CASE level \notin heard
        BY <2>1, <2>2, <3>2, <3>3, <4>2 DEF SendNotification, WarnedRecords
      <4> QED
        BY <4>1, <4>2
    <3> QED
      BY <3>2, <3>4 DEF WarnedRecords
  <2>5. n \in WarnedRecords
    BY <2>4 DEF WarnedRecords
  <2>6. n.told = told /\ n.lost = lost /\ n.critical = critical /\ n.warning = TRUE /\ n.again = FALSE
    BY <2>4
  <2>7. s.told \cap s.lost = {} /\ (s.critical <=> "critical" \in s.told \cup s.lost)
    BY DEF Warned
  <2>8. told \cup lost = s.told \cup s.lost \cup {level} /\ told \cap lost = {}
    BY <1>1, <2>1, <2>2, <2>7
  <2>9. n.told \cup n.lost = s.told \cup s.lost \cup {level}
    BY <2>6, <2>8
  <2>10. n.critical <=> "critical" \in n.told \cup n.lost
    BY <1>1, <2>6, <2>7, <2>9
  <2>11. n.warning <=> n.told \cup n.lost # {}
    BY <2>6, <2>9
  <2> QED
    BY <2>5, <2>6, <2>8, <2>10, <2>11 DEF Warned
<1>2. s \in WarnedRecords
  BY DEF Warned
<1>3. CASE c.discharging /\ c.percent <= CriticalThreshold /\ ~s.critical
  <2>1. r = SendNotification([s EXCEPT !.critical = TRUE, !.warning = TRUE], "critical", heard)
    BY <1>3 DEF CheckThresholds
  <2>2. "critical" \in Levels /\ "critical" \notin s.told \cup s.lost
    BY <1>3 DEF Warned, Levels
  <2> QED
    BY <1>1, <2>1, <2>2
<1>4. CASE ~(c.discharging /\ c.percent <= CriticalThreshold /\ ~s.critical) /\ c.discharging /\ c.percent <= Warning /\ ~s.warning
  <2>1. r = SendNotification([s EXCEPT !.warning = TRUE], "warning", heard)
    BY <1>4 DEF CheckThresholds
  <2>2. "warning" \in Levels /\ "warning" \notin s.told \cup s.lost /\ s.critical \in BOOLEAN
    BY <1>2, <1>4 DEF Warned, WarnedRecords, Levels
  <2>3. [s EXCEPT !.warning = TRUE] = [s EXCEPT !.critical = s.critical, !.warning = TRUE]
    BY <1>2 DEF WarnedRecords
  <2>4. r \in Warned /\ r.warning /\ r.critical = s.critical
    BY <1>1, <2>1, <2>2, <2>3
  <2> QED
    BY <1>4, <2>4
<1>5. CASE /\ ~(c.discharging /\ c.percent <= CriticalThreshold /\ ~s.critical)
           /\ ~(c.discharging /\ c.percent <= Warning /\ ~s.warning)
  BY <1>5 DEF CheckThresholds
<1> QED
  BY <1>3, <1>4, <1>5

\* The setters one after the other: whatever order their checks run in, the warnings are given.
LEMMA UpdateWarns ==
  ASSUME NEW b \in Batteries, NEW sent \in Warned, NEW device \in Devices, NEW changed \in SUBSET Names,
         NEW heard \in SUBSET Levels, IsWarned(b, sent)
  PROVE  LET r == ApplyStateUpdate(b, sent, device, changed, heard) IN
         /\ r.battery \in Batteries /\ r.sent \in Warned /\ IsWarned(r.battery, r.sent)
         /\ Takes(b, r.battery, device, changed)
<1> DEFINE flags == BatteryWith(b, device, changed)
           reset == ResetBy(sent, b, flags)
           inserted == IF flags.present /\ ~b.present THEN CheckThresholds(reset, flags, heard) ELSE reset
           percent == [flags EXCEPT !.percent = IF "Percentage" \in changed THEN device.percent ELSE @]
           charge == IF percent.percent # b.percent THEN CheckThresholds(inserted, percent, heard) ELSE inserted
           last == [percent EXCEPT !.discharging = IF "State" \in changed THEN device.state = "discharging" ELSE @]
           told == IF last.discharging # b.discharging THEN CheckThresholds(charge, last, heard) ELSE charge
<1>1. device \in [state : States, percent : Percents, present : BOOLEAN]
  BY DEF Devices
<1>2. /\ flags \in Batteries /\ flags.percent = b.percent /\ flags.discharging = b.discharging
      /\ flags.charging = (IF "State" \in changed THEN device.state = "charging" ELSE b.charging)
      /\ flags.fully = (IF "State" \in changed THEN device.state = "fully_charged" ELSE b.fully)
      /\ flags.present = (IF "IsPresent" \in changed THEN device.present ELSE b.present)
      /\ flags.stage = b.stage /\ flags.missed = b.missed
  <2>1. PICK charging \in BOOLEAN : charging = (IF "State" \in changed THEN device.state = "charging" ELSE b.charging)
    BY DEF Batteries
  <2>2. PICK fully \in BOOLEAN : fully = (IF "State" \in changed THEN device.state = "fully_charged" ELSE b.fully)
    BY DEF Batteries
  <2>3. PICK present \in BOOLEAN : present = (IF "IsPresent" \in changed THEN device.present ELSE b.present)
    BY <1>1 DEF Batteries
  <2>4. flags = [b EXCEPT !.charging = charging, !.fully = fully, !.present = present]
    BY <2>1, <2>2, <2>3 DEF BatteryWith
  <2> HIDE DEF flags
  <2>5. /\ flags \in Batteries /\ flags.percent = b.percent /\ flags.discharging = b.discharging
        /\ flags.charging = charging /\ flags.fully = fully /\ flags.present = present
        /\ flags.stage = b.stage /\ flags.missed = b.missed
    BY <2>4 DEF Batteries
  <2> QED
    BY <2>1, <2>2, <2>3, <2>5
<1> HIDE DEF flags
<1>3. /\ percent \in Batteries /\ percent.discharging = b.discharging
      /\ percent.percent = (IF "Percentage" \in changed THEN device.percent ELSE b.percent)
      /\ percent.charging = flags.charging /\ percent.fully = flags.fully /\ percent.present = flags.present
      /\ percent.stage = b.stage /\ percent.missed = b.missed
  BY <1>1, <1>2 DEF Batteries
<1> HIDE DEF percent
<1>4. last \in Batteries /\ Takes(b, last, device, changed)
  <2>1. PICK discharging \in BOOLEAN : discharging = (IF "State" \in changed THEN device.state = "discharging" ELSE b.discharging)
    BY DEF Batteries
  <2>2. last = [percent EXCEPT !.discharging = discharging]
    BY <1>3, <2>1
  <2> HIDE DEF last
  <2>3. /\ last \in Batteries /\ last.discharging = discharging /\ last.percent = percent.percent
        /\ last.charging = percent.charging /\ last.fully = percent.fully /\ last.present = percent.present
        /\ last.stage = percent.stage /\ last.missed = percent.missed
    BY <1>3, <2>2 DEF Batteries
  <2> QED
    BY <1>2, <1>3, <2>1, <2>3 DEF Takes
<1> HIDE DEF last
<1>5. ASSUME NEW s \in Warned, NEW c \in Batteries
      PROVE  /\ CheckThresholds(s, c, heard) \in Warned
             /\ s.warning => CheckThresholds(s, c, heard).warning
             /\ s.critical => CheckThresholds(s, c, heard).critical
             /\ c.discharging /\ c.percent <= Warning => CheckThresholds(s, c, heard).warning
             /\ c.discharging /\ c.percent <= CriticalThreshold => CheckThresholds(s, c, heard).critical
  BY <1>5, CheckIsCounted
<1>6. reset \in Warned /\ (reset = sent \/ ~last.present \/ ~last.discharging)
  <2>1. NoneSent \in Warned
    BY NoneIsSent
  <2>2. flags.present = last.present
    BY <1>2, <1>4 DEF Takes
  <2>3. flags.charging /\ ~b.charging => ~last.discharging
    BY <1>2, <1>4 DEF Takes
  <2>4. flags.fully /\ ~b.fully => ~last.discharging
    BY <1>2, <1>4 DEF Takes
  <2> QED
    BY <2>1, <2>2, <2>3, <2>4 DEF ResetBy
<1> HIDE DEF reset
<1>7. inserted \in Warned /\ charge \in Warned /\ told \in Warned
  BY <1>2, <1>3, <1>4, <1>5, <1>6
<1>8. ASSUME last.present, last.discharging
      PROVE  /\ last.percent <= Warning => told.warning
             /\ last.percent <= CriticalThreshold => told.critical
  <2>1. CASE ~b.discharging
    BY <1>4, <1>5, <1>7, <1>8, <2>1 DEF Batteries
  <2>2. CASE b.discharging
    <3>1. told = charge
      BY <1>4, <1>8, <2>2 DEF Batteries
    <3>2. percent.percent = last.percent /\ flags.present = last.present
      BY <1>2, <1>3, <1>4 DEF Takes
    <3>3. CASE percent.percent # b.percent
      BY <1>3, <1>5, <1>7, <2>2, <3>1, <3>2, <3>3
    <3>4. CASE percent.percent = b.percent
      <4>1. told = inserted
        BY <3>1, <3>4
      <4>2. CASE ~b.present
        BY <1>2, <1>5, <1>6, <1>8, <2>2, <3>2, <3>4, <4>1, <4>2
      <4>3. CASE b.present
        BY <1>6, <1>8, <2>2, <3>2, <3>4, <4>1, <4>3 DEF IsWarned
      <4> QED
        BY <4>2, <4>3
    <3> QED
      BY <3>3, <3>4
  <2> QED
    BY <2>1, <2>2
<1>9. ~last.charging \/ ~last.discharging
  BY <1>4 DEF Takes, IsWarned
<1>10. IsWarned(last, told)
  BY <1>8, <1>9 DEF IsWarned
<1>11. ApplyStateUpdate(b, sent, device, changed, heard) = [battery |-> last, sent |-> told]
  BY DEF ApplyStateUpdate, flags, reset, percent, last
<1> HIDE DEF told
<1> QED
  BY <1>4, <1>7, <1>10, <1>11

LEMMA AgreesAfter ==
  ASSUME NEW b, NEW r, NEW device, NEW changed \in SUBSET Names, Takes(b, r, device, changed), NEW n \in Names
  PROVE  IF n \in changed THEN Agrees(r, device, n) ELSE \A d : Agrees(b, d, n) => Agrees(r, d, n)
<1>1. CASE n = "State"
  BY <1>1 DEF Takes, Agrees
<1>2. CASE n = "Percentage"
  BY <1>2 DEF Takes, Agrees
<1>3. CASE n = "IsPresent"
  BY <1>3 DEF Takes, Agrees
<1> QED
  BY <1>1, <1>2, <1>3 DEF Names

LEMMA SameAgrees ==
  ASSUME NEW b, NEW d, NEW e, NEW n \in Names, Agrees(b, d, n), Same(d, e, n)
  PROVE  Agrees(b, e, n)
BY DEF Agrees, Same, Names

LEMMA BatteryKeeps ==
  ASSUME BatteryInv, BatteryNext
  PROVE  BatteryInv'
<1> USE DEF BatteryInv
<1>1. ASSUME ReadProperties PROVE BatteryInv'
  <2> DEFINE b == [battery EXCEPT !.stage = "read"]
  <2>1. /\ b \in Batteries /\ b.stage = "read" /\ b.missed = battery.missed
        /\ b.present = battery.present /\ b.discharging = battery.discharging /\ b.percent = battery.percent
        /\ b.charging = battery.charging /\ b.fully = battery.fully
    BY DEF Batteries
  <2> HIDE DEF b
  <2>2. IsWarned(b, batteryWarned)
    BY <2>1 DEF IsWarned
  <2>3. CASE BatteryTakes(b, batteryDevice, Names)
    <3>0. PICK heard \in SUBSET Levels :
            LET applied == ApplyStateUpdate(b, batteryWarned, batteryDevice, Names, heard) IN
            battery' = applied.battery /\ batteryWarned' = applied.sent
      BY <2>3 DEF BatteryTakes
    <3> DEFINE r == ApplyStateUpdate(b, batteryWarned, batteryDevice, Names, heard)
    <3>1. /\ r.battery \in Batteries /\ r.sent \in Warned /\ IsWarned(r.battery, r.sent)
          /\ Takes(b, r.battery, batteryDevice, Names)
      BY <2>1, <2>2, UpdateWarns
    <3>2. battery' = r.battery /\ batteryWarned' = r.sent
      BY <3>0
    <3> HIDE DEF r
    <3>3. battery'.stage = "read" /\ batteryInbox' = <<>> /\ batteryDevice' = batteryDevice
      BY <1>1, <2>1, <3>1, <3>2 DEF ReadProperties, Takes
    <3>4. \A n \in Names : Agrees(battery', batteryDevice', n)
      BY <3>1, <3>2, <3>3, AgreesAfter
    <3>5. SignalsLead(battery', batteryInbox', batteryDevice')
      BY <3>3, <3>4 DEF SignalsLead
    <3> QED
      BY <3>1, <3>2, <3>3, <3>5
  <2>4. CASE battery' = [battery EXCEPT !.stage = "read", !.missed = TRUE] /\ UNCHANGED batteryWarned
    <3>1. /\ battery' \in Batteries /\ battery'.stage = "read" /\ battery'.missed
          /\ battery'.present = battery.present /\ battery'.discharging = battery.discharging
          /\ battery'.percent = battery.percent /\ battery'.charging = battery.charging
      BY <2>4 DEF Batteries
    <3>2. IsWarned(battery', batteryWarned')
      BY <2>4, <3>1 DEF IsWarned
    <3> QED
      BY <1>1, <2>4, <3>1, <3>2 DEF ReadProperties
  <2> QED
    BY <1>1, <2>3, <2>4 DEF ReadProperties, b
<1>2. ASSUME ConnectSignal PROVE BatteryInv'
  <2>1. /\ battery' \in Batteries /\ battery'.stage = "started" /\ battery'.missed = battery.missed
        /\ battery'.present = battery.present /\ battery'.discharging = battery.discharging /\ battery'.fully = battery.fully
        /\ battery'.percent = battery.percent /\ battery'.charging = battery.charging
    BY <1>2 DEF ConnectSignal, Batteries
  <2>2. IsWarned(battery', batteryWarned')
    BY <1>2, <2>1 DEF IsWarned, ConnectSignal
  <2>3. battery.stage # "new" /\ UNCHANGED <<batteryDevice, batteryInbox, batteryWarned>>
    BY <1>2 DEF ConnectSignal
  <2>4. SignalsLead(battery, batteryInbox, batteryDevice) => SignalsLead(battery', batteryInbox', batteryDevice')
    <3>1. \A d, name : Agrees(battery, d, name) <=> Agrees(battery', d, name)
      BY <2>1 DEF Agrees
    <3> QED
      BY <2>3, <3>1 DEF SignalsLead
  <2> QED
    BY <2>1, <2>2, <2>3, <2>4
<1>3. ASSUME OnPropertiesChanged PROVE BatteryInv'
  <2> DEFINE m == Head(batteryInbox)
  <2>0. PICK heard \in SUBSET Levels :
          LET applied == ApplyStateUpdate(battery, batteryWarned, m.device, m.changed, heard) IN
          battery' = applied.battery /\ batteryWarned' = applied.sent
    BY <1>3 DEF OnPropertiesChanged, BatteryTakes
  <2> DEFINE r == ApplyStateUpdate(battery, batteryWarned, m.device, m.changed, heard)
  <2>1. /\ batteryInbox # <<>> /\ batteryInbox' = Tail(batteryInbox) /\ batteryDevice' = batteryDevice
        /\ battery' = r.battery /\ batteryWarned' = r.sent
    BY <1>3, <2>0 DEF OnPropertiesChanged
  <2>2. m \in Signals /\ m = batteryInbox[1] /\ batteryInbox' \in Seq(Signals)
    BY <2>1
  <2>3. m.device \in Devices /\ m.changed \in SUBSET Names
    BY <2>2 DEF Signals
  <2>4. /\ r.battery \in Batteries /\ r.sent \in Warned /\ IsWarned(r.battery, r.sent)
        /\ Takes(battery, r.battery, m.device, m.changed)
    BY <2>3, UpdateWarns
  <2> HIDE DEF r
  <2>5. battery'.stage = battery.stage /\ battery'.missed = battery.missed
    BY <2>1, <2>4 DEF Takes
  <2>6. ASSUME battery.stage # "new", ~battery.missed PROVE SignalsLead(battery', batteryInbox', batteryDevice')
    <3>1. SignalsLead(battery, batteryInbox, batteryDevice)
      BY <2>6
    <3>2. ASSUME NEW n \in Names PROVE Agrees(battery', m.device, n)
      BY <3>1, <2>1, <2>2, <2>3, <2>4, AgreesAfter DEF SignalsLead
    <3>3. /\ Len(batteryInbox') = Len(batteryInbox) - 1 /\ Len(batteryInbox) \in Nat \ {0}
          /\ \A i \in 1..Len(batteryInbox') : batteryInbox'[i] = batteryInbox[i + 1]
          /\ batteryInbox' = <<>> <=> Len(batteryInbox') = 0
      BY <2>1, <2>2, TakenFrom, EmptyQueue
    <3> HIDE DEF m
    <3>4. ASSUME NEW n \in Names, batteryInbox' = <<>> PROVE Agrees(battery', batteryDevice', n)
      BY <3>1, <3>3, <3>4, <2>1, <2>2, <3>2, SameAgrees DEF SignalsLead
    <3>5. ASSUME NEW n \in Names, batteryInbox' # <<>>
          PROVE  /\ n \in batteryInbox'[1].changed \/ Agrees(battery', batteryInbox'[1].device, n)
                 /\ \A i \in 1..(Len(batteryInbox') - 1) :
                      n \in batteryInbox'[i + 1].changed \/ Same(batteryInbox'[i].device, batteryInbox'[i + 1].device, n)
                 /\ Same(batteryInbox'[Len(batteryInbox')].device, batteryDevice', n)
      BY <3>3, <3>5, <2>2, <3>1, <2>1, <3>2, SameAgrees DEF SignalsLead
    <3> QED
      BY <3>4, <3>5 DEF SignalsLead
  <2>7. battery.stage = "started"
    BY <2>1
  <2> QED
    BY <2>1, <2>2, <2>4, <2>5, <2>6, <2>7
<1>4. ASSUME DeviceChanges PROVE BatteryInv'
  <2> DEFINE Changed(device) == {n \in Names : CASE n = "State" -> device.state # batteryDevice.state
                                       [] n = "Percentage" -> device.percent # batteryDevice.percent
                                       [] n = "IsPresent" -> device.present # batteryDevice.present}
  <2>1. PICK device \in Devices :
          /\ batteryDevice' = device /\ batteryWarned' = batteryWarned
          /\ IF battery.stage = "started"
             THEN batteryInbox' = Append(batteryInbox, [device |-> device, changed |-> Changed(device)]) /\ UNCHANGED battery
             ELSE battery' = [battery EXCEPT !.missed = @ \/ battery.stage = "read"] /\ UNCHANGED batteryInbox
    BY <1>4 DEF DeviceChanges
  <2>2. \A n \in Names : n \in Changed(device) \/ Same(batteryDevice, device, n)
    <3>1. "State" \in Changed(device) \/ Same(batteryDevice, device, "State")
      BY DEF Same, Names
    <3>2. "Percentage" \in Changed(device) \/ Same(batteryDevice, device, "Percentage")
      BY DEF Same, Names
    <3>3. "IsPresent" \in Changed(device) \/ Same(batteryDevice, device, "IsPresent")
      BY DEF Same, Names
    <3> HIDE DEF Changed
    <3> QED
      BY <3>1, <3>2, <3>3 DEF Names
  <2> DEFINE s == [device |-> device, changed |-> Changed(device)]
  <2>3. s \in Signals /\ s.device = device /\ s.changed = Changed(device)
    BY DEF Signals
  <2> HIDE DEF Changed
  <2>4. CASE battery.stage = "started"
    <3> DEFINE q == Append(batteryInbox, s)
    <3>1. battery' = battery /\ batteryInbox' = q
      BY <2>1, <2>4
    <3>2. /\ q \in Seq(Signals) /\ Len(q) = Len(batteryInbox) + 1 /\ q[Len(q)] = s /\ q # <<>>
          /\ Len(batteryInbox) \in Nat /\ \A i \in 1..Len(batteryInbox) : q[i] = batteryInbox[i]
      BY <2>3, PutAtTheEnd
    <3> HIDE DEF q, s
    <3>3. ASSUME ~battery.missed PROVE SignalsLead(battery, q, device)
      <4>1. SignalsLead(battery, batteryInbox, batteryDevice)
        BY <2>4, <3>3
      <4>2. ASSUME NEW n \in Names
            PROVE  /\ n \in q[1].changed \/ Agrees(battery, q[1].device, n)
                   /\ \A i \in 1..(Len(q) - 1) : n \in q[i + 1].changed \/ Same(q[i].device, q[i + 1].device, n)
                   /\ Same(q[Len(q)].device, device, n)
        <5>1. Same(q[Len(q)].device, device, n)
          BY <2>3, <3>2 DEF Same, Names
        <5>2. CASE batteryInbox = <<>>
          BY <4>1, <3>2, <5>2, <2>2, <2>3, SameAgrees, <5>1 DEF SignalsLead
        <5>3. CASE batteryInbox # <<>>
          <6>1. Len(batteryInbox) \in Nat \ {0} /\ q[1] = batteryInbox[1]
            BY <3>2, <5>3
          <6>2. n \in q[1].changed \/ Agrees(battery, q[1].device, n)
            BY <4>1, <5>3, <6>1 DEF SignalsLead
          <6>3. ASSUME NEW i \in 1..(Len(q) - 1) PROVE n \in q[i + 1].changed \/ Same(q[i].device, q[i + 1].device, n)
            <7>1. CASE i = Len(batteryInbox)
              <8>1. q[i] = batteryInbox[Len(batteryInbox)] /\ q[i + 1] = s
                BY <3>2, <6>1, <7>1
              <8>2. Same(batteryInbox[Len(batteryInbox)].device, batteryDevice, n)
                BY <4>1, <5>3 DEF SignalsLead
              <8>3. n \in s.changed \/ Same(batteryDevice, s.device, n)
                BY <2>2, <2>3
              <8> QED
                BY <8>1, <8>2, <8>3 DEF Same, Names
            <7>2. CASE i # Len(batteryInbox)
              BY <3>2, <6>1, <7>2, <4>1, <5>3 DEF SignalsLead
            <7> QED
              BY <7>1, <7>2
          <6> QED
            BY <5>1, <6>2, <6>3
        <5> QED
          BY <5>2, <5>3
      <4> QED
        BY <4>2, <3>2 DEF SignalsLead
    <3> QED
      BY <2>1, <2>4, <3>1, <3>2, <3>3
  <2>5. CASE battery.stage # "started"
    <3>1. /\ battery' \in Batteries /\ battery'.stage = battery.stage
          /\ battery'.missed = (battery.missed \/ battery.stage = "read")
          /\ battery'.present = battery.present /\ battery'.discharging = battery.discharging
          /\ battery'.percent = battery.percent /\ battery'.charging = battery.charging
      BY <2>1, <2>5 DEF Batteries
    <3>2. IsWarned(battery', batteryWarned')
      BY <2>1, <3>1 DEF IsWarned
    <3>3. battery.stage # "new" => battery'.missed
      BY <2>5, <3>1 DEF Batteries
    <3> QED
      BY <2>1, <2>5, <3>1, <3>2, <3>3
  <2> QED
    BY <2>4, <2>5
<1> QED
  BY <1>1, <1>2, <1>3, <1>4 DEF BatteryNext

\* Whatever charges are reported and wherever the thresholds are, a low battery has been
\* warned of, and at rest the battery shown is the device's: the signals that are
\* not heard yet bring what is not shown (SignalsLead).
THEOREM LowBatteryIsAlwaysTold ==
  BatteryInit /\ [][BatteryNext]_batteryVars => [](BatteryTypeOK /\ LowBatteryIsTold)
<1>1. BatteryInit => BatteryInv
  BY NoneIsSent DEF BatteryInit, BatteryInv, Batteries, IsWarned
<1>2. BatteryInv /\ [BatteryNext]_batteryVars => BatteryInv'
  BY BatteryKeeps DEF BatteryInv, batteryVars
<1>3. BatteryInv => BatteryTypeOK /\ LowBatteryIsTold
  BY DEF BatteryInv, BatteryTypeOK, Signals, Batteries, Warned, WarnedRecords, SignalsLead, Agrees, Names, IsWarned, LowBatteryIsTold
<1> QED
  BY <1>1, <1>2, <1>3, PTL

----------------------------------------------------------------------------
(***************************************************************************)
(* The brightness.                                                         *)
(***************************************************************************)

\* The quotient is what division leaves between two multiples.
LEMMA QuotientIs ==
  ASSUME NEW a \in Int, NEW b \in Nat \ {0}, NEW q \in Int, b * q <= a, a < b * q + b
  PROVE  a \div b = q
OBVIOUS

LEMMA QuotientBounds ==
  ASSUME NEW a \in Nat, NEW b \in Nat \ {0}
  PROVE  a \div b \in Nat /\ b * (a \div b) <= a /\ a < b * (a \div b) + b
OBVIOUS

\* A percentage and back, where the device has a step for each: the rounding of the raw
\* value is by less than half a percent.
LEMMA PercentIsKept ==
  ASSUME NEW p \in 0..100, MaxBrightness >= 100
  PROVE  ComputePercent(RawOf(p)) = p
BY BrightnessAssumption, QuotientBounds, QuotientIs DEF RawOf, Round, Clamp, ComputePercent

\* A raw value stands for a percentage, and a percentage for a raw value of the device.
LEMMA PercentsAndRaws ==
  ASSUME NEW r \in Raws, NEW p \in 0..100
  PROVE  ComputePercent(r) \in 0..100 /\ RawOf(p) \in Raws
BY BrightnessAssumption, QuotientBounds DEF Raws, Clamp, Round, ComputePercent, RawOf

\* What was asked last is under way, or was carried out and nothing came after it; and the
\* slider is where the file is, unless inotify has something to say.
BrightnessInv ==
  /\ BrightnessTypeOK
  /\ ~backlightEvents /\ brightnessBackend.watched /\ ~brightnessBackend.failed => brightness = ComputePercent(backlight)
  /\ brightnessBackend.failed => brightness = 0
  /\ brightnessWanted # Nothing =>
       RawOf(brightnessWanted) = IF backlightCalls = <<>> THEN backlight ELSE backlightCalls[Len(backlightCalls)]

BrightnessBackends == [watched : BOOLEAN, session : BOOLEAN, failed : BOOLEAN]

\* A read gives a percentage, which is 0 when it fails.
LEMMA ReadIsPercent ==
  ASSUME backlight \in Raws, NEW failed \in BOOLEAN
  PROVE  /\ BrightnessRead(failed) \in 0..100
         /\ IF failed THEN BrightnessRead(failed) = 0 ELSE BrightnessRead(failed) = ComputePercent(backlight)
<1>1. 0 \in Raws /\ ComputePercent(0) = 0
  BY BrightnessAssumption, QuotientIs DEF Raws, ComputePercent, Round, Clamp
<1>2. CASE failed
  BY <1>1, <1>2 DEF BrightnessRead
<1>3. CASE ~failed
  BY <1>3, PercentsAndRaws DEF BrightnessRead
<1> QED
  BY <1>2, <1>3

LEMMA BrightnessKeeps ==
  ASSUME BrightnessInv, BrightnessNext
  PROVE  BrightnessInv'
<1> USE DEF BrightnessInv, BrightnessTypeOK
<1>1. ASSUME NEW p \in Requests, SetBrightnessPercent(p) PROVE BrightnessInv'
  <2> DEFINE c == Clamp(0, p, 100)
  <2>1. c \in 0..100 /\ RawOf(p) = RawOf(c)
    BY BrightnessAssumption DEF Clamp, RawOf
  <2>0. CASE ~brightnessBackend.session
    BY <1>1, <2>0 DEF SetBrightnessPercent
  <2> SUFFICES ASSUME brightnessBackend.session PROVE BrightnessInv'
    BY <2>0
  <2>2. backlightCalls' = Append(backlightCalls, RawOf(c)) /\ brightnessWanted' = c
        /\ UNCHANGED <<backlight, backlightEvents, brightness, brightnessBackend>>
    BY <1>1, <2>1 DEF SetBrightnessPercent
  <2> HIDE DEF c
  <2>3. RawOf(c) \in Raws
    BY <2>1, PercentsAndRaws
  <2>4. /\ backlightCalls' \in Seq(Raws) /\ backlightCalls' # <<>>
        /\ backlightCalls'[Len(backlightCalls')] = RawOf(c)
    BY <2>2, <2>3, PutAtTheEnd, EmptyQueue
  <2> QED
    BY <2>1, <2>2, <2>4
<1>2. ASSUME LogindWrites PROVE BrightnessInv'
  <2>1. /\ backlightCalls # <<>> /\ backlightCalls' = Tail(backlightCalls)
        /\ UNCHANGED <<brightness, brightnessBackend>>
        /\ \/ backlight' = Head(backlightCalls) /\ backlightEvents' = brightnessBackend.watched /\ UNCHANGED brightnessWanted
           \/ brightnessWanted' = Nothing /\ UNCHANGED <<backlight, backlightEvents>>
    BY <1>2 DEF LogindWrites
  <2>2. /\ backlightCalls' \in Seq(Raws) /\ Head(backlightCalls) = backlightCalls[1] /\ backlightCalls[1] \in Raws
        /\ Len(backlightCalls) \in Nat \ {0} /\ Len(backlightCalls') = Len(backlightCalls) - 1
        /\ \A i \in 1..(Len(backlightCalls) - 1) : backlightCalls'[i] = backlightCalls[i + 1]
    BY <2>1, TakenFrom
  <2>3. backlightCalls' = <<>> <=> Len(backlightCalls) = 1
    BY <2>2, EmptyQueue
  <2>4. backlightCalls' # <<>> => backlightCalls'[Len(backlightCalls')] = backlightCalls[Len(backlightCalls)]
    BY <2>2, <2>3
  <2>5. BrightnessTypeOK'
    BY <2>1, <2>2
  <2>6. /\ ~backlightEvents' /\ brightnessBackend'.watched /\ ~brightnessBackend'.failed => brightness' = ComputePercent(backlight')
        /\ brightnessBackend'.failed => brightness' = 0
    BY <2>1
  <2>7. brightnessWanted' # Nothing =>
          RawOf(brightnessWanted') = IF backlightCalls' = <<>> THEN backlight' ELSE backlightCalls'[Len(backlightCalls')]
    BY <2>1, <2>2, <2>3, <2>4
  <2> QED
    BY <2>5, <2>6, <2>7
<1>3. ASSUME NEW raw \in Keys, KeyPressed(raw) PROVE BrightnessInv'
  BY BrightnessAssumption, <1>3 DEF Raws, KeyPressed
<1>4. ASSUME OnInotifyEvent PROVE BrightnessInv'
  <2>1. PICK failed \in BOOLEAN : /\ brightness' = BrightnessRead(failed)
                                   /\ brightnessBackend' = [brightnessBackend EXCEPT !.failed = failed]
    BY <1>4 DEF OnInotifyEvent
  <2>2. brightnessBackend' \in BrightnessBackends /\ brightnessBackend'.failed = failed
    BY <2>1 DEF BrightnessBackends
  <2>3. brightness' \in 0..100 /\ (IF failed THEN brightness' = 0 ELSE brightness' = ComputePercent(backlight))
    BY <2>1, ReadIsPercent
  <2> QED
    BY <1>4, <2>2, <2>3 DEF OnInotifyEvent, BrightnessBackends
<1> QED
  BY <1>1, <1>2, <1>3, <1>4 DEF BrightnessNext

\* For any device and any percentages asked for, also out of range: once the calls and the
\* events are handled, the slider is at the file's value, and at what was asked, where the
\* file is watched and was read; after a failed read it is at 0.
THEOREM BrightnessIsAlwaysTrue ==
  BrightnessInit /\ [][BrightnessNext]_brightnessVars => [](BrightnessTypeOK /\ BrightnessIsTrue)
<1>1. BrightnessInit => BrightnessInv
  <2> SUFFICES ASSUME BrightnessInit PROVE BrightnessInv
    OBVIOUS
  <2>1. backlight \in Raws
    BY BrightnessAssumption DEF BrightnessInit, Raws
  <2>2. /\ brightnessBackend \in BrightnessBackends /\ brightness = BrightnessRead(brightnessBackend.failed) /\ brightness \in 0..100
        /\ IF brightnessBackend.failed THEN brightness = 0 ELSE brightness = ComputePercent(backlight)
    BY <2>1, ReadIsPercent DEF BrightnessInit, BrightnessBackends
  <2>3. BrightnessTypeOK
    <3>1. backlightCalls = <<>> /\ backlightEvents = FALSE /\ brightnessWanted = Nothing
      BY DEF BrightnessInit
    <3>2. <<>> \in Seq(Raws)
      OBVIOUS
    <3> QED
      BY <2>1, <2>2, <3>1, <3>2 DEF BrightnessTypeOK, BrightnessBackends
  <2>4. brightnessWanted = Nothing
    BY DEF BrightnessInit
  <2> QED
    BY <2>2, <2>3, <2>4 DEF BrightnessInv
<1>2. BrightnessInv /\ [BrightnessNext]_brightnessVars => BrightnessInv'
  <2>1. ASSUME BrightnessInv, UNCHANGED brightnessVars PROVE BrightnessInv'
    BY <2>1 DEF BrightnessInv, BrightnessTypeOK, brightnessVars
  <2> QED
    BY <2>1, BrightnessKeeps
<1>3. BrightnessInv => BrightnessTypeOK /\ BrightnessIsTrue
  <2> SUFFICES ASSUME BrightnessInv, backlightCalls = <<>>, ~backlightEvents, brightnessWanted # Nothing,
                      MaxBrightness >= 100, brightnessBackend.watched, ~brightnessBackend.failed
               PROVE  brightness = brightnessWanted
    BY DEF BrightnessInv, BrightnessIsTrue
  <2>1. brightnessWanted \in 0..100
    BY DEF BrightnessInv, BrightnessTypeOK
  <2> QED
    BY <2>1, PercentIsKept DEF BrightnessInv
<1> QED
  BY <1>1, <1>2, <1>3, PTL

----------------------------------------------------------------------------
(***************************************************************************)
(* The power profiles.                                                     *)
(***************************************************************************)

ProfileMessages == [name : DaemonNames, kind : {"registered", "unregistered"} \cup Profiles]

\* A message of the inbox says that name came or went.
Says(inbox, name, kind) == \E i \in DOMAIN inbox : inbox[i].name = name /\ inbox[i].kind = kind

IsProfileOf(m, name) == m.name = name /\ m.kind \in Profiles

\* A daemon that is there has come again after each of its ends that was not heard yet.
ComesAgain(inbox, owned) ==
  \A i \in DOMAIN inbox : inbox[i].kind = "unregistered" /\ inbox[i].name \in owned =>
    \E j \in DOMAIN inbox : j > i /\ inbox[j].name = inbox[i].name /\ inbox[j].kind = "registered"

\* The last profile of name on its way is p; when none is on its way, it is the one shown.
EndsWith(inbox, name, shown, p) ==
  /\ (\A i \in DOMAIN inbox : ~IsProfileOf(inbox[i], name)) => shown = p
  /\ \A i \in DOMAIN inbox :
       IsProfileOf(inbox[i], name) /\ (\A j \in DOMAIN inbox : j > i => ~IsProfileOf(inbox[j], name)) => inbox[i].kind = p

\* The preferred daemon is followed, or it is not there, or the bus will say that it came.
PrefersThePreferred(p, inbox, d) ==
  Preferred \in d.owned /\ p.service # Preferred => Says(inbox, Preferred, "registered")

\* The daemon followed is there, or the bus will say that it went.
FollowsTheLiving(p, inbox, d) ==
  p.service \in DaemonNames /\ (p.service \in d.owned \/ Says(inbox, p.service, "unregistered"))

\* The daemon followed will be chosen anew, or has gone, or f of its profile.
UnlessRenewed(p, inbox, d, f) ==
  Says(inbox, p.service, "registered") \/ p.service \notin d.owned \/ f

ProfilesInv ==
  /\ ProfileTypeOK /\ profileInbox \in Seq(ProfileMessages)
  /\ ComesAgain(profileInbox, profileDaemons.owned)
  /\ profiles.stage \in {"read", "connect"} =>
       /\ ~profiles.connected
       /\ PrefersThePreferred(profiles, profileInbox, profileDaemons)
       /\ FollowsTheLiving(profiles, profileInbox, profileDaemons)
  /\ profiles.stage = "connect" =>
       /\ profiles.read \in Profiles
       /\ ~profileMissed =>
            UnlessRenewed(profiles, profileInbox, profileDaemons,
              /\ \A i \in DOMAIN profileInbox : ~IsProfileOf(profileInbox[i], profiles.service)
              /\ profiles.read = profileDaemons.active[profiles.service])
  /\ profiles.stage = "quiet" =>
       /\ profiles.available = (profiles.service # NoDaemon) /\ profiles.connected = profiles.available
       /\ ~profiles.available => profiles.active = NoDaemon
       /\ ~profileMissed => PrefersThePreferred(profiles, profileInbox, profileDaemons)
       /\ profiles.available => FollowsTheLiving(profiles, profileInbox, profileDaemons)
       /\ profiles.available /\ ~profileMissed =>
            UnlessRenewed(profiles, profileInbox, profileDaemons,
              EndsWith(profileInbox, profiles.service, profiles.active, profileDaemons.active[profiles.service]))

\* What a message more at the end of the inbox says.
LEMMA InboxGrows ==
  ASSUME NEW q \in Seq(ProfileMessages), NEW m \in ProfileMessages, NEW r, r = Append(q, m)
  PROVE  /\ r \in Seq(ProfileMessages)
         /\ \A n, k : Says(r, n, k) <=> Says(q, n, k) \/ (m.name = n /\ m.kind = k)
         /\ \A n : ~IsProfileOf(m, n) /\ (\A i \in DOMAIN q : ~IsProfileOf(q[i], n)) => \A i \in DOMAIN r : ~IsProfileOf(r[i], n)
         /\ \A n, s, p : EndsWith(q, n, s, p) /\ ~IsProfileOf(m, n) => EndsWith(r, n, s, p)
         /\ \A n, s : IsProfileOf(m, n) => EndsWith(r, n, s, m.kind)
         /\ \A O : ComesAgain(q, O) => ComesAgain(r, O \ {m.name}) /\ (m.kind \in Profiles => ComesAgain(r, O))
                                         /\ (m.kind = "registered" => ComesAgain(r, O \cup {m.name}))
<1> DEFINE l == Len(q)
<1>1. /\ r \in Seq(ProfileMessages) /\ l \in Nat /\ DOMAIN q = 1..l /\ DOMAIN r = 1..(l + 1) /\ r[l + 1] = m
      /\ \A i \in 1..l : r[i] = q[i]
  BY PutAtTheEnd
<1> HIDE DEF l
<1>2. l + 1 \in DOMAIN r /\ \A i \in DOMAIN q : i \in DOMAIN r /\ r[i] = q[i] /\ i < l + 1
  BY <1>1
<1>3. \A i \in DOMAIN r : i = l + 1 \/ i \in DOMAIN q
  BY <1>1
<1>4. ASSUME NEW n, NEW k PROVE Says(r, n, k) <=> Says(q, n, k) \/ (m.name = n /\ m.kind = k)
  BY <1>1, <1>2, <1>3 DEF Says
<1>5. \A n : ~IsProfileOf(m, n) /\ (\A i \in DOMAIN q : ~IsProfileOf(q[i], n)) => \A i \in DOMAIN r : ~IsProfileOf(r[i], n)
  BY <1>1, <1>2, <1>3
<1>6. ASSUME NEW n, NEW s, NEW p, EndsWith(q, n, s, p), ~IsProfileOf(m, n) PROVE EndsWith(r, n, s, p)
  BY <1>6, <1>2, <1>1, <1>3 DEF EndsWith
<1>7. ASSUME NEW n, NEW s, IsProfileOf(m, n) PROVE EndsWith(r, n, s, m.kind)
  BY <1>1, <1>2, <1>7, <1>3 DEF EndsWith
<1>8. ASSUME NEW O, ComesAgain(q, O)
      PROVE  /\ ComesAgain(r, O \ {m.name}) /\ (m.kind \in Profiles => ComesAgain(r, O))
             /\ (m.kind = "registered" => ComesAgain(r, O \cup {m.name}))
  BY <1>2, <1>8, <1>1, <1>3, ProfilesAssumption DEF ComesAgain
<1> QED
  BY <1>1, <1>4, <1>5, <1>6, <1>7, <1>8

\* What is left once the first message is taken.
LEMMA InboxShrinks ==
  ASSUME NEW q \in Seq(ProfileMessages), q # <<>>, NEW h, h = Head(q), NEW r, r = Tail(q)
  PROVE  /\ r \in Seq(ProfileMessages) /\ h \in ProfileMessages
         /\ \A n, k : Says(q, n, k) => Says(r, n, k) \/ (h.name = n /\ h.kind = k)
         /\ \A n, s, p : EndsWith(q, n, s, p) => EndsWith(r, n, IF IsProfileOf(h, n) THEN h.kind ELSE s, p)
         /\ \A O : ComesAgain(q, O) =>
              ComesAgain(r, O) /\ (h.kind = "unregistered" /\ h.name \in O => Says(r, h.name, "registered"))
<1> DEFINE l == Len(q)
<1>1. /\ r \in Seq(ProfileMessages) /\ l \in Nat \ {0} /\ DOMAIN q = 1..l /\ DOMAIN r = 1..(l - 1)
      /\ h = q[1] /\ h \in ProfileMessages /\ \A i \in 1..(l - 1) : r[i] = q[i + 1]
  BY TakenFrom
<1> HIDE DEF l
<1>2. \A i \in DOMAIN r : i + 1 \in DOMAIN q /\ r[i] = q[i + 1] /\ i \in Nat /\ i > 0
  BY <1>1
<1>3. \A i \in DOMAIN q : i \in Nat /\ (i # 1 => i - 1 \in DOMAIN r /\ r[i - 1] = q[i])
  BY <1>1
<1>4. ASSUME NEW n, NEW k, Says(q, n, k) PROVE Says(r, n, k) \/ (h.name = n /\ h.kind = k)
  <2>1. PICK i \in DOMAIN q : q[i].name = n /\ q[i].kind = k
    BY <1>4 DEF Says
  <2> QED
    BY <1>1, <1>3, <2>1 DEF Says
<1>5. ASSUME NEW n, NEW s, NEW p, EndsWith(q, n, s, p)
      PROVE  EndsWith(r, n, IF IsProfileOf(h, n) THEN h.kind ELSE s, p)
  <2>1. ASSUME \A i \in DOMAIN r : ~IsProfileOf(r[i], n) PROVE (IF IsProfileOf(h, n) THEN h.kind ELSE s) = p
    <3>1. \A i \in DOMAIN q : i # 1 => ~IsProfileOf(q[i], n)
      BY <1>3, <2>1
    <3>2. 1 \in DOMAIN q /\ \A j \in DOMAIN q : j > 1 => j # 1
      BY <1>1
    <3>3. CASE IsProfileOf(h, n)
      BY <1>1, <1>5, <3>1, <3>2, <3>3 DEF EndsWith
    <3>4. CASE ~IsProfileOf(h, n)
      BY <1>1, <3>1, <3>4, <1>5 DEF EndsWith
    <3> QED
      BY <3>3, <3>4
  <2>2. ASSUME NEW i \in DOMAIN r, IsProfileOf(r[i], n), \A j \in DOMAIN r : j > i => ~IsProfileOf(r[j], n)
        PROVE  r[i].kind = p
    <3>1. i + 1 \in DOMAIN q /\ r[i] = q[i + 1] /\ i \in Nat /\ i > 0
      BY <1>2
    <3>2. ASSUME NEW j \in DOMAIN q, j > i + 1 PROVE ~IsProfileOf(q[j], n)
      <4>1. j # 1 /\ j - 1 > i
        BY <1>3, <3>1, <3>2
      <4> QED
        BY <1>3, <2>2, <4>1
    <3> QED
      BY <1>5, <2>2, <3>1, <3>2 DEF EndsWith
  <2> QED
    BY <2>1, <2>2 DEF EndsWith
<1>6. ASSUME NEW O, ComesAgain(q, O)
      PROVE  ComesAgain(r, O) /\ (h.kind = "unregistered" /\ h.name \in O => Says(r, h.name, "registered"))
  <2>1. ASSUME NEW i \in DOMAIN q, q[i].kind = "unregistered", q[i].name \in O
        PROVE  \E j \in DOMAIN r : j + 1 > i /\ r[j].name = q[i].name /\ r[j].kind = "registered"
    <3>1. PICK j \in DOMAIN q : j > i /\ q[j].name = q[i].name /\ q[j].kind = "registered"
      BY <1>6, <2>1 DEF ComesAgain
    <3>2. i \in Nat /\ j \in Nat /\ j # 1 /\ (j - 1) + 1 = j
      BY <1>1, <1>3, <3>1
    <3> QED
      BY <1>3, <3>1, <3>2
  <2>2. ComesAgain(r, O)
    BY <1>2, <2>1 DEF ComesAgain
  <2>3. h.kind = "unregistered" /\ h.name \in O => Says(r, h.name, "registered")
    BY <1>1, <2>1 DEF Says
  <2> QED
    BY <2>2, <2>3
<1> QED
  BY <1>1, <1>4, <1>5, <1>6

ProfileStates == [service : DaemonNames \cup {NoDaemon}, available : BOOLEAN, connected : BOOLEAN,
                  active : Profiles \cup {NoDaemon}, read : Profiles \cup {NoDaemon},
                  stage : {"new", "choose", "read", "connect", "quiet"}]
DaemonStates == [owned : SUBSET DaemonNames, active : [DaemonNames -> Profiles]]

LEMMA ClearedIsQuiet ==
  /\ Cleared \in ProfileStates /\ Cleared.stage = "quiet" /\ Cleared.service = NoDaemon /\ ~Cleared.available
  /\ ~Cleared.connected /\ Cleared.active = NoDaemon /\ NoDaemon \notin DaemonNames
BY ProfilesAssumption DEF Cleared, ProfileStates, DaemonNames

\* The cleared service has nothing to say, unless the preferred daemon is there unannounced.
LEMMA ClearedKeeps ==
  ASSUME ProfilesInv, profiles' = Cleared, UNCHANGED profileDaemons, profileMissed' \in BOOLEAN,
         profileInbox' \in Seq(ProfileMessages), ComesAgain(profileInbox', profileDaemons.owned),
         ~profileMissed' => PrefersThePreferred(Cleared, profileInbox', profileDaemons)
  PROVE  ProfilesInv'
BY ClearedIsQuiet DEF ProfilesInv, ProfileTypeOK, ProfileStates, ProfileMessages

\* The steps of the reading, between which the daemons move on.
LEMMA ReadingKeeps ==
  ASSUME ProfilesInv, StartProfiles \/ ChooseService \/ ReadProfiles \/ ConnectProfiles
  PROVE  ProfilesInv'
<1> USE DEF ProfilesInv
<1>0. profiles \in ProfileStates /\ profileDaemons \in DaemonStates /\ profileMissed \in BOOLEAN
  BY DEF ProfileTypeOK, ProfileStates, DaemonStates
<1>1. ASSUME profiles' \in ProfileStates, UNCHANGED <<profileDaemons, profileInbox>>, profileMissed' \in BOOLEAN
      PROVE  ProfileTypeOK' /\ profileInbox' \in Seq(ProfileMessages) /\ ComesAgain(profileInbox', profileDaemons'.owned)
  BY <1>1 DEF ProfileTypeOK, ProfileStates, ProfileMessages
<1>2. CASE StartProfiles
  BY <1>0, <1>2, <1>1 DEF StartProfiles, ProfileStates
<1>3. CASE ChooseService
  <2> DEFINE service == ChosenService(profileDaemons.owned)
  <2>1. UNCHANGED <<profileDaemons, profileInbox, profileMissed>>
        /\ profiles' = IF service = NoDaemon THEN Cleared
                       ELSE [profiles EXCEPT !.connected = FALSE, !.service = service, !.stage = "read"]
    BY <1>3 DEF ChooseService
  <2>2. /\ service \in DaemonNames \cup {NoDaemon} /\ (service # NoDaemon => service \in profileDaemons.owned)
        /\ (Preferred \in profileDaemons.owned => service = Preferred) /\ Preferred # NoDaemon
    BY ProfilesAssumption DEF ChosenService, DaemonNames
  <2> HIDE DEF service
  <2>3. CASE service = NoDaemon
    <3>1. PrefersThePreferred(Cleared, profileInbox, profileDaemons)
      BY <2>2, <2>3 DEF PrefersThePreferred
    <3> QED
      BY <1>0, <2>1, <2>3, <3>1, ClearedKeeps
  <2>4. CASE service # NoDaemon
    <3>1. /\ profiles' \in ProfileStates /\ profiles'.stage = "read" /\ ~profiles'.connected
          /\ profiles'.service = service
      BY <1>0, <2>1, <2>2, <2>4 DEF ProfileStates
    <3>2. PrefersThePreferred(profiles', profileInbox', profileDaemons')
      BY <2>1, <2>2, <3>1 DEF PrefersThePreferred
    <3>3. FollowsTheLiving(profiles', profileInbox', profileDaemons')
      BY <2>1, <2>2, <2>4, <3>1 DEF FollowsTheLiving
    <3> QED
      BY <1>0, <1>1, <2>1, <3>1, <3>2, <3>3
  <2> QED
    BY <2>3, <2>4
<1>4. CASE ReadProfiles
  <2>1. profiles.stage = "read" /\ UNCHANGED <<profileDaemons, profileInbox>> /\ profileMissed' \in BOOLEAN
    <3>1. Stale(profiles.service) \in BOOLEAN /\ (profiles.service \in profileDaemons.owned) \in BOOLEAN
      BY DEF Stale
    <3>2. profileMissed' \in BOOLEAN
      BY <1>4, <3>1, Zenon DEF ReadProfiles
    <3> QED
      BY <1>4, <3>2 DEF ReadProfiles
  <2>2. CASE /\ profiles.service \in profileDaemons.owned
             /\ profiles' = [profiles EXCEPT !.stage = "connect", !.read = profileDaemons.active[profiles.service]]
             /\ profileMissed' = Stale(profiles.service)
    <3>1. /\ profiles' \in ProfileStates /\ profiles'.stage = "connect" /\ ~profiles'.connected
          /\ profiles'.service = profiles.service /\ profiles'.read = profileDaemons.active[profiles.service]
          /\ profiles'.read \in Profiles
      BY <1>0, <2>1, <2>2 DEF ProfileStates, DaemonStates
    <3>2. PrefersThePreferred(profiles', profileInbox', profileDaemons') /\ FollowsTheLiving(profiles', profileInbox', profileDaemons')
      BY <2>1, <3>1 DEF PrefersThePreferred, FollowsTheLiving
    <3>3. ~profileMissed' => \A i \in DOMAIN profileInbox' : ~IsProfileOf(profileInbox'[i], profiles'.service)
      BY <2>1, <2>2, <3>1 DEF Stale, IsProfileOf
    <3> QED
      BY <1>1, <2>1, <3>1, <3>2, <3>3 DEF UnlessRenewed
  <2>3. CASE profiles' = Cleared /\ profileMissed' = (profiles.service \in profileDaemons.owned)
    <3>1. ~profileMissed' => PrefersThePreferred(Cleared, profileInbox', profileDaemons)
      BY <2>1, <2>3, ClearedIsQuiet DEF PrefersThePreferred
    <3> QED
      BY <2>1, <2>3, <3>1, ClearedKeeps
  <2> QED
    BY <1>4, <2>2, <2>3 DEF ReadProfiles
<1>5. CASE ConnectProfiles
  <2>1. profiles.stage = "connect" /\ UNCHANGED <<profileDaemons, profileInbox>>
    BY <1>5 DEF ConnectProfiles
  <2>2. CASE /\ profiles' = [profiles EXCEPT !.stage = "quiet", !.connected = TRUE, !.active = profiles.read,
                                        !.read = NoDaemon, !.available = TRUE]
             /\ UNCHANGED profileMissed
    <3>1. /\ profiles' \in ProfileStates /\ profiles'.stage = "quiet" /\ profiles'.connected /\ profiles'.available
          /\ profiles'.service = profiles.service /\ profiles'.active = profiles.read
      BY <1>0, <2>1, <2>2 DEF ProfileStates
    <3>2. PrefersThePreferred(profiles', profileInbox', profileDaemons') /\ FollowsTheLiving(profiles', profileInbox', profileDaemons')
      BY <2>1, <3>1 DEF PrefersThePreferred, FollowsTheLiving
    <3>3. profiles'.service # NoDaemon
      BY <3>2, ClearedIsQuiet DEF FollowsTheLiving
    <3>4. ~profileMissed =>
            UnlessRenewed(profiles', profileInbox', profileDaemons',
                          EndsWith(profileInbox', profiles'.service, profiles'.active, profileDaemons'.active[profiles'.service]))
      BY <2>1, <3>1 DEF UnlessRenewed, EndsWith
    <3> QED
      BY <1>0, <1>1, <2>1, <2>2, <3>1, <3>2, <3>3, <3>4
  <2>3. CASE profiles' = Cleared /\ profileMissed' = TRUE
    BY <2>1, <2>3, ClearedKeeps
  <2> QED
    BY <1>5, <2>2, <2>3 DEF ConnectProfiles
<1> QED
  BY <1>2, <1>3, <1>4, <1>5

LEMMA HearBusKeeps ==
  ASSUME ProfilesInv, HearBus
  PROVE  ProfilesInv'
<1> USE DEF ProfilesInv
<1> DEFINE m == Head(profileInbox)
           r == Tail(profileInbox)
<1>0. profiles \in ProfileStates /\ profileDaemons \in DaemonStates /\ profileMissed \in BOOLEAN
  BY DEF ProfileTypeOK, ProfileStates, DaemonStates
<1>1. /\ profiles.stage = "quiet" /\ profileInbox # <<>> /\ profileInbox' = r
      /\ UNCHANGED <<profileDaemons, profileMissed>>
      /\ m.kind = "registered" => profiles' = [profiles EXCEPT !.stage = "choose"]
      /\ m.kind = "unregistered" => profiles' = DaemonGone(profiles, m.name)
      /\ m.kind \in Profiles =>
           profiles' = IF profiles.connected /\ m.name = profiles.service THEN [profiles EXCEPT !.active = m.kind]
                       ELSE profiles
  BY ProfilesAssumption DEF HearBus
<1>2. /\ r \in Seq(ProfileMessages) /\ m \in ProfileMessages
      /\ \A n, k : Says(profileInbox, n, k) => Says(r, n, k) \/ (m.name = n /\ m.kind = k)
      /\ \A n, s, p : EndsWith(profileInbox, n, s, p) => EndsWith(r, n, IF IsProfileOf(m, n) THEN m.kind ELSE s, p)
      /\ \A O : ComesAgain(profileInbox, O) =>
           ComesAgain(r, O) /\ (m.kind = "unregistered" /\ m.name \in O => Says(r, m.name, "registered"))
  BY <1>1, InboxShrinks
<1>3. m.kind \in {"registered", "unregistered"} \cup Profiles /\ m.name \in DaemonNames
  BY <1>2 DEF ProfileMessages
<1> HIDE DEF m, r
<1>4. ASSUME profiles' \in ProfileStates
      PROVE  ProfileTypeOK' /\ profileInbox' \in Seq(ProfileMessages) /\ ComesAgain(profileInbox', profileDaemons'.owned)
  BY <1>0, <1>1, <1>2, <1>4 DEF ProfileTypeOK, ProfileStates, ProfileMessages
<1>5. CASE m.kind = "registered"
  <2>1. profiles' \in ProfileStates /\ profiles'.stage = "choose"
    BY <1>0, <1>1, <1>5 DEF ProfileStates
  <2> QED
    BY <1>4, <2>1
<1>6. ASSUME m.kind # "registered", profiles' \in ProfileStates, profiles'.stage = "quiet",
             profiles'.service = profiles.service, profiles'.available = profiles.available,
             profiles'.connected = profiles.connected, ~profiles.available => profiles'.active = NoDaemon,
             m.kind = "unregistered" => m.name # profiles.service,
             profiles.available => profiles'.active = IF IsProfileOf(m, profiles.service) THEN m.kind ELSE profiles.active
      PROVE  ProfilesInv'
  BY <1>1, <1>2, <1>6, <1>4 DEF PrefersThePreferred, FollowsTheLiving, UnlessRenewed
<1>7. CASE m.kind = "unregistered"
  <2>1. profiles' = IF profiles.service = m.name THEN Cleared ELSE profiles
    BY <1>1, <1>7 DEF DaemonGone
  <2>2. CASE profiles.service = m.name
    <3>1. ~profileMissed => PrefersThePreferred(Cleared, r, profileDaemons)
      BY <1>1, <1>2, <1>7, <2>2 DEF PrefersThePreferred
    <3> QED
      BY <1>0, <1>1, <1>2, <2>1, <2>2, <3>1, ClearedKeeps
  <2>3. CASE profiles.service # m.name
    <3>1. ~IsProfileOf(m, profiles.service)
      BY <2>3 DEF IsProfileOf
    <3> QED
      BY <1>0, <1>1, <1>6, <1>7, <2>1, <2>3, <3>1
  <2> QED
    BY <2>2, <2>3
<1>8. CASE m.kind \in Profiles
  <2>1. m.kind # "registered" /\ m.kind # "unregistered"
    BY <1>8, ProfilesAssumption
  <2>2. profiles' = IF profiles.connected /\ m.name = profiles.service THEN [profiles EXCEPT !.active = m.kind] ELSE profiles
    BY <1>1, <1>8, <2>1
  <2>3. /\ profiles' \in ProfileStates /\ profiles'.stage = "quiet" /\ profiles'.service = profiles.service
        /\ profiles'.available = profiles.available /\ profiles'.connected = profiles.connected
        /\ profiles'.active = IF profiles.connected /\ m.name = profiles.service THEN m.kind ELSE profiles.active
    BY <1>0, <1>1, <1>8, <2>2 DEF ProfileStates
  <2>4. profiles.connected = profiles.available /\ (~profiles.available => profiles.active = NoDaemon)
    BY <1>1
  <2>5. IsProfileOf(m, profiles.service) <=> m.name = profiles.service
    BY <1>8 DEF IsProfileOf
  <2> QED
    BY <1>6, <2>1, <2>3, <2>4, <2>5
<1> QED
  BY <1>3, <1>5, <1>7, <1>8

\* The daemons come, go and change their profile.
LEMMA DaemonKeeps ==
  ASSUME ProfilesInv, NEW name \in DaemonNames, DaemonStarts(name) \/ DaemonStops(name) \/ DaemonReplaced(name) \/ ProfileChanges(name)
  PROVE  ProfilesInv'
<1> USE DEF ProfilesInv
<1>0. profiles \in ProfileStates /\ profileDaemons \in DaemonStates /\ profileMissed \in BOOLEAN
  BY DEF ProfileTypeOK, ProfileStates, DaemonStates
<1>1. ASSUME NEW m \in ProfileMessages
      PROVE  LET r == Append(profileInbox, m) IN
         /\ r \in Seq(ProfileMessages)
         /\ \A n, k : Says(r, n, k) <=> Says(profileInbox, n, k) \/ (m.name = n /\ m.kind = k)
         /\ \A n : ~IsProfileOf(m, n) /\ (\A i \in DOMAIN profileInbox : ~IsProfileOf(profileInbox[i], n))
                   => \A i \in DOMAIN r : ~IsProfileOf(r[i], n)
         /\ \A n, s, p : EndsWith(profileInbox, n, s, p) /\ ~IsProfileOf(m, n) => EndsWith(r, n, s, p)
         /\ \A n, s : IsProfileOf(m, n) => EndsWith(r, n, s, m.kind)
         /\ \A O : ComesAgain(profileInbox, O) => ComesAgain(r, O \ {m.name}) /\ (m.kind \in Profiles => ComesAgain(r, O))
                                         /\ (m.kind = "registered" => ComesAgain(r, O \cup {m.name}))
  BY <1>1, InboxGrows
\* What the service remembers is not touched: the shape all three have.
<1>2. ASSUME profiles' = profiles, profileDaemons' \in DaemonStates, profileMissed' \in BOOLEAN, ~profileMissed' => ~profileMissed,
             profileInbox' \in Seq(ProfileMessages), ComesAgain(profileInbox', profileDaemons'.owned),
             \A n \in DaemonNames, k \in {"registered", "unregistered"} : Says(profileInbox, n, k) => Says(profileInbox', n, k),
             Preferred \in profileDaemons'.owned => Preferred \in profileDaemons.owned \/ Says(profileInbox', Preferred, "registered"),
             \A n \in profileDaemons.owned : n \in profileDaemons'.owned \/ Says(profileInbox', n, "unregistered"),
             ~profileMissed' /\ profiles.stage \in {"connect", "quiet"} /\ profiles.service \in profileDaemons.owned \cap profileDaemons'.owned =>
               \/ UNCHANGED profileInbox /\ profileDaemons'.active[profiles.service] = profileDaemons.active[profiles.service]
               \/ profiles.stage = "quiet" /\ ~profiles.available
               \/ /\ profiles.stage = "connect" =>
                       /\ (\A i \in DOMAIN profileInbox : ~IsProfileOf(profileInbox[i], profiles.service))
                          => (\A i \in DOMAIN profileInbox' : ~IsProfileOf(profileInbox'[i], profiles.service))
                       /\ profileDaemons'.active[profiles.service] = profileDaemons.active[profiles.service]
                  /\ profiles.stage = "quiet" =>
                       (EndsWith(profileInbox, profiles.service, profiles.active, profileDaemons.active[profiles.service])
                        => EndsWith(profileInbox', profiles.service, profiles.active, profileDaemons'.active[profiles.service])),
             \A n \in DaemonNames : n \in profileDaemons'.owned /\ n \notin profileDaemons.owned => Says(profileInbox', n, "registered")
      PROVE  ProfilesInv'
  BY <1>0, <1>2 DEF ProfileTypeOK, ProfileStates, DaemonStates, ProfileMessages, PrefersThePreferred, DaemonNames,
     FollowsTheLiving, UnlessRenewed
<1>3. CASE DaemonStarts(name)
  <2> DEFINE m == [name |-> name, kind |-> "registered"]
  <2>0. /\ \E p \in Profiles : profileDaemons' = [profileDaemons EXCEPT !.owned = @ \cup {name}, !.active[name] = p]
        /\ name \notin profileDaemons.owned /\ profileInbox' = Append(profileInbox, m) /\ UNCHANGED <<profiles, profileMissed>>
    BY <1>3, Zenon DEF DaemonStarts
  <2>1. PICK p \in Profiles : profileDaemons' = [profileDaemons EXCEPT !.owned = @ \cup {name}, !.active[name] = p]
    BY <2>0, Zenon
  <2>2. /\ profileDaemons' \in DaemonStates /\ profileDaemons'.owned = profileDaemons.owned \cup {name}
        /\ \A n \in DaemonNames : n # name => profileDaemons'.active[n] = profileDaemons.active[n]
    BY <1>0, <2>1 DEF DaemonStates
  <2>3. m \in ProfileMessages /\ m.name = name /\ m.kind = "registered" /\ \A n : ~IsProfileOf(m, n)
    BY ProfilesAssumption DEF ProfileMessages, IsProfileOf
  <2>4. name \notin profileDaemons.owned /\ profileInbox' = Append(profileInbox, m) /\ UNCHANGED <<profiles, profileMissed>>
    BY <2>0
  <2> HIDE DEF m
  <2>5. profileDaemons.owned \subseteq DaemonNames /\ Preferred \in DaemonNames
    BY <1>0 DEF DaemonStates, DaemonNames
  <2>6. /\ profileInbox' \in Seq(ProfileMessages) /\ ComesAgain(profileInbox', profileDaemons'.owned)
        /\ \A n, k : Says(profileInbox', n, k) <=> Says(profileInbox, n, k) \/ (name = n /\ k = "registered")
        /\ \A n : (\A i \in DOMAIN profileInbox : ~IsProfileOf(profileInbox[i], n))
                  => \A i \in DOMAIN profileInbox' : ~IsProfileOf(profileInbox'[i], n)
        /\ \A n, s, q : EndsWith(profileInbox, n, s, q) => EndsWith(profileInbox', n, s, q)
    <3>1. ComesAgain(profileInbox', profileDaemons.owned \cup {name})
      BY <2>3, <2>4, InboxGrows
    <3>2. ComesAgain(profileInbox', profileDaemons'.owned)
      BY <2>2, <3>1
    <3>3. /\ profileInbox' \in Seq(ProfileMessages)
          /\ \A n, k : Says(profileInbox', n, k) <=> Says(profileInbox, n, k) \/ (name = n /\ k = "registered")
      BY <1>1, <2>3, <2>4
    <3>4. \A n : (\A i \in DOMAIN profileInbox : ~IsProfileOf(profileInbox[i], n))
                => \A i \in DOMAIN profileInbox' : ~IsProfileOf(profileInbox'[i], n)
      BY <2>3, <2>4, InboxGrows
    <3>5. \A n, s, q : EndsWith(profileInbox, n, s, q) => EndsWith(profileInbox', n, s, q)
      BY <2>3, <2>4, InboxGrows
    <3> QED
      BY <3>2, <3>3, <3>4, <3>5
  <2> QED
    BY <1>0, <1>2, <2>2, <2>4, <2>5, <2>6
<1>4. CASE DaemonStops(name)
  <2> DEFINE m == [name |-> name, kind |-> "unregistered"]
  <2>1. /\ profileDaemons' = [profileDaemons EXCEPT !.owned = @ \ {name}]
        /\ profileInbox' = Append(profileInbox, m) /\ UNCHANGED <<profiles, profileMissed>>
    BY <1>4 DEF DaemonStops
  <2>2. /\ profileDaemons' \in DaemonStates /\ profileDaemons'.owned = profileDaemons.owned \ {name}
        /\ profileDaemons'.active = profileDaemons.active
    BY <1>0, <2>1 DEF DaemonStates
  <2>3. m \in ProfileMessages /\ m.name = name /\ m.kind = "unregistered" /\ \A n : ~IsProfileOf(m, n)
    BY ProfilesAssumption DEF ProfileMessages, IsProfileOf
  <2> HIDE DEF m
  <2>4. /\ profileInbox' \in Seq(ProfileMessages) /\ ComesAgain(profileInbox', profileDaemons'.owned)
        /\ \A n, k : Says(profileInbox', n, k) <=> Says(profileInbox, n, k) \/ (name = n /\ k = "unregistered")
        /\ \A n : (\A i \in DOMAIN profileInbox : ~IsProfileOf(profileInbox[i], n))
                  => \A i \in DOMAIN profileInbox' : ~IsProfileOf(profileInbox'[i], n)
        /\ \A n, s, p : EndsWith(profileInbox, n, s, p) => EndsWith(profileInbox', n, s, p)
    <3> DEFINE r == profileInbox'
    <3>1. r = Append(profileInbox, m)
      BY <2>1
    <3> HIDE DEF r
    <3>2. ComesAgain(r, profileDaemons.owned \ {name})
      BY <1>1, <2>3, <3>1, InboxGrows
    <3>3. /\ r \in Seq(ProfileMessages)
          /\ \A n, k : Says(r, n, k) <=> Says(profileInbox, n, k) \/ (name = n /\ k = "unregistered")
      BY <1>1, <2>3, <3>1, InboxGrows
    <3>4. \A n : (\A i \in DOMAIN profileInbox : ~IsProfileOf(profileInbox[i], n))
                => \A i \in DOMAIN r : ~IsProfileOf(r[i], n)
      BY <1>1, <2>3, <3>1, InboxGrows
    <3>5. \A n, s, p : EndsWith(profileInbox, n, s, p) => EndsWith(r, n, s, p)
      BY <1>1, <2>3, <3>1, InboxGrows
    <3> QED
      BY <2>2, <3>2, <3>3, <3>4, <3>5 DEF r
  <2>5. profileDaemons.owned \subseteq DaemonNames
    BY <1>0 DEF DaemonStates
  <2> QED
    BY <1>0, <1>2, <2>1, <2>2, <2>4, <2>5
<1>5. CASE ProfileChanges(name)
  <2>1. PICK p \in Profiles :
          /\ profileDaemons' = [profileDaemons EXCEPT !.active[name] = p]
          /\ IF profiles.connected /\ profiles.service = name
             THEN profileInbox' = Append(profileInbox, [name |-> name, kind |-> p]) /\ UNCHANGED profileMissed
             ELSE profileMissed' = (profileMissed \/ profiles.stage = "connect") /\ UNCHANGED profileInbox
    BY <1>5 DEF ProfileChanges
  <2>2. /\ profileDaemons' \in DaemonStates /\ profileDaemons'.owned = profileDaemons.owned
        /\ profileDaemons'.active[name] = p
        /\ \A n \in DaemonNames : n # name => profileDaemons'.active[n] = profileDaemons.active[n]
    BY <1>0, <2>1 DEF DaemonStates
  <2>3. profiles' = profiles /\ profileMissed' \in BOOLEAN /\ (~profileMissed' => ~profileMissed)
    BY <1>0, <1>5, <2>1 DEF ProfileChanges
  <2>4. CASE profiles.connected /\ profiles.service = name
    <3> DEFINE m == [name |-> name, kind |-> p]
    <3>1. m \in ProfileMessages /\ m.name = name /\ m.kind = p /\ IsProfileOf(m, name)
      BY DEF ProfileMessages, IsProfileOf
    <3>2. profileInbox' = Append(profileInbox, m) /\ profileMissed' = profileMissed
      BY <2>1, <2>4
    <3> HIDE DEF m
    <3>3. /\ profileInbox' \in Seq(ProfileMessages) /\ ComesAgain(profileInbox', profileDaemons'.owned)
          /\ \A n, k : Says(profileInbox, n, k) => Says(profileInbox', n, k)
          /\ EndsWith(profileInbox', name, profiles.active, p)
      BY <1>1, <2>2, <3>1, <3>2
    <3>4. profiles.stage # "connect"
      BY <2>4
    <3> QED
      BY <1>2, <2>2, <2>3, <2>4, <3>3, <3>4
  <2>5. CASE ~(profiles.connected /\ profiles.service = name)
    <3>1. profileInbox' = profileInbox /\ (~profileMissed' => profiles.stage # "connect")
      BY <2>1, <2>5
    <3>2. profiles.stage = "quiet" /\ profiles.service = name => ~profiles.available
      BY <2>5
    <3>3. profiles.service \in profileDaemons.owned => profiles.service \in DaemonNames
      BY <1>0 DEF DaemonStates
    <3> QED
      BY <1>2, <2>2, <2>3, <3>1, <3>2, <3>3
  <2> QED
    BY <2>4, <2>5
<1>6. CASE DaemonReplaced(name)
  <2>1. PICK p \in Profiles : profileDaemons' = [profileDaemons EXCEPT !.active[name] = p]
    BY <1>6 DEF DaemonReplaced
  <2>2. /\ profileDaemons' \in DaemonStates /\ profileDaemons'.owned = profileDaemons.owned
        /\ \A n \in DaemonNames : n # name => profileDaemons'.active[n] = profileDaemons.active[n]
    BY <1>0, <2>1 DEF DaemonStates
  <2>3. /\ profileMissed' = (profileMissed \/ (profiles.service = name /\ (profiles.connected \/ profiles.stage = "connect")))
        /\ profileInbox' = profileInbox /\ profiles' = profiles
    BY <1>6 DEF DaemonReplaced
  <2>4. profileMissed' \in BOOLEAN /\ (~profileMissed' => ~profileMissed)
    BY <1>0, <2>3
  <2>5. profiles.stage = "quiet" => profiles.connected = profiles.available
    OBVIOUS
  <2>6. ~profileMissed' /\ profiles.stage \in {"connect", "quiet"} /\ profiles.service \in profileDaemons.owned =>
          \/ profileDaemons'.active[profiles.service] = profileDaemons.active[profiles.service]
          \/ profiles.stage = "quiet" /\ ~profiles.available
    <3>1. profileDaemons.owned \subseteq DaemonNames
      BY <1>0 DEF DaemonStates
    <3> QED
      BY <2>2, <2>3, <2>5, <3>1
  <2> QED
    BY <1>2, <2>2, <2>3, <2>4, <2>6
<1> QED
  BY <1>3, <1>4, <1>5, <1>6

\* For any profiles: at rest the daemon followed is there and preferred, and its profile is
\* shown. What is not so yet, a message on its way will say, in an order that the
\* restarts of a daemon do not upset (ComesAgain).
THEOREM ProfilesAreAlwaysTrue ==
  ProfilesInit /\ [][ProfilesNext]_profileVars => [](ProfileTypeOK /\ ProfilesAreTrue)
<1>1. ProfilesInit => ProfilesInv
  <2> SUFFICES ASSUME ProfilesInit PROVE ProfilesInv
    OBVIOUS
  <2>1. profileInbox = <<>> /\ profiles = [Cleared EXCEPT !.stage = "new"] /\ profileMissed = FALSE
        /\ profileDaemons \in DaemonStates
    BY DEF ProfilesInit, DaemonStates
  <2>2. profiles \in ProfileStates /\ profiles.stage = "new"
    BY <2>1, ClearedIsQuiet DEF ProfileStates
  <2>3. ProfileTypeOK /\ profileInbox \in Seq(ProfileMessages)
    <3>1. <<>> \in Seq(ProfileMessages)
      OBVIOUS
    <3> QED
      BY <2>1, <2>2, <3>1 DEF ProfileTypeOK, ProfileStates, DaemonStates, ProfileMessages
  <2>4. ComesAgain(profileInbox, profileDaemons.owned)
    BY <2>1 DEF ComesAgain
  <2> QED
    BY <2>2, <2>3, <2>4 DEF ProfilesInv
<1>2. ProfilesInv /\ [ProfilesNext]_profileVars => ProfilesInv'
  <2>1. ASSUME ProfilesInv, UNCHANGED profileVars PROVE ProfilesInv'
    BY <2>1 DEF ProfilesInv, ProfileTypeOK, profileVars
  <2> QED
    BY <2>1, ReadingKeeps, HearBusKeeps, DaemonKeeps DEF ProfilesNext
<1>3. ProfilesInv => ProfileTypeOK /\ ProfilesAreTrue
  BY DEF ProfilesInv, ProfilesAreTrue, Says, FollowsTheLiving, PrefersThePreferred, UnlessRenewed, EndsWith
<1> QED
  BY <1>1, <1>2, <1>3, PTL

----------------------------------------------------------------------------
(***************************************************************************)
(* Idleness, the inhibitors and the poll.                                  *)
(***************************************************************************)

IdleSeats == [global : BOOLEAN, away : BOOLEAN, made : 0..MaxObjects, idled : SUBSET Objects]
IdleNews == [object : Objects, idled : BOOLEAN]
IdleStates == [idle : BOOLEAN, available : BOOLEAN, inhibited : BOOLEAN, fd : BOOLEAN, replaced : BOOLEAN]
Savers == [cookies : SUBSET (1..MaxCookies), next : 1..(MaxCookies + 1), fd : BOOLEAN]
SleepLists == [now : SUBSET Inhibitors, shown : SUBSET Inhibitors, missed : BOOLEAN]
SleepPolls == [process : {"none", "running", "killed", "read"}, inFlight : BOOLEAN, paused : BOOLEAN,
               timer : BOOLEAN, entries : SUBSET Inhibitors]

\* The last event of the object o says v; when none is on its way, the service has it.
LastIs(events, o, i, v) ==
  /\ (\A k \in DOMAIN events : events[k].object # o) => i.replaced \/ i.idle = v
  /\ \A k \in DOMAIN events :
       events[k].object = o /\ (\A j \in DOMAIN events : j > k => events[j].object # o) => events[k].idled = v

\* The objects the compositor spoke of are made; only the current one is idled, and only
\* while the user is away; its events and the service tell of it.
SeatIsTold ==
  /\ idleSeat \in IdleSeats /\ idleEvents \in Seq(IdleNews)
  /\ idleBackend \in [active : BOOLEAN, object : Objects \cup {None}] /\ idle \in IdleStates
  /\ idleBackend.object \in 0..idleSeat.made
  /\ idleSeat.idled \subseteq {idleBackend.object} /\ (idleSeat.idled # {} => idleSeat.away)
  /\ \A k \in DOMAIN idleEvents : idleEvents[k].object <= idleSeat.made
  /\ idleBackend.object # None => LastIs(idleEvents, idleBackend.object, idle, idleBackend.object \in idleSeat.idled)
  /\ idle.available = idleSeat.global /\ idle.fd = idle.inhibited

SaverHolds == screenSaver \in Savers /\ screenSaver.fd = (screenSaver.cookies # {})

\* What busctl has read is the list, unless that changed since.
PollIsTrue ==
  /\ sleepList \in SleepLists /\ sleepPoll \in SleepPolls
  /\ sleepPoll.inFlight = (sleepPoll.process # "none")
  /\ sleepPoll.timer => ~sleepPoll.paused
  /\ ~sleepList.missed /\ sleepPoll.process = "read" => sleepPoll.entries = sleepList.now
  /\ ~sleepList.missed /\ sleepPoll.process = "none" => sleepList.shown = sleepList.now

IdleInv == SeatIsTold /\ SaverHolds /\ PollIsTrue

\* One more event about the current object is the last.
LEMMA NewsIsLast ==
  ASSUME NEW q \in Seq(IdleNews), NEW o \in Objects, NEW v \in BOOLEAN, NEW r,
         r = Append(q, [object |-> o, idled |-> v])
  PROVE  /\ r \in Seq(IdleNews) /\ \A i : LastIs(r, o, i, v)
         /\ \A m : (\A k \in DOMAIN q : q[k].object <= m) /\ o <= m => \A k \in DOMAIN r : r[k].object <= m
BY PutAtTheEnd DEF IdleNews, LastIs

\* The first event is heard.
LEMMA NewsIsHeard ==
  ASSUME NEW q \in Seq(IdleNews), q # <<>>, NEW r, r = Tail(q), NEW o, NEW i \in IdleStates, NEW v, LastIs(q, o, i, v)
  PROVE  LastIs(r, o, IF Head(q).object = o THEN OnThresholdExceeded(i, Head(q).idled) ELSE i, v)
<1> DEFINE h == Head(q)
           j == IF h.object = o THEN OnThresholdExceeded(i, h.idled) ELSE i
<1>1. /\ Len(q) \in Nat \ {0} /\ DOMAIN q = 1..Len(q) /\ DOMAIN r = 1..(Len(q) - 1) /\ h = q[1] /\ h \in IdleNews
      /\ \A k \in 1..(Len(q) - 1) : r[k] = q[k + 1]
  BY TakenFrom
<1>2. IF h.object = o THEN j.idle = h.idled ELSE j = i
  BY <1>1 DEF OnThresholdExceeded, IdleStates, IdleNews
<1> HIDE DEF h, j
<1>3. \A k \in DOMAIN q : k \in Nat /\ (k # 1 => k - 1 \in DOMAIN r /\ r[k - 1] = q[k])
  BY <1>1
<1>4. ASSUME \A k \in DOMAIN r : r[k].object # o PROVE j.replaced \/ j.idle = v
  <2>1. \A k \in DOMAIN q : k # 1 => q[k].object # o
    BY <1>3, <1>4
  <2>2. 1 \in DOMAIN q /\ \A k \in DOMAIN q : k > 1 => k # 1
    BY <1>1
  <2>3. CASE h.object = o
    BY <1>1, <1>2, <2>1, <2>2, <2>3 DEF LastIs
  <2>4. CASE h.object # o
    BY <1>1, <2>1, <2>4, <1>2 DEF LastIs
  <2> QED
    BY <2>3, <2>4
<1>5. ASSUME NEW k \in DOMAIN r, r[k].object = o, \A l \in DOMAIN r : l > k => r[l].object # o
      PROVE  r[k].idled = v
  <2>1. k + 1 \in DOMAIN q /\ r[k] = q[k + 1] /\ k \in Nat /\ k > 0
    BY <1>1
  <2>2. ASSUME NEW l \in DOMAIN q, l > k + 1 PROVE q[l].object # o
    <3>1. l # 1 /\ l - 1 > k
      BY <1>3, <2>1, <2>2
    <3> QED
      BY <1>3, <1>5, <3>1
  <2> QED
    BY <1>5, <2>1, <2>2 DEF LastIs
<1> QED
  BY <1>4, <1>5 DEF LastIs, j, h

LEMMA SeatKeeps ==
  ASSUME SeatIsTold,
         \/ UserLeaves \/ LateThreshold \/ UserReturns \/ GlobalTurns \/ SetIdleThreshold \/ IdleEvent
         \/ \E held \in BOOLEAN : SetIdleInhibited(held)
  PROVE  SeatIsTold' /\ UNCHANGED <<screenSaver, sleepList, sleepPoll>>
<1> USE DEF SeatIsTold
<1> DEFINE o == idleBackend.object
           Backends == [active : BOOLEAN, object : Objects \cup {None}]
<1>0. /\ idleSeat.made \in 0..MaxObjects /\ idleSeat.global \in BOOLEAN /\ o \in Objects \cup {None}
      /\ (o # None => o \in Objects) /\ None \notin Objects /\ MaxObjects \in Nat
      /\ o \in Nat /\ o <= idleSeat.made
  BY IdleAssumption DEF IdleSeats, Objects, None
\* An event about the current object is sent: all that the compositor tells.
<1>1. ASSUME NEW v \in BOOLEAN, o # None, idleSeat' \in IdleSeats, idleSeat'.made = idleSeat.made,
             idleSeat'.global = idleSeat.global, idleSeat'.idled \subseteq {o}, idleSeat'.idled # {} => idleSeat'.away,
             v = (o \in idleSeat'.idled),
             idleEvents' = Append(idleEvents, [object |-> o, idled |-> v]), UNCHANGED <<idleBackend, idle>>
      PROVE  SeatIsTold'
  <2>1. o \in Objects /\ idleEvents \in Seq(IdleNews) /\ (\A k \in DOMAIN idleEvents : idleEvents[k].object <= idleSeat.made)
    BY <1>0, <1>1
  <2> DEFINE r == Append(idleEvents, [object |-> o, idled |-> v])
             m == idleSeat.made
  <2>2. r \in Seq(IdleNews) /\ LastIs(r, o, idle, v) /\ \A k \in DOMAIN r : r[k].object <= m
    <3>0. r = Append(idleEvents, [object |-> o, idled |-> v]) /\ v \in BOOLEAN
      OBVIOUS
    <3> HIDE DEF m, o, SeatIsTold, r
    <3>1. r \in Seq(IdleNews) /\ LastIs(r, o, idle, v)
      BY <2>1, <3>0, NewsIsLast
    <3>3. (\A k \in DOMAIN idleEvents : idleEvents[k].object <= m) /\ o <= m => \A k \in DOMAIN r : r[k].object <= m
      BY <2>1, <3>0, NewsIsLast
    <3>2. (\A k \in DOMAIN idleEvents : idleEvents[k].object <= m) /\ o <= m
      BY <1>0, <2>1 DEF m
    <3> QED
      BY <3>1, <3>2, <3>3
  <2> HIDE DEF r
  <2>3. idleEvents' = r
    BY <1>1 DEF r
  <2> QED
    BY <1>0, <1>1, <2>2, <2>3
\* The object is made anew.
<1>2. ASSUME NEW n \in Objects, n = idleSeat.made + 1, idleSeat' \in IdleSeats, idleSeat'.made = n, idleSeat'.idled = {},
             idleBackend' \in Backends, idleBackend'.object = n, UNCHANGED idleEvents,
             idle' \in IdleStates, idle'.replaced = (idle.replaced \/ idle.idle \/ idleEvents # <<>>), idle'.idle = idle.idle,
             idle'.available = idleSeat'.global, idle'.fd = idle'.inhibited
      PROVE  SeatIsTold'
  <2>1. \A k \in DOMAIN idleEvents : idleEvents[k].object \in Nat /\ idleEvents[k].object <= idleSeat.made
    <3>1. ASSUME NEW k \in DOMAIN idleEvents PROVE idleEvents[k].object \in Nat
      <4>1. idleEvents[k] \in IdleNews
        OBVIOUS
      <4> QED
        BY <4>1 DEF IdleNews, Objects
    <3> QED
      BY <3>1
  <2>2. \A k \in DOMAIN idleEvents : idleEvents[k].object # n /\ idleEvents[k].object <= n
    BY <1>0, <1>2, <2>1
  <2>3. idle'.replaced \/ idle'.idle = FALSE
    BY <1>2 DEF IdleStates
  <2>4. LastIs(idleEvents', n, idle', n \in idleSeat'.idled)
    <3>1. n \notin idleSeat'.idled /\ idleEvents' = idleEvents
      BY <1>2
    <3>2. ~\E k \in DOMAIN idleEvents : idleEvents[k].object = n
      BY <2>2
    <3>3. idle'.replaced \/ idle'.idle = (n \in idleSeat'.idled)
      <4> DEFINE told == n \in idleSeat'.idled
      <4>1. told = FALSE
        BY <3>1
      <4> HIDE DEF told
      <4>2. idle'.replaced \/ idle'.idle = told
        BY <2>3, <4>1
      <4> QED
        BY <4>2 DEF told
    <3> HIDE DEF SeatIsTold
    <3> QED
      BY <3>1, <3>2, <3>3 DEF LastIs
  <2>5. n \in 0..idleSeat'.made
    BY <1>0, <1>2
  <2> QED
    BY <1>2, <2>2, <2>4, <2>5
<1>3. CASE UserLeaves
  <2> DEFINE s == [idleSeat EXCEPT !.away = TRUE, !.idled = IF o = None THEN @ ELSE @ \cup {o}]
  <2>1. /\ idleSeat' = s /\ UNCHANGED <<idleBackend, idle, screenSaver, sleepList, sleepPoll>> /\ ~idleSeat.away
        /\ idleEvents' = IF o = None THEN idleEvents ELSE Append(idleEvents, [object |-> o, idled |-> TRUE])
    BY <1>3 DEF UserLeaves, IdleOthers
  <2>2. /\ s \in IdleSeats /\ s.made = idleSeat.made /\ s.global = idleSeat.global /\ s.away
        /\ s.idled = (IF o = None THEN idleSeat.idled ELSE idleSeat.idled \cup {o})
    BY <1>0 DEF IdleSeats
  <2> HIDE DEF s
  <2>3. CASE o = None
    BY <2>1, <2>2, <2>3
  <2>4. CASE o # None
    BY <1>1, <2>1, <2>2, <2>4
  <2> QED
    BY <2>1, <2>3, <2>4
<1>4. CASE LateThreshold
  <2> DEFINE s == [idleSeat EXCEPT !.idled = @ \cup {o}]
  <2>1. /\ idleSeat' = s /\ UNCHANGED <<idleBackend, idle, screenSaver, sleepList, sleepPoll>> /\ o # None /\ idleSeat.away
        /\ idleEvents' = Append(idleEvents, [object |-> o, idled |-> TRUE])
    BY <1>4 DEF LateThreshold, IdleOthers
  <2>2. /\ s \in IdleSeats /\ s.made = idleSeat.made /\ s.global = idleSeat.global /\ s.away = idleSeat.away
        /\ s.idled = idleSeat.idled \cup {o}
    BY <1>0, <2>1 DEF IdleSeats
  <2> HIDE DEF s
  <2> QED
    BY <1>1, <2>1, <2>2
<1>5. CASE UserReturns
  <2> DEFINE s == [idleSeat EXCEPT !.away = FALSE, !.idled = {}]
  <2>1. /\ idleSeat' = s /\ UNCHANGED <<idleBackend, idle, screenSaver, sleepList, sleepPoll>>
        /\ idleEvents' = IF o \in idleSeat.idled THEN Append(idleEvents, [object |-> o, idled |-> FALSE]) ELSE idleEvents
    BY <1>5 DEF UserReturns, IdleOthers
  <2>2. /\ s \in IdleSeats /\ s.made = idleSeat.made /\ s.global = idleSeat.global /\ ~s.away /\ s.idled = {}
    BY DEF IdleSeats
  <2>3. idleSeat.idled \subseteq Objects
    BY DEF IdleSeats
  <2> HIDE DEF s
  <2>4. CASE o \in idleSeat.idled
    <3>1. o # None
      BY <1>0, <2>3, <2>4
    <3>2. idleEvents' = Append(idleEvents, [object |-> o, idled |-> FALSE]) /\ FALSE = (o \in idleSeat'.idled)
      BY <2>1, <2>2, <2>4
    <3>3. /\ idleSeat' \in IdleSeats /\ idleSeat'.made = idleSeat.made /\ idleSeat'.global = idleSeat.global
          /\ idleSeat'.idled \subseteq {o} /\ (idleSeat'.idled # {} => idleSeat'.away)
      BY <2>1, <2>2
    <3> QED
      BY <1>1, <2>1, <3>1, <3>2, <3>3
  <2>5. CASE o \notin idleSeat.idled
    BY <2>1, <2>2, <2>5
  <2> QED
    BY <2>1, <2>4, <2>5
<1>6. CASE GlobalTurns
  <2> DEFINE active == ~idleSeat.global
             n == IF active THEN idleSeat.made + 1 ELSE None
             s == [idleSeat EXCEPT !.global = active, !.idled = {}, !.made = IF active THEN @ + 1 ELSE @]
             b == [idleBackend EXCEPT !.active = active, !.object = n]
             i == [idle EXCEPT !.available = active, !.replaced = @ \/ idle.idle \/ idleEvents # <<>>]
  <2>1. /\ idleSeat' = s /\ idleBackend' = b /\ idle' = i /\ UNCHANGED <<idleEvents, screenSaver, sleepList, sleepPoll>>
        /\ idleSeat.global \/ idleSeat.made < MaxObjects
    BY <1>6 DEF GlobalTurns, IdleOthers
  <2>2. active \in BOOLEAN /\ n \in Objects \cup {None} /\ (active => n \in Objects /\ n = idleSeat.made + 1)
    BY <1>0, <2>1 DEF Objects, None
  <2>3. /\ s \in IdleSeats /\ s.idled = {} /\ s.global = active /\ s.made = (IF active THEN n ELSE idleSeat.made)
    <3> DEFINE g == IF active THEN idleSeat.made + 1 ELSE idleSeat.made
    <3>1. g \in 0..MaxObjects /\ {} \in SUBSET Objects /\ g = IF active THEN n ELSE idleSeat.made
      BY <1>0, <2>1
    <3>2. s = [idleSeat EXCEPT !.global = active, !.idled = {}, !.made = g]
      OBVIOUS
    <3> HIDE DEF g, n, active
    <3> QED
      BY <2>2, <3>1, <3>2 DEF IdleSeats
  <2>4. b \in Backends /\ b.object = n
    BY <2>2
  <2>5. (idle.replaced \/ idle.idle \/ idleEvents # <<>>) \in BOOLEAN
    OBVIOUS
  <2>6. /\ i \in IdleStates /\ i.idle = idle.idle /\ i.available = active /\ i.fd = idle.fd /\ i.inhibited = idle.inhibited
        /\ i.replaced = (idle.replaced \/ idle.idle \/ idleEvents # <<>>)
    BY <2>2, <2>5 DEF IdleStates
  <2> HIDE DEF s, b, i
  <2>7. CASE active
    BY <1>2, <2>1, <2>2, <2>3, <2>4, <2>6, <2>7
  <2>8. CASE ~active
    BY <1>0, <2>3, <2>8, <2>1, <2>4, <2>6 DEF None
  <2> QED
    BY <2>1, <2>7, <2>8
<1>7. CASE SetIdleThreshold
  <2> DEFINE n == idleSeat.made + 1
             s == [idleSeat EXCEPT !.made = @ + 1, !.idled = {}]
             b == [idleBackend EXCEPT !.object = n]
             i == [idle EXCEPT !.replaced = @ \/ idle.idle \/ idleEvents # <<>>]
  <2>1. /\ idleSeat' = s /\ idleBackend' = b /\ idle' = i /\ UNCHANGED <<idleEvents, screenSaver, sleepList, sleepPoll>>
        /\ idleSeat.made < MaxObjects
    BY <1>7 DEF SetIdleThreshold, IdleOthers
  <2>2. n \in Objects
    BY <1>0, <2>1 DEF Objects
  <2>3. /\ s \in IdleSeats /\ s.idled = {} /\ s.global = idleSeat.global /\ s.made = n
    <3>1. n \in 0..MaxObjects /\ {} \in SUBSET Objects /\ s = [idleSeat EXCEPT !.made = n, !.idled = {}]
      BY <1>0, <2>1
    <3> HIDE DEF n
    <3> QED
      BY <3>1 DEF IdleSeats
  <2>4. b \in Backends /\ b.object = n
    BY <2>2
  <2>5. (idle.replaced \/ idle.idle \/ idleEvents # <<>>) \in BOOLEAN
    OBVIOUS
  <2>6. /\ i \in IdleStates /\ i.idle = idle.idle /\ i.available = idle.available /\ i.fd = idle.fd
        /\ i.inhibited = idle.inhibited /\ i.replaced = (idle.replaced \/ idle.idle \/ idleEvents # <<>>)
    BY <2>5 DEF IdleStates
  <2> HIDE DEF s, b, i
  <2> QED
    BY <1>2, <2>1, <2>2, <2>3, <2>4, <2>6
<1>8. CASE IdleEvent
  <2> DEFINE i == IF Head(idleEvents).object = o THEN OnThresholdExceeded(idle, Head(idleEvents).idled) ELSE idle
  <2>1. /\ idleEvents # <<>> /\ idleEvents' = Tail(idleEvents) /\ idle' = i
        /\ UNCHANGED <<idleSeat, idleBackend, screenSaver, sleepList, sleepPoll>>
    BY <1>8 DEF IdleEvent, IdleOthers
  <2>2. /\ idleEvents' \in Seq(IdleNews) /\ Head(idleEvents) \in IdleNews
        /\ \A k \in DOMAIN idleEvents' : idleEvents'[k].object <= idleSeat.made
    BY <2>1, TakenFrom
  <2>3. /\ i \in IdleStates /\ i.available = idle.available /\ i.fd = idle.fd /\ i.inhibited = idle.inhibited
    BY <2>2 DEF IdleStates, OnThresholdExceeded, IdleNews
  <2>4. o # None => LastIs(idleEvents', o, i, o \in idleSeat.idled)
    BY <2>1, NewsIsHeard
  <2> HIDE DEF i
  <2> QED
    BY <2>1, <2>2, <2>3, <2>4
<1>9. ASSUME NEW held \in BOOLEAN, SetIdleInhibited(held) PROVE SeatIsTold' /\ UNCHANGED <<screenSaver, sleepList, sleepPoll>>
  <2>1. /\ UNCHANGED <<idleSeat, idleEvents, idleBackend, screenSaver, sleepList, sleepPoll>>
        /\ idle' \in {[idle EXCEPT !.inhibited = TRUE, !.fd = TRUE], idle, [idle EXCEPT !.inhibited = FALSE, !.fd = FALSE]}
    BY <1>9 DEF SetIdleInhibited, IdleOthers
  <2>2. /\ idle' \in IdleStates /\ idle'.idle = idle.idle /\ idle'.available = idle.available
        /\ idle'.replaced = idle.replaced /\ idle'.fd = idle'.inhibited
    BY <2>1 DEF IdleStates
  <2>3. o # None => LastIs(idleEvents', o, idle', o \in idleSeat.idled)
    BY <2>1, <2>2 DEF LastIs
  <2> QED
    BY <2>1, <2>2, <2>3
<1> QED
  BY <1>3, <1>4, <1>5, <1>6, <1>7, <1>8, <1>9

LEMMA SaverKeeps ==
  ASSUME SaverHolds, Inhibit \/ \E c \in 1..MaxCookies : UnInhibit(c)
  PROVE  SaverHolds' /\ UNCHANGED <<idleSeat, idleEvents, idleBackend, idle, sleepList, sleepPoll>>
<1> USE DEF SaverHolds, Savers
<1>1. CASE Inhibit
  <2>1. CASE screenSaver' = [screenSaver EXCEPT !.cookies = @ \cup {screenSaver.next}, !.next = @ + 1, !.fd = TRUE]
    <3>1. screenSaver.next \in 1..MaxCookies /\ screenSaver.next + 1 \in 1..(MaxCookies + 1)
      BY <1>1, IdleAssumption DEF Inhibit
    <3>2. UNCHANGED <<idleSeat, idleEvents, idleBackend, idle, sleepList, sleepPoll>>
      BY <1>1 DEF Inhibit
    <3> QED
      BY <2>1, <3>1, <3>2
  <2>2. CASE UNCHANGED screenSaver
    BY <1>1, <2>2 DEF Inhibit
  <2> QED
    BY <1>1, <2>1, <2>2 DEF Inhibit
<1>2. ASSUME NEW c \in 1..MaxCookies, UnInhibit(c)
      PROVE  SaverHolds' /\ UNCHANGED <<idleSeat, idleEvents, idleBackend, idle, sleepList, sleepPoll>>
  <2> DEFINE left == screenSaver.cookies \ {c}
             f == screenSaver.fd /\ KeepsInhibitor(left)
  <2>1. screenSaver' = (IF c \notin screenSaver.cookies THEN screenSaver ELSE [screenSaver EXCEPT !.cookies = left, !.fd = f])
        /\ UNCHANGED <<idleSeat, idleEvents, idleBackend, idle, sleepList, sleepPoll>>
    BY <1>2 DEF UnInhibit
  <2>2. f \in BOOLEAN /\ (c \in screenSaver.cookies => f = (left # {}))
    BY DEF KeepsInhibitor
  <2> HIDE DEF f
  <2> QED
    BY <2>1, <2>2
<1> QED
  BY <1>1, <1>2

LEMMA PollKeeps ==
  ASSUME PollIsTrue,
         \/ \E i \in Inhibitors : InhibitorsChange(i)
         \/ PollDue \/ PausePolls \/ ResumePolls \/ BusctlReads \/ BusctlTimeout \/ BusctlEnds
  PROVE  PollIsTrue' /\ UNCHANGED <<idleSeat, idleEvents, idleBackend, idle, screenSaver>>
<1> USE DEF PollIsTrue, SleepLists, SleepPolls
<1>1. ASSUME NEW i \in Inhibitors, InhibitorsChange(i)
      PROVE  PollIsTrue' /\ UNCHANGED <<idleSeat, idleEvents, idleBackend, idle, screenSaver>>
  BY <1>1 DEF InhibitorsChange, PollOthers
<1>2. CASE PollDue
  BY <1>2 DEF PollDue, Poll, PollOthers
<1>3. CASE PausePolls
  BY <1>3 DEF PausePolls, PollOthers
<1>4. CASE ResumePolls
  <2> DEFINE p == [sleepPoll EXCEPT !.paused = FALSE]
  <2>1. /\ p \in SleepPolls /\ p.process = sleepPoll.process /\ p.inFlight = sleepPoll.inFlight
        /\ p.entries = sleepPoll.entries /\ p.paused = FALSE
    OBVIOUS
  <2>2. sleepPoll' = [Poll(p) EXCEPT !.timer = TRUE] /\ UNCHANGED sleepList
        /\ UNCHANGED <<idleSeat, idleEvents, idleBackend, idle, screenSaver>>
    BY <1>4 DEF ResumePolls, PollOthers
  <2> HIDE DEF p
  <2> QED
    BY <2>1, <2>2 DEF Poll
<1>5. CASE BusctlReads
  BY <1>5 DEF BusctlReads, PollOthers
<1>6. CASE BusctlTimeout
  BY <1>6 DEF BusctlTimeout, PollOthers
<1>7. CASE BusctlEnds
  <2> DEFINE ok == sleepPoll.process = "read"
  <2>1. /\ sleepPoll' = [[sleepPoll EXCEPT !.inFlight = FALSE] EXCEPT !.process = "none", !.entries = {}]
        /\ sleepList' = IF ok /\ ~sleepPoll.paused THEN [sleepList EXCEPT !.shown = sleepPoll.entries]
                        ELSE [sleepList EXCEPT !.missed = TRUE]
        /\ UNCHANGED <<idleSeat, idleEvents, idleBackend, idle, screenSaver>>
    BY <1>7 DEF BusctlEnds, PollEnds, PollOthers
  <2> QED
    BY <2>1
<1> QED
  BY <1>1, <1>2, <1>3, <1>4, <1>5, <1>6, <1>7

\* For any bounds: idle is what the user is once the compositor's events are heard, the inhibitors
\* are held for those who asked, and a poll always ends with what logind has.
THEOREM IdleIsAlwaysTrue ==
  IdleInit /\ [][IdleNext]_idleVars => [](IdleTypeOK /\ IdleIsTrue /\ PollsGoOn)
<1>1. IdleInit => IdleInv
  <2> SUFFICES ASSUME IdleInit PROVE IdleInv
    OBVIOUS
  <2> USE DEF IdleInit
  <2>1. SeatIsTold
    BY IdleAssumption DEF IdleSeats, None, IdleStates, SeatIsTold
  <2>2. SaverHolds
    <3>1. 1 \in 1..(MaxCookies + 1)
      BY IdleAssumption
    <3> QED
      BY <3>1 DEF SaverHolds, Savers
  <2>3. PollIsTrue
    BY DEF PollIsTrue, SleepLists, SleepPolls
  <2> QED
    BY <2>1, <2>2, <2>3 DEF IdleInv
<1>2. IdleInv /\ [IdleNext]_idleVars => IdleInv'
  BY SeatKeeps, SaverKeeps, PollKeeps DEF IdleInv, SeatIsTold, LastIs, SaverHolds, PollIsTrue, idleVars, IdleNext
<1>3. IdleInv => IdleTypeOK /\ IdleIsTrue /\ PollsGoOn
  <2> SUFFICES ASSUME IdleInv PROVE IdleTypeOK /\ IdleIsTrue /\ PollsGoOn
    OBVIOUS
  <2>1. IdleTypeOK
    <3>1. idleSeat.global \in BOOLEAN /\ idleSeat.away \in BOOLEAN /\ idleSeat.made \in 0..MaxObjects
          /\ idleSeat.idled \subseteq Objects
      BY DEF IdleInv, SeatIsTold, IdleSeats
    <3>2. \A i \in DOMAIN idleEvents : idleEvents[i].object \in Objects \cup {None}
      <4>1. idleEvents \in Seq(IdleNews)
        BY DEF IdleInv, SeatIsTold
      <4>2. \A i \in DOMAIN idleEvents : idleEvents[i] \in IdleNews
        BY <4>1
      <4> QED
        BY <4>2 DEF IdleNews
    <3>3. idleBackend.active \in BOOLEAN /\ idleBackend.object \in Objects \cup {None} /\ idle \in IdleStates
      BY DEF IdleInv, SeatIsTold
    <3>4. screenSaver \in Savers
      BY DEF IdleInv, SaverHolds
    <3>5. sleepList \in SleepLists /\ sleepPoll \in SleepPolls
      BY DEF IdleInv, PollIsTrue
    <3> QED
      BY <3>1, <3>2, <3>3, <3>4, <3>5 DEF IdleTypeOK, IdleStates, Savers, SleepLists, SleepPolls
  <2>2. ASSUME idleEvents = <<>>, ~idle.replaced, idleBackend.object # None,
               idleSeat.away => idleBackend.object \in idleSeat.idled
        PROVE  idle.idle = idleSeat.away
    BY <2>2 DEF IdleInv, SeatIsTold, LastIs, IdleSeats
  <2> QED
    BY <2>1, <2>2 DEF IdleInv, SeatIsTold, SaverHolds, PollIsTrue, IdleIsTrue, PollsGoOn
<1> QED
  BY <1>1, <1>2, <1>3, PTL

----------------------------------------------------------------------------
(***************************************************************************)
(* Removable devices.                                                      *)
(***************************************************************************)

StorageDevices == [available : BOOLEAN, drives : SUBSET Drives, media : SUBSET Drives, volumes : SUBSET Volumes,
                   mounted : SUBSET Volumes]
BusyTargets == [Targets -> Operations \cup {NoOperation}]
StorageRows == [target : Targets, drive : Drives, mounted : BOOLEAN, busy : BOOLEAN, can : SUBSET Operations]
StorageErrors == [Targets -> [kind : Operations \cup {"none", "launch"}, generation : 0..MaxErrors]]
StorageStates == [rows : SUBSET StorageRows, inFlight : UNION {[S -> Operations] : S \in SUBSET Targets},
                  labels : SUBSET Targets, errors : StorageErrors, openAfter : SUBSET Targets,
                  known : SUBSET Drives, seeded : BOOLEAN, generation : 0..MaxErrors]
StorageTimers == [target : Targets, generation : 1..MaxErrors]
StorageNews == [connected : [Drives -> 0..2], removed : SUBSET Targets]

\* What the service remembers of the operations and their errors agrees with the controller.
Remembered(s, busy, timers) ==
  /\ s.inFlight = [t \in {x \in Targets : busy[x] # NoOperation} |-> busy[t]]
  /\ \A t \in s.openAfter : busy[t] = "mount"
  /\ s.labels = {t \in Targets : busy[t] \in Removals}
  /\ \A t \in Targets : s.errors[t].kind \in Operations =>
       [target |-> t, generation |-> s.errors[t].generation] \in timers

\* A drive with a row was announced once since it has one, or had it from the start.
Announced(d, told) == \A x \in Drives : told.connected[x] = IF x \in ShownDrives(d) THEN 1 ELSE 0

\* Of the drives that will have a row, those not known yet are the ones not announced.
ToAnnounce(s, d, told) ==
  \A x \in ShownDrives(d) : told.connected[x] = IF s.seeded /\ x \notin s.known THEN 0 ELSE 1

StorageInv ==
  /\ storageDevices \in StorageDevices /\ storageDevices.mounted \subseteq storageDevices.volumes
  /\ storageBusy \in BusyTargets /\ storage \in StorageStates
  /\ storageTimers \subseteq StorageTimers /\ storageLaunches \subseteq Targets /\ storageTold \in StorageNews
  /\ storage.rows = StorageRowsOf(storageDevices, storageBusy)
  /\ Remembered(storage, storageBusy, storageTimers)
  /\ \A t \in Targets : storageBusy[t] = "mount" => t \in Volumes
  /\ storage.seeded = storageDevices.available
  /\ storageDevices.available => storage.known = ShownDrives(storageDevices)
  /\ Announced(storageDevices, storageTold)

LEMMA RowsAreRows ==
  ASSUME NEW d \in StorageDevices, NEW busy \in BusyTargets
  PROVE  StorageRowsOf(d, busy) \in SUBSET StorageRows
<1>1. ASSUME NEW t \in Targets, NEW x \in Drives PROVE TargetRow(d, busy, t, x) \in StorageRows
  BY DEF Removals, Operations, TargetRow, StorageRows
<1>2. \A v \in Volumes : v \in Targets /\ DriveOf[v] \in Drives
  BY StorageAssumption DEF Targets
<1>3. \A o \in Discs : o \in Targets /\ o \in Drives
  BY StorageAssumption DEF Targets
<1>4. d.volumes \subseteq Volumes
  BY DEF StorageDevices
<1> QED
  BY <1>1, <1>2, <1>3, <1>4 DEF StorageRowsOf

\* A refresh makes the rows and the drives it knows, and nothing else.
LEMMA RefreshMakesRows ==
  ASSUME NEW s \in StorageStates, NEW d \in StorageDevices, NEW busy \in BusyTargets, NEW r, r = Refreshed(s, d, busy)
  PROVE  /\ r \in StorageStates /\ r.rows = StorageRowsOf(d, busy)
         /\ r.known = (IF d.available THEN ShownDrives(d) ELSE s.known) /\ r.seeded = (s.seeded \/ d.available)
         /\ r.inFlight = s.inFlight /\ r.labels = s.labels /\ r.errors = s.errors /\ r.openAfter = s.openAfter
         /\ r.generation = s.generation
<1> DEFINE rows == StorageRowsOf(d, busy)
           known == IF d.available THEN ShownDrives(d) ELSE s.known
           seeded == s.seeded \/ d.available
<1>1. rows \in SUBSET StorageRows
  BY RowsAreRows
<1>2. known \in SUBSET Drives /\ seeded \in BOOLEAN
  BY StorageAssumption DEF StorageStates, StorageDevices, ShownDrives
<1>3. r = [s EXCEPT !.rows = rows, !.known = known, !.seeded = seeded]
  BY DEF Refreshed
<1> HIDE DEF rows, known, seeded
<1>4. /\ r \in StorageStates /\ r.rows = rows /\ r.known = known /\ r.seeded = seeded
      /\ r.inFlight = s.inFlight /\ r.labels = s.labels /\ r.errors = s.errors /\ r.openAfter = s.openAfter
      /\ r.generation = s.generation
  BY <1>1, <1>2, <1>3 DEF StorageStates
<1> QED
  BY <1>4 DEF rows, known, seeded

LEMMA RefreshKeeps ==
  ASSUME NEW s \in StorageStates, NEW d \in StorageDevices, NEW busy \in BusyTargets, NEW told \in StorageNews,
         RefreshWith(s, d, busy, told), d.mounted \subseteq d.volumes,
         storageTimers' \subseteq StorageTimers, storageLaunches' \subseteq Targets,
         Remembered(s, busy, storageTimers'), \A t \in Targets : busy[t] = "mount" => t \in Volumes,
         s.seeded => d.available, ToAnnounce(s, d, told)
  PROVE  StorageInv'
<1> DEFINE new == NewlyConnected(s, d)
           connected == [x \in Drives |-> IF x \notin ShownDrives(d) THEN 0
                           ELSE IF x \in new /\ told.connected[x] < 2 THEN told.connected[x] + 1 ELSE told.connected[x]]
<1>1. /\ storageDevices' = d /\ storageBusy' = busy /\ storage' = Refreshed(s, d, busy)
      /\ storageTold' = [told EXCEPT !.connected = connected]
  BY DEF RefreshWith
<1>2. /\ storage' \in StorageStates /\ storage'.rows = StorageRowsOf(d, busy)
      /\ storage'.known = (IF d.available THEN ShownDrives(d) ELSE s.known) /\ storage'.seeded = (s.seeded \/ d.available)
      /\ storage'.inFlight = s.inFlight /\ storage'.labels = s.labels /\ storage'.errors = s.errors
      /\ storage'.openAfter = s.openAfter
  BY <1>1, RefreshMakesRows
<1>3. \A x \in ShownDrives(d) : told.connected[x] = IF x \in new THEN 0 ELSE 1
  BY DEF NewlyConnected, ToAnnounce
<1> HIDE DEF new
<1>5. connected \in [Drives -> 0..2] /\ \A x \in Drives : connected[x] = IF x \in ShownDrives(d) THEN 1 ELSE 0
  BY <1>3
<1> HIDE DEF connected
<1>6. storageTold' \in StorageNews /\ storageTold'.connected = connected
  BY <1>1, <1>5 DEF StorageNews
<1>7. Announced(d, storageTold')
  BY <1>5, <1>6 DEF Announced
<1>8. Remembered(storage', busy, storageTimers')
  BY <1>2 DEF Remembered
<1>9. /\ StorageRowsOf(d, busy)' = StorageRowsOf(d, busy) /\ ShownDrives(storageDevices)' = ShownDrives(d)
      /\ StorageRowsOf(storageDevices, storageBusy)' = StorageRowsOf(d, busy)
  BY <1>1 DEF StorageRowsOf, ShownDrives, TargetRow
<1>10. storage'.seeded = d.available
  BY <1>2 DEF StorageStates, StorageDevices
<1>11. /\ Remembered(storage, storageBusy, storageTimers)' /\ Announced(storageDevices, storageTold)'
  BY <1>1, <1>7, <1>8, <1>9 DEF Remembered, Announced, ShownDrives
<1> QED
  BY <1>1, <1>2, <1>6, <1>9, <1>10, <1>11 DEF StorageInv

\* The devices change, and nothing that is remembered.
LEMMA DevicesKeep ==
  ASSUME StorageInv, NEW d \in StorageDevices, NEW told \in StorageNews,
         RefreshWith(storage, d, storageBusy, told), UNCHANGED <<storageTimers, storageLaunches>>,
         d.mounted \subseteq d.volumes, storageDevices.available => d.available, ToAnnounce(storage, d, told)
  PROVE  StorageInv'
BY RefreshKeeps DEF StorageInv

LEMMA HotPlugKeeps ==
  ASSUME StorageInv,
         \/ \E ds \in SUBSET Drives : Snapshot(ds)
         \/ \E x \in Drives : DriveAppears(x) \/ DriveDisappears(x) \/ MediumChanges(x)
         \/ \E v \in Volumes : VolumeAppears(v) \/ VolumeDisappears(v) \/ MountChanges(v)
  PROVE  StorageInv'
<1>0. /\ storageDevices \in StorageDevices /\ storageDevices.mounted \subseteq storageDevices.volumes
      /\ storageTold \in StorageNews /\ storage.seeded = storageDevices.available
      /\ storageDevices.drives \subseteq Drives /\ storageDevices.volumes \subseteq Volumes
      /\ storageDevices.media \subseteq Drives /\ storageDevices.available \in BOOLEAN
  BY DEF StorageInv, StorageDevices
<1>1. DriveOf \in [Volumes -> Drives] /\ Discs \subseteq Drives
  BY StorageAssumption
<1>2. ASSUME NEW d \in StorageDevices, NEW told \in StorageNews, told.connected = storageTold.connected,
             storageDevices.available \/ ShownDrives(d) \subseteq ShownDrives(storageDevices),
             RefreshWith(storage, d, storageBusy, told), UNCHANGED <<storageTimers, storageLaunches>>,
             d.mounted \subseteq d.volumes, d.available = storageDevices.available
      PROVE  StorageInv'
  <2>1. ShownDrives(d) \subseteq Drives
    BY DEF ShownDrives, StorageDevices
  <2>2. ToAnnounce(storage, d, told)
    BY <1>2, <2>1 DEF StorageInv, Announced, ToAnnounce
  <2> QED
    BY <1>2, <2>2, DevicesKeep
<1>3. ASSUME NEW ds \in SUBSET Drives, Snapshot(ds) PROVE StorageInv'
  <2> DEFINE volumes == {v \in Volumes : DriveOf[v] \in ds}
             d == [available |-> TRUE, drives |-> ds, media |-> ds, volumes |-> volumes, mounted |-> {}]
             connected == [x \in Drives |-> 1]
             told == [storageTold EXCEPT !.connected = connected]
  <2>1. RefreshWith(storage, d, storageBusy, told) /\ UNCHANGED <<storageTimers, storageLaunches>> /\ ~storageDevices.available
    BY <1>3 DEF Snapshot
  <2>2. d \in StorageDevices /\ d.drives = ds /\ d.mounted = {} /\ d.available
    BY DEF StorageDevices
  <2>3. connected \in [Drives -> 0..2] /\ \A x \in Drives : connected[x] = 1
    OBVIOUS
  <2> HIDE DEF connected
  <2>4. told \in StorageNews /\ told.connected = connected
    BY <1>0, <2>3 DEF StorageNews
  <2> HIDE DEF d, told
  <2>5. ToAnnounce(storage, d, told)
    BY <1>0, <2>1, <2>2, <2>3, <2>4 DEF ToAnnounce, ShownDrives
  <2> QED
    BY <2>1, <2>2, <2>4, <2>5, DevicesKeep
<1>4. ASSUME NEW x \in Drives, DriveAppears(x) PROVE StorageInv'
  <2>1. PICK media \in {storageDevices.media, storageDevices.media \cup {x}} :
          RefreshWith(storage, [storageDevices EXCEPT !.drives = @ \cup {x}, !.media = media], storageBusy,
                      [storageTold EXCEPT !.removed = @ \ ({x} \cup {v \in Volumes : DriveOf[v] = x})])
    BY <1>4 DEF DriveAppears
  <2> DEFINE d == [storageDevices EXCEPT !.drives = @ \cup {x}, !.media = media]
             told == [storageTold EXCEPT !.removed = @ \ ({x} \cup {v \in Volumes : DriveOf[v] = x})]
  <2>2. /\ d \in StorageDevices /\ d.mounted = storageDevices.mounted /\ d.volumes = storageDevices.volumes
        /\ d.available = storageDevices.available
    BY <1>0 DEF StorageDevices
  <2>3. told \in StorageNews /\ told.connected = storageTold.connected
    BY <1>0 DEF StorageNews
  <2>4. RefreshWith(storage, d, storageBusy, told)
    BY <2>1
  <2> HIDE DEF d, told
  <2> QED
    BY <1>0, <1>2, <1>4, <2>2, <2>3, <2>4 DEF DriveAppears
<1>5. ASSUME NEW d, d \in StorageDevices, d.mounted \subseteq d.volumes, d.available = storageDevices.available,
             storageDevices.available \/ ShownDrives(d) \subseteq ShownDrives(storageDevices),
             RefreshWith(storage, d, storageBusy, storageTold), UNCHANGED <<storageTimers, storageLaunches>>
      PROVE  StorageInv'
  BY <1>0, <1>2, <1>5
<1>6. ASSUME NEW x \in Drives, DriveDisappears(x) PROVE StorageInv'
  <2> DEFINE gone == {v \in Volumes : DriveOf[v] = x}
             d == [storageDevices EXCEPT !.drives = @ \ {x}, !.media = @ \ {x}, !.volumes = @ \ gone, !.mounted = @ \ gone]
  <2>1. RefreshWith(storage, d, storageBusy, storageTold) /\ UNCHANGED <<storageTimers, storageLaunches>>
    BY <1>6 DEF DriveDisappears
  <2>2. /\ d \in StorageDevices /\ d.drives = storageDevices.drives \ {x} /\ d.volumes = storageDevices.volumes \ gone
        /\ d.media = storageDevices.media \ {x}
        /\ d.mounted = storageDevices.mounted \ gone /\ d.available = storageDevices.available
    BY <1>0 DEF StorageDevices
  <2> HIDE DEF d
  <2>3. ShownDrives(d) \subseteq ShownDrives(storageDevices)
    BY <2>2 DEF ShownDrives
  <2> QED
    BY <1>0, <1>5, <2>1, <2>2, <2>3
<1>7. ASSUME NEW v \in Volumes, VolumeAppears(v) PROVE StorageInv'
  BY <1>7, <1>0, <1>5 DEF VolumeAppears, StorageDevices
<1>8. ASSUME NEW v \in Volumes, VolumeDisappears(v) PROVE StorageInv'
  BY <1>8, <1>0, <1>5 DEF VolumeDisappears, StorageDevices, ShownDrives
<1>9. ASSUME NEW v \in Volumes, MountChanges(v) PROVE StorageInv'
  BY <1>9, <1>0, <1>5 DEF MountChanges, StorageDevices, ShownDrives
<1>10. ASSUME NEW x \in Drives, MediumChanges(x) PROVE StorageInv'
  BY <1>10, <1>0, <1>5 DEF MediumChanges, StorageDevices
<1> QED
  BY <1>3, <1>4, <1>6, <1>7, <1>8, <1>9, <1>10

LEMMA BeginKeeps ==
  ASSUME StorageInv, NEW t \in Targets, NEW op \in Operations, op = "mount" => t \in Volumes,
         storageBusy[t] = NoOperation,
         NEW after \in SUBSET Targets, after \subseteq storage.openAfter \/ (after \subseteq storage.openAfter \cup {t} /\ op = "mount"),
         Begin([storage EXCEPT !.openAfter = after], t, op), UNCHANGED <<storageTimers, storageLaunches>>
  PROVE  StorageInv'
<1> DEFINE s == [storage EXCEPT !.openAfter = after]
           flight == [x \in DOMAIN s.inFlight \cup {t} |-> IF x = t THEN op ELSE s.inFlight[x]]
           labels == IF op \in Removals THEN s.labels \cup {t} ELSE s.labels
           errors == [s.errors EXCEPT ![t] = NoError]
           begun == [s EXCEPT !.errors[t] = NoError, !.inFlight = flight, !.labels = labels]
           busy == [storageBusy EXCEPT ![t] = op]
<1>0. /\ storage \in StorageStates /\ storageBusy \in BusyTargets /\ storageDevices \in StorageDevices
      /\ storageTold \in StorageNews /\ storageDevices.mounted \subseteq storageDevices.volumes
      /\ storage.errors \in StorageErrors /\ storage.labels \subseteq Targets
      /\ storage.inFlight = [x \in {y \in Targets : storageBusy[y] # NoOperation} |-> storageBusy[x]]
      /\ \A x \in storage.openAfter : storageBusy[x] = "mount"
      /\ storage.labels = {x \in Targets : storageBusy[x] \in Removals}
      /\ \A x \in Targets : storage.errors[x].kind \in Operations =>
           [target |-> x, generation |-> storage.errors[x].generation] \in storageTimers
  BY DEF StorageInv, StorageStates, Remembered
<1>1. /\ s \in StorageStates /\ s.openAfter = after /\ s.inFlight = storage.inFlight /\ s.labels = storage.labels
      /\ s.errors = storage.errors /\ s.seeded = storage.seeded /\ s.known = storage.known
  BY <1>0 DEF StorageStates
<1> HIDE DEF s
<1>2. RefreshWith(begun, storageDevices, busy, storageTold)
  BY DEF Begin, s
<1>3. busy \in BusyTargets /\ \A x \in Targets : busy[x] = IF x = t THEN op ELSE storageBusy[x]
  BY <1>0 DEF BusyTargets
<1> HIDE DEF busy
<1>4. flight = [x \in {y \in Targets : busy[y] # NoOperation} |-> busy[x]]
  BY <1>0, <1>1, <1>3 DEF Operations, NoOperation
<1>5. flight \in UNION {[S -> Operations] : S \in SUBSET Targets}
  <2> DEFINE S == {y \in Targets : busy[y] # NoOperation}
  <2>1. S \in SUBSET Targets /\ \A x \in S : busy[x] \in Operations
    BY <1>3 DEF BusyTargets
  <2>2. flight \in [S -> Operations]
    BY <1>4, <2>1
  <2> QED
    BY <2>1, <2>2
<1> HIDE DEF flight
<1>6. labels = {x \in Targets : busy[x] \in Removals}
  BY <1>0, <1>1, <1>3 DEF Removals, NoOperation
<1>7. labels \in SUBSET Targets
  BY <1>0, <1>1
<1>8. errors \in StorageErrors /\ errors[t].kind = "none" /\ \A x \in Targets : x # t => errors[x] = storage.errors[x]
  BY <1>0, <1>1, StorageAssumption DEF StorageErrors, NoError
<1>9. begun = [s EXCEPT !.errors = errors, !.inFlight = flight, !.labels = labels]
  BY <1>1 DEF StorageStates
<1> HIDE DEF labels, errors
<1>10. /\ begun \in StorageStates /\ begun.errors = errors /\ begun.inFlight = flight /\ begun.labels = labels
       /\ begun.openAfter = after /\ begun.seeded = storage.seeded /\ begun.known = storage.known
  BY <1>1, <1>5, <1>7, <1>8, <1>9 DEF StorageStates
<1> HIDE DEF begun
<1>11. Remembered(begun, busy, storageTimers')
  BY <1>0, <1>3, <1>8, <1>4, <1>6, <1>10 DEF NoOperation, Operations, Remembered
<1>12. /\ \A x \in Targets : busy[x] = "mount" => x \in Volumes
       /\ storageTimers' \subseteq StorageTimers /\ storageLaunches' \subseteq Targets
       /\ storage.seeded => storageDevices.available
  BY <1>3 DEF StorageInv
<1>13. ToAnnounce(begun, storageDevices, storageTold)
  BY <1>0, <1>10 DEF StorageInv, Announced, ToAnnounce, ShownDrives, StorageDevices
<1> QED
  BY <1>0, <1>2, <1>3, <1>10, <1>11, <1>12, <1>13, RefreshKeeps

LEMMA FinishKeeps ==
  ASSUME StorageInv, NEW t \in Targets,
         NEW errors \in StorageErrors, \A x \in Targets : x # t => errors[x] = storage.errors[x],
         errors[t].kind \in Operations => [target |-> t, generation |-> errors[t].generation] \in storageTimers',
         NEW g \in 0..MaxErrors,
         NEW flight, flight = Without(storage.inFlight, t), NEW labels, labels = storage.labels \ {t},
         NEW after, after = storage.openAfter \ {t},
         NEW s, s = [storage EXCEPT !.inFlight = flight, !.labels = labels, !.openAfter = after,
                                    !.errors = errors, !.generation = g],
         NEW d \in StorageDevices, d.drives = storageDevices.drives, d.volumes = storageDevices.volumes,
         d.media = storageDevices.media, d.available = storageDevices.available, d.mounted \subseteq d.volumes,
         NEW told \in StorageNews, told.connected = storageTold.connected,
         RefreshWith(s, d, [storageBusy EXCEPT ![t] = NoOperation], told),
         storageTimers \subseteq storageTimers', storageTimers' \subseteq StorageTimers, storageLaunches' \subseteq Targets
  PROVE  StorageInv'
<1> DEFINE busy == [storageBusy EXCEPT ![t] = NoOperation]
<1>0. /\ storage \in StorageStates /\ storageBusy \in BusyTargets
      /\ storage.labels \subseteq Targets /\ storage.openAfter \subseteq Targets
      /\ storage.inFlight = [x \in {y \in Targets : storageBusy[y] # NoOperation} |-> storageBusy[x]]
      /\ \A x \in storage.openAfter : storageBusy[x] = "mount"
      /\ storage.labels = {x \in Targets : storageBusy[x] \in Removals}
      /\ \A x \in Targets : storage.errors[x].kind \in Operations =>
           [target |-> x, generation |-> storage.errors[x].generation] \in storageTimers
  BY DEF StorageInv, StorageStates, Remembered
<1>1. busy \in BusyTargets /\ \A x \in Targets : busy[x] = IF x = t THEN NoOperation ELSE storageBusy[x]
  BY <1>0 DEF BusyTargets
<1>2. RefreshWith(s, d, busy, told)
  OBVIOUS
<1> HIDE DEF busy
<1>3. flight = [x \in {y \in Targets : busy[y] # NoOperation} |-> busy[x]]
  BY <1>0, <1>1 DEF Without
<1>4. flight \in UNION {[S -> Operations] : S \in SUBSET Targets}
  BY <1>1, <1>3 DEF BusyTargets
<1>5. labels = {x \in Targets : busy[x] \in Removals} /\ labels \in SUBSET Targets
  BY <1>0, <1>1 DEF Removals, NoOperation
<1>6. after \in SUBSET Targets /\ \A x \in after : busy[x] = "mount"
  BY <1>0, <1>1
<1>7. s = [storage EXCEPT !.inFlight = flight, !.labels = labels, !.openAfter = after, !.errors = errors, !.generation = g]
  OBVIOUS
<1>8. /\ s \in StorageStates /\ s.errors = errors /\ s.inFlight = flight /\ s.labels = labels
      /\ s.openAfter = after /\ s.seeded = storage.seeded /\ s.known = storage.known
  <2>1. /\ storage \in StorageStates /\ flight \in UNION {[S -> Operations] : S \in SUBSET Targets}
        /\ labels \in SUBSET Targets /\ after \in SUBSET Targets /\ errors \in StorageErrors /\ g \in 0..MaxErrors
    BY <1>0, <1>4, <1>5, <1>6
  <2>2. s = [storage EXCEPT !.inFlight = flight, !.labels = labels, !.openAfter = after, !.errors = errors, !.generation = g]
    BY <1>7
  <2> QED
    BY <2>1, <2>2 DEF StorageStates
<1>9. Remembered(s, busy, storageTimers')
  BY <1>0, <1>3, <1>5, <1>6, <1>8 DEF Remembered
<1>10. /\ \A x \in Targets : busy[x] = "mount" => x \in Volumes
       /\ storage.seeded => storageDevices.available
       /\ storage.seeded => storage.known = ShownDrives(storageDevices)
  BY <1>1 DEF StorageInv, NoOperation
<1>11. ShownDrives(d) = ShownDrives(storageDevices) /\ ShownDrives(d) \subseteq Drives
  BY DEF ShownDrives, StorageDevices
<1>12. (s.seeded => d.available) /\ ToAnnounce(s, d, told)
  BY <1>8, <1>10, <1>11 DEF StorageInv, Announced, ToAnnounce
<1>13. s \in StorageStates /\ busy \in BusyTargets /\ \A x \in Targets : busy[x] = "mount" => x \in Volumes
  BY <1>1, <1>8, <1>10
<1> QED
  BY <1>2, <1>9, <1>12, <1>13, RefreshKeeps

LEMMA OperationEndKeeps ==
  ASSUME StorageInv, NEW t \in Targets, OperationFinished(t)
  PROVE  StorageInv'
<1> DEFINE op == storageBusy[t]
           s == [storage EXCEPT !.inFlight = Without(@, t), !.labels = @ \ {t}]
           busy == [storageBusy EXCEPT ![t] = NoOperation]
           m == CASE op = "mount" -> storageDevices.mounted \cup {t} [] op = "unmount" -> storageDevices.mounted \ {t}
                  [] OTHER -> {v \in storageDevices.mounted : v # t /\ DriveOf[v] # t}
           d == [storageDevices EXCEPT !.mounted = m]
           s1 == [s EXCEPT !.errors[t] = NoError, !.openAfter = IF op = "mount" THEN @ \ {t} ELSE @]
           told == [storageTold EXCEPT !.removed = IF op \in Removals THEN @ \cup {t} ELSE @]
           timer == [target |-> t, generation |-> storage.generation + 1]
<1>0. /\ storage \in StorageStates /\ storageBusy \in BusyTargets /\ storageDevices \in StorageDevices
      /\ storageTold \in StorageNews /\ storageDevices.mounted \subseteq storageDevices.volumes
      /\ storageTimers \subseteq StorageTimers /\ storageLaunches \subseteq Targets
      /\ storage.errors \in StorageErrors /\ storage.generation \in 0..MaxErrors
      /\ \A x \in storage.openAfter : storageBusy[x] = "mount"
      /\ storageBusy[t] = "mount" => t \in Volumes
  BY DEF StorageInv, StorageStates, Remembered
<1>1. op \in Operations /\ (t \in storage.openAfter => op = "mount")
  BY <1>0 DEF OperationFinished, BusyTargets
<1>2. ASSUME t \in storageDevices.drives \cup storageDevices.volumes, RefreshWith(s1, d, busy, told),
             storageLaunches' = (IF op = "mount" /\ t \in s.openAfter THEN storageLaunches \cup {t} ELSE storageLaunches),
             UNCHANGED storageTimers
      PROVE  StorageInv'
  <2> DEFINE errors == [storage.errors EXCEPT ![t] = NoError]
             removed == IF op \in Removals THEN storageTold.removed \cup {t} ELSE storageTold.removed
             r == [storage EXCEPT !.inFlight = Without(@, t), !.labels = @ \ {t}, !.openAfter = @ \ {t},
                                  !.errors = errors, !.generation = storage.generation]
  <2>1. m \subseteq storageDevices.volumes /\ m \subseteq Volumes
    BY <1>0, <1>2, StorageAssumption DEF StorageDevices
  <2> HIDE DEF m
  <2>2. /\ d \in StorageDevices /\ d.drives = storageDevices.drives /\ d.volumes = storageDevices.volumes
        /\ d.media = storageDevices.media /\ d.available = storageDevices.available /\ d.mounted \subseteq d.volumes
    BY <1>0, <2>1 DEF StorageDevices
  <2>3. /\ errors \in StorageErrors /\ errors[t].kind = "none" /\ \A x \in Targets : x # t => errors[x] = storage.errors[x]
    BY <1>0, StorageAssumption DEF StorageErrors, NoError
  <2>4. removed \in SUBSET Targets
    BY <1>0 DEF StorageNews
  <2>5. told = [storageTold EXCEPT !.removed = removed]
    BY <1>0 DEF StorageNews
  <2> HIDE DEF removed
  <2>6. told \in StorageNews /\ told.connected = storageTold.connected
    BY <1>0, <2>4, <2>5 DEF StorageNews
  <2>7. s1 = r
    <3> DEFINE flight == Without(storage.inFlight, t)
               labels == storage.labels \ {t}
               after == storage.openAfter \ {t}
    <3>1. after = IF op = "mount" THEN storage.openAfter \ {t} ELSE storage.openAfter
      BY <1>1
    <3>2. s = [storage EXCEPT !.inFlight = flight, !.labels = labels]
      BY <1>0 DEF StorageStates
    <3>3. s.errors = storage.errors /\ s.openAfter = storage.openAfter
      BY <1>0 DEF StorageStates
    <3>4. s1 = [[storage EXCEPT !.inFlight = flight, !.labels = labels] EXCEPT !.errors = errors, !.openAfter = after]
      BY <1>0, <3>1, <3>3 DEF StorageStates
    <3>5. r = [storage EXCEPT !.inFlight = flight, !.labels = labels, !.openAfter = after, !.errors = errors, !.generation = storage.generation]
      BY <1>0 DEF StorageStates
    <3> HIDE DEF flight, labels, after, errors, s1, r
    <3> QED
      BY <1>0, <3>4, <3>5 DEF StorageStates
  <2>8. storageLaunches' \subseteq Targets
    BY <1>0, <1>2
  <2> HIDE DEF d, told, s1, errors
  <2> QED
    BY <1>0, <1>2, <2>2, <2>3, <2>6, <2>7, <2>8, FinishKeeps DEF Operations
<1>3. ASSUME storage.generation < MaxErrors, RefreshWith(OperationFailed(s, t, op), storageDevices, busy, storageTold),
             storageTimers' = storageTimers \cup {timer}, UNCHANGED storageLaunches
      PROVE  StorageInv'
  <2> DEFINE g == storage.generation + 1
             error == [kind |-> op, generation |-> g]
             errors == [storage.errors EXCEPT ![t] = error]
             r == [storage EXCEPT !.inFlight = Without(@, t), !.labels = @ \ {t}, !.openAfter = @ \ {t},
                                  !.errors = errors, !.generation = g]
  <2>1. g \in 0..MaxErrors /\ g \in 1..MaxErrors
    BY <1>0, <1>3, StorageAssumption
  <2>2. /\ errors \in StorageErrors /\ errors[t] = error /\ \A x \in Targets : x # t => errors[x] = storage.errors[x]
    BY <1>0, <1>1, <2>1 DEF StorageErrors
  <2>3. OperationFailed(s, t, op) = r
    BY <1>0 DEF StorageStates, OperationFailed
  <2>4. timer \in StorageTimers /\ timer = [target |-> t, generation |-> error.generation]
    BY <2>1 DEF StorageTimers
  <2>5. storageTimers \subseteq storageTimers' /\ storageTimers' \subseteq StorageTimers
    BY <1>0, <1>3, <2>4
  <2>6. errors[t].kind \in Operations => [target |-> t, generation |-> errors[t].generation] \in storageTimers'
    BY <1>3, <2>2, <2>4
  <2> HIDE DEF errors, g
  <2> QED
    BY <1>0, <1>3, <2>1, <2>2, <2>3, <2>5, <2>6, FinishKeeps
<1> QED
  BY <1>2, <1>3 DEF OperationFinished

LEMMA OperateKeeps ==
  ASSUME StorageInv, NEW t \in Targets, NEW op \in Operations, Operate(t, op)
  PROVE  StorageInv'
<1>1. storage \in StorageStates /\ DOMAIN storage.inFlight = {x \in Targets : storageBusy[x] # NoOperation}
  BY DEF StorageInv, Remembered
<1>2. storageBusy[t] = NoOperation /\ (op = "mount" => t \in Volumes)
  BY <1>1 DEF Operate, Allowed, Removals
<1>3. storage = [storage EXCEPT !.openAfter = storage.openAfter] /\ storage.openAfter \in SUBSET Targets
  BY <1>1 DEF StorageStates
<1>4. Begin([storage EXCEPT !.openAfter = storage.openAfter], t, op) /\ UNCHANGED <<storageTimers, storageLaunches>>
  BY <1>3 DEF Operate
<1> QED
  BY <1>2, <1>3, <1>4, BeginKeeps

LEMMA OpenKeeps ==
  ASSUME StorageInv, NEW t \in Volumes, OpenVolume(t)
  PROVE  StorageInv'
<1>1. /\ storage \in StorageStates /\ DOMAIN storage.inFlight = {x \in Targets : storageBusy[x] # NoOperation}
      /\ t \in Targets
  BY DEF StorageInv, Remembered, Targets
<1>2. CASE t \in storageDevices.mounted
  BY <1>2, <1>1 DEF OpenVolume, StorageInv, Remembered, Announced, ShownDrives, StorageRowsOf, TargetRow
<1>3. CASE t \notin storageDevices.mounted
  BY <1>1, <1>3, BeginKeeps DEF OpenVolume, Allowed, StorageStates, Operations
<1> QED
  BY <1>2, <1>3

\* Only an error, its timer and a launch change.
LEMMA ErrorsKeep ==
  ASSUME StorageInv, UNCHANGED <<storageDevices, storageBusy, storageTold>>,
         NEW t \in Targets, NEW errors \in StorageErrors, NEW g \in 0..MaxErrors,
         errors[t].kind \notin Operations, \A x \in Targets : x # t => errors[x] = storage.errors[x],
         storage' \in StorageStates, storage'.errors = errors, storage'.rows = storage.rows, storage'.inFlight = storage.inFlight,
         storage'.labels = storage.labels, storage'.openAfter = storage.openAfter, storage'.seeded = storage.seeded,
         storage'.known = storage.known,
         \A timer \in storageTimers : timer.target # t => timer \in storageTimers', storageTimers' \subseteq storageTimers,
         storageLaunches' \subseteq storageLaunches \cup {t}
  PROVE  StorageInv'
BY DEF StorageInv, Remembered, Announced, ShownDrives, StorageRowsOf, TargetRow

LEMMA ErrorStepKeeps ==
  ASSUME StorageInv, (\E timer \in storageTimers : ErrorExpires(timer)) \/ \E t \in Targets : RetryLaunch(t) \/ FilesLaunched(t)
  PROVE  StorageInv'
<1>0. /\ storage \in StorageStates /\ storage.errors \in StorageErrors /\ storage.generation \in 0..MaxErrors
      /\ storage.rows = StorageRowsOf(storageDevices, storageBusy) /\ storageLaunches \subseteq Targets
      /\ storageDevices \in StorageDevices /\ storageBusy \in BusyTargets /\ storageTimers \subseteq StorageTimers
      /\ storage.seeded = storageDevices.available
      /\ storageDevices.available => storage.known = ShownDrives(storageDevices)
  BY DEF StorageInv, StorageStates
<1>1. ASSUME NEW t \in Targets, NEW error \in [kind : {"none", "launch"}, generation : 0..MaxErrors]
      PROVE  LET errors == [storage.errors EXCEPT ![t] = error] IN
             errors \in StorageErrors /\ errors[t].kind \notin Operations /\ \A x \in Targets : x # t => errors[x] = storage.errors[x]
  BY <1>0 DEF StorageErrors, Operations
<1> DEFINE Changes(s, errors, g) == s = [storage EXCEPT !.errors = errors, !.generation = g]
<1>2. ASSUME NEW errors \in StorageErrors, NEW g \in 0..MaxErrors, NEW s, Changes(s, errors, g),
             NEW r, r = s \/ r = Refreshed(s, storageDevices, storageBusy)
      PROVE  /\ r \in StorageStates /\ r.errors = errors /\ r.rows = storage.rows /\ r.inFlight = storage.inFlight
             /\ r.labels = storage.labels /\ r.openAfter = storage.openAfter /\ r.seeded = storage.seeded
             /\ r.known = storage.known
  <2>1. /\ s \in StorageStates /\ s.errors = errors /\ s.rows = storage.rows /\ s.inFlight = storage.inFlight
        /\ s.labels = storage.labels /\ s.openAfter = storage.openAfter /\ s.seeded = storage.seeded
        /\ s.known = storage.known
    BY <1>0, <1>2 DEF StorageStates
  <2>2. CASE r = Refreshed(s, storageDevices, storageBusy)
    BY <1>0, <2>1, <2>2, RefreshMakesRows DEF StorageStates
  <2> QED
    BY <1>2, <2>1, <2>2
<1> HIDE DEF Changes
<1>3. ASSUME NEW timer \in storageTimers, ErrorExpires(timer) PROVE StorageInv'
  <2> DEFINE t == timer.target
             errors == [storage.errors EXCEPT ![t] = NoError]
             s == [storage EXCEPT !.errors[timer.target] = NoError]
  <2>1. timer \in StorageTimers /\ t \in Targets /\ timer.generation \in 1..MaxErrors
    BY <1>0 DEF StorageTimers
  <2>2. /\ storageTimers' = storageTimers \ {timer} /\ UNCHANGED <<storageDevices, storageBusy, storageLaunches, storageTold>>
    BY <1>3 DEF ErrorExpires
  <2>3. CASE IsExpired(storage, timer)
    <3>1. storage' = Refreshed(s, storageDevices, storageBusy)
      BY <1>3, <2>3 DEF ErrorExpires
    <3>2. NoError \in [kind : {"none", "launch"}, generation : 0..MaxErrors]
      BY StorageAssumption DEF NoError
    <3>3. errors \in StorageErrors /\ errors[t].kind \notin Operations /\ \A x \in Targets : x # t => errors[x] = storage.errors[x]
      BY <1>1, <2>1, <3>2
    <3>4. Changes(s, errors, storage.generation)
      BY <1>0 DEF StorageStates, Changes
    <3> HIDE DEF errors, s
    <3>5. /\ storage' \in StorageStates /\ storage'.errors = errors /\ storage'.rows = storage.rows
          /\ storage'.inFlight = storage.inFlight /\ storage'.labels = storage.labels
          /\ storage'.openAfter = storage.openAfter /\ storage'.seeded = storage.seeded /\ storage'.known = storage.known
      BY <3>1, <1>0, <1>2, <3>3, <3>4
    <3>6. \A other \in storageTimers : other.target # t => other \in storageTimers'
      BY <2>2
    <3>7. storageTimers' \subseteq storageTimers /\ storageLaunches' \subseteq storageLaunches \cup {t}
      BY <2>2
    <3> QED
      BY <1>0, <2>1, <2>2, <3>3, <3>5, <3>6, <3>7, ErrorsKeep
  <2>4. CASE ~IsExpired(storage, timer)
    BY <1>3, <2>4, <2>2 DEF ErrorExpires, StorageInv, Remembered, IsExpired, Announced, ShownDrives, StorageRowsOf,
       TargetRow
  <2> QED
    BY <2>3, <2>4
<1>4. ASSUME NEW t \in Targets, RetryLaunch(t) PROVE StorageInv'
  <2> DEFINE errors == [storage.errors EXCEPT ![t] = NoError]
             s == [storage EXCEPT !.errors[t] = NoError]
  <2>1. storage' = s /\ storageLaunches' = storageLaunches \cup {t} /\ UNCHANGED <<storageDevices, storageBusy, storageTimers, storageTold>>
    BY <1>4 DEF RetryLaunch
  <2>2. NoError \in [kind : {"none", "launch"}, generation : 0..MaxErrors]
    BY StorageAssumption DEF NoError
  <2>3. errors \in StorageErrors /\ errors[t].kind \notin Operations /\ \A x \in Targets : x # t => errors[x] = storage.errors[x]
    BY <1>1, <2>2
  <2>4. Changes(s, errors, storage.generation)
    BY <1>0 DEF StorageStates, Changes
  <2> HIDE DEF errors, s
  <2>5. /\ storage' \in StorageStates /\ storage'.errors = errors /\ storage'.rows = storage.rows
        /\ storage'.inFlight = storage.inFlight /\ storage'.labels = storage.labels
        /\ storage'.openAfter = storage.openAfter /\ storage'.seeded = storage.seeded /\ storage'.known = storage.known
    BY <2>1, <1>0, <1>2, <2>3, <2>4
  <2> QED
    BY <1>0, <2>1, <2>3, <2>5, ErrorsKeep
<1>5. ASSUME NEW t \in Targets, FilesLaunched(t) PROVE StorageInv'
  <2>1. storageLaunches' = storageLaunches \ {t} /\ UNCHANGED <<storageDevices, storageBusy, storageTimers, storageTold>>
    BY <1>5 DEF FilesLaunched
  <2>2. PICK error, g : /\ error \in [kind : {"none", "launch"}, generation : 0..MaxErrors] /\ g \in 0..MaxErrors
                        /\ storage' = Refreshed([storage EXCEPT !.errors[t] = error, !.generation = g], storageDevices, storageBusy)
    <3>1. CASE storage' = Refreshed([storage EXCEPT !.errors[t] = NoError], storageDevices, storageBusy)
      <4>1. NoError \in [kind : {"none", "launch"}, generation : 0..MaxErrors]
        BY StorageAssumption DEF NoError
      <4>2. [storage EXCEPT !.errors[t] = NoError] = [storage EXCEPT !.errors[t] = NoError, !.generation = storage.generation]
        BY <1>0 DEF StorageStates
      <4> QED
        BY <1>0, <3>1, <4>1, <4>2
    <3>2. CASE /\ storage.generation < MaxErrors
               /\ storage' = Refreshed([storage EXCEPT !.generation = @ + 1,
                                   !.errors[t] = [kind |-> "launch", generation |-> storage.generation + 1]],
                                storageDevices, storageBusy)
      <4> DEFINE g == storage.generation + 1
                 error == [kind |-> "launch", generation |-> g]
      <4>1. g \in 0..MaxErrors /\ error \in [kind : {"none", "launch"}, generation : 0..MaxErrors]
        BY <1>0, <3>2, StorageAssumption
      <4> HIDE DEF g
      <4>2. [storage EXCEPT !.generation = g, !.errors[t] = error] = [storage EXCEPT !.errors[t] = error, !.generation = g]
        BY <1>0, <4>1 DEF StorageStates
      <4> QED
        BY <3>2, <4>1, <4>2 DEF g
    <3> QED
      BY <1>5, <3>1, <3>2 DEF FilesLaunched
  <2> DEFINE errors == [storage.errors EXCEPT ![t] = error]
             s == [storage EXCEPT !.errors[t] = error, !.generation = g]
  <2>3. errors \in StorageErrors /\ errors[t].kind \notin Operations /\ \A x \in Targets : x # t => errors[x] = storage.errors[x]
    BY <1>1, <2>2
  <2>4. Changes(s, errors, g)
    BY <1>0, <2>2 DEF StorageStates, Changes
  <2>5. storage' = Refreshed(s, storageDevices, storageBusy)
    BY <2>2
  <2> HIDE DEF errors, s
  <2>6. /\ storage' \in StorageStates /\ storage'.errors = errors /\ storage'.rows = storage.rows
        /\ storage'.inFlight = storage.inFlight /\ storage'.labels = storage.labels
        /\ storage'.openAfter = storage.openAfter /\ storage'.seeded = storage.seeded /\ storage'.known = storage.known
    <3>1. storage' = s \/ storage' = Refreshed(s, storageDevices, storageBusy)
      BY <2>5
    <3> QED
      BY <1>2, <2>2, <2>3, <2>4, <3>1
  <2>7. storageLaunches' \subseteq storageLaunches \cup {t}
    BY <2>1
  <2> QED
    BY <2>1, <2>2, <2>3, <2>6, <2>7, ErrorsKeep
<1> QED
  BY <1>3, <1>4, <1>5

LEMMA StorageInvHolds == StorageInit /\ [][StorageNext]_storageVars => []StorageInv
<1>1. StorageInit => StorageInv
  <2> SUFFICES ASSUME StorageInit PROVE StorageInv
    OBVIOUS
  <2> USE DEF StorageInit
  <2>1. storageDevices \in StorageDevices /\ storageDevices.mounted = {} /\ storageDevices.available = FALSE
    BY DEF StorageDevices
  <2>2. storageBusy \in BusyTargets /\ \A t \in Targets : storageBusy[t] = NoOperation
    BY DEF BusyTargets
  <2>3. storage.errors \in StorageErrors /\ \A t \in Targets : storage.errors[t].kind = "none"
    BY StorageAssumption DEF StorageErrors, NoError
  <2>4. storage.inFlight = [t \in {x \in Targets : storageBusy[x] # NoOperation} |-> storageBusy[t]]
    BY <2>2
  <2>5. storage.inFlight \in UNION {[S -> Operations] : S \in SUBSET Targets}
    <3>1. storage.inFlight \in [{} -> Operations] /\ {} \in SUBSET Targets
      BY <2>2, <2>4
    <3> QED
      BY <3>1
  <2>6. storage \in StorageStates
    <3> DEFINE flight == storage.inFlight
               errors == storage.errors
    <3>1. storage = [rows |-> {}, inFlight |-> flight, labels |-> {}, errors |-> errors,
                     openAfter |-> {}, known |-> {}, seeded |-> FALSE, generation |-> 0]
      OBVIOUS
    <3> HIDE DEF StorageInit
    <3>2. flight \in UNION {[S -> Operations] : S \in SUBSET Targets} /\ errors \in StorageErrors /\ 0 \in 0..MaxErrors
      BY <2>3, <2>5, StorageAssumption
    <3> HIDE DEF flight, errors
    <3> QED
      BY <3>1, <3>2 DEF StorageStates
  <2>7. storageTold \in StorageNews /\ Announced(storageDevices, storageTold)
    BY DEF StorageNews, Announced, ShownDrives
  <2>8. storage.rows = StorageRowsOf(storageDevices, storageBusy)
    BY DEF StorageRowsOf
  <2>9. Remembered(storage, storageBusy, storageTimers)
    BY <2>2, <2>3, <2>4 DEF Remembered, NoOperation, Operations, Removals
  <2> QED
    BY <2>1, <2>2, <2>6, <2>7, <2>8, <2>9 DEF StorageInv, NoOperation
<1>2. StorageInv /\ [StorageNext]_storageVars => StorageInv'
  <2> SUFFICES ASSUME StorageInv, [StorageNext]_storageVars PROVE StorageInv'
    OBVIOUS
  <2>1. CASE \/ \E ds \in SUBSET Drives : Snapshot(ds)
             \/ \E x \in Drives : DriveAppears(x) \/ DriveDisappears(x) \/ MediumChanges(x)
             \/ \E v \in Volumes : VolumeAppears(v) \/ VolumeDisappears(v) \/ MountChanges(v)
    BY <2>1, HotPlugKeeps
  <2>2. CASE \E v \in Volumes : OpenVolume(v)
    BY <2>2, OpenKeeps
  <2>3. CASE \E t \in Targets : OperationFinished(t)
    BY <2>3, OperationEndKeeps
  <2>4. CASE \E t \in Targets : RetryOperation(t) \/ \E op \in Operations : Operate(t, op)
    BY <2>4, OperateKeeps DEF RetryOperation
  <2>5. CASE (\E timer \in storageTimers : ErrorExpires(timer)) \/ \E t \in Targets : RetryLaunch(t) \/ FilesLaunched(t)
    BY <2>5, ErrorStepKeeps
  <2>6. CASE UNCHANGED storageVars
    BY <2>6 DEF storageVars, StorageInv, Remembered, Announced, ShownDrives, StorageRowsOf, TargetRow
  <2> QED
    BY <2>1, <2>2, <2>3, <2>4, <2>5, <2>6 DEF StorageNext
<1> QED
  BY <1>1, <1>2, PTL

\* For any drives and volumes: what the page shows and remembers agrees with the devices.
THEOREM StorageAlwaysAgrees == StorageInit /\ [][StorageNext]_storageVars => [](StorageTypeOK /\ StorageAgrees)
<1>1. StorageInv => StorageTypeOK
  BY DEF StorageInv, StorageDevices, Remembered, BusyTargets, StorageStates, StorageNews, StorageTypeOK,
     StorageErrors, StorageTimers
<1>2. ASSUME NEW x \in Drives, NEW d, NEW busy PROVE (\E r \in StorageRowsOf(d, busy) : r.drive = x) <=> x \in ShownDrives(d)
  <2>1. \A t, y : TargetRow(d, busy, t, y).drive = y
    BY DEF TargetRow
  <2>2. \A r \in StorageRowsOf(d, busy) :
          \/ \E v \in d.volumes : DriveOf[v] \in d.drives \cap d.media /\ r = TargetRow(d, busy, v, DriveOf[v])
          \/ \E o \in d.drives \cap d.media \cap Discs : r = TargetRow(d, busy, o, o)
    BY DEF StorageRowsOf
  <2>3. ASSUME NEW v \in d.volumes, DriveOf[v] \in d.drives \cap d.media
        PROVE  TargetRow(d, busy, v, DriveOf[v]) \in StorageRowsOf(d, busy)
    BY <2>3 DEF StorageRowsOf
  <2>4. ASSUME NEW o \in d.drives \cap d.media \cap Discs PROVE TargetRow(d, busy, o, o) \in StorageRowsOf(d, busy)
    BY <2>4 DEF StorageRowsOf
  <2> QED
    BY <2>1, <2>2, <2>3, <2>4 DEF ShownDrives
<1>3. StorageInv => StorageAgrees
  BY <1>2 DEF StorageInv, Remembered, Announced, StorageAgrees
<1> QED
  BY <1>1, <1>3, StorageInvHolds, PTL

\* A timer ends no other error than its own.
LEMMA TimersEndTheirOwn ==
  ASSUME StorageInv, [StorageNext]_storageVars
  PROVE  OnlyOwnErrorExpires
<1>0. storage \in StorageStates /\ storage.errors \in StorageErrors /\ storageTimers \subseteq StorageTimers
  BY DEF StorageInv, StorageStates
<1>1. ASSUME storageTimers \subseteq storageTimers' PROVE OnlyOwnErrorExpires
  BY <1>1 DEF OnlyOwnErrorExpires
<1>2. ASSUME NEW timer \in storageTimers, ErrorExpires(timer) PROVE OnlyOwnErrorExpires
  BY <1>2, <1>0 DEF ErrorExpires, StorageTimers, StorageStates, StorageErrors, Refreshed, IsExpired,
     OnlyOwnErrorExpires
<1>3. CASE UNCHANGED storageVars
  BY <1>1, <1>3 DEF storageVars
<1>4. ASSUME NEW ds \in SUBSET Drives, Snapshot(ds) PROVE OnlyOwnErrorExpires
  BY <1>1, <1>4 DEF Snapshot
<1>5. ASSUME NEW x \in Drives, DriveAppears(x) \/ DriveDisappears(x) \/ MediumChanges(x) PROVE OnlyOwnErrorExpires
  BY <1>1, <1>5 DEF DriveAppears, DriveDisappears, MediumChanges
<1>6. ASSUME NEW v \in Volumes, VolumeAppears(v) \/ VolumeDisappears(v) \/ MountChanges(v) \/ OpenVolume(v)
      PROVE  OnlyOwnErrorExpires
  BY <1>1, <1>6 DEF VolumeAppears, VolumeDisappears, MountChanges, OpenVolume
<1>7. ASSUME NEW t \in Targets, OperationFinished(t) \/ RetryOperation(t) \/ RetryLaunch(t) \/ FilesLaunched(t)
                                \/ \E op \in Operations : Operate(t, op)
      PROVE  OnlyOwnErrorExpires
  BY <1>1, <1>7 DEF OperationFinished, RetryOperation, Operate, RetryLaunch, FilesLaunched
<1> QED
  BY <1>2, <1>3, <1>4, <1>5, <1>6, <1>7 DEF StorageNext

----------------------------------------------------------------------------
(***************************************************************************)
(* The keyboard layout.                                                    *)
(***************************************************************************)

HyprlandStates == [up : BOOLEAN, layout : Layouts, stops : 0..MaxStops]
HyprPipes == [pieces : Seq(Pieces), ready : BOOLEAN]
HyprClients == [socket : {"none", "connecting", "connected", "dead"}, timeout : BOOLEAN, oldTimeout : BOOLEAN,
                reconnect : BOOLEAN, buffer : Seq(Pieces)]
HyprCommands == [running : BOOLEAN, answer : Layouts \cup {NoLayout}]

\* While connected, what was not read ends with the tail of the line that told the layout,
\* an answer that nothing overtook is the layout, and so is what is shown when nothing is out.
HyprlandIsTold ==
  /\ hyprland \in HyprlandStates /\ hyprPipe \in HyprPipes /\ hyprClient \in HyprClients /\ hyprCommand \in HyprCommands
  /\ layoutName \in Layouts \cup {NoLayout, Garbled} /\ layoutLost \in BOOLEAN
  /\ hyprClient.socket = "connecting" => hyprClient.timeout
  /\ hyprClient.socket = "dead" => hyprClient.reconnect
  /\ hyprClient.socket # "connected" => hyprPipe = NoStream
  /\ hyprPipe.ready => hyprPipe.pieces # <<>>
  /\ hyprPipe.pieces # <<>> => hyprPipe.pieces[Len(hyprPipe.pieces)] = [layout |-> hyprland.layout, part |-> "tail"]
  /\ hyprClient.socket = "connected" /\ ~layoutLost /\ hyprPipe.pieces = <<>> =>
       IF hyprCommand.running THEN hyprCommand.answer \in {hyprland.layout, NoLayout} ELSE layoutName = hyprland.layout

\* The lines of what is held, and the last of them when it ends with a line's tail.
LEMMA LinesAreLayouts ==
  ASSUME NEW held \in Seq(Pieces)
  PROVE  /\ LinesOf(held) \in Seq(Layouts \cup {Garbled}) /\ PartLine(held) \in Seq(Pieces)
         /\ Len(held) > 0 /\ held[Len(held)].part = "tail" =>
              LinesOf(held) # <<>> /\ LinesOf(held)[Len(LinesOf(held))] \in {held[Len(held)].layout, Garbled}
<1> DEFINE ends == {i \in DOMAIN held : held[i].part = "tail"}
           IsWhole(i) == i > 1 /\ held[i - 1] = [layout |-> held[i].layout, part |-> "head"] /\ i - 2 \in ends \cup {0}
           line(i) == IF IsWhole(i) THEN held[i].layout ELSE Garbled
           lines == [k \in 1..Cardinality(ends) |-> line(IndexAt(ends, k))]
           from == IF ends = {} THEN 0 ELSE CHOOSE i \in ends : \A j \in ends : j <= i
<1>1. LinesOf(held) = lines /\ PartLine(held) = SubSeq(held, from + 1, Len(held))
  BY DEF LinesOf, PartLine
<1>2. Len(held) \in Nat /\ DOMAIN held = 1..Len(held) /\ \A i \in DOMAIN held : held[i] \in Pieces
  OBVIOUS
<1>3. ends \in SUBSET (1..Len(held))
  BY <1>2
<1>4. \A i \in ends : line(i) \in {held[i].layout, Garbled} /\ held[i].layout \in Layouts
  BY <1>2, <1>3 DEF Pieces
<1> HIDE DEF line
<1>5. /\ Cardinality(ends) \in Nat /\ \A k \in 1..Cardinality(ends) : IndexAt(ends, k) \in ends
      /\ \A k, l \in 1..Cardinality(ends) : k < l => IndexAt(ends, k) < IndexAt(ends, l)
      /\ \A i \in ends : \E k \in 1..Cardinality(ends) : IndexAt(ends, k) = i
  BY <1>2, <1>3, IndexAtProperties
<1> DEFINE n == Cardinality(ends)
<1>50. n \in Nat /\ \A i \in ends : i \in Nat /\ i <= Len(held)
  BY <1>2, <1>3, <1>5
<1> HIDE DEF ends
<1>51. ASSUME NEW k \in 1..n, k < n PROVE IndexAt(ends, k) < IndexAt(ends, n)
  BY <1>50, <1>51, <1>5
<1>6. lines \in Seq(Layouts \cup {Garbled}) /\ Len(lines) = n
  BY <1>4, <1>5 DEF n
<1>7. SubSeq(held, from + 1, Len(held)) \in Seq(Pieces)
  <2>1. from \in 0..Len(held)
    <3>1. CASE ends = {}
      BY <1>2, <3>1
    <3>2. CASE ends # {}
      <4>1. n >= 1
        BY <1>5, <3>2
      <4>2. \A j \in ends : j <= IndexAt(ends, n)
        BY <1>5, <1>50, <4>1, <1>51
      <4>3. IndexAt(ends, n) \in ends
        BY <1>5, <4>1
      <4>4. from \in ends
        BY <3>2, <4>2, <4>3
      <4> HIDE DEF from
      <4> QED
        BY <1>2, <1>50, <4>4
    <3> QED
      BY <3>1, <3>2
  <2> HIDE DEF from
  <2> QED
    BY <1>2, <2>1
<1>8. ASSUME Len(held) > 0, held[Len(held)].part = "tail"
      PROVE  lines # <<>> /\ lines[Len(lines)] \in {held[Len(held)].layout, Garbled}
  BY <1>2, <1>8, <1>5, <1>50, <1>51, <1>6, <1>4 DEF ends
<1> QED
  BY <1>1, <1>6, <1>7, <1>8

\* One read of the stream.
LEMMA ReadableKeeps == ASSUME HyprlandIsTold, EventSocketReadable PROVE HyprlandIsTold'
<1> DEFINE pieces == hyprPipe.pieces
           n == IF Len(pieces) < ChunkPieces THEN Len(pieces) ELSE ChunkPieces
           held == hyprClient.buffer \o SubSeq(pieces, 1, n)
           lines == LinesOf(held)
           rest == SubSeq(pieces, n + 1, Len(pieces))
           heard == IF lines = <<>> THEN layoutName ELSE lines[Len(lines)]
           lost == IF lines = <<>> THEN layoutLost ELSE lines[Len(lines)] = Garbled \/ hyprCommand.answer # NoLayout
           last == [layout |-> hyprland.layout, part |-> "tail"]
<1>0. /\ hyprPipe \in HyprPipes /\ hyprClient \in HyprClients /\ pieces \in Seq(Pieces) /\ hyprClient.buffer \in Seq(Pieces)
      /\ pieces # <<>> /\ Len(pieces) \in Nat \ {0} /\ pieces[Len(pieces)] = last
      /\ hyprland \in HyprlandStates /\ hyprland.layout \in Layouts
      /\ hyprClient.socket = "connected" /\ layoutLost \in BOOLEAN /\ layoutName \in Layouts \cup {NoLayout, Garbled}
  BY DEF HyprlandIsTold, HyprPipes, HyprClients, HyprlandStates, EventSocketReadable
<1>1. /\ hyprPipe' = [pieces |-> rest, ready |-> FALSE] /\ hyprClient' = [hyprClient EXCEPT !.buffer = PartLine(held)]
      /\ layoutName' = heard /\ layoutLost' = lost /\ UNCHANGED <<hyprland, hyprCommand>>
  BY DEF EventSocketReadable
<1>2. n \in 1..Len(pieces) /\ n \in Nat
  BY <1>0, HyprlandAssumption
<1> DEFINE first == SubSeq(pieces, 1, n)
<1>3. first \in Seq(Pieces) /\ Len(first) = n /\ first[n] = pieces[n]
  BY <1>0, <1>2
<1>4. rest \in Seq(Pieces) /\ Len(rest) = Len(pieces) - n /\ (n < Len(pieces) => rest[Len(rest)] = pieces[Len(pieces)])
  <2> HIDE DEF n
  <2>1. rest \in Seq(Pieces) /\ Len(rest) = Len(pieces) - n /\ \A i \in 1..(Len(pieces) - n) : rest[i] = pieces[n + i]
    BY <1>0, <1>2
  <2> HIDE DEF rest
  <2>2. n < Len(pieces) => Len(rest) \in 1..(Len(pieces) - n) /\ n + Len(rest) = Len(pieces)
    BY <1>0, <1>2, <2>1
  <2> QED
    BY <2>1, <2>2
<1>5. rest = <<>> <=> n = Len(pieces)
  BY <1>2, <1>4, EmptyQueue
<1> HIDE DEF first, rest, n
<1>6. held \in Seq(Pieces) /\ Len(held) = Len(hyprClient.buffer) + n /\ held[Len(held)] = pieces[n] /\ Len(held) > 0
  <2>1. held = hyprClient.buffer \o first
    BY DEF first
  <2> HIDE DEF held
  <2>2. held \in Seq(Pieces) /\ Len(held) = Len(hyprClient.buffer) + n
    <3>1. /\ hyprClient.buffer \o first \in Seq(Pieces)
          /\ Len(hyprClient.buffer \o first) = Len(hyprClient.buffer) + Len(first)
      BY <1>0, <1>3, JoinedAt, Zenon
    <3> QED
      BY <1>3, <2>1, <3>1
  <2>3. held[Len(hyprClient.buffer) + n] = first[n]
    BY <1>0, <1>2, <1>3, <2>1, JoinedAt
  <2> QED
    BY <1>0, <1>2, <1>3, <2>2, <2>3
<1> HIDE DEF held
<1>7. lines \in Seq(Layouts \cup {Garbled}) /\ PartLine(held) \in Seq(Pieces)
  BY <1>6, LinesAreLayouts
<1>8. n = Len(pieces) => lines # <<>> /\ lines[Len(lines)] \in {hyprland.layout, Garbled}
  <2>1. last.part = "tail" /\ last.layout = hyprland.layout
    OBVIOUS
  <2> HIDE DEF last, pieces
  <2>2. n = Len(pieces) => held[Len(held)] = last
    BY <1>0, <1>6
  <2>3. Len(held) > 0 /\ held[Len(held)].part = "tail" => lines # <<>> /\ lines[Len(lines)] \in {held[Len(held)].layout, Garbled}
    BY <1>6, LinesAreLayouts
  <2> QED
    BY <1>6, <2>1, <2>2, <2>3
<1>9. lines # <<>> => lines[Len(lines)] \in Layouts \cup {Garbled}
  BY <1>7
<1> HIDE DEF lines
<1>10. heard \in Layouts \cup {NoLayout, Garbled} /\ lost \in BOOLEAN
  BY <1>0, <1>9
<1>11. n = Len(pieces) /\ ~lost => heard = hyprland.layout /\ hyprCommand.answer = NoLayout
  BY <1>8
<1> HIDE DEF heard, lost
<1>12. /\ hyprClient' \in HyprClients /\ hyprClient'.socket = "connected" /\ hyprPipe' \in HyprPipes
       /\ hyprPipe'.pieces = rest /\ hyprPipe'.ready = FALSE
  BY <1>0, <1>1, <1>4, <1>7 DEF HyprClients, HyprPipes
<1>13. rest # <<>> => rest[Len(rest)] = last
  BY <1>0, <1>2, <1>4, <1>5
<1>14. ASSUME rest = <<>>, ~layoutLost'
       PROVE  IF hyprCommand.running THEN hyprCommand.answer \in {hyprland.layout, NoLayout} ELSE layoutName' = hyprland.layout
  BY <1>1, <1>5, <1>11, <1>14
<1> QED
  BY <1>1, <1>10, <1>12, <1>13, <1>14 DEF HyprlandIsTold

LEMMA ConnectionKeeps ==
  ASSUME HyprlandIsTold,
         \/ EventSocketConnected \/ EventSocketError \/ \E old \in BOOLEAN : ConnectTimeout(old)
         \/ OldTimerDeleted \/ Reconnect \/ EventSocketDisconnected
  PROVE  HyprlandIsTold'
<1>0. NoStream \in HyprPipes /\ NoStream.pieces = <<>> /\ NoStream.ready = FALSE
  BY DEF NoStream, HyprPipes
<1>1. CASE EventSocketConnected
  <2> DEFINE c == [hyprClient EXCEPT !.socket = "connected", !.timeout = FALSE, !.reconnect = FALSE]
             command == IF hyprCommand.running THEN hyprCommand ELSE [running |-> TRUE, answer |-> NoLayout]
  <2>1. /\ hyprClient' = c /\ hyprPipe' = NoStream /\ hyprCommand' = command /\ layoutLost' = hyprCommand.running
        /\ UNCHANGED <<hyprland, layoutName>>
    BY <1>1 DEF EventSocketConnected
  <2>2. c \in HyprClients /\ c.socket = "connected"
    BY DEF HyprlandIsTold, HyprClients
  <2>3. command \in HyprCommands /\ (~hyprCommand.running => command.running /\ command.answer = NoLayout)
    BY DEF HyprlandIsTold, HyprCommands
  <2>4. hyprCommand.running \in BOOLEAN
    BY DEF HyprlandIsTold, HyprCommands
  <2> HIDE DEF c, command
  <2> QED
    BY <1>0, <2>1, <2>2, <2>3, <2>4 DEF HyprlandIsTold
<1>2. CASE EventSocketError
  <2> DEFINE c == [[hyprClient EXCEPT !.socket = "dead"] EXCEPT !.reconnect = TRUE]
  <2>1. /\ hyprClient' = c /\ hyprClient.socket # "connected"
        /\ UNCHANGED <<hyprland, hyprPipe, hyprCommand, layoutName, layoutLost>>
    BY <1>2 DEF EventSocketError, ScheduleReconnect
  <2>2. c \in HyprClients /\ c.socket = "dead" /\ c.reconnect
    BY DEF HyprlandIsTold, HyprClients
  <2> HIDE DEF c
  <2> QED
    BY <2>1, <2>2 DEF HyprlandIsTold
<1>3. ASSUME NEW old \in BOOLEAN, ConnectTimeout(old) PROVE HyprlandIsTold'
  <2> DEFINE fired == IF old THEN [hyprClient EXCEPT !.oldTimeout = FALSE] ELSE [hyprClient EXCEPT !.timeout = FALSE]
             c == IF hyprClient.socket = "connected" THEN fired ELSE [[fired EXCEPT !.socket = "dead"] EXCEPT !.reconnect = TRUE]
  <2>1. hyprClient' = c /\ UNCHANGED <<hyprland, hyprPipe, hyprCommand, layoutName, layoutLost>>
    BY <1>3 DEF ConnectTimeout, ScheduleReconnect
  <2>2. fired \in HyprClients /\ fired.socket = hyprClient.socket
    BY DEF HyprlandIsTold, HyprClients
  <2> HIDE DEF fired
  <2>3. c \in HyprClients /\ IF hyprClient.socket = "connected" THEN c.socket = "connected" ELSE c.socket = "dead" /\ c.reconnect
    BY <2>2 DEF HyprClients
  <2> HIDE DEF c
  <2> QED
    BY <2>1, <2>3 DEF HyprlandIsTold
<1>4. CASE OldTimerDeleted
  <2> DEFINE c == [hyprClient EXCEPT !.oldTimeout = FALSE]
  <2>1. hyprClient' = c /\ UNCHANGED <<hyprland, hyprPipe, hyprCommand, layoutName, layoutLost>>
    BY <1>4 DEF OldTimerDeleted
  <2>2. c \in HyprClients /\ c.socket = hyprClient.socket /\ c.timeout = hyprClient.timeout /\ c.reconnect = hyprClient.reconnect
    BY DEF HyprlandIsTold, HyprClients
  <2> HIDE DEF c
  <2> QED
    BY <2>1, <2>2 DEF HyprlandIsTold
<1>5. CASE Reconnect
  <2> DEFINE c == [hyprClient EXCEPT !.reconnect = FALSE, !.socket = "connecting", !.timeout = TRUE,
                                     !.oldTimeout = hyprClient.timeout]
  <2>1. hyprClient' = c /\ hyprPipe' = NoStream /\ UNCHANGED <<hyprland, hyprCommand, layoutName, layoutLost>>
    BY <1>5 DEF Reconnect
  <2>2. c \in HyprClients /\ c.socket = "connecting" /\ c.timeout
    BY DEF HyprlandIsTold, HyprClients
  <2> HIDE DEF c
  <2> QED
    BY <1>0, <2>1, <2>2 DEF HyprlandIsTold
<1>6. CASE EventSocketDisconnected
  <2> DEFINE c == [[hyprClient EXCEPT !.socket = "dead"] EXCEPT !.reconnect = TRUE]
  <2>1. /\ hyprClient' = c /\ hyprPipe' = NoStream /\ layoutName' = NoLayout /\ layoutLost' = TRUE
        /\ UNCHANGED <<hyprland, hyprCommand>>
    BY <1>6 DEF EventSocketDisconnected, ScheduleReconnect
  <2>2. c \in HyprClients /\ c.socket = "dead" /\ c.reconnect
    BY DEF HyprlandIsTold, HyprClients
  <2> HIDE DEF c
  <2> QED
    BY <1>0, <2>1, <2>2 DEF HyprlandIsTold
<1> QED
  BY <1>1, <1>2, <1>3, <1>4, <1>5, <1>6

LEMMA LayoutKeeps ==
  ASSUME HyprlandIsTold,
         \/ HyprlandAnswers \/ \E success \in BOOLEAN : CommandFinished(success)
         \/ LayoutSwitches \/ HyprlandStops \/ HyprlandStarts
  PROVE  HyprlandIsTold'
<1>1. CASE HyprlandAnswers
  BY <1>1 DEF HyprlandAnswers, HyprlandIsTold, HyprCommands, HyprlandStates
<1>2. ASSUME NEW success \in BOOLEAN, CommandFinished(success) PROVE HyprlandIsTold'
  BY <1>2 DEF CommandFinished, NoCommand, HyprCommands, HyprlandIsTold
<1>3. CASE LayoutSwitches
  <2>1. PICK l \in Layouts :
          /\ hyprland' = [hyprland EXCEPT !.layout = l]
          /\ hyprPipe' = IF hyprClient.socket # "connected" THEN hyprPipe
                         ELSE [pieces |-> hyprPipe.pieces \o <<[layout |-> l, part |-> "head"], [layout |-> l, part |-> "tail"]>>,
                               ready |-> TRUE]
    BY <1>3 DEF LayoutSwitches
  <2>2. UNCHANGED <<hyprClient, hyprCommand, layoutName, layoutLost>>
    BY <1>3 DEF LayoutSwitches
  <2>3. hyprland' \in HyprlandStates /\ hyprland'.layout = l
    BY <2>1 DEF HyprlandIsTold, HyprlandStates
  <2>4. CASE hyprClient.socket # "connected"
    BY <2>1, <2>4, <2>2, <2>3 DEF HyprlandIsTold, NoStream
  <2>5. CASE hyprClient.socket = "connected"
    BY <2>1, <2>5, <2>2, <2>3 DEF Pieces, HyprlandIsTold, HyprPipes
  <2> QED
    BY <2>4, <2>5
<1>4. CASE HyprlandStops
  <2>1. /\ hyprland' = [hyprland EXCEPT !.up = FALSE, !.stops = @ + 1] /\ hyprland.stops < MaxStops
        /\ UNCHANGED <<hyprPipe, hyprClient, hyprCommand, layoutName, layoutLost>>
    BY <1>4 DEF HyprlandStops
  <2>2. hyprland.stops + 1 \in 0..MaxStops
    BY <2>1, HyprlandAssumption DEF HyprlandIsTold, HyprlandStates
  <2>3. hyprland' \in HyprlandStates /\ hyprland'.layout = hyprland.layout
    BY <2>1, <2>2 DEF HyprlandIsTold, HyprlandStates
  <2> QED
    BY <2>1, <2>3 DEF HyprlandIsTold
<1>5. CASE HyprlandStarts
  <2>1. PICK l \in Layouts : hyprland' = [hyprland EXCEPT !.up = TRUE, !.layout = l]
    BY <1>5 DEF HyprlandStarts
  <2>2. hyprClient.socket # "connected" /\ UNCHANGED <<hyprPipe, hyprClient, hyprCommand, layoutName, layoutLost>>
    BY <1>5 DEF HyprlandStarts
  <2>3. hyprland' \in HyprlandStates
    BY <2>1 DEF HyprlandIsTold, HyprlandStates
  <2>4. hyprPipe.pieces = <<>>
    BY <2>2 DEF HyprlandIsTold, NoStream
  <2> QED
    BY <2>2, <2>3, <2>4 DEF HyprlandIsTold
<1> QED
  BY <1>1, <1>2, <1>3, <1>4, <1>5

\* For any layouts and chunks: the client never waits for nothing, and what it shows is the layout.
THEOREM LayoutIsAlwaysFollowed == HyprInit /\ [][HyprNext]_hyprVars => [](HyprTypeOK /\ HyprlandIsFollowed)
<1>1. HyprInit => HyprlandIsTold
  <2> SUFFICES ASSUME HyprInit PROVE HyprlandIsTold
    OBVIOUS
  <2>1. <<>> \in Seq(Pieces)
    OBVIOUS
  <2>2. hyprPipe \in HyprPipes /\ hyprPipe.pieces = <<>> /\ hyprPipe.ready = FALSE /\ hyprPipe = NoStream
    BY <2>1 DEF HyprInit, NoStream, HyprPipes
  <2>3. hyprClient \in HyprClients /\ hyprClient.socket = "connecting" /\ hyprClient.timeout
    BY <2>1 DEF HyprInit, HyprClients
  <2>4. hyprland \in HyprlandStates
    BY HyprlandAssumption DEF HyprInit, HyprlandStates
  <2>5. hyprCommand \in HyprCommands /\ layoutName \in Layouts \cup {NoLayout, Garbled} /\ layoutLost \in BOOLEAN
    BY DEF HyprInit, NoCommand, HyprCommands
  <2> QED
    BY <2>2, <2>3, <2>4, <2>5 DEF HyprlandIsTold
<1>2. HyprlandIsTold /\ [HyprNext]_hyprVars => HyprlandIsTold'
  BY ReadableKeeps, ConnectionKeeps, LayoutKeeps DEF hyprVars, HyprlandIsTold, HyprNext
<1>3. HyprlandIsTold => HyprTypeOK /\ HyprlandIsFollowed
  BY DEF HyprlandIsTold, HyprTypeOK, HyprlandStates, HyprPipes, HyprClients, HyprCommands, HyprlandIsFollowed
<1> QED
  BY <1>1, <1>2, <1>3, PTL

----------------------------------------------------------------------------
(***************************************************************************)
(* The windows.                                                            *)
(***************************************************************************)

\* A list in which everything is once is no longer than what there is.
LEMMA OnceIsShort ==
  ASSUME NEW s \in Seq(Windows), IsInjective(s)
  PROVE  s \in Orders
<1> DEFINE n == Len(s)
<1>1. n \in Nat /\ s \in [1..n -> Windows] /\ IsFiniteSet(Windows)
  BY CompositorAssumption
<1>0. IsFiniteSet(1..n) /\ Cardinality(1..n) = n
  BY <1>1, FS_Interval
<1>2. s \in Injection(1..n, Windows)
  BY <1>1 DEF Injection, IsInjective
<1>4. Cardinality(1..n) <= Cardinality(Windows)
  BY <1>1, <1>2, FS_Injection
<1>5. Cardinality(1..n) = n /\ Cardinality(Windows) \in Nat
  BY <1>0, <1>1, FS_CardinalityType
<1>6. n \in 0..Cardinality(Windows)
  BY <1>1, <1>4, <1>5
<1> HIDE DEF n
<1> QED
  BY <1>1, <1>6 DEF Orders

\* Increasing numbers, and that the numbers of one sequence are among those of another.
Increasing(f, n) == (\A k \in 1..n : f[k] \in Nat) /\ \A k, l \in 1..n : k < l => f[k] < f[l]
Among(f, m, g, n) == \A k \in 1..m : \E l \in 1..n : g[l] = f[k]

\* Of two increasing sequences of the same numbers, one begins with the other.
LEMMA IncreasingBegins ==
  ASSUME NEW m \in Nat, NEW n \in Nat, NEW f, NEW g,
         Increasing(f, m), Increasing(g, n), Among(f, m, g, n), Among(g, n, f, m)
  PROVE  m <= n /\ \A k \in 1..m : f[k] = g[k]
<1> USE DEF Increasing, Among
<1> DEFINE Bad == {k \in 1..m : k \notin 1..n \/ f[k] # g[k]}
<1>1. ASSUME Bad # {} PROVE FALSE
  <2>1. PICK k \in Bad : \A l \in Bad : k <= l
    <3>1. Bad \subseteq Nat
      OBVIOUS
    <3> QED
      BY <1>1, <3>1, LeastOf
  <2>2. k \in 1..m /\ (k \notin 1..n \/ f[k] # g[k])
    OBVIOUS
  <2>3. ASSUME NEW l \in 1..m, l < k PROVE l \in 1..n /\ f[l] = g[l] /\ f[l] < f[k]
    BY <2>1, <2>2, <2>3
  <2> HIDE DEF Bad
  <2>4. PICK l \in 1..n : g[l] = f[k]
    BY <2>2
  <2>5. ~(l < k)
    BY <2>2, <2>3, <2>4
  <2>6. k \in 1..n /\ k < l
    BY <2>2, <2>4, <2>5
  <2>7. g[k] < f[k] /\ g[k] \in Nat /\ f[k] \in Nat
    BY <2>2, <2>4, <2>6
  <2>8. PICK j \in 1..m : f[j] = g[k]
    BY <2>6
  <2>9. j < k
    <3>1. k < j => f[k] < f[j]
      BY <2>2, <2>8
    <3>2. k \in Nat /\ j \in Nat /\ f[j] < f[k] /\ f[j] \in Nat /\ f[k] \in Nat
      BY <2>2, <2>7, <2>8
    <3>3. ~(k < j)
      BY <3>1, <3>2
    <3>4. k # j
      BY <3>2
    <3> QED
      BY <3>2, <3>3, <3>4
  <2>10. j \in 1..n /\ f[j] = g[j] /\ g[j] < g[k]
    BY <2>3, <2>6, <2>8, <2>9
  <2> QED
    BY <2>7, <2>8, <2>10
<1>2. \A k \in 1..m : k \in 1..n /\ f[k] = g[k]
  BY <1>1
<1>3. m <= n
  BY <1>2
<1> QED
  BY <1>2, <1>3

Snapshots == [windows : Seq(Windows), activated : SUBSET Windows]
Catalogs == [active : SUBSET Windows, history : [Windows -> Nat], sequence : Nat]
Views == [order : Seq(Windows), frozen : BOOLEAN]

\* The numbers of the catalog are those of the last activations, in their order.
HistoryIsKept(catalog, latest, windows) ==
  /\ latest \in Seq(Windows) /\ IsInjective(latest) /\ ToSet(latest) \subseteq ToSet(windows)
  /\ \A w \in Windows : catalog.history[w] # 0 <=> w \in ToSet(latest)
  /\ \A w \in Windows : catalog.history[w] <= catalog.sequence
  /\ \A k, l \in 1..Len(latest) : k < l => catalog.history[latest[k]] < catalog.history[latest[l]]

WindowsAreOrdered ==
  /\ snapshot \in Snapshots /\ windowCatalog \in Catalogs /\ overview \in Views
  /\ IsInjective(snapshot.windows) /\ snapshot.activated \subseteq ToSet(snapshot.windows)
  /\ windowCatalog.active = snapshot.activated
  /\ IsInjective(overview.order) /\ ToSet(overview.order) = ToSet(snapshot.windows)
  /\ HistoryIsKept(windowCatalog, lastActive, snapshot.windows)

\* n: those of the latest that stay, and after them the fresh ones.
Follow(old, new, n, latest, windows, fresh) ==
  old = ElementsIn(latest, ToSet(windows) \ fresh) /\ new = ElementsIn(windows, fresh) /\ n = old \o new

\* What replace makes of the catalog.
LEMMA ReplacedKeepsHistory ==
  ASSUME NEW catalog \in Catalogs, NEW latest, NEW before, HistoryIsKept(catalog, latest, before),
         NEW windows \in Seq(Windows), IsInjective(windows), NEW activated \in SUBSET ToSet(windows),
         NEW c, c = CatalogReplaced(catalog, windows, activated), NEW fresh, fresh = activated \ catalog.active,
         NEW old, NEW new, NEW n, Follow(old, new, n, latest, windows, fresh)
  PROVE  c \in Catalogs /\ c.active = activated /\ HistoryIsKept(c, n, windows)
<1>1. /\ latest \in Seq(Windows) /\ IsInjective(latest) /\ ToSet(latest) \subseteq ToSet(before)
      /\ \A w \in Windows : catalog.history[w] # 0 <=> w \in ToSet(latest)
      /\ \A w \in Windows : catalog.history[w] <= catalog.sequence
      /\ \A k, l \in 1..Len(latest) : k < l => catalog.history[latest[k]] < catalog.history[latest[l]]
  BY DEF HistoryIsKept
<1>2. catalog.history \in [Windows -> Nat] /\ catalog.sequence \in Nat
  BY DEF Catalogs
<1>3. /\ old \in Seq(Windows) /\ IsInjective(old) /\ ToSet(old) = ToSet(latest) \cap (ToSet(windows) \ fresh)
      /\ \A k, l \in 1..Len(old) : k < l => \E i, j \in 1..Len(latest) : i < j /\ old[k] = latest[i] /\ old[l] = latest[j]
  <2> DEFINE E == ToSet(windows) \ fresh
             s == latest
  <2>1. old = ElementsIn(s, E) /\ s \in Seq(Windows) /\ IsInjective(s)
    BY <1>1 DEF Follow
  <2> HIDE DEF E, s
  <2>2. /\ old \in Seq(Windows) /\ IsInjective(old) /\ ToSet(old) = ToSet(s) \cap E
        /\ \A k, l \in 1..Len(old) : k < l => \E i, j \in 1..Len(s) : i < j /\ old[k] = s[i] /\ old[l] = s[j]
    <3>1. s \in Seq(Windows)
      BY <2>1
    <3>2. IsInjective(s)
      BY <2>1
    <3>3. old = ElementsIn(s, E)
      BY <2>1
    <3> HIDE <2>1
    <3>4. old \in Seq(Windows) /\ IsInjective(old)
      BY <3>1, <3>2, <3>3, KeptOnce
    <3>5. ToSet(old) = ToSet(s) \cap E
      BY <3>1, <3>2, <3>3, KeptOnce
    <3>6. \A k, l \in 1..Len(old) : k < l => \E i, j \in 1..Len(s) : i < j /\ old[k] = s[i] /\ old[l] = s[j]
      BY <3>1, <3>3, KeptInOrder DEF KeepsOrder
    <3> QED
      BY <3>4, <3>5, <3>6
  <2> QED
    BY <2>2 DEF E, s
<1>4. /\ new \in Seq(Windows) /\ IsInjective(new) /\ ToSet(new) = ToSet(windows) \cap fresh
  BY KeptOnce DEF Follow
<1>5. /\ c.active = activated /\ c.sequence = catalog.sequence + Len(new)
      /\ c.history = [w \in Windows |-> IF w \notin ToSet(windows) THEN 0
                                        ELSE IF w \in ToSet(new) THEN catalog.sequence + CHOOSE i \in DOMAIN new : new[i] = w
                                        ELSE catalog.history[w]]
  BY DEF Follow, CatalogReplaced
<1>6. c = [active |-> c.active, sequence |-> c.sequence, history |-> c.history]
  BY DEF CatalogReplaced
<1>7. /\ n \in Seq(Windows) /\ IsInjective(n) /\ ToSet(n) = ToSet(old) \cup ToSet(new)
      /\ Len(old) \in Nat /\ Len(new) \in Nat /\ Len(n) = Len(old) + Len(new)
      /\ \A i \in 1..Len(old) : n[i] = old[i]
      /\ \A i \in 1..Len(new) : n[Len(old) + i] = new[i]
  <2>0. n = old \o new
    BY DEF Follow
  <2>1. ToSet(old) \cap ToSet(new) = {}
    BY <1>3, <1>4
  <2>2. old \in Seq(Windows) /\ new \in Seq(Windows) /\ IsInjective(old) /\ IsInjective(new)
    BY <1>3, <1>4
  <2>3. n \in Seq(Windows) /\ IsInjective(n) /\ ToSet(n) = ToSet(old) \cup ToSet(new)
    BY <2>2, JoinedHas, JoinedOnce, <2>0, <2>1
  <2>4. Len(old) \in Nat /\ Len(new) \in Nat /\ Len(n) = Len(old) + Len(new)
    BY <2>0, <2>2
  <2>5. \A i \in 1..Len(old) : n[i] = old[i]
    BY <2>0, <2>2
  <2>6. \A i \in 1..Len(new) : n[Len(old) + i] = new[i]
    BY <2>0, <2>2
  <2> QED
    BY <2>3, <2>4, <2>5, <2>6
<1>8. DOMAIN new = 1..Len(new) /\ (\A i \in 1..Len(new) : new[i] \in Windows /\ new[i] \in ToSet(new) /\ new[i] \in ToSet(windows))
  BY <1>4 DEF ToSet
<1>9. ASSUME NEW i \in 1..Len(new) PROVE c.history[new[i]] = catalog.sequence + i
  BY <1>4, <1>8, <1>5 DEF IsInjective
<1>10. ASSUME NEW w \in Windows, w \in ToSet(new) PROVE \E i \in 1..Len(new) : w = new[i]
  BY <1>8, <1>10 DEF ToSet
<1>11. ASSUME NEW w \in Windows, w \notin ToSet(windows) PROVE c.history[w] = 0
  BY <1>5, <1>11
<1>12. ASSUME NEW w \in Windows, w \in ToSet(windows), w \notin ToSet(new) PROVE c.history[w] = catalog.history[w]
  BY <1>5, <1>12
<1>13. ASSUME NEW w \in Windows
       PROVE  c.history[w] \in Nat /\ c.history[w] <= c.sequence /\ (c.history[w] # 0 <=> w \in ToSet(n))
  <2>1. CASE w \notin ToSet(windows)
    BY <1>3, <1>4, <1>7, <2>1, <1>2, <1>5, <1>11
  <2>2. CASE w \in ToSet(new)
    <3>1. PICK i \in 1..Len(new) : w = new[i]
      BY <1>10, <2>2
    <3>2. c.history[w] = catalog.sequence + i
      BY <1>9, <3>1
    <3>3. i \in Nat \ {0} /\ i <= Len(new)
      BY <1>7
    <3>4. catalog.sequence + i \in Nat \ {0} /\ catalog.sequence + i <= catalog.sequence + Len(new)
      <4>1. \A a, b \in Nat : \A m \in Nat \ {0} : m <= b => a + m \in Nat \ {0} /\ a + m <= a + b
        OBVIOUS
      <4> QED
        BY <1>2, <1>7, <3>3, <4>1
    <3>5. w \in ToSet(n)
      BY <1>7, <2>2
    <3> QED
      BY <1>5, <3>2, <3>4, <3>5
  <2>3. CASE w \in ToSet(windows) /\ w \notin ToSet(new)
    BY <1>12, <2>3, <1>3, <1>4, <1>7, <1>1, <1>2, <1>5
  <2> QED
    BY <2>1, <2>2, <2>3
<1>14. c \in Catalogs
  <2>1. activated \subseteq Windows
    BY DEF ToSet
  <2>2. c.sequence \in Nat
    BY <1>2, <1>5, <1>7
  <2>3. DOMAIN c.history = Windows
    BY <1>5
  <2>4. c.history \in [Windows -> Nat]
    BY <1>5, <1>13
  <2> QED
    BY <1>5, <1>6, <2>1, <2>2, <2>4 DEF Catalogs
<1>15. ASSUME NEW k \in 1..Len(n), NEW l \in 1..Len(n), k < l PROVE c.history[n[k]] < c.history[n[l]]
  <2>1. \A i \in 1..Len(old) : old[i] \in Windows /\ old[i] \in ToSet(windows) /\ old[i] \notin ToSet(new)
    <3>1. \A i \in 1..Len(old) : old[i] \in ToSet(old) /\ old[i] \in Windows
      BY <1>3 DEF ToSet
    <3> QED
      BY <1>3, <1>4, <3>1
  <2>2. CASE k \in 1..Len(old) /\ l \in 1..Len(old)
    <3>1. PICK i, j \in 1..Len(latest) : i < j /\ old[k] = latest[i] /\ old[l] = latest[j]
      BY <1>3, <1>15, <2>2
    <3>2. catalog.history[old[k]] < catalog.history[old[l]]
      BY <1>1, <3>1
    <3>3. c.history[old[k]] = catalog.history[old[k]] /\ c.history[old[l]] = catalog.history[old[l]]
      BY <1>12, <2>1, <2>2
    <3> QED
      BY <1>7, <2>2, <3>2, <3>3
  <2>3. CASE l \notin 1..Len(old)
    <3>1. l - Len(old) \in 1..Len(new) /\ l = Len(old) + (l - Len(old))
      BY <1>7, <2>3
    <3>2. PICK j \in 1..Len(new) : l = Len(old) + j
      BY <3>1
    <3>0. n[l] = new[j] /\ j \in Nat \ {0}
      BY <1>7, <3>2
    <3>3. c.history[n[l]] = catalog.sequence + j /\ j \in Nat \ {0}
      BY <1>9, <3>0
    <3>4. CASE k \in 1..Len(old)
      <4>1. c.history[n[k]] = catalog.history[old[k]] /\ old[k] \in Windows
        BY <1>7, <1>12, <2>1, <3>4
      <4>2. catalog.history[old[k]] <= catalog.sequence /\ catalog.history[old[k]] \in Nat
        BY <1>1, <1>2, <4>1
      <4> QED
        BY <1>2, <3>3, <4>1, <4>2
    <3>5. CASE k \notin 1..Len(old)
      <4>1. k - Len(old) \in 1..Len(new) /\ k = Len(old) + (k - Len(old))
        BY <1>7, <3>5
      <4>2. PICK i \in 1..Len(new) : k = Len(old) + i
        BY <4>1
      <4>0. n[k] = new[i] /\ i \in Nat
        BY <1>7, <4>2
      <4>3. c.history[n[k]] = catalog.sequence + i /\ i \in Nat
        BY <1>9, <4>0
      <4>4. i < j
        BY <1>7, <1>15, <3>2, <4>2
      <4> QED
        BY <1>2, <3>3, <4>3, <4>4
    <3> QED
      BY <3>4, <3>5
  <2>4. l \in 1..Len(old) => k \in 1..Len(old)
    BY <1>7, <1>15
  <2> QED
    BY <2>2, <2>3, <2>4
<1>16. ToSet(n) \subseteq ToSet(windows)
  BY <1>3, <1>4, <1>7
<1> QED
  BY <1>5, <1>7, <1>13, <1>14, <1>15, <1>16 DEF HistoryIsKept

\* The first cards by activation, as the numbers of the catalog have them.
ActivatedFirst(windows, catalog, numbers) ==
  [k \in 1..Cardinality(numbers) |->
     CHOOSE w \in ToSet(windows) : catalog.history[w] = IndexAt(numbers, Cardinality(numbers) + 1 - k)]

\* By activation the windows last activated are first, from the last to the first.
LEMMA LastActivatedFirst ==
  ASSUME NEW catalog \in Catalogs, NEW latest, NEW windows \in Seq(Windows), HistoryIsKept(catalog, latest, windows),
         NEW numbers, numbers = {catalog.history[w] : w \in ToSet(windows)} \ {0}
  PROVE  ActivatedFirst(windows, catalog, numbers) = Reverse(latest)
<1> DEFINE n == catalog.sequence
           m == Len(latest)
           c == Cardinality(numbers)
           F == [k \in 1..m |-> catalog.history[latest[k]]]
           G == [k \in 1..c |-> IndexAt(numbers, k)]
<1>1. /\ latest \in Seq(Windows) /\ IsInjective(latest) /\ ToSet(latest) \subseteq ToSet(windows)
      /\ \A w \in Windows : catalog.history[w] # 0 <=> w \in ToSet(latest)
      /\ \A w \in Windows : catalog.history[w] <= catalog.sequence
      /\ \A k, l \in 1..Len(latest) : k < l => catalog.history[latest[k]] < catalog.history[latest[l]]
  BY DEF HistoryIsKept
<1>2. catalog.history \in [Windows -> Nat] /\ n \in Nat /\ m \in Nat /\ DOMAIN latest = 1..m
  BY <1>1 DEF Catalogs
<1>3. \A k \in 1..m : latest[k] \in Windows /\ latest[k] \in ToSet(latest) /\ latest[k] \in ToSet(windows)
  <2>1. \A k \in 1..m : latest[k] \in ToSet(latest)
    BY <1>2 DEF ToSet
  <2> QED
    BY <1>1, <1>2, <2>1
<1>4. \A w \in ToSet(windows) : w \in Windows
  BY DEF ToSet
<1>5. \A k \in 1..m : F[k] = catalog.history[latest[k]] /\ F[k] \in Nat \ {0} /\ F[k] \in numbers
  BY <1>1, <1>2, <1>3
<1>6. \A x \in numbers : x \in 1..n /\ \E k \in 1..m : F[k] = x
  <2>1. ASSUME NEW w \in ToSet(windows), catalog.history[w] # 0
        PROVE  catalog.history[w] \in 1..n /\ \E k \in 1..m : F[k] = catalog.history[w]
    <3>1. w \in Windows /\ w \in ToSet(latest)
      BY <1>1, <1>4, <2>1
    <3>2. PICK k \in 1..m : w = latest[k]
      BY <1>2, <3>1 DEF ToSet
    <3>3. catalog.history[w] \in Nat /\ catalog.history[w] <= n
      BY <1>1, <1>2, <3>1
    <3>4. catalog.history[w] \in 1..n
      BY <1>2, <2>1, <3>3
    <3>5. F[k] = catalog.history[w]
      BY <1>5, <3>2
    <3> QED
      BY <3>4, <3>5
  <2> QED
    BY <2>1
<1> HIDE DEF n
<1>7. /\ c \in Nat
      /\ \A k \in 1..c : IndexAt(numbers, k) \in numbers
      /\ \A k, l \in 1..c : k < l => IndexAt(numbers, k) < IndexAt(numbers, l)
      /\ \A i \in numbers : \E k \in 1..c : IndexAt(numbers, k) = i
  <2>1. n \in Nat /\ numbers \in SUBSET (1..n)
    BY <1>2, <1>6
  <2>2. c \in Nat /\ \A k \in 1..c : IndexAt(numbers, k) \in numbers
    BY <2>1, IndexAtProperties
  <2>3. \A k, l \in 1..c : k < l => IndexAt(numbers, k) < IndexAt(numbers, l)
    BY <2>1, IndexAtProperties, Zenon
  <2>4. ASSUME NEW i \in numbers PROVE \E k \in 1..c : IndexAt(numbers, k) = i
    BY <2>1, IndexAtProperties
  <2> QED
    BY <2>2, <2>3, <2>4
<1>8. \A k \in 1..c : G[k] = IndexAt(numbers, k) /\ G[k] \in numbers /\ G[k] \in Nat
  <2>1. \A x \in numbers : x \in Nat
    BY <1>2, <1>6
  <2>2. \A k \in 1..c : G[k] = IndexAt(numbers, k)
    OBVIOUS
  <2> QED
    BY <1>7, <2>1, <2>2
<1>9. Increasing(F, m)
  BY <1>5, <1>1 DEF Increasing
<1>10. Increasing(G, c)
  BY <1>8, <1>7 DEF Increasing
<1>11. Among(F, m, G, c)
  <2>1. \A k \in 1..m : \E l \in 1..c : G[l] = F[k]
    BY <1>5, <1>7, <1>8
  <2> QED
    BY <2>1 DEF Among
<1>12. Among(G, c, F, m)
  <2>1. \A l \in 1..c : \E k \in 1..m : F[k] = G[l]
    BY <1>6, <1>8
  <2> QED
    BY <2>1 DEF Among
<1>13. \A k \in 1..m : F[k] \in Nat
  BY <1>5
<1>14. m \in Nat /\ c \in Nat
  BY <1>2, <1>7
<1> HIDE DEF m, c, F, G
<1>15. m <= c /\ \A k \in 1..m : F[k] = G[k]
  BY <1>9, <1>10, <1>11, <1>12, <1>14, IncreasingBegins
<1>16. c <= m
  BY <1>9, <1>10, <1>11, <1>12, <1>14, IncreasingBegins
<1>17. c = m
  BY <1>14, <1>15, <1>16
<1>18. ASSUME NEW k \in 1..c
       PROVE  (CHOOSE w \in ToSet(windows) : catalog.history[w] = IndexAt(numbers, c + 1 - k)) = latest[(m - k) + 1]
  <2> DEFINE j == (m - k) + 1
  <2>1. j \in 1..m /\ c + 1 - k = j
    BY <1>14, <1>17
  <2> HIDE DEF j
  <2>2. catalog.history[latest[j]] = IndexAt(numbers, j) /\ IndexAt(numbers, j) # 0
    BY <1>5, <1>8, <1>15, <1>17, <2>1
  <2>3. ASSUME NEW w \in ToSet(windows), catalog.history[w] = IndexAt(numbers, j) PROVE w = latest[j]
    <3>1. w \in Windows /\ catalog.history[w] # 0
      BY <1>4, <2>2, <2>3
    <3>2. w \in ToSet(latest)
      BY <1>1, <3>1
    <3>3. PICK k2 \in 1..m : w = latest[k2]
      BY <1>2, <3>2 DEF ToSet, m
    <3>4. F[k2] = F[j]
      BY <1>5, <2>1, <2>2, <2>3, <3>3
    <3>5. k2 = j
      BY <1>13, <1>14, <2>1, <1>9, <3>4 DEF Increasing
    <3> QED
      BY <3>3, <3>5
  <2>4. latest[j] \in ToSet(windows)
    BY <1>3, <2>1
  <2>5. (CHOOSE w \in ToSet(windows) : catalog.history[w] = IndexAt(numbers, j)) = latest[j]
    BY <2>2, <2>3, <2>4
  <2> QED
    BY <2>1, <2>5 DEF j
<1>19. ActivatedFirst(windows, catalog, numbers)
         = [k \in 1..c |-> CHOOSE w \in ToSet(windows) : catalog.history[w] = IndexAt(numbers, c + 1 - k)]
  BY DEF ActivatedFirst, c
<1>20. Reverse(latest) = [k \in 1..m |-> latest[(m - k) + 1]]
  BY DEF Reverse, m
<1>21. [k \in 1..c |-> CHOOSE w \in ToSet(windows) : catalog.history[w] = IndexAt(numbers, c + 1 - k)]
         = [k \in 1..c |-> latest[(m - k) + 1]]
  BY <1>18
<1> QED
  BY <1>17, <1>19, <1>20, <1>21

\* A sequence and its reverse.
LEMMA Reversed ==
  ASSUME NEW T, NEW a \in Seq(T), IsInjective(a), NEW r, r = Reverse(a)
  PROVE  r \in Seq(T) /\ IsInjective(r) /\ ToSet(r) = ToSet(a)
<1> DEFINE n == Len(a)
<1>1. n \in Nat /\ DOMAIN a = 1..n /\ \A i \in 1..n : a[i] \in T
  OBVIOUS
<1> HIDE DEF n
<1>2. r = [i \in 1..n |-> a[(n - i) + 1]]
  BY DEF Reverse, n
<1>3. \A i \in 1..n : (n - i) + 1 \in 1..n /\ (n - ((n - i) + 1)) + 1 = i
  BY <1>1
<1>4. DOMAIN r = 1..n /\ \A i \in 1..n : r[i] = a[(n - i) + 1] /\ r[i] \in T
  BY <1>1, <1>2, <1>3
<1>5. r \in Seq(T)
  BY <1>2, <1>4, <1>1
<1>6. \A i \in 1..n : a[i] = r[(n - i) + 1]
  BY <1>3, <1>4
<1>7. ToSet(r) = ToSet(a)
  BY <1>1, <1>4, <1>3, <1>6 DEF ToSet
<1>8. IsInjective(r)
  BY <1>3, <1>4, <1>1 DEF IsInjective
<1> QED
  BY <1>5, <1>7, <1>8

\* By activation, every window is there once, and those last activated are first.
LEMMA OrderedByActivation ==
  ASSUME NEW catalog \in Catalogs, NEW latest, NEW windows \in Seq(Windows), IsInjective(windows),
         HistoryIsKept(catalog, latest, windows), NEW r, r = ByActivation(windows, catalog)
  PROVE  r \in Seq(Windows) /\ IsInjective(r) /\ ToSet(r) = ToSet(windows) /\ IsPrefix(Reverse(latest), r)
<1> DEFINE numbers == {catalog.history[w] : w \in ToSet(windows)} \ {0}
           first == ActivatedFirst(windows, catalog, numbers)
           never == {w \in Windows : catalog.history[w] = 0}
           rest == ElementsIn(windows, never)
           recent == Reverse(latest)
<1>1. latest \in Seq(Windows) /\ IsInjective(latest) /\ ToSet(latest) \subseteq ToSet(windows)
  BY DEF HistoryIsKept
<1>2. \A w \in Windows : catalog.history[w] # 0 <=> w \in ToSet(latest)
  BY DEF HistoryIsKept
<1>3. r = first \o rest
  <2>1. [k \in 1..Cardinality(numbers) |-> IndexAt(numbers, Cardinality(numbers) + 1 - k)]
          = [k \in DOMAIN [k \in 1..Cardinality(numbers) |-> IndexAt(numbers, Cardinality(numbers) + 1 - k)]
              |-> IndexAt(numbers, Cardinality(numbers) + 1 - k)]
    OBVIOUS
  <2>2. r = [k \in DOMAIN [k \in 1..Cardinality(numbers) |-> IndexAt(numbers, Cardinality(numbers) + 1 - k)] |->
               CHOOSE w \in ToSet(windows) : catalog.history[w] = [j \in 1..Cardinality(numbers) |-> IndexAt(numbers, Cardinality(numbers) + 1 - j)][k]]
              \o rest
    BY DEF ByActivation
  <2>3. [k \in DOMAIN [k \in 1..Cardinality(numbers) |-> IndexAt(numbers, Cardinality(numbers) + 1 - k)] |->
           CHOOSE w \in ToSet(windows) : catalog.history[w] = [j \in 1..Cardinality(numbers) |-> IndexAt(numbers, Cardinality(numbers) + 1 - j)][k]]
        = first
    <3> HIDE DEF numbers
    <3> QED
      BY DEF ActivatedFirst
  <2> QED
    BY <2>2, <2>3
<1>4. first = recent
  BY LastActivatedFirst
<1>5. rest \in Seq(Windows) /\ IsInjective(rest) /\ ToSet(rest) = ToSet(windows) \cap never
  BY KeptOnce DEF rest
<1>6. recent \in Seq(Windows) /\ IsInjective(recent) /\ ToSet(recent) = ToSet(latest)
  BY <1>1, Reversed DEF recent
<1>7. ToSet(windows) \subseteq Windows
  BY DEF ToSet
<1>8. ToSet(latest) \cap ToSet(rest) = {} /\ ToSet(latest) \cup ToSet(rest) = ToSet(windows)
  BY <1>1, <1>2, <1>5, <1>7
<1> HIDE DEF first, rest, recent
<1>9. r = recent \o rest
  BY <1>3, <1>4
<1>10. r \in Seq(Windows) /\ IsPrefix(recent, r)
  BY <1>5, <1>6, <1>9, BeginsTheTwo
<1>11. IsInjective(r)
  BY <1>6, <1>8, <1>5, JoinedOnce, <1>9
<1>12. ToSet(r) = ToSet(windows)
  <2>1. ToSet(recent \o rest) = ToSet(recent) \cup ToSet(rest)
    BY <1>5, <1>6, JoinedHas
  <2> QED
    BY <1>6, <1>8, <1>9, <2>1
<1> QED
  BY <1>10, <1>11, <1>12 DEF recent

\* While it is open, the windows that stay keep their places, and every window is there once.
LEMMA OrderedWhileOpen ==
  ASSUME NEW order \in Seq(Windows), IsInjective(order), NEW windows \in Seq(Windows), IsInjective(windows),
         NEW r, r = ElementsIn(order, ToSet(windows)) \o ElementsIn(windows, Windows \ ToSet(order))
  PROVE  /\ r \in Seq(Windows) /\ IsInjective(r) /\ ToSet(r) = ToSet(windows)
         /\ IsPrefix(ElementsIn(order, ToSet(windows)), r)
<1> DEFINE E == ToSet(windows)
           N == Windows \ ToSet(order)
           kept == ElementsIn(order, E)
           new == ElementsIn(windows, N)
<1>1. r = kept \o new
  OBVIOUS
<1>2. kept = ElementsIn(order, E) /\ new = ElementsIn(windows, N)
  OBVIOUS
<1>3. ToSet(windows) \subseteq Windows
  BY DEF ToSet
<1> HIDE DEF kept, new, E, N
<1>4. kept \in Seq(Windows) /\ IsInjective(kept) /\ ToSet(kept) = ToSet(order) \cap E
  BY <1>2, KeptOnce
<1>5. new \in Seq(Windows) /\ IsInjective(new) /\ ToSet(new) = ToSet(windows) \cap N
  BY <1>2, KeptOnce
<1>6. ToSet(kept) \cap ToSet(new) = {} /\ ToSet(kept) \cup ToSet(new) = ToSet(windows)
  BY <1>3, <1>4, <1>5 DEF E, N
<1>7. IsInjective(kept \o new) /\ ToSet(kept \o new) = ToSet(kept) \cup ToSet(new)
  BY <1>4, <1>5, <1>6, JoinedOnce, JoinedHas
<1>8. kept \o new \in Seq(Windows) /\ IsPrefix(kept, kept \o new)
  BY <1>4, <1>5, BeginsTheTwo
<1> QED
  BY <1>1, <1>2, <1>6, <1>7, <1>8 DEF E

\* What refresh makes of the cards.
LEMMA RefreshedHasEach ==
  ASSUME NEW view \in Views, IsInjective(view.order), NEW windows \in Seq(Windows), IsInjective(windows),
         NEW catalog \in Catalogs, NEW latest, HistoryIsKept(catalog, latest, windows),
         NEW v, v = OverviewRefreshed(view, windows, catalog)
  PROVE  /\ v \in Views /\ v.frozen = view.frozen
         /\ IsInjective(v.order) /\ ToSet(v.order) = ToSet(windows)
         /\ view.frozen => IsPrefix(ElementsIn(view.order, ToSet(windows)), v.order)
         /\ ~view.frozen => IsPrefix(Reverse(latest), v.order)
<1> DEFINE open == ElementsIn(view.order, ToSet(windows)) \o ElementsIn(windows, Windows \ ToSet(view.order))
           sorted == ByActivation(windows, catalog)
<1>1. view.order \in Seq(Windows) /\ view.frozen \in BOOLEAN
  BY DEF Views
<1>2. /\ open \in Seq(Windows) /\ IsInjective(open) /\ ToSet(open) = ToSet(windows)
      /\ IsPrefix(ElementsIn(view.order, ToSet(windows)), open)
  <2>0. \A order \in Seq(Windows) : IsInjective(order) =>
          LET o == ElementsIn(order, ToSet(windows)) \o ElementsIn(windows, Windows \ ToSet(order)) IN
          /\ o \in Seq(Windows) /\ IsInjective(o) /\ ToSet(o) = ToSet(windows) /\ IsPrefix(ElementsIn(order, ToSet(windows)), o)
    BY OrderedWhileOpen
  <2> QED
    BY <1>1, <2>0
<1>3. sorted \in Seq(Windows) /\ IsInjective(sorted) /\ ToSet(sorted) = ToSet(windows) /\ IsPrefix(Reverse(latest), sorted)
  BY OrderedByActivation
<1>4. v = [view EXCEPT !.order = IF view.frozen THEN open ELSE sorted]
  BY DEF OverviewRefreshed
<1> HIDE DEF open, sorted
<1>5. v \in Views /\ v.frozen = view.frozen /\ v.order = IF view.frozen THEN open ELSE sorted
  BY <1>1, <1>2, <1>3, <1>4 DEF Views
<1> QED
  BY <1>1, <1>2, <1>3, <1>5

LEMMA WindowsStart == CompositorInit => WindowsAreOrdered
BY DEF ToSet, IsInjective, CompositorInit, Snapshots, Catalogs, Views, HistoryIsKept, WindowsAreOrdered

\* The cards after a step, for a step that publishes a snapshot or closes the overview.
LEMMA WindowsAreKept ==
  ASSUME WindowsAreOrdered, [CompositorNext]_compositorVars
  PROVE  WindowsAreOrdered' /\ (UNCHANGED compositorVars \/ OverviewStandsStill \/ ~FocusIsInView)
<1>0. /\ snapshot \in Snapshots /\ windowCatalog \in Catalogs /\ overview \in Views
      /\ IsInjective(snapshot.windows) /\ snapshot.activated \subseteq ToSet(snapshot.windows)
      /\ windowCatalog.active = snapshot.activated
      /\ IsInjective(overview.order) /\ ToSet(overview.order) = ToSet(snapshot.windows)
      /\ HistoryIsKept(windowCatalog, lastActive, snapshot.windows)
  BY DEF WindowsAreOrdered
<1>00. snapshot.windows \in Seq(Windows) /\ overview.order \in Seq(Windows) /\ overview.frozen \in BOOLEAN
  BY <1>0 DEF Snapshots, Views
<1>1. ASSUME NEW windows \in Orders, NEW activated \in SUBSET ToSet(windows),
             snapshot' = [windows |-> windows, activated |-> activated],
             windowCatalog' = CatalogReplaced(windowCatalog, windows, activated),
             overview' = OverviewRefreshed(overview, windows, windowCatalog'),
             lastActive' = ElementsIn(lastActive, ToSet(windows) \ (activated \ snapshot.activated))
                             \o ElementsIn(windows, activated \ snapshot.activated)
      PROVE  WindowsAreOrdered' /\ (OverviewStandsStill \/ ~FocusIsInView)
  <2>1. windows \in Seq(Windows) /\ IsInjective(windows)
    BY DEF Orders
  <2> DEFINE fresh == activated \ windowCatalog.active
             old == ElementsIn(lastActive, ToSet(windows) \ fresh)
             new == ElementsIn(windows, fresh)
  <2>2. Follow(old, new, lastActive', lastActive, windows, fresh)
    BY <1>0, <1>1 DEF Follow
  <2>3. fresh = activated \ windowCatalog.active
    OBVIOUS
  <2> HIDE DEF fresh, old, new
  <2>4. windowCatalog' \in Catalogs /\ windowCatalog'.active = activated /\ HistoryIsKept(windowCatalog', lastActive', windows)
    <3> DEFINE c == windowCatalog'
               n == lastActive'
    <3>1. c = CatalogReplaced(windowCatalog, windows, activated) /\ Follow(old, new, n, lastActive, windows, fresh)
      BY <1>1, <2>2
    <3> HIDE DEF c, n
    <3>2. windowCatalog \in Catalogs /\ HistoryIsKept(windowCatalog, lastActive, snapshot.windows)
      BY <1>0
    <3>3. c \in Catalogs /\ c.active = activated /\ HistoryIsKept(c, n, windows)
      BY <2>1, <2>3, <3>1, <3>2, ReplacedKeepsHistory
    <3> QED
      BY <3>3 DEF c, n
  <2>5. /\ overview' \in Views /\ overview'.frozen = overview.frozen
        /\ IsInjective(overview'.order) /\ ToSet(overview'.order) = ToSet(windows)
        /\ overview.frozen => IsPrefix(ElementsIn(overview.order, ToSet(windows)), overview'.order)
        /\ ~overview.frozen => IsPrefix(Reverse(lastActive'), overview'.order)
    <3> DEFINE c == windowCatalog'
               n == lastActive'
               v == overview'
    <3>1. v = OverviewRefreshed(overview, windows, c) /\ c \in Catalogs /\ HistoryIsKept(c, n, windows)
      BY <1>1, <2>4
    <3> HIDE DEF c, n, v
    <3>2. overview \in Views /\ IsInjective(overview.order)
      BY <1>0
    <3>3. /\ v \in Views /\ v.frozen = overview.frozen
          /\ IsInjective(v.order) /\ ToSet(v.order) = ToSet(windows)
          /\ overview.frozen => IsPrefix(ElementsIn(overview.order, ToSet(windows)), v.order)
          /\ ~overview.frozen => IsPrefix(Reverse(n), v.order)
      BY <2>1, <3>1, <3>2, RefreshedHasEach
    <3> QED
      BY <3>3 DEF v, n
  <2>6. snapshot'.windows = windows /\ snapshot'.activated = activated
    BY <1>1
  <2>7. snapshot' \in Snapshots
    BY <2>1, <1>1 DEF ToSet, Snapshots
  <2>8. WindowsAreOrdered'
    BY <2>1, <2>4, <2>5, <2>6, <2>7 DEF WindowsAreOrdered
  <2>9. FocusIsInView => OverviewStandsStill
    BY <1>00, <2>5, <2>6 DEF OverviewStandsStill
  <2> QED
    BY <2>8, <2>9
<1>2. ASSUME BeginOverview PROVE WindowsAreOrdered' /\ (OverviewStandsStill \/ ~FocusIsInView)
  <2>1. overview' = [overview EXCEPT !.frozen = TRUE] /\ UNCHANGED <<snapshot, windowCatalog, lastActive>>
    BY <1>2 DEF BeginOverview
  <2>2. overview' \in Views /\ overview'.order = overview.order /\ overview'.frozen = TRUE
    BY <1>0, <2>1 DEF Views
  <2>3. WindowsAreOrdered'
    BY <1>0, <2>1, <2>2 DEF WindowsAreOrdered
  <2>4. ~overview.frozen
    BY <1>0, <1>00, <2>1, <1>2 DEF Views, BeginOverview
  <2> QED
    BY <1>0, <2>1, <2>2, <2>3, <2>4 DEF OverviewStandsStill
<1>3. ASSUME EndOverview PROVE WindowsAreOrdered' /\ (OverviewStandsStill \/ ~FocusIsInView)
  <2>1. /\ overview' = OverviewRefreshed([overview EXCEPT !.frozen = FALSE], snapshot.windows, windowCatalog)
        /\ UNCHANGED <<snapshot, windowCatalog, lastActive>>
    BY <1>3 DEF EndOverview
  <2> DEFINE view == [overview EXCEPT !.frozen = FALSE]
  <2>2. view \in Views /\ view.order = overview.order /\ view.frozen = FALSE
    BY <1>0 DEF Views
  <2>3. overview' = OverviewRefreshed(view, snapshot.windows, windowCatalog)
    BY <2>1
  <2> HIDE DEF view
  <2>4. /\ overview' \in Views /\ overview'.frozen = FALSE
        /\ IsInjective(overview'.order) /\ ToSet(overview'.order) = ToSet(snapshot.windows)
        /\ IsPrefix(Reverse(lastActive), overview'.order)
    BY <1>0, <1>00, <2>2, <2>3, RefreshedHasEach
  <2>5. WindowsAreOrdered'
    BY <1>0, <2>1, <2>4 DEF WindowsAreOrdered
  <2> QED
    BY <2>1, <2>4, <2>5 DEF OverviewStandsStill
<1>4. ASSUME UNCHANGED compositorVars PROVE WindowsAreOrdered'
  BY <1>0, <1>4 DEF WindowsAreOrdered, compositorVars
<1>5. PublishSnapshot => WindowsAreOrdered' /\ (OverviewStandsStill \/ ~FocusIsInView)
  BY <1>1 DEF PublishSnapshot
<1> QED
  BY <1>2, <1>3, <1>4, <1>5 DEF CompositorNext

\* The bar shows the focused workspace.
LEMMA FocusIsAlwaysInView == FocusIsInView
BY CompositorAssumption DEF FocusIsInView, FirstVisibleRow

\* The windows are listed once and in the order of their focus, and the cards of the
\* open overview stay where they are.
THEOREM WindowsAreAlwaysOrdered ==
  CompositorInit /\ [][CompositorNext]_compositorVars => [](CompositorTypeOK /\ WindowsAreOrdered)
<1>1. WindowsAreOrdered => CompositorTypeOK
  BY OnceIsShort DEF WindowsAreOrdered, Snapshots, Views, HistoryIsKept, CompositorTypeOK, Listed, Catalogs
<1>2. WindowsAreOrdered /\ [CompositorNext]_compositorVars => WindowsAreOrdered'
  BY WindowsAreKept
<1> QED
  BY <1>1, <1>2, WindowsStart, PTL

----------------------------------------------------------------------------
(***************************************************************************)
(* The applications that sound.                                            *)
(***************************************************************************)

StreamRecords == [id : Streams, key : AudioApps, volume : AudioVolumes, muted : BOOLEAN]
CommandRecords == [id : Streams, volume : AudioVolumes \cup {NoRequest}, muted : BOOLEAN \cup {NoRequest}]
GroupRecords == [key : AudioApps, members : Seq(Streams), volume : AudioVolumes \cup {0}, muted : BOOLEAN,
                 wantVolume : AudioVolumes \cup {NoRequest}, wantMuted : BOOLEAN \cup {NoRequest}]
Heards == [Streams -> [volume : AudioVolumes \cup {NoRequest}, muted : BOOLEAN \cup {NoRequest}]]

\* The streams of the controller, each with its own id.
IsMixer(streams) ==
  /\ streams \in Seq(StreamRecords)
  /\ \A i, j \in 1..Len(streams) : streams[i].id = streams[j].id => i = j

KeysOnce(groups) == \A i, j \in 1..Len(groups) : groups[i].key = groups[j].key => i = j

\* The rows are those of the streams.
RowsHold(groups, streams) ==
  /\ groups \in Seq(GroupRecords) /\ KeysOnce(groups)
  /\ {groups[i].key : i \in 1..Len(groups)} = {streams[i].key : i \in 1..Len(streams)}
  /\ \A i \in 1..Len(groups) :
       groups[i] = GroupRow(streams, groups[i].key, groups[i].wantVolume, groups[i].wantMuted)

\* A stream heard what its row was asked.
Obeys(heard, g, s) ==
  /\ g.wantVolume # NoRequest => heard[s.id].volume = g.wantVolume
  /\ g.wantMuted # NoRequest => heard[s.id].muted = g.wantMuted

AllObey(groups, streams, heard) ==
  \A i \in 1..Len(groups), k \in 1..Len(streams) : streams[k].key = groups[i].key => Obeys(heard, groups[i], streams[k])

\* A wish of a row is that of the same row before.
FromBefore(r, groups) ==
  \A i \in 1..Len(r) : r[i].wantVolume # NoRequest \/ r[i].wantMuted # NoRequest =>
    \E j \in 1..Len(groups) : groups[j].key = r[i].key /\ groups[j].wantVolume = r[i].wantVolume
                              /\ groups[j].wantMuted = r[i].wantMuted

\* There is a command for each stream that inherits and for no other, and it says what the row was asked.
ToTheHeirs(c, groups, streams) ==
  /\ \A i \in 1..Len(c) : \E k \in 1..Len(streams) :
       /\ streams[k].id = c[i].id /\ Inherits(groups, streams[k])
       /\ \A j \in 1..Len(groups) : groups[j].key = streams[k].key =>
            c[i].volume = groups[j].wantVolume /\ c[i].muted = groups[j].wantMuted
  /\ \A k \in 1..Len(streams) : Inherits(groups, streams[k]) => \E i \in 1..Len(c) : c[i].id = streams[k].id

\* No command is to the stream; or there are some, and they say what the row was asked.
NoneTo(c, id) == \A i \in 1..Len(c) : c[i].id # id
SomeTell(c, id, g) ==
  /\ \E i \in 1..Len(c) : c[i].id = id
  /\ \A i \in 1..Len(c) : c[i].id = id => c[i].volume = g.wantVolume /\ c[i].muted = g.wantMuted

GroupsAreFollowed ==
  /\ IsMixer(audioStreams) /\ audioCommands \in Seq(CommandRecords) /\ audioHeard \in Heards
  /\ RowsHold(audioGroups, audioStreams) /\ AllObey(audioGroups, audioStreams, audioHeard)

\* The members of a row are the streams of its application.
LEMMA MembersAre ==
  ASSUME NEW streams \in Seq(StreamRecords), NEW key
  PROVE  /\ MembersOf(streams, key) \in Seq(Streams)
         /\ \A id : Contains(MembersOf(streams, key), id) <=> \E i \in 1..Len(streams) : streams[i].key = key /\ streams[i].id = id
<1> DEFINE S == {i \in DOMAIN streams : streams[i].key = key}
           rows == SubSeqAt(streams, S)
           m == MembersOf(streams, key)
           n == Len(rows)
<1>1. DOMAIN streams = 1..Len(streams) /\ Len(streams) \in Nat /\ S \in SUBSET (1..Len(streams))
  OBVIOUS
<1>2. m = [i \in DOMAIN rows |-> rows[i].id]
  BY DEF MembersOf
<1> HIDE DEF S, m
<1>3. rows \in Seq(StreamRecords) /\ \A k \in 1..Len(rows) : IndexAt(S, k) \in S /\ rows[k] = streams[IndexAt(S, k)]
  BY <1>1, SubSeqAtProperties
<1>4. \A i \in S : \E k \in 1..Len(rows) : rows[k] = streams[i]
  BY <1>1, SubSeqAtProperties
<1> HIDE DEF rows
<1>5. n \in Nat /\ DOMAIN rows = 1..n /\ \A k \in 1..n : rows[k] \in StreamRecords
  BY <1>3
<1> HIDE DEF n
<1>6. DOMAIN m = 1..n /\ \A k \in 1..n : m[k] = rows[k].id /\ m[k] \in Streams
  BY <1>2, <1>5 DEF StreamRecords
<1>7. m \in Seq(Streams) /\ Len(m) = n
  BY <1>2, <1>5, <1>6
<1>8. ASSUME NEW id PROVE Contains(m, id) <=> \E i \in 1..Len(streams) : streams[i].key = key /\ streams[i].id = id
  <2>1. ASSUME NEW k \in 1..n, m[k] = id PROVE \E i \in 1..Len(streams) : streams[i].key = key /\ streams[i].id = id
    <3>1. IndexAt(S, k) \in S /\ rows[k] = streams[IndexAt(S, k)]
      BY <1>3 DEF n
    <3> QED
      BY <1>1, <1>6, <2>1, <3>1 DEF S
  <2>2. ASSUME NEW i \in 1..Len(streams), streams[i].key = key, streams[i].id = id PROVE \E k \in 1..n : m[k] = id
    BY <1>1, <2>2, <1>4, <1>6 DEF S, n
  <2> QED
    BY <1>7, <2>1, <2>2 DEF Contains
<1> QED
  BY <1>7, <1>8 DEF m

\* The loudest of the streams of an application.
LEMMA LoudestIs ==
  ASSUME NEW streams \in Seq(StreamRecords), NEW key
  PROVE  Loudest(streams, key) \in AudioVolumes \cup {0}
<1> DEFINE volumes == {0} \cup {streams[i].volume : i \in {j \in DOMAIN streams : streams[j].key = key}}
<1>1. volumes \subseteq AudioVolumes \cup {0} /\ 0 \in volumes
  <2>1. ASSUME NEW i \in DOMAIN streams PROVE streams[i].volume \in AudioVolumes
    <3>1. streams[i] \in StreamRecords
      BY <2>1
    <3> QED
      BY <3>1 DEF StreamRecords
  <2> QED
    BY <2>1
<1>2. LargestInt \in Nat
  BY SMT DEF LargestInt
<1> HIDE DEF volumes
<1>3. volumes \subseteq 0..LargestInt
  BY AudioAssumption, <1>1, <1>2
<1>4. PICK u \in volumes : \A l \in volumes : l <= u
  BY <1>1, <1>2, <1>3, GreatestOf
<1>5. (CHOOSE v \in volumes : \A w \in volumes : w <= v) \in volumes
  BY <1>4
<1> QED
  BY <1>1, <1>5 DEF Loudest, volumes

IsRow(g, streams, key, volume, muted) ==
  /\ key \in AudioApps /\ volume \in AudioVolumes \cup {NoRequest} /\ muted \in BOOLEAN \cup {NoRequest}
  /\ g = GroupRow(streams, key, volume, muted)

LEMMA RowIs ==
  ASSUME NEW streams \in Seq(StreamRecords), NEW key, NEW volume, NEW muted,
         NEW g, IsRow(g, streams, key, volume, muted)
  PROVE  /\ g \in GroupRecords /\ g.key = key /\ g.wantVolume = volume /\ g.wantMuted = muted
         /\ g.members = MembersOf(streams, key)
BY MembersAre, LoudestIs DEF GroupRow, IsRow, GroupRecords

\* The applications, each once.
LEMMA KeysAre ==
  ASSUME NEW streams \in Seq(StreamRecords)
  PROVE  /\ KeysInOrder(streams) \in Seq(AudioApps) /\ IsInjective(KeysInOrder(streams))
         /\ ToSet(KeysInOrder(streams)) = {streams[i].key : i \in 1..Len(streams)}
<1> DEFINE S == {i \in DOMAIN streams : \A j \in 1..(i - 1) : streams[j].key # streams[i].key}
           rows == SubSeqAt(streams, S)
           m == KeysInOrder(streams)
           n == Len(rows)
<1>1. DOMAIN streams = 1..Len(streams) /\ Len(streams) \in Nat /\ S \in SUBSET (1..Len(streams))
  OBVIOUS
<1>2. m = [i \in DOMAIN rows |-> rows[i].key]
  BY DEF KeysInOrder
<1>0. \A i \in S : i \in 1..Len(streams) /\ \A j \in 1..(i - 1) : streams[j].key # streams[i].key
  BY <1>1
<1>00. \A i \in 1..Len(streams) : (\A j \in 1..(i - 1) : streams[j].key # streams[i].key) => i \in S
  BY <1>1
<1> HIDE DEF S, m
<1>3. rows \in Seq(StreamRecords) /\ \A k \in 1..Len(rows) : IndexAt(S, k) \in S /\ rows[k] = streams[IndexAt(S, k)]
  BY <1>1, SubSeqAtProperties
<1>4. \A i \in S : \E k \in 1..Len(rows) : rows[k] = streams[i]
  BY <1>1, SubSeqAtProperties
<1>5. \A k, l \in 1..Len(rows) : k < l => IndexAt(S, k) < IndexAt(S, l)
  BY <1>1, SubSeqAtProperties
<1> HIDE DEF rows
<1>6. n \in Nat /\ DOMAIN rows = 1..n /\ \A k \in 1..n : rows[k] \in StreamRecords
  BY <1>3
<1> HIDE DEF n
<1>7. DOMAIN m = 1..n /\ \A k \in 1..n : m[k] = rows[k].key /\ m[k] \in AudioApps
  BY <1>2, <1>6 DEF StreamRecords
<1>8. m \in Seq(AudioApps) /\ Len(m) = n
  BY <1>2, <1>6, <1>7
<1>9. ASSUME NEW k \in 1..n, NEW l \in 1..n, k < l PROVE m[k] # m[l]
  BY <1>3, <1>5, <1>9, <1>7, <1>1, <1>0 DEF n
<1>10. IsInjective(m)
  BY <1>6, <1>9, <1>7 DEF IsInjective
<1>11. ASSUME NEW i \in 1..Len(streams) PROVE \E k \in 1..n : m[k] = streams[i].key
  <2> DEFINE SameKey == {j \in 1..Len(streams) : streams[j].key = streams[i].key}
  <2>1. PICK j \in SameKey : \A l \in SameKey : j <= l
    <3>1. SameKey \subseteq Nat /\ i \in SameKey
      BY <1>1
    <3> QED
      BY <3>1, LeastOf
  <2>2. ASSUME NEW l \in 1..(j - 1) PROVE streams[l].key # streams[j].key
    BY <1>1, <2>1
  <2>3. j \in S
    BY <1>00, <2>2
  <2>4. PICK k \in 1..n : rows[k] = streams[j]
    BY <1>4, <2>3 DEF n
  <2> QED
    BY <1>7, <2>4
<1>12. ASSUME NEW k \in 1..n PROVE \E i \in 1..Len(streams) : m[k] = streams[i].key
  BY <1>3, <1>0, <1>7 DEF n
<1>13. ToSet(m) = {streams[i].key : i \in 1..Len(streams)}
  <2>1. ToSet(m) = {m[k] : k \in 1..n}
    BY <1>7 DEF ToSet
  <2>2. ASSUME NEW x \in ToSet(m) PROVE x \in {streams[i].key : i \in 1..Len(streams)}
    BY <2>1, <1>12
  <2>3. ASSUME NEW i \in 1..Len(streams) PROVE streams[i].key \in ToSet(m)
    BY <1>11, <2>1
  <2> QED
    BY <2>2, <2>3
<1> QED
  BY <1>8, <1>10, <1>13 DEF m

\* The rows after the streams changed.
LEMMA GroupedHolds ==
  ASSUME NEW streams \in Seq(StreamRecords), NEW groups \in Seq(GroupRecords),
         KeysOnce(groups),
         NEW r, r = Grouped(groups, streams)
  PROVE  RowsHold(r, streams) /\ FromBefore(r, groups)
<1> DEFINE S == {i \in DOMAIN groups : \E j \in DOMAIN streams : streams[j].key = groups[i].key}
           kept == SubSeqAt(groups, S)
           keys == KeysInOrder(streams)
           known == {groups[i].key : i \in DOMAIN groups}
           new == ElementsIn(keys, AudioApps \ known)
           stay == [i \in DOMAIN kept |-> GroupRow(streams, kept[i].key, kept[i].wantVolume, kept[i].wantMuted)]
           come == [i \in DOMAIN new |-> GroupRow(streams, new[i], NoRequest, NoRequest)]
           m == Len(kept)
           n == Len(new)
           K == {streams[i].key : i \in 1..Len(streams)}
<1>1. r = stay \o come
  BY DEF Grouped
<1>2. DOMAIN groups = 1..Len(groups) /\ Len(groups) \in Nat /\ DOMAIN streams = 1..Len(streams) /\ S \in SUBSET (1..Len(groups))
  OBVIOUS
<1>3. \A i \in S : i \in 1..Len(groups) /\ groups[i].key \in K
  BY <1>2
<1>4. \A i \in 1..Len(groups) : groups[i].key \in K => i \in S
  BY <1>2
<1>5. keys \in Seq(AudioApps) /\ IsInjective(keys) /\ ToSet(keys) = K
  BY KeysAre
<1>6. \A x : x \in known <=> \E i \in 1..Len(groups) : groups[i].key = x
  BY <1>2
<1>7. new \in Seq(AudioApps) /\ IsInjective(new) /\ ToSet(new) = ToSet(keys) \cap (AudioApps \ known)
  BY <1>5, KeptOnce
<1> HIDE DEF S, keys, known, new
<1>8. kept \in Seq(GroupRecords) /\ \A k \in 1..Len(kept) : IndexAt(S, k) \in S /\ kept[k] = groups[IndexAt(S, k)]
  BY <1>2, SubSeqAtProperties
<1>9. \A i \in S : \E k \in 1..Len(kept) : kept[k] = groups[i]
  BY <1>2, SubSeqAtProperties
<1>10. \A k, l \in 1..Len(kept) : k < l => IndexAt(S, k) < IndexAt(S, l)
  BY <1>2, SubSeqAtProperties
<1> HIDE DEF kept
<1>11. /\ m \in Nat /\ DOMAIN kept = 1..m /\ n \in Nat /\ DOMAIN new = 1..n
       /\ \A k \in 1..m : kept[k] \in GroupRecords
       /\ \A k \in 1..n : new[k] \in AudioApps
  BY <1>7, <1>8
<1>12. \A k \in 1..n : new[k] \in K /\ new[k] \notin known
  <2>1. \A k \in 1..n : new[k] \in ToSet(new)
    BY <1>11 DEF ToSet
  <2> QED
    BY <1>5, <1>7, <2>1
<1>13. \A x \in K : x \in known \/ \E k \in 1..n : new[k] = x
  <2>1. ASSUME NEW x \in K, x \notin known PROVE x \in ToSet(new)
    <3>1. x \in AudioApps
      <4>1. PICK i \in 1..Len(streams) : x = streams[i].key
        OBVIOUS
      <4>2. streams[i] \in StreamRecords
        OBVIOUS
      <4> QED
        BY <4>1, <4>2 DEF StreamRecords
    <3> QED
      BY <1>5, <1>7, <2>1, <3>1
  <2> QED
    BY <1>11, <2>1 DEF ToSet
<1> HIDE DEF m, n, K
<1>14. ASSUME NEW k \in 1..m
       PROVE  /\ stay[k] \in GroupRecords /\ stay[k].key = kept[k].key
              /\ stay[k].wantVolume = kept[k].wantVolume /\ stay[k].wantMuted = kept[k].wantMuted
              /\ stay[k] = GroupRow(streams, stay[k].key, stay[k].wantVolume, stay[k].wantMuted)
  <2> DEFINE g == stay[k]
             o == kept[k]
  <2>1. g = GroupRow(streams, o.key, o.wantVolume, o.wantMuted)
    BY <1>11
  <2>2. o \in GroupRecords
    BY <1>11
  <2> HIDE DEF g, o
  <2>3. o.key \in AudioApps /\ o.wantVolume \in AudioVolumes \cup {NoRequest} /\ o.wantMuted \in BOOLEAN \cup {NoRequest}
    BY <2>2 DEF GroupRecords
  <2>4. g \in GroupRecords /\ g.key = o.key /\ g.wantVolume = o.wantVolume /\ g.wantMuted = o.wantMuted
    BY <2>1, <2>3, RowIs DEF IsRow
  <2> QED
    BY <2>1, <2>4 DEF g, o
<1>15. ASSUME NEW k \in 1..n
       PROVE  /\ come[k] \in GroupRecords /\ come[k].key = new[k]
              /\ come[k].wantVolume = NoRequest /\ come[k].wantMuted = NoRequest
              /\ come[k] = GroupRow(streams, come[k].key, come[k].wantVolume, come[k].wantMuted)
  BY <1>11, RowIs DEF IsRow
<1>16. /\ DOMAIN stay = 1..m /\ DOMAIN come = 1..n
       /\ stay = [i \in 1..m |-> stay[i]] /\ come = [i \in 1..n |-> come[i]]
  BY <1>11
<1> HIDE DEF stay, come
<1>17. stay \in Seq(GroupRecords) /\ come \in Seq(GroupRecords) /\ Len(stay) = m /\ Len(come) = n
  <2>1. stay \in [1..m -> GroupRecords] /\ come \in [1..n -> GroupRecords]
    BY <1>14, <1>15, <1>16
  <2> QED
    BY <1>11, <2>1
<1>18. /\ r \in Seq(GroupRecords) /\ Len(r) = m + n
       /\ \A i \in 1..m : r[i] = stay[i]
       /\ \A i \in 1..n : r[m + i] = come[i]
  <2>1. stay \o come \in Seq(GroupRecords) /\ Len(stay \o come) = Len(stay) + Len(come)
    BY <1>17, JoinedAt
  <2>2. \A i \in 1..Len(stay) : (stay \o come)[i] = stay[i]
    BY <1>17, JoinedAt
  <2>3. \A i \in 1..Len(come) : (stay \o come)[Len(stay) + i] = come[i]
    BY <1>17, JoinedAt
  <2> QED
    BY <1>1, <1>17, <2>1, <2>2, <2>3
<1>19. ASSUME NEW i \in 1..Len(r) PROVE i \in 1..m \/ \E k \in 1..n : i = m + k
  BY <1>11, <1>18
<1>20. ASSUME NEW k \in 1..m
       PROVE /\ r[k].key = groups[IndexAt(S, k)].key /\ r[k].key \in known /\ r[k].key \in K
             /\ r[k].wantVolume = groups[IndexAt(S, k)].wantVolume /\ r[k].wantMuted = groups[IndexAt(S, k)].wantMuted
             /\ IndexAt(S, k) \in 1..Len(groups)
  BY <1>8, <1>14, <1>18, <1>3, <1>6 DEF m
<1>21. ASSUME NEW k \in 1..n
       PROVE  /\ r[m + k].key = new[k] /\ r[m + k].key \notin known /\ r[m + k].key \in K
              /\ r[m + k].wantVolume = NoRequest /\ r[m + k].wantMuted = NoRequest
  BY <1>12, <1>15, <1>18
<1>22. ASSUME NEW i \in 1..Len(r), NEW j \in 1..Len(r), r[i].key = r[j].key PROVE i = j
  <2>1. CASE i \in 1..m /\ j \in 1..m
    <3>1. IndexAt(S, i) = IndexAt(S, j)
      BY <1>20, <1>22, <2>1 DEF KeysOnce
    <3>2. i \in Nat /\ j \in Nat /\ IndexAt(S, i) \in Nat
      BY <1>2, <1>11, <1>20, <2>1
    <3>3. ~(i < j) /\ ~(j < i)
      BY <1>10, <2>1, <3>1, <3>2 DEF m
    <3> QED
      BY <3>2, <3>3
  <2>2. CASE i \notin 1..m /\ j \notin 1..m
    <3>1. PICK k \in 1..n, l \in 1..n : i = m + k /\ j = m + l
      BY <1>19, <2>2
    <3>2. new[k] = new[l]
      BY <1>21, <1>22, <3>1
    <3>3. k = l
      BY <1>7, <1>11, <3>2 DEF IsInjective
    <3> QED
      BY <3>1, <3>3
  <2>3. CASE i \in 1..m /\ j \notin 1..m
    BY <1>19, <1>20, <1>21, <1>22, <2>3
  <2>4. CASE i \notin 1..m /\ j \in 1..m
    BY <1>19, <1>20, <1>21, <1>22, <2>4
  <2> QED
    BY <2>1, <2>2, <2>3, <2>4
<1>23. \A i \in 1..Len(r) : r[i].key \in K
  BY <1>20, <1>19, <1>21
<1>24. ASSUME NEW x \in K PROVE \E i \in 1..Len(r) : r[i].key = x
  <2>1. CASE x \in known
    BY <1>6, <2>1, <1>4, <1>9, <1>11, <1>14, <1>18 DEF m
  <2>2. CASE x \notin known
    BY <1>13, <2>2, <1>11, <1>18, <1>21
  <2> QED
    BY <2>1, <2>2
<1>25. \A i \in 1..Len(r) : r[i] = GroupRow(streams, r[i].key, r[i].wantVolume, r[i].wantMuted)
  <2>1. ASSUME NEW k \in 1..m PROVE r[k] = GroupRow(streams, r[k].key, r[k].wantVolume, r[k].wantMuted)
    BY <1>14, <1>18
  <2>2. ASSUME NEW k \in 1..n
        PROVE  r[m + k] = GroupRow(streams, r[m + k].key, r[m + k].wantVolume, r[m + k].wantMuted)
    BY <1>15, <1>18
  <2> QED
    BY <1>19, <2>1, <2>2
<1>26. RowsHold(r, streams)
  <2>1. {r[i].key : i \in 1..Len(r)} = K
    BY <1>23, <1>24
  <2> QED
    BY <1>18, <1>22, <1>25, <2>1 DEF RowsHold, KeysOnce, K
<1>27. ASSUME NEW i \in 1..Len(r), r[i].wantVolume # NoRequest \/ r[i].wantMuted # NoRequest
       PROVE  \E j \in 1..Len(groups) : groups[j].key = r[i].key /\ groups[j].wantVolume = r[i].wantVolume
                                        /\ groups[j].wantMuted = r[i].wantMuted
  <2>1. CASE i \in 1..m
    BY <1>20, <2>1
  <2>2. CASE i \notin 1..m
    <3>1. PICK k \in 1..n : i = m + k
      BY <1>19, <2>2
    <3> QED
      BY <1>21, <1>27, <3>1
  <2> QED
    BY <2>1, <2>2
<1> QED
  BY <1>26, <1>27 DEF FromBefore

\* There are commands to the stream, and all of them say the same.
AllSayVolume(commands, id, v) ==
  /\ \E i \in 1..Len(commands) : commands[i].id = id
  /\ \A i \in 1..Len(commands) : commands[i].id = id => commands[i].volume = v

AllSayMuted(commands, id, v) ==
  /\ \E i \in 1..Len(commands) : commands[i].id = id
  /\ \A i \in 1..Len(commands) : commands[i].id = id => commands[i].muted = v

\* What a stream was told after some commands.
LEMMA VolumeIsTold ==
  ASSUME NEW commands \in Seq(CommandRecords), NEW id, NEW was \in AudioVolumes \cup {NoRequest}
  PROVE  /\ VolumeTold(was, commands, id) \in AudioVolumes \cup {NoRequest}
         /\ (\A i \in 1..Len(commands) : commands[i].id = id => commands[i].volume = NoRequest) =>
              VolumeTold(was, commands, id) = was
         /\ \A v : v # NoRequest /\ AllSayVolume(commands, id, v) => VolumeTold(was, commands, id) = v
<1> DEFINE says == {i \in DOMAIN commands : commands[i].id = id /\ commands[i].volume # NoRequest}
           last == CHOOSE i \in says : \A j \in says : j <= i
           told == VolumeTold(was, commands, id)
<1>1. DOMAIN commands = 1..Len(commands) /\ Len(commands) \in Nat
  OBVIOUS
<1>2. says \subseteq 0..Len(commands)
  BY <1>1
<1>3. told = IF says = {} THEN was ELSE commands[last].volume
  BY DEF VolumeTold
<1>4. \A i : i \in says <=> i \in 1..Len(commands) /\ commands[i].id = id /\ commands[i].volume # NoRequest
  BY <1>1
<1> HIDE DEF says, told
<1>5. says # {} => last \in says
  <2>1. says # {} => \E k \in says : \A l \in says : l <= k
    BY <1>1, <1>2, GreatestOf
  <2> QED
    BY <2>1
<1> HIDE DEF last
<1>6. told \in AudioVolumes \cup {NoRequest}
  <2>1. CASE says # {}
    <3>1. commands[last] \in CommandRecords
      BY <1>1, <1>4, <1>5, <2>1
    <3> QED
      BY <1>3, <2>1, <3>1 DEF CommandRecords
  <2> QED
    BY <1>3, <2>1
<1>7. ASSUME \A i \in 1..Len(commands) : commands[i].id = id => commands[i].volume = NoRequest PROVE told = was
  BY <1>3, <1>4, <1>5, <1>7
<1>8. ASSUME NEW v, v # NoRequest, \E i \in 1..Len(commands) : commands[i].id = id,
             \A i \in 1..Len(commands) : commands[i].id = id => commands[i].volume = v
      PROVE  told = v
  BY <1>4, <1>8, <1>3, <1>5
<1> QED
  BY <1>6, <1>7, <1>8 DEF told, AllSayVolume

LEMMA MutedIsTold ==
  ASSUME NEW commands \in Seq(CommandRecords), NEW id, NEW was \in BOOLEAN \cup {NoRequest}
  PROVE  /\ MutedTold(was, commands, id) \in BOOLEAN \cup {NoRequest}
         /\ (\A i \in 1..Len(commands) : commands[i].id = id => commands[i].muted = NoRequest) =>
              MutedTold(was, commands, id) = was
         /\ \A v : v # NoRequest /\ AllSayMuted(commands, id, v) => MutedTold(was, commands, id) = v
<1> DEFINE says == {i \in DOMAIN commands : commands[i].id = id /\ commands[i].muted # NoRequest}
           last == CHOOSE i \in says : \A j \in says : j <= i
           told == MutedTold(was, commands, id)
<1>1. DOMAIN commands = 1..Len(commands) /\ Len(commands) \in Nat
  OBVIOUS
<1>2. says \subseteq 0..Len(commands)
  BY <1>1
<1>3. told = IF says = {} THEN was ELSE commands[last].muted
  BY DEF MutedTold
<1>4. \A i : i \in says <=> i \in 1..Len(commands) /\ commands[i].id = id /\ commands[i].muted # NoRequest
  BY <1>1
<1> HIDE DEF says, told
<1>5. says # {} => last \in says
  <2>1. says # {} => \E k \in says : \A l \in says : l <= k
    BY <1>1, <1>2, GreatestOf
  <2> QED
    BY <2>1
<1> HIDE DEF last
<1>6. told \in BOOLEAN \cup {NoRequest}
  <2>1. CASE says # {}
    <3>1. commands[last] \in CommandRecords
      BY <1>1, <1>4, <1>5, <2>1
    <3> QED
      BY <1>3, <2>1, <3>1 DEF CommandRecords
  <2> QED
    BY <1>3, <2>1
<1>7. ASSUME \A i \in 1..Len(commands) : commands[i].id = id => commands[i].muted = NoRequest PROVE told = was
  BY <1>3, <1>4, <1>5, <1>7
<1>8. ASSUME NEW v, v # NoRequest, \E i \in 1..Len(commands) : commands[i].id = id,
             \A i \in 1..Len(commands) : commands[i].id = id => commands[i].muted = v
      PROVE  told = v
  BY <1>4, <1>8, <1>3, <1>5
<1> QED
  BY <1>6, <1>7, <1>8 DEF told, AllSayMuted

\* The commands to the streams that inherit.
LEMMA InheritedIs ==
  ASSUME NEW streams \in Seq(StreamRecords), NEW groups \in Seq(GroupRecords),
         KeysOnce(groups),
         NEW c, c = Inherited(groups, streams)
  PROVE  c \in Seq(CommandRecords) /\ ToTheHeirs(c, groups, streams)
<1> DEFINE S == {i \in DOMAIN streams : Inherits(groups, streams[i])}
           joined == SubSeqAt(streams, S)
           Old(s) == groups[CHOOSE i \in DOMAIN groups : groups[i].key = s.key]
           n == Len(joined)
<1>1. DOMAIN streams = 1..Len(streams) /\ Len(streams) \in Nat /\ DOMAIN groups = 1..Len(groups) /\ S \in SUBSET (1..Len(streams))
  OBVIOUS
<1>2. c = [i \in DOMAIN joined |-> [id |-> joined[i].id, volume |-> Old(joined[i]).wantVolume, muted |-> Old(joined[i]).wantMuted]]
  BY DEF Inherited
<1>3. \A i : i \in S <=> i \in 1..Len(streams) /\ Inherits(groups, streams[i])
  BY <1>1
<1> HIDE DEF S
<1>4. joined \in Seq(StreamRecords) /\ \A k \in 1..Len(joined) : IndexAt(S, k) \in S /\ joined[k] = streams[IndexAt(S, k)]
  BY <1>1, SubSeqAtProperties
<1>5. \A i \in S : \E k \in 1..Len(joined) : joined[k] = streams[i]
  BY <1>1, SubSeqAtProperties
<1> HIDE DEF joined
<1>6. n \in Nat /\ DOMAIN joined = 1..n
  BY <1>4
<1>7. ASSUME NEW s, Inherits(groups, s)
      PROVE  /\ Old(s) \in GroupRecords
             /\ \A j \in 1..Len(groups) : groups[j].key = s.key => groups[j] = Old(s)
  BY <1>1, <1>7 DEF Inherits, KeysOnce
<1> HIDE DEF Old, n
<1>8. ASSUME NEW k \in 1..n
      PROVE  /\ IndexAt(S, k) \in 1..Len(streams) /\ Inherits(groups, streams[IndexAt(S, k)])
             /\ c[k] = [id |-> streams[IndexAt(S, k)].id, volume |-> Old(streams[IndexAt(S, k)]).wantVolume,
                        muted |-> Old(streams[IndexAt(S, k)]).wantMuted]
  BY <1>4, <1>2, <1>3, <1>6 DEF n
<1>9. ASSUME NEW k \in 1..n PROVE c[k] \in CommandRecords
  <2> DEFINE s == streams[IndexAt(S, k)]
  <2>0. IndexAt(S, k) \in 1..Len(streams) /\ Inherits(groups, s)
    BY <1>8
  <2>1. s \in StreamRecords /\ Old(s) \in GroupRecords
    BY <1>7, <2>0
  <2>2. c[k] = [id |-> s.id, volume |-> Old(s).wantVolume, muted |-> Old(s).wantMuted]
    BY <1>8
  <2> HIDE DEF s
  <2>3. s.id \in Streams /\ Old(s).wantVolume \in AudioVolumes \cup {NoRequest} /\ Old(s).wantMuted \in BOOLEAN \cup {NoRequest}
    BY <2>1 DEF StreamRecords, GroupRecords
  <2> QED
    BY <2>2, <2>3 DEF CommandRecords
<1>10. c = [i \in 1..n |-> c[i]]
  BY <1>2, <1>6
<1>11. c \in Seq(CommandRecords) /\ Len(c) = n
  BY <1>9, <1>10, <1>6
<1>12. ASSUME NEW i \in 1..n
       PROVE \E k \in 1..Len(streams) :
              /\ streams[k].id = c[i].id /\ Inherits(groups, streams[k])
              /\ \A j \in 1..Len(groups) : groups[j].key = streams[k].key =>
                   c[i].volume = groups[j].wantVolume /\ c[i].muted = groups[j].wantMuted
  <2> DEFINE k == IndexAt(S, i)
  <2>1. k \in 1..Len(streams) /\ Inherits(groups, streams[k])
    BY <1>8
  <2>2. c[i].id = streams[k].id /\ c[i].volume = Old(streams[k]).wantVolume /\ c[i].muted = Old(streams[k]).wantMuted
    <3> DEFINE s == streams[k]
    <3>1. c[i] = [id |-> s.id, volume |-> Old(s).wantVolume, muted |-> Old(s).wantMuted]
      BY <1>8
    <3> HIDE DEF s
    <3>2. c[i].id = s.id /\ c[i].volume = Old(s).wantVolume /\ c[i].muted = Old(s).wantMuted
      BY <3>1
    <3> QED
      BY <3>2 DEF s
  <2>3. \A j \in 1..Len(groups) : groups[j].key = streams[k].key => groups[j] = Old(streams[k])
    BY <1>7, <2>1
  <2> HIDE DEF k
  <2> QED
    BY <2>1, <2>2, <2>3
<1>13. ASSUME NEW k \in 1..Len(streams), Inherits(groups, streams[k]) PROVE \E i \in 1..n : c[i].id = streams[k].id
  <2>1. PICK i \in 1..n : joined[i] = streams[k]
    BY <1>3, <1>5, <1>13 DEF n
  <2>2. c[i].id = joined[i].id
    BY <1>2, <1>6
  <2> QED
    BY <2>1, <2>2
<1> QED
  BY <1>11, <1>12, <1>13 DEF ToTheHeirs

\* What the streams heard after some commands.
HeardAfter(heard, commands) ==
  [id \in Streams |-> [volume |-> VolumeTold(heard[id].volume, commands, id), muted |-> MutedTold(heard[id].muted, commands, id)]]

LEMMA HeardIs ==
  ASSUME NEW commands \in Seq(CommandRecords), NEW heard \in Heards, NEW h, h = HeardAfter(heard, commands)
  PROVE  /\ h \in Heards
         /\ \A id \in Streams : h[id].volume = VolumeTold(heard[id].volume, commands, id)
                                /\ h[id].muted = MutedTold(heard[id].muted, commands, id)
BY VolumeIsTold, MutedIsTold DEF Heards, HeardAfter

\* A stream that no command is to heard nothing new; one that was told the wish of
\* its row heard that.
LEMMA HeardByEach ==
  ASSUME NEW commands \in Seq(CommandRecords), NEW heard \in Heards, NEW h, h = HeardAfter(heard, commands),
         NEW id \in Streams, NEW g \in GroupRecords
  PROVE  /\ NoneTo(commands, id) => h[id].volume = heard[id].volume /\ h[id].muted = heard[id].muted
         /\ SomeTell(commands, id, g) =>
              (g.wantVolume # NoRequest => h[id].volume = g.wantVolume) /\ (g.wantMuted # NoRequest => h[id].muted = g.wantMuted)
<1>1. h[id].volume = VolumeTold(heard[id].volume, commands, id) /\ h[id].muted = MutedTold(heard[id].muted, commands, id)
  BY HeardIs
<1>2. heard[id].volume \in AudioVolumes \cup {NoRequest} /\ heard[id].muted \in BOOLEAN \cup {NoRequest}
  BY DEF Heards
<1>3. ASSUME \A i \in 1..Len(commands) : commands[i].id # id
      PROVE  h[id].volume = heard[id].volume /\ h[id].muted = heard[id].muted
  BY <1>2, <1>3, VolumeIsTold, MutedIsTold, <1>1
<1>4. ASSUME \E i \in 1..Len(commands) : commands[i].id = id,
             \A i \in 1..Len(commands) : commands[i].id = id => commands[i].volume = g.wantVolume /\ commands[i].muted = g.wantMuted
      PROVE  (g.wantVolume # NoRequest => h[id].volume = g.wantVolume) /\ (g.wantMuted # NoRequest => h[id].muted = g.wantMuted)
  <2>1. ASSUME g.wantVolume # NoRequest PROVE VolumeTold(heard[id].volume, commands, id) = g.wantVolume
    <3>1. AllSayVolume(commands, id, g.wantVolume)
      BY <1>4 DEF AllSayVolume
    <3> QED
      BY <1>2, <2>1, <3>1, VolumeIsTold
  <2>2. ASSUME g.wantMuted # NoRequest PROVE MutedTold(heard[id].muted, commands, id) = g.wantMuted
    <3>1. AllSayMuted(commands, id, g.wantMuted)
      BY <1>4 DEF AllSayMuted
    <3> QED
      BY <1>2, <2>2, <3>1, MutedIsTold
  <2> QED
    BY <1>1, <2>1, <2>2
<1> QED
  BY <1>3, <1>4 DEF NoneTo, SomeTell

IsMember(streams, key, id) == \E l \in 1..Len(streams) : streams[l].key = key /\ streams[l].id = id

\* The members of a row that holds.
LEMMA RowMembers ==
  ASSUME NEW streams \in Seq(StreamRecords), NEW groups, RowsHold(groups, streams), NEW j \in 1..Len(groups), NEW id
  PROVE  Contains(groups[j].members, id) <=> IsMember(streams, groups[j].key, id)
<1>1. groups[j] \in GroupRecords /\ groups[j] = GroupRow(streams, groups[j].key, groups[j].wantVolume, groups[j].wantMuted)
  BY DEF RowsHold
<1> DEFINE g == groups[j]
<1>2. g.key \in AudioApps /\ g.wantVolume \in AudioVolumes \cup {NoRequest} /\ g.wantMuted \in BOOLEAN \cup {NoRequest}
  BY <1>1 DEF GroupRecords
<1>3. g = GroupRow(streams, g.key, g.wantVolume, g.wantMuted)
  BY <1>1
<1> HIDE DEF g
<1>4. g.members = MembersOf(streams, g.key)
  BY <1>2, <1>3, RowIs DEF IsRow
<1>5. Contains(g.members, id) <=> IsMember(streams, g.key, id)
  BY <1>4, MembersAre DEF IsMember
<1> QED
  BY <1>5 DEF g

\* The streams that stay heard what they heard before.
Remember(streams, heard, before, heard0) ==
  \A k \in 1..Len(streams), l \in 1..Len(before) : streams[k].id = before[l].id => heard[streams[k].id] = heard0[streams[k].id]

\* A change of the streams that keeps what those that stay heard.
LEMMA SynchronizedHolds ==
  ASSUME NEW before, NEW groups, NEW heard0, IsMixer(before), RowsHold(groups, before), AllObey(groups, before, heard0),
         NEW streams, IsMixer(streams), NEW heard \in Heards, Remember(streams, heard, before, heard0),
         NEW r, r = Grouped(groups, streams), NEW c, c = Inherited(groups, streams), NEW h, h = HeardAfter(heard, c)
  PROVE  RowsHold(r, streams) /\ AllObey(r, streams, h) /\ c \in Seq(CommandRecords) /\ h \in Heards
<1>1. /\ before \in Seq(StreamRecords) /\ streams \in Seq(StreamRecords)
      /\ groups \in Seq(GroupRecords) /\ KeysOnce(groups)
  BY DEF IsMixer, RowsHold
<1>0. \A i, j \in 1..Len(streams) : streams[i].id = streams[j].id => i = j
  BY DEF IsMixer
<1>2. RowsHold(r, streams) /\ FromBefore(r, groups)
  BY <1>1, GroupedHolds
<1>3. c \in Seq(CommandRecords) /\ ToTheHeirs(c, groups, streams)
  BY <1>1, InheritedIs
<1>5. h \in Heards
  BY <1>3, HeardIs
<1>6. ASSUME NEW i \in 1..Len(r), NEW k \in 1..Len(streams), streams[k].key = r[i].key PROVE Obeys(h, r[i], streams[k])
  <2>1. CASE r[i].wantVolume = NoRequest /\ r[i].wantMuted = NoRequest
    BY <2>1 DEF Obeys
  <2>2. CASE r[i].wantVolume # NoRequest \/ r[i].wantMuted # NoRequest
    <3>1. PICK j \in 1..Len(groups) : groups[j].key = r[i].key /\ groups[j].wantVolume = r[i].wantVolume
                                      /\ groups[j].wantMuted = r[i].wantMuted
      BY <1>2, <2>2 DEF FromBefore
    <3> DEFINE id == streams[k].id
               g == groups[j]
    <3>2. id \in Streams /\ g \in GroupRecords /\ r[i].wantVolume = g.wantVolume /\ r[i].wantMuted = g.wantMuted
      <4>1. streams[k] \in StreamRecords /\ groups[j] \in GroupRecords
        BY <1>1
      <4>2. streams[k].id \in Streams
        BY <4>1 DEF StreamRecords
      <4> QED
        BY <3>1, <4>1, <4>2
    <3>3. Contains(groups[j].members, id) <=> IsMember(before, groups[j].key, id)
      <4> HIDE DEF id, g
      <4>1. before \in Seq(StreamRecords) /\ RowsHold(groups, before)
        BY <1>1
      <4> QED
        BY <4>1, RowMembers
    <3>4. CASE IsMember(before, groups[j].key, id)
      <4>1. PICK l \in 1..Len(before) : before[l].key = groups[j].key /\ before[l].id = id
        BY <3>4 DEF IsMember
      <4>2. Obeys(heard0, g, before[l])
        BY <4>1 DEF AllObey
      <4>3. heard[id] = heard0[id]
        BY <4>1 DEF Remember
      <4>4. ~Inherits(groups, streams[k])
        <5>1. Contains(groups[j].members, streams[k].id)
          BY <3>3, <3>4
        <5>2. \A q \in DOMAIN groups : groups[q].key = streams[k].key => q = j
          BY <1>1, <1>6, <3>1 DEF KeysOnce
        <5> QED
          BY <5>1, <5>2 DEF Inherits
      <4>5. NoneTo(c, id)
        BY <1>3, <1>0, <4>4 DEF ToTheHeirs, NoneTo
      <4> HIDE DEF id, g
      <4>6. h[id].volume = heard[id].volume /\ h[id].muted = heard[id].muted
        BY <1>3, <3>2, <4>5, HeardByEach
      <4>7. before[l].id = id /\ streams[k].id = id
        BY <4>1 DEF id
      <4> QED
        BY <3>2, <4>2, <4>3, <4>6, <4>7 DEF Obeys
    <3>5. CASE ~IsMember(before, groups[j].key, id)
      <4>1. Inherits(groups, streams[k])
        BY <1>1, <1>6, <3>1, <3>3, <3>5, <2>2 DEF Inherits
      <4>2. \E q \in 1..Len(c) : c[q].id = id
        BY <1>3, <4>1 DEF ToTheHeirs
      <4>3. ASSUME NEW q \in 1..Len(c), c[q].id = id PROVE c[q].volume = g.wantVolume /\ c[q].muted = g.wantMuted
        <5>1. PICK k2 \in 1..Len(streams) :
                /\ streams[k2].id = c[q].id
                /\ \A p \in 1..Len(groups) : groups[p].key = streams[k2].key =>
                     c[q].volume = groups[p].wantVolume /\ c[q].muted = groups[p].wantMuted
          BY <1>3 DEF ToTheHeirs
        <5>2. k2 = k
          BY <1>0, <4>3, <5>1
        <5> QED
          BY <1>6, <3>1, <5>1, <5>2
      <4>0. SomeTell(c, id, g)
        BY <4>2, <4>3 DEF SomeTell
      <4> HIDE DEF id, g
      <4>4. (g.wantVolume # NoRequest => h[id].volume = g.wantVolume) /\ (g.wantMuted # NoRequest => h[id].muted = g.wantMuted)
        BY <1>3, <3>2, <4>0, HeardByEach
      <4>5. streams[k].id = id
        BY DEF id
      <4> QED
        BY <3>2, <4>4, <4>5 DEF Obeys
    <3> QED
      BY <3>4, <3>5
  <2> QED
    BY <2>1, <2>2
<1>7. AllObey(r, streams, h)
  BY <1>6 DEF AllObey
<1> QED
  BY <1>2, <1>3, <1>5, <1>7

\* A row is asked something, and its streams are told.
IsAsked(r, groups, i, volume, muted) ==
  r = [groups EXCEPT ![i].wantVolume = IF volume = NoRequest THEN @ ELSE volume,
                     ![i].wantMuted = IF muted = NoRequest THEN @ ELSE muted]

TellsMembers(c, g, volume, muted) ==
  c = [j \in DOMAIN g.members |-> [id |-> g.members[j], volume |-> volume, muted |-> muted]]

LEMMA AskedHolds ==
  ASSUME NEW streams, IsMixer(streams), NEW groups, RowsHold(groups, streams), NEW heard \in Heards, AllObey(groups, streams, heard),
         NEW i \in 1..Len(groups), NEW volume \in AudioVolumes \cup {NoRequest}, NEW muted \in BOOLEAN \cup {NoRequest},
         NEW r, IsAsked(r, groups, i, volume, muted), NEW c, TellsMembers(c, groups[i], volume, muted),
         NEW h, h = HeardAfter(heard, c)
  PROVE  RowsHold(r, streams) /\ AllObey(r, streams, h) /\ c \in Seq(CommandRecords) /\ h \in Heards
<1> DEFINE g == groups[i]
           wantVolume == IF volume = NoRequest THEN g.wantVolume ELSE volume
           wantMuted == IF muted = NoRequest THEN g.wantMuted ELSE muted
           a == [g EXCEPT !.wantVolume = wantVolume, !.wantMuted = wantMuted]
           n == Len(g.members)
<1>1. /\ streams \in Seq(StreamRecords) /\ \A k, l \in 1..Len(streams) : streams[k].id = streams[l].id => k = l
  BY DEF IsMixer
<1>2. /\ groups \in Seq(GroupRecords) /\ KeysOnce(groups)
      /\ {groups[j].key : j \in 1..Len(groups)} = {streams[j].key : j \in 1..Len(streams)}
      /\ \A j \in 1..Len(groups) : groups[j] = GroupRow(streams, groups[j].key, groups[j].wantVolume, groups[j].wantMuted)
  BY DEF RowsHold
<1>3. g \in GroupRecords /\ g = GroupRow(streams, g.key, g.wantVolume, g.wantMuted)
  BY <1>2
<1>4. r = [groups EXCEPT ![i] = a]
  BY <1>2 DEF IsAsked
<1>5. c = [j \in DOMAIN g.members |-> [id |-> g.members[j], volume |-> volume, muted |-> muted]]
  BY DEF TellsMembers
<1>6. IsMixer(streams) /\ RowsHold(groups, streams) /\ AllObey(groups, streams, heard) /\ h = HeardAfter(heard, c)
  OBVIOUS
<1>7. (volume # NoRequest => wantVolume = volume) /\ (volume = NoRequest => wantVolume = g.wantVolume)
      /\ (muted # NoRequest => wantMuted = muted) /\ (muted = NoRequest => wantMuted = g.wantMuted)
  OBVIOUS
<1> HIDE DEF g
<1>8. /\ g.key \in AudioApps /\ g.members \in Seq(Streams) /\ g.volume \in AudioVolumes \cup {0} /\ g.muted \in BOOLEAN
      /\ g.wantVolume \in AudioVolumes \cup {NoRequest} /\ g.wantMuted \in BOOLEAN \cup {NoRequest}
  BY <1>3 DEF GroupRecords
<1>9. wantVolume \in AudioVolumes \cup {NoRequest} /\ wantMuted \in BOOLEAN \cup {NoRequest}
  BY <1>8
<1>10. a = [g EXCEPT !.wantVolume = wantVolume, !.wantMuted = wantMuted]
  OBVIOUS
<1> HIDE DEF wantVolume, wantMuted, a
<1>11. /\ a \in GroupRecords /\ a.key = g.key /\ a.wantVolume = wantVolume /\ a.wantMuted = wantMuted
       /\ a.members = g.members /\ a.volume = g.volume /\ a.muted = g.muted
  BY <1>3, <1>8, <1>9, <1>10 DEF GroupRecords
<1>12. a = GroupRow(streams, g.key, wantVolume, wantMuted)
  BY <1>3, <1>11 DEF GroupRow, GroupRecords
<1>13. /\ r \in Seq(GroupRecords) /\ Len(r) = Len(groups) /\ r[i] = a
       /\ \A j \in 1..Len(groups) : j # i => r[j] = groups[j]
  BY <1>4, <1>2, <1>11, ReplacedAt DEF Replaces
<1>14. \A j \in 1..Len(groups) : r[j].key = groups[j].key
  BY <1>11, <1>13 DEF g
<1>15. RowsHold(r, streams)
  <2>1. KeysOnce(r)
    BY <1>2, <1>13, <1>14 DEF KeysOnce
  <2>2. {r[j].key : j \in 1..Len(r)} = {groups[j].key : j \in 1..Len(groups)}
    BY <1>13, <1>14
  <2>3. \A j \in 1..Len(r) : r[j] = GroupRow(streams, r[j].key, r[j].wantVolume, r[j].wantMuted)
    BY <1>2, <1>11, <1>12, <1>13
  <2> QED
    BY <1>2, <1>13, <2>1, <2>2, <2>3 DEF RowsHold
<1>16. n \in Nat /\ DOMAIN g.members = 1..n /\ \A j \in 1..n : g.members[j] \in Streams
  BY <1>8
<1> HIDE DEF n
<1>17. \A j \in 1..n : c[j] = [id |-> g.members[j], volume |-> volume, muted |-> muted]
  BY <1>5, <1>16
<1>18. ASSUME NEW j \in 1..n
       PROVE  c[j] \in CommandRecords /\ c[j].id = g.members[j] /\ c[j].volume = volume /\ c[j].muted = muted
  <2> DEFINE x == c[j]
             id == g.members[j]
  <2>1. x = [id |-> id, volume |-> volume, muted |-> muted] /\ id \in Streams
    BY <1>16, <1>17
  <2> HIDE DEF x, id
  <2>2. x \in CommandRecords /\ x.id = id /\ x.volume = volume /\ x.muted = muted
    BY <2>1 DEF CommandRecords
  <2> QED
    BY <2>2 DEF x, id
<1>19. c \in Seq(CommandRecords) /\ Len(c) = n
  BY <1>5, <1>16, <1>18
<1>20. h \in Heards
  BY <1>6, <1>19, HeardIs
<1>21. ASSUME NEW id PROVE (\E j \in 1..n : c[j].id = id) <=> IsMember(streams, g.key, id)
  <2>1. Contains(g.members, id) <=> IsMember(streams, g.key, id)
    BY <1>1, <1>6, RowMembers DEF g
  <2>2. Contains(g.members, id) <=> \E j \in 1..n : g.members[j] = id
    BY <1>16 DEF Contains, n
  <2> QED
    BY <1>18, <2>1, <2>2
<1>22. ASSUME NEW j \in 1..Len(r), NEW k \in 1..Len(streams), streams[k].key = r[j].key PROVE Obeys(h, r[j], streams[k])
  <2> DEFINE id == streams[k].id
  <2>0. id \in Streams
    <3>1. streams[k] \in StreamRecords
      BY <1>1
    <3> QED
      BY <3>1 DEF StreamRecords
  <2>1. Obeys(heard, groups[j], streams[k])
    BY <1>6, <1>13, <1>14, <1>22 DEF AllObey
  <2>2. h[id].volume = VolumeTold(heard[id].volume, c, id) /\ h[id].muted = MutedTold(heard[id].muted, c, id)
    BY <1>6, <1>19, <2>0, HeardIs
  <2>3. heard[id].volume \in AudioVolumes \cup {NoRequest} /\ heard[id].muted \in BOOLEAN \cup {NoRequest}
    BY <2>0 DEF Heards
  <2>4. CASE j = i
    <3>1. IsMember(streams, g.key, id)
      BY <1>11, <1>13, <1>22, <2>4 DEF IsMember
    <3>2. \E q \in 1..Len(c) : c[q].id = id
      BY <1>19, <1>21, <3>1
    <3>3. wantVolume # NoRequest => VolumeTold(heard[id].volume, c, id) = wantVolume
      <4>1. CASE volume = NoRequest
        BY <1>18, <1>19, <2>3, <4>1, VolumeIsTold, <1>7, <2>1, <2>4 DEF Obeys, g
      <4>2. CASE volume # NoRequest
        <5>1. AllSayVolume(c, id, volume)
          BY <1>18, <1>19, <3>2 DEF AllSayVolume
        <5>2. VolumeTold(heard[id].volume, c, id) = volume
          BY <1>19, <2>3, <4>2, <5>1, VolumeIsTold
        <5> QED
          BY <1>7, <4>2, <5>2
      <4> QED
        BY <4>1, <4>2
    <3>4. wantMuted # NoRequest => MutedTold(heard[id].muted, c, id) = wantMuted
      <4>1. CASE muted = NoRequest
        BY <1>18, <1>19, <2>3, <4>1, MutedIsTold, <1>7, <2>1, <2>4 DEF Obeys, g
      <4>2. CASE muted # NoRequest
        <5>1. AllSayMuted(c, id, muted)
          BY <1>18, <1>19, <3>2 DEF AllSayMuted
        <5>2. MutedTold(heard[id].muted, c, id) = muted
          BY <1>19, <2>3, <4>2, <5>1, MutedIsTold
        <5> QED
          BY <1>7, <4>2, <5>2
      <4> QED
        BY <4>1, <4>2
    <3> QED
      BY <1>11, <1>13, <2>2, <2>4, <3>3, <3>4 DEF Obeys
  <2>5. CASE j # i
    <3>1. ~IsMember(streams, g.key, id)
      BY <1>1, <1>13, <1>14, <1>22, <1>2, <2>5 DEF g, KeysOnce, IsMember
    <3>2. NoneTo(c, id)
      BY <1>19, <1>21, <3>1 DEF NoneTo
    <3>3. h[id].volume = heard[id].volume /\ h[id].muted = heard[id].muted
      BY <1>3, <1>6, <1>19, <2>0, <3>2, HeardByEach
    <3> QED
      BY <1>13, <2>1, <2>5, <3>3 DEF Obeys
  <2> QED
    BY <2>4, <2>5
<1>23. AllObey(r, streams, h)
  BY <1>22 DEF AllObey
<1> QED
  BY <1>15, <1>19, <1>20, <1>23

LEMMA AudioStart == AudioInit => GroupsAreFollowed
BY DEF AudioInit, Heards, Unheard, GroupsAreFollowed, IsMixer, RowsHold, AllObey, KeysOnce

\* The controller's streams are other ones, and what the streams that stay were told is kept.
Synchronizes(heard, streams) == Synchronize(heard, streams)

LEMMA SynchronizedStep ==
  ASSUME GroupsAreFollowed, NEW streams, IsMixer(streams), NEW heard \in Heards, Remember(streams, heard, audioStreams, audioHeard),
         Synchronizes(heard, streams)
  PROVE  GroupsAreFollowed'
BY SynchronizedHolds, JoinedAt DEF Synchronizes, Synchronize, Command, HeardAfter, GroupsAreFollowed

LEMMA UnheardIs ==
  ASSUME NEW heard \in Heards, NEW id \in Streams, NEW h, Replaces(h, heard, id, Unheard)
  PROVE  h \in Heards /\ \A s \in Streams : s # id => h[s] = heard[s]
BY DEF Heards, Replaces, Unheard

LEMMA StreamOpensStep ==
  ASSUME GroupsAreFollowed, NEW id \in Streams, StreamOpens(id)
  PROVE  GroupsAreFollowed'
<1> DEFINE heard == [audioHeard EXCEPT ![id] = Unheard]
<1>1. PICK key \in AudioApps, v \in AudioVolumes :
        Synchronize(heard, Append(audioStreams, [id |-> id, key |-> key, volume |-> v, muted |-> FALSE]))
  BY DEF StreamOpens
<1> DEFINE s == [id |-> id, key |-> key, volume |-> v, muted |-> FALSE]
           streams == Append(audioStreams, s)
<1>2. Synchronizes(heard, streams)
  BY <1>1 DEF Synchronizes
<1>3. s \in StreamRecords /\ s.id = id
  BY DEF StreamRecords
<1>4. Replaces(heard, audioHeard, id, Unheard)
  BY DEF Replaces
<1> HIDE DEF heard, s
<1>5. IsMixer(audioStreams) /\ audioHeard \in Heards
  BY DEF GroupsAreFollowed
<1>6. heard \in Heards /\ \A x \in Streams : x # id => heard[x] = audioHeard[x]
  BY <1>4, <1>5, UnheardIs
<1>7. /\ streams \in Seq(StreamRecords) /\ Len(audioStreams) \in Nat /\ Len(streams) = Len(audioStreams) + 1
      /\ streams[Len(audioStreams) + 1] = s /\ \A i \in 1..Len(audioStreams) : streams[i] = audioStreams[i]
  BY <1>3, <1>5, PutAtTheEnd DEF IsMixer
<1> HIDE DEF streams
<1>8. \A l \in 1..Len(audioStreams) : audioStreams[l].id # id /\ audioStreams[l].id \in Streams
  <2>1. ASSUME NEW l \in 1..Len(audioStreams) PROVE audioStreams[l].id # id /\ audioStreams[l].id \in Streams
    <3>1. audioStreams \in Seq(StreamRecords)
      BY <1>5 DEF IsMixer
    <3>2. audioStreams[l] \in StreamRecords /\ l \in DOMAIN audioStreams
      BY <3>1
    <3>3. audioStreams[l].id \in Ids(audioStreams)
      BY <3>2 DEF Ids
    <3> QED
      BY <3>2, <3>3 DEF StreamOpens, StreamRecords
  <2> QED
    BY <2>1
<1>9. \A i \in 1..Len(streams) : i \in 1..Len(audioStreams) \/ i = Len(audioStreams) + 1
  BY <1>7
<1>10. IsMixer(streams)
  BY <1>5, <1>7, <1>3, <1>8, <1>9 DEF IsMixer
<1>11. Remember(streams, heard, audioStreams, audioHeard)
  BY <1>6, <1>8 DEF Remember
<1> QED
  BY <1>2, <1>6, <1>10, <1>11, SynchronizedStep

LEMMA StreamClosesStep ==
  ASSUME GroupsAreFollowed, NEW id \in Streams, StreamCloses(id)
  PROVE  GroupsAreFollowed'
<1> DEFINE heard == [audioHeard EXCEPT ![id] = Unheard]
           S == {i \in DOMAIN audioStreams : audioStreams[i].id # id}
           streams == SubSeqAt(audioStreams, S)
<1>2. Synchronizes(heard, streams)
  BY DEF Synchronizes, StreamCloses
<1>4. Replaces(heard, audioHeard, id, Unheard)
  BY DEF Replaces
<1> HIDE DEF heard
<1>5. IsMixer(audioStreams) /\ audioHeard \in Heards /\ audioStreams \in Seq(StreamRecords)
  BY DEF GroupsAreFollowed, IsMixer
<1>6. heard \in Heards /\ \A x \in Streams : x # id => heard[x] = audioHeard[x]
  BY <1>4, <1>5, UnheardIs
<1>7. S \in SUBSET (1..Len(audioStreams)) /\ \A i \in S : audioStreams[i].id # id
  BY <1>5
<1> HIDE DEF S
<1>8. streams \in Seq(StreamRecords) /\ \A k \in 1..Len(streams) : IndexAt(S, k) \in S /\ streams[k] = audioStreams[IndexAt(S, k)]
  BY <1>5, <1>7, SubSeqAtProperties
<1>9. \A k, l \in 1..Len(streams) : k < l => IndexAt(S, k) < IndexAt(S, l)
  BY <1>5, <1>7, SubSeqAtProperties
<1> HIDE DEF streams
<1>10. IsMixer(streams)
  BY <1>5, <1>7, <1>8, <1>9 DEF IsMixer
<1>11. Remember(streams, heard, audioStreams, audioHeard)
  <2>1. ASSUME NEW k \in 1..Len(streams) PROVE heard[streams[k].id] = audioHeard[streams[k].id]
    <3>1. streams[k] \in StreamRecords
      BY <1>8
    <3>2. streams[k] = audioStreams[IndexAt(S, k)] /\ IndexAt(S, k) \in S
      BY <1>8
    <3>3. audioStreams[IndexAt(S, k)].id # id
      BY <1>7, <3>2
    <3>4. streams[k].id # id
      BY <3>2, <3>3
    <3> QED
      BY <1>6, <3>1, <3>4 DEF StreamRecords
  <2> QED
    BY <2>1 DEF Remember
<1> QED
  BY <1>2, <1>6, <1>10, <1>11, SynchronizedStep

LEMMA StreamChangesStep ==
  ASSUME GroupsAreFollowed, NEW i, StreamChanges(i)
  PROVE  GroupsAreFollowed'
<1>1. IsMixer(audioStreams) /\ audioHeard \in Heards /\ audioStreams \in Seq(StreamRecords) /\ i \in 1..Len(audioStreams)
  BY DEF GroupsAreFollowed, IsMixer, StreamChanges
<1> DEFINE s == audioStreams[i]
<1>2. s \in StreamRecords
  BY <1>1
<1>3. ASSUME NEW t \in StreamRecords, t.id = s.id, NEW streams, Replaces(streams, audioStreams, i, t), Synchronizes(audioHeard, streams)
      PROVE  GroupsAreFollowed'
  BY <1>1, <1>3, ReplacedAt, SynchronizedStep DEF IsMixer, Remember
<1>4. ASSUME NEW key \in AudioApps, Synchronize(audioHeard, [audioStreams EXCEPT ![i].key = key]) PROVE GroupsAreFollowed'
  BY <1>2, <1>1, <1>4, <1>3 DEF StreamRecords, Replaces, Synchronizes
<1>5. ASSUME NEW v \in AudioVolumes, Synchronize(audioHeard, [audioStreams EXCEPT ![i].volume = v]) PROVE GroupsAreFollowed'
  BY <1>2, <1>1, <1>5, <1>3 DEF StreamRecords, Replaces, Synchronizes
<1> QED
  BY <1>4, <1>5 DEF StreamChanges

\* A stream when a command is done.
LEMMA CommandedIs ==
  ASSUME NEW s \in StreamRecords, NEW c \in CommandRecords
  PROVE  Commanded(s, c) \in StreamRecords /\ Commanded(s, c).id = s.id /\ Commanded(s, c).key = s.key
<1> DEFINE volume == IF c.volume = NoRequest THEN s.volume ELSE c.volume
           muted == IF c.muted = NoRequest THEN s.muted ELSE c.muted
           t == [s EXCEPT !.volume = volume, !.muted = muted]
<1>1. volume \in AudioVolumes /\ muted \in BOOLEAN
  BY DEF StreamRecords, CommandRecords
<1>2. t = [s EXCEPT !.volume = IF c.volume = NoRequest THEN @ ELSE c.volume,
                    !.muted = IF c.muted = NoRequest THEN @ ELSE c.muted]
  OBVIOUS
<1>3. Commanded(s, c) = IF s.id # c.id THEN s ELSE t
  BY <1>2 DEF Commanded
<1> HIDE DEF volume, muted
<1>4. t \in StreamRecords /\ t.id = s.id /\ t.key = s.key
  BY <1>1 DEF StreamRecords
<1> HIDE DEF t
<1> QED
  BY <1>3, <1>4

LEMMA CommandDoneStep ==
  ASSUME GroupsAreFollowed, CommandDone
  PROVE  GroupsAreFollowed'
<1> DEFINE c == Head(audioCommands)
           streams == audioStreams'
           r == audioGroups'
<1>1. /\ IsMixer(audioStreams) /\ audioCommands \in Seq(CommandRecords) /\ audioHeard \in Heards
      /\ RowsHold(audioGroups, audioStreams) /\ AllObey(audioGroups, audioStreams, audioHeard)
  BY DEF GroupsAreFollowed
<1>2. /\ streams = [i \in DOMAIN audioStreams |-> Commanded(audioStreams[i], c)] /\ r = Grouped(audioGroups, streams)
      /\ audioCommands # <<>> /\ audioCommands' = Tail(audioCommands) /\ audioHeard' = audioHeard
  BY DEF CommandDone
<1>3. audioCommands' \in Seq(CommandRecords) /\ c \in CommandRecords
  BY <1>1, <1>2, TakenFrom
<1> HIDE DEF c, streams, r
<1>4. /\ audioStreams \in Seq(StreamRecords) /\ Len(audioStreams) \in Nat /\ DOMAIN audioStreams = 1..Len(audioStreams)
      /\ audioGroups \in Seq(GroupRecords) /\ KeysOnce(audioGroups)
  BY <1>1 DEF IsMixer, RowsHold
<1>5. \A s \in StreamRecords : Commanded(s, c) \in StreamRecords /\ Commanded(s, c).id = s.id /\ Commanded(s, c).key = s.key
  BY <1>3, CommandedIs
<1>6. \A k \in 1..Len(audioStreams) : streams[k] = Commanded(audioStreams[k], c) /\ audioStreams[k] \in StreamRecords
  BY <1>2, <1>4
<1>20. streams = [i \in 1..Len(audioStreams) |-> streams[i]]
  BY <1>2, <1>4
<1>7. \A k \in 1..Len(audioStreams) : streams[k] \in StreamRecords /\ streams[k].id = audioStreams[k].id /\ streams[k].key = audioStreams[k].key
  BY <1>5, <1>6
<1>8. streams \in Seq(StreamRecords) /\ Len(streams) = Len(audioStreams)
  BY <1>7, <1>20, <1>4
<1>9. IsMixer(streams)
  BY <1>1, <1>7, <1>8 DEF IsMixer
<1>10. RowsHold(r, streams) /\ FromBefore(r, audioGroups)
  BY <1>2, <1>4, <1>8, GroupedHolds
<1>11. ASSUME NEW i \in 1..Len(r), NEW k \in 1..Len(streams), streams[k].key = r[i].key PROVE Obeys(audioHeard, r[i], streams[k])
  <2>1. CASE r[i].wantVolume = NoRequest /\ r[i].wantMuted = NoRequest
    BY <2>1 DEF Obeys
  <2>2. CASE r[i].wantVolume # NoRequest \/ r[i].wantMuted # NoRequest
    <3>1. PICK j \in 1..Len(audioGroups) : audioGroups[j].key = r[i].key /\ audioGroups[j].wantVolume = r[i].wantVolume
                                           /\ audioGroups[j].wantMuted = r[i].wantMuted
      BY <1>10, <2>2 DEF FromBefore
    <3>2. audioStreams[k].key = audioGroups[j].key /\ audioStreams[k].id = streams[k].id /\ k \in 1..Len(audioStreams)
      BY <1>7, <1>8, <1>11, <3>1
    <3>3. Obeys(audioHeard, audioGroups[j], audioStreams[k])
      BY <1>1, <3>2 DEF AllObey
    <3> QED
      BY <3>1, <3>2, <3>3 DEF Obeys
  <2> QED
    BY <2>1, <2>2
<1>12. AllObey(r, streams, audioHeard)
  BY <1>11 DEF AllObey
<1> QED
  BY <1>1, <1>2, <1>3, <1>9, <1>10, <1>12 DEF GroupsAreFollowed, r, streams

LEMMA SetGroupStep ==
  ASSUME GroupsAreFollowed, NEW i, NEW volume \in AudioVolumes \cup {NoRequest}, NEW muted \in BOOLEAN \cup {NoRequest},
         SetGroup(i, volume, muted)
  PROVE  GroupsAreFollowed'
<1> DEFINE g == audioGroups[i]
           c == [j \in DOMAIN g.members |-> [id |-> g.members[j], volume |-> volume, muted |-> muted]]
           r == audioGroups'
           h == audioHeard'
<1>1. /\ IsMixer(audioStreams) /\ audioCommands \in Seq(CommandRecords) /\ audioHeard \in Heards
      /\ RowsHold(audioGroups, audioStreams) /\ AllObey(audioGroups, audioStreams, audioHeard)
  BY DEF GroupsAreFollowed
<1>2. i \in 1..Len(audioGroups)
  BY <1>1 DEF RowsHold, SetGroup
<1>3. IsAsked(r, audioGroups, i, volume, muted)
  BY DEF SetGroup, IsAsked
<1>4. audioCommands' = audioCommands \o c /\ h = HeardAfter(audioHeard, c) /\ audioStreams' = audioStreams
  BY DEF SetGroup, Command, HeardAfter
<1>5. TellsMembers(c, audioGroups[i], volume, muted)
  BY DEF TellsMembers
<1> HIDE DEF c, r, h
<1>6. RowsHold(r, audioStreams) /\ AllObey(r, audioStreams, h) /\ c \in Seq(CommandRecords) /\ h \in Heards
  <2> DEFINE streams == audioStreams
             groups == audioGroups
             heard == audioHeard
  <2>1. /\ IsMixer(streams) /\ RowsHold(groups, streams) /\ heard \in Heards /\ AllObey(groups, streams, heard)
        /\ i \in 1..Len(groups) /\ IsAsked(r, groups, i, volume, muted) /\ TellsMembers(c, groups[i], volume, muted)
        /\ h = HeardAfter(heard, c)
    BY <1>1, <1>2, <1>3, <1>4, <1>5
  <2> HIDE DEF streams, groups, heard
  <2>2. RowsHold(r, streams) /\ AllObey(r, streams, h) /\ c \in Seq(CommandRecords) /\ h \in Heards
    BY <2>1, AskedHolds
  <2> QED
    BY <2>2 DEF streams
<1>7. audioCommands' \in Seq(CommandRecords)
  BY <1>1, <1>4, <1>6, JoinedAt
<1> QED
  BY <1>1, <1>4, <1>6, <1>7 DEF GroupsAreFollowed, r, h

LEMMA AudioStep ==
  ASSUME GroupsAreFollowed, [AudioNext]_audioVars
  PROVE  GroupsAreFollowed'
BY StreamOpensStep, StreamClosesStep, StreamChangesStep, SetGroupStep, CommandDoneStep DEF GroupsAreFollowed,
   audioVars, AudioNext

LEMMA FollowedAreObeyed ==
  ASSUME GroupsAreFollowed
  PROVE  AudioTypeOK /\ GroupsAreObeyed
<1>1. /\ IsMixer(audioStreams) /\ audioCommands \in Seq(CommandRecords) /\ audioHeard \in Heards
      /\ RowsHold(audioGroups, audioStreams) /\ AllObey(audioGroups, audioStreams, audioHeard)
  BY DEF GroupsAreFollowed
<1>2. audioStreams \in Seq(StreamRecords) /\ audioGroups \in Seq(GroupRecords)
  BY <1>1 DEF IsMixer, RowsHold
<1>3. AudioTypeOK
  <2>1. ASSUME NEW i \in DOMAIN audioGroups
        PROVE  /\ audioGroups[i].key \in AudioApps /\ audioGroups[i].members \in Seq(Streams)
               /\ audioGroups[i].volume \in AudioVolumes \cup {0} /\ audioGroups[i].muted \in BOOLEAN
               /\ audioGroups[i].wantVolume \in AudioVolumes \cup {NoRequest}
               /\ audioGroups[i].wantMuted \in BOOLEAN \cup {NoRequest}
    <3>1. audioGroups[i] \in GroupRecords
      BY <1>2
    <3> QED
      BY <3>1 DEF GroupRecords
  <2>2. \A i \in DOMAIN audioStreams : audioStreams[i] \in StreamRecords
    BY <1>2
  <2>3. \A i \in DOMAIN audioCommands : audioCommands[i] \in CommandRecords
    BY <1>1
  <2> QED
    BY <1>1, <2>1, <2>2, <2>3 DEF AudioTypeOK, StreamRecords, CommandRecords, Heards
<1>4. DOMAIN audioGroups = 1..Len(audioGroups) /\ DOMAIN audioStreams = 1..Len(audioStreams)
  BY <1>2
<1>5. \A i, j \in DOMAIN audioGroups : audioGroups[i].key = audioGroups[j].key => i = j
  BY <1>1, <1>4 DEF RowsHold, KeysOnce
<1>6. {audioGroups[i].key : i \in DOMAIN audioGroups} = {audioStreams[i].key : i \in DOMAIN audioStreams}
  BY <1>1, <1>4 DEF RowsHold
<1>7. ASSUME NEW i \in DOMAIN audioGroups
      PROVE  audioGroups[i] = GroupRow(audioStreams, audioGroups[i].key, audioGroups[i].wantVolume, audioGroups[i].wantMuted)
  BY <1>1, <1>4 DEF RowsHold
<1>8. ASSUME NEW i \in DOMAIN audioGroups, NEW id \in Streams, Contains(audioGroups[i].members, id)
      PROVE  /\ audioGroups[i].wantVolume # NoRequest => audioHeard[id].volume = audioGroups[i].wantVolume
             /\ audioGroups[i].wantMuted # NoRequest => audioHeard[id].muted = audioGroups[i].wantMuted
  <2>1. IsMember(audioStreams, audioGroups[i].key, id)
    BY <1>1, <1>2, <1>4, <1>8, RowMembers
  <2>2. PICK l \in 1..Len(audioStreams) : audioStreams[l].key = audioGroups[i].key /\ audioStreams[l].id = id
    BY <2>1 DEF IsMember
  <2>3. Obeys(audioHeard, audioGroups[i], audioStreams[l])
    BY <1>1, <1>4, <2>2 DEF AllObey
  <2> QED
    BY <2>2, <2>3 DEF Obeys
<1>9. GroupsAreObeyed
  BY <1>5, <1>6, <1>7, <1>8 DEF GroupsAreObeyed
<1> QED
  BY <1>3, <1>9

\* The streams are in the rows of their applications, and were last told what their rows
\* were last asked.
THEOREM GroupsAreAlwaysObeyed == AudioInit /\ [][AudioNext]_audioVars => [](AudioTypeOK /\ GroupsAreObeyed)
<1>1. AudioInit => GroupsAreFollowed
  BY AudioStart
<1>2. GroupsAreFollowed /\ [AudioNext]_audioVars => GroupsAreFollowed'
  BY AudioStep
<1>3. GroupsAreFollowed => AudioTypeOK /\ GroupsAreObeyed
  BY FollowedAreObeyed
<1> QED
  BY <1>1, <1>2, <1>3, PTL

----------------------------------------------------------------------------
(***************************************************************************)
(* The services together.                                                  *)
(***************************************************************************)

Services == {"storage", "idle", "battery", "profiles", "brightness", "audio", "layout", "windows"}

LEMMA ServicesStart ==
  ASSUME MCInit
  PROVE  /\ used \in Services
         /\ StorageInit /\ IdleInit /\ BatteryInit /\ ProfilesInit /\ BrightnessInit
         /\ AudioInit /\ HyprInit /\ CompositorInit
BY DEF MCInit, Services

\* Every step of the program is one of each service, or leaves it alone.
LEMMA ServicesStep ==
  ASSUME [MCNext]_allVars
  PROVE  /\ UNCHANGED used
         /\ [StorageNext]_storageVars /\ [IdleNext]_idleVars /\ [BatteryNext]_batteryVars
         /\ [ProfilesNext]_profileVars /\ [BrightnessNext]_brightnessVars
         /\ [AudioNext]_audioVars /\ [HyprNext]_hyprVars /\ [CompositorNext]_compositorVars
BY DEF MCNext, allVars

LEMMA ServicesRun ==
  MCSpec => /\ [](used \in Services)
            /\ StorageInit /\ [][StorageNext]_storageVars
            /\ IdleInit /\ [][IdleNext]_idleVars
            /\ BatteryInit /\ [][BatteryNext]_batteryVars
            /\ ProfilesInit /\ [][ProfilesNext]_profileVars
            /\ BrightnessInit /\ [][BrightnessNext]_brightnessVars
            /\ AudioInit /\ [][AudioNext]_audioVars
            /\ HyprInit /\ [][HyprNext]_hyprVars
            /\ CompositorInit /\ [][CompositorNext]_compositorVars
<1>1. ASSUME used \in Services, [MCNext]_allVars PROVE (used \in Services)'
  BY <1>1, ServicesStep
<1> QED
  BY <1>1, ServicesStart, ServicesStep, PTL DEF MCSpec

\* What is shown of the drives, the power profile, the audio groups and the keyboard
\* layout is what their daemons last said: in every behaviour.
THEOREM DaemonsAreAlwaysMirrored == MCSpec => []DaemonsAreMirrored
<1>1. StorageAgrees /\ ProfilesAreTrue /\ GroupsAreObeyed /\ HyprlandIsFollowed => DaemonsAreMirrored
  BY DEF DaemonsAreMirrored
<1> QED
  BY <1>1, ServicesRun, StorageAlwaysAgrees, ProfilesAreAlwaysTrue, GroupsAreAlwaysObeyed, LayoutIsAlwaysFollowed, PTL

\* The low battery is told once a discharge, the idle state and its inhibitors are the
\* seat's and the clients', and the brightness is the last one asked for: in every behaviour.
THEOREM PowerIsAlwaysFollowed == MCSpec => []PowerIsFollowed
<1>1. LowBatteryIsTold /\ IdleIsTrue /\ PollsGoOn /\ BrightnessIsTrue => PowerIsFollowed
  BY DEF PowerIsFollowed
<1> QED
  BY <1>1, ServicesRun, LowBatteryIsAlwaysTold, IdleIsAlwaysTrue, BrightnessIsAlwaysTrue, PTL

\* An error goes away only with its own timer, and the cards of the open overview stay
\* where they are: in every behaviour.
THEOREM NothingEverMovesUnasked == MCSpec => NothingMovesUnasked
<1>1. ASSUME StorageInv, WindowsAreOrdered, [MCNext]_allVars
      PROVE  [OnlyOwnErrorExpires /\ (UNCHANGED compositorVars \/ OverviewStandsStill)]_allVars
  BY <1>1, ServicesStep, TimersEndTheirOwn, WindowsAreKept, FocusIsAlwaysInView
<1>2. CompositorInit => WindowsAreOrdered
  BY WindowsStart
<1>3. WindowsAreOrdered /\ [CompositorNext]_compositorVars => WindowsAreOrdered'
  BY WindowsAreKept
<1> QED
  BY <1>1, <1>2, <1>3, ServicesRun, StorageInvHolds, PTL DEF MCSpec, NothingMovesUnasked

\* The state of every service is well formed: in every behaviour.
THEOREM ServicesAreWellFormed == MCSpec => []TypesOK
<1>1. /\ used \in Services
      /\ StorageTypeOK /\ IdleTypeOK /\ BatteryTypeOK /\ ProfileTypeOK /\ BrightnessTypeOK
      /\ AudioTypeOK /\ HyprTypeOK /\ CompositorTypeOK
      => TypesOK
  BY DEF TypesOK, Services
<1> QED
  BY <1>1, ServicesRun, StorageAlwaysAgrees, IdleIsAlwaysTrue, LowBatteryIsAlwaysTold, ProfilesAreAlwaysTrue,
     BrightnessIsAlwaysTrue, GroupsAreAlwaysObeyed, LayoutIsAlwaysFollowed, WindowsAreAlwaysOrdered, PTL
=============================================================================
