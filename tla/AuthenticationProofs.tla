------------------------ MODULE AuthenticationProofs ------------------------
(***************************************************************************)
(* Safety of the authentication front ends: that the polkit agent answers  *)
(* every request once and shows the one it works on, whom it grants and    *)
(* what its user can do, for any number of requests, identities and        *)
(* retries; what the askpass helper's status and output mean; whose        *)
(* profiles the dialog shows.                                              *)
(***************************************************************************)
EXTENDS PolkitAgent, Askpass, AccountProfiles, SequenceTheorems, FiniteSetTheorems, TLAPS

USE DEF NoToken, NoSession

(***************************************************************************)
(* Lemmas about the operators the actions are built from.                  *)
(***************************************************************************)

\* Every method of the prompt model takes a prompt state to a prompt state.
LEMMA PromptTypes ==
  ASSUME NEW m \in Prompts
  PROVE  /\ Reset(Complete(m)) \in Prompts
         /\ Dismiss(m) \in Prompts
         /\ MarkBusy(m) \in Prompts
         /\ MarkRetryableError(m) \in Prompts
         /\ PresentPrompt(m, "Text") \in Prompts
         /\ Retried(m) \in Prompts
         /\ \A t \in Tokens, ids \in SUBSET Identities :
              BeginRequest(m, t, ids, "None") \in Prompts
<1> USE DEF Prompts, Lifecycles, InputModes
<1>1. Complete(m) \in Prompts
  BY DEF Complete, IsActive
<1>2. ASSUME NEW n \in Prompts PROVE Reset(n) \in Prompts
  <2>1. ClearRequest(n) \in Prompts
    <3>1. 0 \in 0..MaxRequests /\ {} \in SUBSET Identities /\ "None" \in InputModes
      BY MaxRequestsAssumption
    <3> QED
      BY <1>2, <3>1 DEF ClearRequest
  <2> QED
    BY <1>2, <2>1 DEF Reset
<1>3. Reset(Complete(m)) \in Prompts
  BY <1>1, <1>2
<1>4. Dismiss(m) \in Prompts
  BY DEF Dismiss, IsActive
<1>5. MarkBusy(m) \in Prompts /\ MarkRetryableError(m) \in Prompts
  BY DEF MarkBusy, MarkRetryableError
<1>6. PresentPrompt(m, "Text") \in Prompts
  BY DEF PresentPrompt
<1>7. Retried(m) \in Prompts
  <2> DEFINE life == IF Cardinality(m.identities) > 1 THEN "SelectingIdentity" ELSE "Busy"
  <2>1. life \in Lifecycles /\ m.gen + 1 \in Nat
    OBVIOUS
  <2>2. Retried(m) = [m EXCEPT !.gen = m.gen + 1, !.life = life]
    BY DEF Retried
  <2> HIDE DEF life
  <2> QED
    BY <2>1, <2>2
<1>8. ASSUME NEW t \in Tokens, NEW ids \in SUBSET Identities
      PROVE  BeginRequest(m, t, ids, "None") \in Prompts
  BY <1>8, MaxRequestsAssumption DEF BeginRequest, Tokens
<1> QED
  BY <1>3, <1>4, <1>5, <1>6, <1>7, <1>8

\* Destroying a session only changes a status.
LEMMA DestroyedType ==
  ASSUME NEW ss \in Seq(Sessions), NEW s \in 0..Len(ss)
  PROVE  /\ Destroyed(ss, s) \in Seq(Sessions)
         /\ Len(Destroyed(ss, s)) = Len(ss)
         /\ \A k \in 1..Len(ss) :
              /\ Destroyed(ss, s)[k].token = ss[k].token
              /\ Destroyed(ss, s)[k].gen = ss[k].gen
              /\ Destroyed(ss, s)[k].identity = ss[k].identity
              /\ ss[k].status # "running" => Destroyed(ss, s)[k] = ss[k]
<1>1. CASE s # 0 /\ ss[s].status = "running"
  <2>1. s \in 1..Len(ss) /\ ss[s] \in Sessions
    BY <1>1
  <2>2. [ss[s] EXCEPT !.status = "destroyed"] \in Sessions
    BY <2>1 DEF Sessions, Statuses
  <2>3. Destroyed(ss, s) = [ss EXCEPT ![s] = [ss[s] EXCEPT !.status = "destroyed"]]
    BY <1>1 DEF Destroyed
  <2>4. Destroyed(ss, s) \in Seq(Sessions) /\ Len(Destroyed(ss, s)) = Len(ss)
    BY <2>1, <2>2, <2>3
  <2>5. \A k \in 1..Len(ss) : Destroyed(ss, s)[k] =
          IF k = s THEN [ss[s] EXCEPT !.status = "destroyed"] ELSE ss[k]
    BY <2>1, <2>3
  <2>6. PICK x : x = [ss[s] EXCEPT !.status = "destroyed"]
    OBVIOUS
  <2>7. x.token = ss[s].token /\ x.gen = ss[s].gen /\ x.identity = ss[s].identity
    BY <2>1, <2>6 DEF Sessions
  <2> QED
    BY <1>1, <2>1, <2>4, <2>5, <2>6, <2>7
<1>2. CASE ~(s # 0 /\ ss[s].status = "running")
  BY <1>2 DEF Destroyed
<1> QED
  BY <1>1, <1>2

\* The preferred identity is one of the request's.
LEMMA PreferredIsEligible ==
  ASSUME NEW ids \in SUBSET Identities, ids # {}
  PROVE  Preferred(ids) \in ids
  BY DEF Preferred

\* Cancelling a session posts at most one completion, of a known request.
LEMMA CancelEventsType ==
  ASSUME TypeOK
  PROVE  CancelEvents(session) \in Seq(Events)
<1>1. CASE session # 0 /\ sessions[session].status = "running"
  <2> DEFINE e == [kind |-> "completed", token |-> sessions[session].token,
                   gen |-> sessions[session].gen, ok |-> FALSE]
  <2>1. sessions[session] \in Sessions
    BY <1>1 DEF TypeOK
  <2>2. e \in Events
    BY <2>1 DEF Sessions, Events, CompletedEvents
  <2>3. CancelEvents(session) = <<e>>
    BY <1>1 DEF CancelEvents
  <2> HIDE DEF e
  <2> QED
    BY <2>2, <2>3
<1>2. CASE ~(session # 0 /\ sessions[session].status = "running")
  BY <1>2 DEF CancelEvents
<1> QED
  BY <1>1, <1>2

\* Erasing the k-th element keeps the others, in order.
LEMMA RemoveAtType ==
  ASSUME NEW S, NEW q \in Seq(S), NEW k \in DOMAIN q
  PROVE  /\ RemoveAt(q, k) \in Seq(S)
         /\ Len(RemoveAt(q, k)) = Len(q) - 1
         /\ \A j \in 1..(Len(q) - 1) :
              RemoveAt(q, k)[j] = IF j < k THEN q[j] ELSE q[j + 1]
<1>1. k \in 1..Len(q)
  OBVIOUS
<1>2. /\ SubSeq(q, 1, k - 1) \in Seq(S)
      /\ Len(SubSeq(q, 1, k - 1)) = k - 1
      /\ \A j \in 1..(k - 1) : SubSeq(q, 1, k - 1)[j] = q[j]
  BY <1>1
<1>3. /\ SubSeq(q, k + 1, Len(q)) \in Seq(S)
      /\ Len(SubSeq(q, k + 1, Len(q))) = Len(q) - k
      /\ \A j \in 1..(Len(q) - k) : SubSeq(q, k + 1, Len(q))[j] = q[k + j]
  BY <1>1
<1> DEFINE a == SubSeq(q, 1, k - 1)
           b == SubSeq(q, k + 1, Len(q))
<1>4. RemoveAt(q, k) = a \o b
  BY DEF RemoveAt
<1>5. a \in Seq(S) /\ Len(a) = k - 1 /\ \A j \in 1..(k - 1) : a[j] = q[j]
  BY <1>2
<1>6. b \in Seq(S) /\ Len(b) = Len(q) - k /\ \A j \in 1..(Len(q) - k) : b[j] = q[k + j]
  BY <1>3
<1> HIDE DEF a, b
<1>7. a \o b \in Seq(S) /\ Len(a \o b) = Len(q) - 1
  BY <1>1, <1>5, <1>6, ConcatProperties
<1>8. \A j \in 1..(Len(q) - 1) : (a \o b)[j] = IF j < k THEN a[j] ELSE b[j - (k - 1)]
  BY <1>1, <1>5, <1>6, ConcatProperties
<1>9. \A j \in 1..(Len(q) - 1) : (a \o b)[j] = IF j < k THEN q[j] ELSE q[j + 1]
  <2> TAKE j \in 1..(Len(q) - 1)
  <2>1. CASE j < k
    BY <1>1, <1>5, <1>8, <2>1
  <2>2. CASE ~(j < k)
    <3>1. j - (k - 1) \in 1..(Len(q) - k) /\ k + (j - (k - 1)) = j + 1
      BY <1>1, <2>2
    <3> QED
      BY <1>6, <1>8, <2>2, <3>1
  <2> QED
    BY <2>1, <2>2
<1> QED
  BY <1>4, <1>7, <1>9

\* finishActive keeps the types of what it changes.
LEMMA FinishActiveType ==
  ASSUME TypeOK, NEW r, NEW m \in Prompts, NEW ok \in BOOLEAN, NEW sched \in BOOLEAN,
         FinishActive(r, m, ok, sched)
  PROVE  /\ outcome' \in [Tokens -> Outcomes]
         /\ active' \in Records
         /\ session' = 0
         /\ prompt' \in Prompts
         /\ scheduled' \in BOOLEAN
<1>1. \A o \in Outcomes : Answered(o, ok) \in Outcomes
  BY DEF Answered, Outcomes
<1>2. outcome' \in [Tokens -> Outcomes]
  BY <1>1 DEF FinishActive, TypeOK
<1>3. active' \in Records /\ session' = 0
  BY DEF FinishActive, Records
<1>4. prompt' \in Prompts
  BY PromptTypes DEF FinishActive
<1>5. scheduled' \in BOOLEAN
  BY DEF FinishActive, ScheduleActivation, TypeOK
<1> QED
  BY <1>2, <1>3, <1>4, <1>5

\* startSession keeps the types of what it changes.
LEMMA StartSessionType ==
  ASSUME TypeOK, NEW r \in Records, r.token \in Tokens, NEW m \in Prompts,
         NEW i \in Identities, NEW sched \in BOOLEAN, StartSession(r, m, i, sched)
  PROVE  /\ outcome' \in [Tokens -> Outcomes]
         /\ active' \in Records
         /\ sessions' \in Seq(Sessions)
         /\ session' \in 0..Len(sessions')
         /\ prompt' \in Prompts
         /\ scheduled' \in BOOLEAN
<1>1. CASE i \notin eligible[r.token]
  BY <1>1 DEF StartSession, TypeOK
<1>2. CASE /\ i \in eligible[r.token]
           /\ FinishActive(r, m, FALSE, sched)
           /\ sessions' = Destroyed(sessions, session)
  <2>1. FALSE \in BOOLEAN
    OBVIOUS
  <2>2. sessions' \in Seq(Sessions)
    BY <1>2, DestroyedType DEF TypeOK
  <2>3. /\ outcome' \in [Tokens -> Outcomes] /\ active' \in Records /\ session' = 0
        /\ prompt' \in Prompts /\ scheduled' \in BOOLEAN
    BY <1>2, <2>1, FinishActiveType
  <2> QED
    BY <2>2, <2>3
<1>3. CASE /\ i \in eligible[r.token]
           /\ sessions' = Append(Destroyed(sessions, session),
                                 [token |-> r.token, gen |-> r.gen, identity |-> i,
                                  status |-> "running"])
           /\ session' = Len(sessions) + 1
           /\ active' = [r EXCEPT !.identity = i]
           /\ prompt' = MarkBusy(m)
           /\ scheduled' = sched
           /\ UNCHANGED outcome
  <2>1. r.gen \in Nat
    BY DEF Records, NoRecord
  <2>2. [token |-> r.token, gen |-> r.gen, identity |-> i, status |-> "running"] \in Sessions
    BY <2>1 DEF Sessions, Statuses
  <2>3. active' \in Records
    BY <1>3, <2>1 DEF Records, NoRecord
  <2>4. sessions' \in Seq(Sessions) /\ session' \in 0..Len(sessions')
    BY <1>3, <2>2, DestroyedType DEF TypeOK
  <2> QED
    BY <1>3, <2>3, <2>4, PromptTypes DEF TypeOK
<1> QED
  BY <1>1, <1>2, <1>3 DEF StartSession

(***************************************************************************)
(* Type correctness.                                                       *)
(***************************************************************************)

\* The agent starts with well-typed state.
LEMMA TypeInit == Init => TypeOK
<1> SUFFICES ASSUME Init PROVE TypeOK
  OBVIOUS
<1>1. prompt \in Prompts
  BY MaxRequestsAssumption DEF Init, IdlePrompt, Prompts, Lifecycles, InputModes
<1>2. outcome \in [Tokens -> Outcomes] /\ eligible \in [Tokens -> SUBSET Identities]
  BY DEF Init, Outcomes
<1>3. active \in Records /\ posted \in Seq(Events) /\ queue \in Seq(Tokens)
  BY DEF Init, Records
<1>5. received \in 0..MaxRequests /\ cancelled \subseteq Tokens
  BY MaxRequestsAssumption DEF Init
<1>6. scheduled \in BOOLEAN /\ stopping \in BOOLEAN /\ running \in BOOLEAN
  BY DEF Init
<1>4. sessions \in Seq(Sessions) /\ session \in 0..Len(sessions)
  BY DEF Init
<1> QED
  BY <1>1, <1>2, <1>3, <1>4, <1>5, <1>6 DEF TypeOK

\* Every event of the agent keeps the types.
LEMMA TypeStep == TypeOK /\ [Next]_vars => TypeOK'
<1> SUFFICES ASSUME TypeOK, [Next]_vars PROVE TypeOK'
  OBVIOUS
<1>ev. RequestEvents \subseteq Events /\ CompletedEvents \subseteq Events
  BY DEF Events
<1>hd. posted # <<>> => Head(posted) \in Events /\ Tail(posted) \in Seq(Events)
  BY DEF TypeOK
<1>1. ASSUME NEW ids \in SUBSET Identities, Receive(ids) PROVE TypeOK'
  BY <1>1, MaxRequestsAssumption DEF Receive, TypeOK, Tokens, Events, RequestEvents, Outcomes
<1>2. ASSUME NEW t \in Tokens, AuthorityCancel(t) PROVE TypeOK'
  BY <1>2 DEF Events, RequestEvents, AuthorityCancel, TypeOK
<1>3. ASSUME DeliverRequest PROVE TypeOK'
  <2>1. Head(posted).token \in Tokens /\ Tail(posted) \in Seq(Events)
    BY <1>3, <1>hd DEF DeliverRequest, EventIs, Events, RequestEvents, CompletedEvents
  <2>2. outcome' \in [Tokens -> Outcomes]
    BY <1>3 DEF DeliverRequest, TypeOK, Answered, Outcomes
  <2>3. queue' \in Seq(Tokens)
    <3>1. queue' = queue \/ queue' = Append(queue, Head(posted).token)
      BY <1>3 DEF DeliverRequest, Enqueued
    <3>2. queue \in Seq(Tokens)
      BY DEF TypeOK
    <3> QED
      BY <2>1, <3>1, <3>2
  <2>4. scheduled' \in BOOLEAN
    BY <1>3 DEF DeliverRequest, TypeOK, ScheduleActivation
  <2> QED
    BY <1>3, <2>1, <2>2, <2>3, <2>4 DEF DeliverRequest, TypeOK, authority
<1>4. ASSUME DeliverCancel PROVE TypeOK'
  <2> DEFINE t == Head(posted).token
  <2>1. t \in Tokens /\ Tail(posted) \in Seq(Events)
    BY <1>4, <1>hd DEF DeliverCancel, EventIs, Events, RequestEvents, CompletedEvents
  <2>2. CASE CancelActive(prompt, Tail(posted))
    <3>1. prompt \in Prompts /\ scheduled \in BOOLEAN /\ FALSE \in BOOLEAN
      BY DEF TypeOK
    <3>2. posted' \in Seq(Events)
      BY <2>1, <2>2, CancelEventsType DEF CancelActive
    <3>3. sessions' \in Seq(Sessions)
      BY <2>2, DestroyedType DEF CancelActive, TypeOK
    <3>4. FinishActive(active, prompt, FALSE, scheduled)
      BY <2>2 DEF CancelActive
    <3> QED
      <4>1. /\ outcome' \in [Tokens -> Outcomes] /\ active' \in Records /\ session' = 0
            /\ prompt' \in Prompts /\ scheduled' \in BOOLEAN
        BY <3>1, <3>4, FinishActiveType
      <4> QED
        BY <1>4, <2>2, <3>2, <3>3, <4>1 DEF DeliverCancel, CancelActive, TypeOK, authority
  <2>3. CASE /\ \E k \in DOMAIN queue : queue' = RemoveAt(queue, k)
             /\ outcome' = [outcome EXCEPT ![t] = Answered(@, FALSE)]
             /\ posted' = Tail(posted)
             /\ UNCHANGED <<active, session, sessions, scheduled, prompt>>
    <3>1. queue' \in Seq(Tokens)
      BY <2>3, RemoveAtType DEF TypeOK
    <3>2. outcome' \in [Tokens -> Outcomes]
      BY <2>3 DEF TypeOK, Answered, Outcomes
    <3> QED
      BY <1>4, <2>1, <2>3, <3>1, <3>2 DEF DeliverCancel, TypeOK, authority
  <2>4. CASE /\ posted' = Tail(posted)
             /\ UNCHANGED <<outcome, queue, active, session, sessions, scheduled, prompt>>
    BY <1>4, <2>1, <2>4 DEF DeliverCancel, TypeOK, authority
  <2> QED
    BY <1>4, <2>2, <2>3, <2>4 DEF DeliverCancel
<1>5. ASSUME DeliverCompleted PROVE TypeOK'
  <2> DEFINE e == Head(posted)
  <2>1. Tail(posted) \in Seq(Events)
    BY <1>5, <1>hd DEF DeliverCompleted, EventIs
  <2>2. CASE /\ FinishActive(active, prompt, TRUE, scheduled)
             /\ sessions' = Destroyed(sessions, session)
    <3>1. sessions' \in Seq(Sessions)
      BY <2>2, DestroyedType DEF TypeOK
    <3> QED
      <4>1. prompt \in Prompts /\ scheduled \in BOOLEAN /\ TRUE \in BOOLEAN
        BY DEF TypeOK
      <4>2. /\ outcome' \in [Tokens -> Outcomes] /\ active' \in Records /\ session' = 0
            /\ prompt' \in Prompts /\ scheduled' \in BOOLEAN
        BY <2>2, <4>1, FinishActiveType
      <4> QED
        BY <1>5, <2>1, <3>1, <4>2 DEF DeliverCompleted, TypeOK, authority
  <2>3. CASE /\ session' = NoSession
             /\ sessions' = Destroyed(sessions, session)
             /\ prompt' = MarkRetryableError(prompt)
             /\ UNCHANGED <<outcome, active, scheduled>>
    BY <2>3, DestroyedType, PromptTypes, <1>5, <2>1 DEF TypeOK, DeliverCompleted, authority
  <2>4. CASE UNCHANGED <<outcome, active, session, sessions, scheduled, prompt>>
    BY <1>5, <2>1, <2>4 DEF DeliverCompleted, TypeOK, authority
  <2> QED
    BY <1>5, <2>2, <2>3, <2>4 DEF DeliverCompleted
<1>6. ASSUME Activate PROVE TypeOK'
  <2> DEFINE t == Head(queue)
             r == [token |-> t, gen |-> 0, identity |-> NoIdentity]
             m == BeginRequest(prompt, t, eligible[t], "None")
             a == [token |-> t, gen |-> m.gen, identity |-> Preferred(eligible[t])]
  <2>1. CASE /\ scheduled' = FALSE
             /\ UNCHANGED <<outcome, queue, active, session, sessions, prompt>>
    BY <1>6, <2>1 DEF Activate, TypeOK, authority
  <2>2. ASSUME queue # <<>>, queue' = Tail(queue) PROVE t \in Tokens /\ queue' \in Seq(Tokens)
    BY <2>2 DEF TypeOK
  <2>3. CASE /\ queue # <<>>
             /\ queue' = Tail(queue)
             /\ FinishActive(r, prompt, FALSE, FALSE)
             /\ sessions' = Destroyed(sessions, session)
    <3>1. sessions' \in Seq(Sessions)
      BY <2>3, DestroyedType DEF TypeOK
    <3>2. prompt \in Prompts /\ FALSE \in BOOLEAN
      BY DEF TypeOK
    <3> HIDE DEF r
    <3>3. /\ outcome' \in [Tokens -> Outcomes] /\ active' \in Records /\ session' = 0
          /\ prompt' \in Prompts /\ scheduled' \in BOOLEAN
      BY <2>3, <3>2, FinishActiveType
    <3> QED
      BY <1>6, <2>2, <2>3, <3>1, <3>3 DEF Activate, TypeOK, authority
  <2>4. ASSUME queue # <<>>, queue' = Tail(queue), eligible[t] # {}
        PROVE  a \in Records /\ a.token \in Tokens /\ m \in Prompts /\ a.identity \in Identities
    <3>1. eligible[t] \in SUBSET Identities
      BY <2>2, <2>4 DEF TypeOK
    <3>2. m \in Prompts
      BY <2>2, <2>4, <3>1, PromptTypes DEF TypeOK
    <3>3. m.gen \in Nat
      BY <3>2 DEF Prompts
    <3>4. Preferred(eligible[t]) \in Identities
      BY <2>4, <3>1, PreferredIsEligible
    <3> HIDE DEF m
    <3> QED
      BY <2>2, <2>4, <3>2, <3>3, <3>4 DEF Records
  <2>5. CASE /\ queue # <<>>
             /\ queue' = Tail(queue)
             /\ eligible[t] # {}
             /\ active' = a
             /\ prompt' = m
             /\ scheduled' = FALSE
             /\ UNCHANGED <<outcome, session, sessions>>
    <3> HIDE DEF a, m
    <3> QED
      BY <1>6, <2>2, <2>4, <2>5 DEF Activate, TypeOK, authority
  <2>6. CASE /\ queue # <<>>
             /\ queue' = Tail(queue)
             /\ eligible[t] # {}
             /\ StartSession(a, m, a.identity, FALSE)
    <3> HIDE DEF a, m
    <3>1. FALSE \in BOOLEAN
      OBVIOUS
    <3> QED
      BY <1>6, <2>2, <2>4, <2>6, <3>1, StartSessionType DEF Activate, TypeOK, authority
  <2> QED
    BY <1>6, <2>1, <2>3, <2>5, <2>6 DEF Activate
<1>7. ASSUME PamPrompt PROVE TypeOK'
  BY <1>7, PromptTypes DEF PamPrompt, TypeOK, authority
<1>8. ASSUME NEW ok \in BOOLEAN, PamComplete(ok) PROVE TypeOK'
  <2>1. session \in 1..Len(sessions)
    BY <1>8 DEF PamComplete, SessionIsRunning, TypeOK
  <2>2. sessions[session] \in Sessions
    BY <2>1 DEF TypeOK
  <2>3. sessions' \in Seq(Sessions) /\ Len(sessions') = Len(sessions)
    <3> DEFINE status == IF ok THEN "succeeded" ELSE "failed"
    <3>1. [sessions[session] EXCEPT !.status = status] \in Sessions
      BY <2>2 DEF Sessions, Statuses
    <3>2. sessions' = [sessions EXCEPT ![session] = [sessions[session] EXCEPT !.status = status]]
      BY <1>8 DEF PamComplete
    <3> QED
      BY <2>1, <3>1, <3>2 DEF TypeOK
  <2>4. posted' \in Seq(Events)
    BY <1>8, <2>2 DEF PamComplete, TypeOK, Events, CompletedEvents, Sessions
  <2> QED
    BY <1>8, <2>3, <2>4 DEF PamComplete, TypeOK, authority
<1>9. ASSUME UserRespond PROVE TypeOK'
  BY <1>9, PromptTypes DEF UserRespond, TypeOK, authority
<1>10. ASSUME NEW i \in Identities, UserSelect(i) PROVE TypeOK'
  BY <1>10, PromptTypes, StartSessionType DEF UserSelect, Delivers, TypeOK, Records, authority
<1>11. ASSUME UserRetry PROVE TypeOK'
  <2> DEFINE m == Retried(prompt)
             r == [active EXCEPT !.gen = m.gen]
  <2>1. m \in Prompts /\ scheduled \in BOOLEAN
    BY PromptTypes DEF TypeOK
  <2>2. m.gen \in Nat
    BY <2>1 DEF Prompts
  <2> HIDE DEF m
  <2>3. r \in Records /\ r.token \in Tokens /\ r.identity \in Identities
    BY <1>11, <2>2 DEF UserRetry, Delivers, TypeOK, Records
  <2> HIDE DEF r
  <2>4. CASE StartSession(r, m, r.identity, scheduled)
    BY <1>11, <2>1, <2>3, <2>4, StartSessionType DEF UserRetry, TypeOK, authority
  <2>5. CASE /\ active' = r
             /\ prompt' = m
             /\ session' = NoSession
             /\ sessions' = Destroyed(sessions, session)
             /\ UNCHANGED <<outcome, scheduled>>
    BY <2>5, DestroyedType, <1>11, <2>1, <2>3 DEF TypeOK, UserRetry, authority
  <2> QED
    BY <1>11, <2>4, <2>5 DEF UserRetry, m, r
<1>12. ASSUME UserCancel PROVE TypeOK'
  <2>1. Dismiss(prompt) \in Prompts /\ scheduled \in BOOLEAN /\ FALSE \in BOOLEAN
    BY PromptTypes DEF TypeOK
  <2>2. posted' \in Seq(Events) /\ sessions' \in Seq(Sessions)
    BY <1>12, CancelEventsType, DestroyedType DEF UserCancel, CancelActive, TypeOK
  <2>3. FinishActive(active, Dismiss(prompt), FALSE, scheduled)
    BY <1>12 DEF UserCancel, CancelActive
  <2> QED
    <3>1. /\ outcome' \in [Tokens -> Outcomes] /\ active' \in Records /\ session' = 0
          /\ prompt' \in Prompts /\ scheduled' \in BOOLEAN
      BY <2>1, <2>3, FinishActiveType
    <3> QED
      BY <1>12, <2>2, <3>1 DEF UserCancel, CancelActive, TypeOK, authority
<1>13. ASSUME Quit PROVE TypeOK'
  <2>1. prompt' \in Prompts
    BY <1>13, PromptTypes DEF Quit, TypeOK
  <2>2. posted' \in Seq(Events) /\ sessions' \in Seq(Sessions)
    BY <1>13, CancelEventsType, DestroyedType DEF Quit, TypeOK
  <2>3. outcome' \in [Tokens -> Outcomes]
    BY <1>13 DEF Quit, TypeOK, Answered, Outcomes
  <2>4. queue' \in Seq(Tokens) /\ active' \in Records /\ session' \in 0..Len(sessions')
    BY <1>13, <2>2 DEF Quit, Records
  <2> QED
    BY <1>13, <2>1, <2>2, <2>3, <2>4 DEF Quit, TypeOK, authority
<1>14. CASE UNCHANGED vars
  BY <1>14 DEF vars, TypeOK
<1> QED
  BY <1>1, <1>2, <1>3, <1>4, <1>5, <1>6, <1>7, <1>8, <1>9, <1>10, <1>11, <1>12, <1>13, <1>14
  DEF Next, Authority, Loop, Pam, User

\* Every reachable state of the agent has the types its classes declare.
THEOREM TypeCorrect == Spec => []TypeOK
  BY TypeInit, TypeStep, PTL DEF Spec

(***************************************************************************)
(* What the changes of the two sequences do to the requests they hold.     *)
(***************************************************************************)

\* Posting a call that is no request leaves the requests in transit alone.
LEMMA PostedAppend ==
  ASSUME NEW p \in Seq(Events), NEW e \in Events, e.kind # "request", SortedRequests(p)
  PROVE  InTransit(Append(p, e)) = InTransit(p) /\ SortedRequests(Append(p, e))
BY DEF InTransit, SortedRequests

\* So does cancelling a session.
LEMMA PostedCancelEvents ==
  ASSUME TypeOK, NEW p \in Seq(Events), SortedRequests(p)
  PROVE  /\ InTransit(p \o CancelEvents(session)) = InTransit(p)
         /\ SortedRequests(p \o CancelEvents(session))
<1>1. CASE session # 0 /\ sessions[session].status = "running"
  <2> DEFINE e == [kind |-> "completed", token |-> sessions[session].token,
                   gen |-> sessions[session].gen, ok |-> FALSE]
  <2>1. sessions[session] \in Sessions
    BY <1>1 DEF TypeOK
  <2>2. e \in Events /\ e.kind # "request"
    BY <2>1 DEF Sessions, Events, CompletedEvents
  <2>3. CancelEvents(session) = <<e>>
    BY <1>1 DEF CancelEvents
  <2> HIDE DEF e
  <2>4. p \o <<e>> = Append(p, e)
    BY <2>2
  <2> QED
    BY <2>2, <2>3, <2>4, PostedAppend
<1>2. CASE ~(session # 0 /\ sessions[session].status = "running")
  <2>1. CancelEvents(session) = <<>>
    BY <1>2 DEF CancelEvents
  <2>2. p \o <<>> = p
    BY ConcatEmptySeq
  <2> QED
    BY <2>1, <2>2
<1> QED
  BY <1>1, <1>2

\* Taking the first posted call: a request leaves the loop and is older than
\* those still in it.
LEMMA PostedTail ==
  ASSUME NEW p \in Seq(Events), p # <<>>, SortedRequests(p)
  PROVE  /\ SortedRequests(Tail(p))
         /\ Head(p).kind # "request" => InTransit(Tail(p)) = InTransit(p)
         /\ Head(p).kind = "request" =>
              /\ InTransit(p) = InTransit(Tail(p)) \cup {Head(p).token}
              /\ \A t \in InTransit(Tail(p)) : Head(p).token < t
<1> DEFINE n == Tail(p)
<1>1. /\ DOMAIN p = 1..Len(p) /\ DOMAIN n = 1..(Len(p) - 1) /\ Head(p) = p[1]
      /\ \A k \in 1..(Len(p) - 1) : n[k] = p[k + 1]
      /\ Len(p) \in Nat /\ Len(p) >= 1
  OBVIOUS
<1> HIDE DEF n
<1>2. SortedRequests(n)
  <2> SUFFICES ASSUME NEW k \in DOMAIN n, NEW l \in DOMAIN n, k < l,
                      n[k].kind = "request", n[l].kind = "request"
               PROVE  n[k].token < n[l].token
    BY DEF SortedRequests
  <2>1. /\ k + 1 \in DOMAIN p /\ l + 1 \in DOMAIN p /\ k + 1 < l + 1
        /\ n[k] = p[k + 1] /\ n[l] = p[l + 1]
    BY <1>1
  <2> QED
    BY <2>1 DEF SortedRequests
<1>3. ASSUME NEW t \in InTransit(n) PROVE \E k \in DOMAIN p : k > 1 /\ p[k].kind = "request" /\ p[k].token = t
  <2>1. PICK l \in DOMAIN n : n[l].kind = "request" /\ n[l].token = t
    BY <1>3 DEF InTransit
  <2>2. l + 1 \in DOMAIN p /\ l + 1 > 1 /\ n[l] = p[l + 1]
    BY <1>1
  <2> QED
    BY <2>1, <2>2
<1>4. ASSUME NEW k \in DOMAIN p, k > 1, p[k].kind = "request" PROVE p[k].token \in InTransit(n)
  <2>1. k - 1 \in DOMAIN n /\ n[k - 1] = p[k]
    BY <1>1, <1>4
  <2> QED
    BY <1>4, <2>1 DEF InTransit
<1>5. \A t \in InTransit(n) : t \in InTransit(p)
  BY <1>3 DEF InTransit
<1>6. ASSUME NEW t \in InTransit(p), t \notin InTransit(n) PROVE t = p[1].token /\ p[1].kind = "request"
  BY <1>1, <1>4, <1>6 DEF InTransit
<1>7. Head(p).kind = "request" =>
        /\ Head(p).token \in InTransit(p)
        /\ \A t \in InTransit(n) : Head(p).token < t
  BY <1>1, <1>3 DEF InTransit, SortedRequests
<1> QED
  BY <1>1, <1>2, <1>5, <1>6, <1>7 DEF n

\* Taking the head of a sorted queue: it is the oldest.
LEMMA QueueTail ==
  ASSUME NEW q \in Seq(Tokens), q # <<>>, Sorted(q)
  PROVE  /\ Sorted(Tail(q))
         /\ ToSet(q) = ToSet(Tail(q)) \cup {Head(q)}
         /\ \A t \in ToSet(Tail(q)) : Head(q) < t
<1> DEFINE n == Tail(q)
<1>1. /\ DOMAIN q = 1..Len(q) /\ DOMAIN n = 1..(Len(q) - 1) /\ Head(q) = q[1]
      /\ \A k \in 1..(Len(q) - 1) : n[k] = q[k + 1]
      /\ Len(q) \in Nat /\ Len(q) >= 1
  OBVIOUS
<1> HIDE DEF n
<1>2. Sorted(n)
  <2> SUFFICES ASSUME NEW i \in DOMAIN n, NEW j \in DOMAIN n, i < j PROVE n[i] < n[j]
    BY DEF Sorted
  <2>1. /\ i + 1 \in DOMAIN q /\ j + 1 \in DOMAIN q /\ i + 1 < j + 1
        /\ n[i] = q[i + 1] /\ n[j] = q[j + 1]
    BY <1>1
  <2> QED
    BY <2>1 DEF Sorted
<1>3. ASSUME NEW t \in ToSet(n) PROVE \E k \in DOMAIN q : k > 1 /\ q[k] = t
  BY <1>1 DEF ToSet
<1>4. ASSUME NEW k \in DOMAIN q, k > 1 PROVE q[k] \in ToSet(n)
  <2>1. k - 1 \in DOMAIN n /\ n[k - 1] = q[k]
    BY <1>1, <1>4
  <2> QED
    BY <2>1 DEF ToSet
<1>5. \A t \in ToSet(n) : Head(q) < t
  BY <1>1, <1>3 DEF Sorted
<1>6. \A t \in ToSet(n) \cup {Head(q)} : t \in ToSet(q)
  BY <1>1, <1>3 DEF ToSet
<1>7. \A t \in ToSet(q) : t \in ToSet(n) \cup {Head(q)}
  BY <1>1, <1>4 DEF ToSet
<1> QED
  BY <1>2, <1>5, <1>6, <1>7 DEF n

\* Erasing a queued request removes that request only.
LEMMA QueueErase ==
  ASSUME NEW q \in Seq(Tokens), NEW k \in DOMAIN q, Sorted(q)
  PROVE  /\ Sorted(RemoveAt(q, k))
         /\ ToSet(RemoveAt(q, k)) = ToSet(q) \ {q[k]}
<1> DEFINE n == RemoveAt(q, k)
<1>1. /\ DOMAIN q = 1..Len(q) /\ Len(q) \in Nat /\ k \in 1..Len(q)
  OBVIOUS
<1>2. /\ DOMAIN n = 1..(Len(q) - 1)
      /\ \A j \in 1..(Len(q) - 1) : n[j] = IF j < k THEN q[j] ELSE q[j + 1]
  BY RemoveAtType
<1> HIDE DEF n
<1>q. \A j \in DOMAIN q : q[j] \in Nat
  BY MaxRequestsAssumption DEF Tokens
<1>3. Sorted(n)
  BY <1>1, <1>2 DEF Sorted
<1>4. ASSUME NEW t \in ToSet(n) PROVE t \in ToSet(q) \ {q[k]}
  <2>1. PICK j \in DOMAIN n : n[j] = t
    BY DEF ToSet
  <2> DEFINE x == IF j < k THEN j ELSE j + 1
  <2>2. x \in DOMAIN q /\ x # k /\ q[x] = t
    BY <1>1, <1>2, <2>1
  <2>3. q[x] # q[k]
    BY <1>1, <2>2, <1>q DEF Sorted
  <2> QED
    BY <2>2, <2>3 DEF ToSet
<1>5. ASSUME NEW t \in ToSet(q), t # q[k] PROVE t \in ToSet(n)
  <2>1. PICK j \in DOMAIN q : q[j] = t
    BY DEF ToSet
  <2>2. CASE j < k
    BY <1>1, <1>2, <2>2, <2>1 DEF ToSet
  <2>3. CASE j > k
    <3>1. j - 1 \in DOMAIN n /\ n[j - 1] = q[j]
      BY <1>1, <1>2, <2>3
    <3> QED
      BY <2>1, <3>1 DEF ToSet
  <2>4. j # k
    BY <1>5, <2>1
  <2> QED
    BY <1>1, <2>2, <2>3, <2>4
<1> QED
  BY <1>3, <1>4, <1>5 DEF n

\* Appending a younger request keeps the queue sorted.
LEMMA QueueAppend ==
  ASSUME NEW q \in Seq(Tokens), NEW t \in Tokens, Sorted(q), \A u \in ToSet(q) : u < t
  PROVE  Sorted(Append(q, t)) /\ ToSet(Append(q, t)) = ToSet(q) \cup {t}
<1> DEFINE n == Append(q, t)
<1>1. /\ DOMAIN q = 1..Len(q) /\ Len(q) \in Nat
      /\ DOMAIN n = 1..(Len(q) + 1) /\ n[Len(q) + 1] = t
      /\ \A k \in 1..Len(q) : n[k] = q[k]
  OBVIOUS
<1> HIDE DEF n
<1>2. ToSet(n) = ToSet(q) \cup {t}
  BY <1>1 DEF ToSet
<1>3. Sorted(n)
  BY <1>1 DEF Sorted, ToSet
<1> QED
  BY <1>2, <1>3 DEF n

(***************************************************************************)
(* Seen from polkitd every step of the agent has one of six shapes.        *)
(***************************************************************************)

\* What the shapes of a step between arrival and exit share.
Frame ==
  /\ running
  /\ UNCHANGED <<received, running, stopping>>
  /\ SortedRequests(posted')
Loop0 == InTransit(posted') = InTransit(posted)

Quiet ==
  Frame /\ Loop0 /\ UNCHANGED <<outcome, queue>> /\ active'.token = active.token

AnswersActive ==
  /\ Frame /\ Loop0
  /\ active.token # 0
  /\ \E v \in {"granted", "denied"} : outcome' = [outcome EXCEPT ![active.token] = v]
  /\ active'.token = 0
  /\ UNCHANGED queue

Drops(t) ==
  /\ Frame /\ Loop0
  /\ t \in ToSet(queue)
  /\ outcome' = [outcome EXCEPT ![t] = "denied"]
  /\ active'.token = active.token
  /\ Sorted(queue') /\ ToSet(queue') = ToSet(queue) \ {t}

Takes(t) ==
  /\ Frame /\ Loop0
  /\ active.token = 0
  /\ t \in ToSet(queue)
  /\ \A u \in ToSet(queue) : t <= u
  /\ UNCHANGED outcome
  /\ active'.token = t
  /\ Sorted(queue') /\ ToSet(queue') = ToSet(queue) \ {t}

Enqueues(t) ==
  /\ Frame
  /\ UNCHANGED outcome
  /\ active'.token = active.token
  /\ InTransit(posted) = InTransit(posted') \cup {t}
  /\ \A u \in InTransit(posted') : t < u
  /\ Sorted(queue') /\ ToSet(queue') = ToSet(queue) \cup {t}

\* The coordinator's active record is null or holds a token.
LEMMA RecordTokens ==
  ASSUME TypeOK
  PROVE  /\ active.token \in 0..MaxRequests
         /\ active = NoRecord <=> active.token = 0
         /\ active # NoRecord => active.token \in Tokens
  BY MaxRequestsAssumption DEF TypeOK, Records, NoRecord, Tokens

\* Every request queued or in transit is a token of the bridge.
LEMMA HeldTokens ==
  ASSUME TypeOK
  PROVE  ToSet(queue) \subseteq Tokens /\ InTransit(posted) \subseteq Tokens
<1>1. ToSet(queue) \subseteq Tokens
  BY DEF ToSet, TypeOK
<1>2. ASSUME NEW k \in DOMAIN posted PROVE posted[k].token \in Tokens
  BY DEF TypeOK, Events, RequestEvents, CompletedEvents
<1> QED
  BY <1>1, <1>2 DEF InTransit

\* Answering a pending request denies or grants it.
LEMMA PendingAnswer ==
  ASSUME NEW t, outcome[t] = "pending"
  PROVE  /\ Answered(outcome[t], FALSE) = "denied"
         /\ Answered(outcome[t], TRUE) = "granted"
  BY DEF Answered

\* finishActive on the active request, whatever the model and the answer.
LEMMA FinishShape ==
  ASSUME TypeOK, RequestsInv, active # NoRecord, NEW m, NEW ok \in BOOLEAN, NEW sched,
         FinishActive(active, m, ok, sched)
  PROVE  /\ active.token # 0 /\ active'.token = 0
         /\ \E v \in {"granted", "denied"} : outcome' = [outcome EXCEPT ![active.token] = v]
<1>1. active.token \in Tokens /\ active.token # 0
  BY RecordTokens
<1>2. outcome[active.token] = "pending"
  BY <1>1 DEF RequestsInv
<1>3. Answered(outcome[active.token], ok) \in {"granted", "denied"}
  BY <1>2, PendingAnswer
<1>4. active' = NoRecord /\ outcome' = [outcome EXCEPT ![active.token] = Answered(outcome[active.token], ok)]
  BY DEF FinishActive
<1> QED
  BY <1>1, <1>3, <1>4 DEF NoRecord

IsRecord(r) == \E t, g, i : r = [token |-> t, gen |-> g, identity |-> i]

\* startSession either leaves the requests alone or refuses its own.
LEMMA StartShape ==
  ASSUME NEW r, IsRecord(r), NEW m, NEW i, NEW sched, StartSession(r, m, i, sched)
  PROVE  \/ UNCHANGED outcome /\ active'.token = r.token
         \/ FinishActive(r, m, FALSE, sched)
<1>1. [r EXCEPT !.identity = i].token = r.token
  BY DEF IsRecord
<1>2. \/ UNCHANGED outcome /\ active' = r
      \/ UNCHANGED outcome /\ active' = [r EXCEPT !.identity = i]
      \/ FinishActive(r, m, FALSE, sched)
  BY DEF StartSession
<1> QED
  BY <1>1, <1>2

\* An event that answers nothing and moves no request leaves the invariant's
\* variables alone.
LEMMA QuietActions ==
  ASSUME TypeOK, RequestsInv, running, UNCHANGED <<received, running, stopping>>,
         UNCHANGED <<outcome, queue, active>>,
         \/ UNCHANGED posted
         \/ \E e \in Events : e.kind # "request" /\ posted' = Append(posted, e)
  PROVE  Quiet
<1>1. CASE UNCHANGED posted
  BY <1>1 DEF Quiet, Frame, Loop0, RequestsInv
<1>2. ASSUME NEW e \in Events, e.kind # "request", posted' = Append(posted, e)
      PROVE  Quiet
  BY <1>2, PostedAppend DEF TypeOK, RequestsInv, Quiet, Frame, Loop0
<1> QED
  BY <1>1, <1>2

\* cancel of the active request.
LEMMA CancelShape ==
  ASSUME TypeOK, RequestsInv, running, UNCHANGED <<received, running, stopping>>,
         active # NoRecord, NEW m, NEW rest \in Seq(Events),
         InTransit(rest) = InTransit(posted), SortedRequests(rest),
         CancelActive(m, rest)
  PROVE  AnswersActive
<1>1. InTransit(posted') = InTransit(posted) /\ SortedRequests(posted')
  BY PostedCancelEvents DEF CancelActive
<1>2. FinishActive(active, m, FALSE, scheduled) /\ UNCHANGED queue
  BY DEF CancelActive
<1>3. /\ active.token # 0 /\ active'.token = 0
      /\ \E v \in {"granted", "denied"} : outcome' = [outcome EXCEPT ![active.token] = v]
  BY <1>2, FinishShape
<1> QED
  BY <1>1, <1>2, <1>3 DEF AnswersActive, Frame, Loop0

\* A session start for the active request.
LEMMA StartActiveShape ==
  ASSUME TypeOK, RequestsInv, running, active # NoRecord,
         UNCHANGED <<received, running, stopping, queue, posted>>,
         NEW r, IsRecord(r), r.token = active.token, NEW m, NEW i, NEW sched, StartSession(r, m, i, sched)
  PROVE  Quiet \/ AnswersActive
<1>1. Frame /\ Loop0
  BY DEF Frame, Loop0, RequestsInv
<1>2. CASE UNCHANGED outcome /\ active'.token = r.token
  BY <1>1, <1>2 DEF Quiet
<1>3. CASE FinishActive(r, m, FALSE, sched)
  <2>1. FinishActive(active, m, FALSE, sched)
    BY <1>3 DEF FinishActive
  <2> QED
    BY <1>1, <2>1, FinishShape DEF AnswersActive
<1> QED
  BY <1>2, <1>3, StartShape

\* Every event of a running agent has one of the six shapes.
LEMMA StepShape ==
  ASSUME TypeOK, RequestsInv, Next
  PROVE  \/ Quiet
         \/ AnswersActive
         \/ \E t \in Tokens : Drops(t) \/ Takes(t) \/ Enqueues(t)
         \/ \E ids \in SUBSET Identities : Receive(ids)
         \/ Quit
<1>in. posted \in Seq(Events) /\ queue \in Seq(Tokens) /\ SortedRequests(posted) /\ Sorted(queue)
  BY DEF TypeOK, RequestsInv
<1>hd. posted # <<>> => Head(posted) \in Events /\ Tail(posted) \in Seq(Events)
  BY <1>in
<1>2. ASSUME NEW t \in Tokens, AuthorityCancel(t) PROVE Quiet
  BY <1>2, QuietActions DEF Events, RequestEvents, AuthorityCancel
<1>3. ASSUME DeliverRequest PROVE \E t \in Tokens : Enqueues(t)
  <2> DEFINE t == Head(posted).token
  <2>1. running /\ posted # <<>> /\ Head(posted).kind = "request" /\ posted' = Tail(posted)
    BY <1>3 DEF DeliverRequest, EventIs
  <2>2. /\ SortedRequests(posted') /\ InTransit(posted) = InTransit(posted') \cup {t}
        /\ \A u \in InTransit(posted') : t < u
    BY <1>in, <2>1, PostedTail
  <2>3. t \in InTransit(posted) /\ t \in Tokens
    BY <2>2, HeldTokens
  <2>4. ~Refuses(t)
    BY <2>1, <2>3 DEF RequestsInv, Tokens, Refuses
  <2>5. queue' = Append(queue, t) /\ UNCHANGED <<outcome, received, running, stopping, active>>
    BY <1>3, <2>4 DEF DeliverRequest, Enqueued, authority
  <2>6. \A u \in ToSet(queue) : u < t
    BY <2>3 DEF RequestsInv
  <2>7. Sorted(queue') /\ ToSet(queue') = ToSet(queue) \cup {t}
    BY <1>in, <2>3, <2>5, <2>6, QueueAppend
  <2> HIDE DEF t
  <2> QED
    BY <2>1, <2>2, <2>3, <2>5, <2>7 DEF Enqueues, Frame
<1>4. ASSUME DeliverCancel PROVE Quiet \/ AnswersActive \/ \E t \in Tokens : Drops(t)
  <2> DEFINE t == Head(posted).token
  <2>1. /\ running /\ posted # <<>> /\ Head(posted).kind = "cancel"
        /\ UNCHANGED <<received, running, stopping>>
    BY <1>4 DEF DeliverCancel, EventIs, authority
  <2>2. SortedRequests(Tail(posted)) /\ InTransit(Tail(posted)) = InTransit(posted)
    BY <1>in, <2>1, PostedTail
  <2>3. t \in Tokens
    BY <1>hd, <2>1 DEF Events, RequestEvents, CompletedEvents
  <2>4. CASE active.token = t /\ CancelActive(prompt, Tail(posted))
    <3>1. active # NoRecord
      BY <2>3, <2>4, RecordTokens DEF Tokens
    <3> QED
      BY <1>hd, <2>1, <2>2, <2>4, <3>1, CancelShape
  <2>5. CASE /\ active.token # t
             /\ \E k \in DOMAIN queue : queue[k] = t /\ queue' = RemoveAt(queue, k)
             /\ outcome' = [outcome EXCEPT ![t] = Answered(@, FALSE)]
             /\ posted' = Tail(posted)
             /\ UNCHANGED <<active, session, sessions, scheduled, prompt>>
    <3>1. PICK k \in DOMAIN queue : queue[k] = t /\ queue' = RemoveAt(queue, k)
      BY <2>5
    <3>2. Sorted(queue') /\ ToSet(queue') = ToSet(queue) \ {t}
      BY <1>in, <3>1, QueueErase
    <3>3. t \in ToSet(queue)
      BY <3>1 DEF ToSet
    <3>4. outcome[t] = "pending"
      BY <2>3, <3>3 DEF RequestsInv
    <3>5. outcome' = [outcome EXCEPT ![t] = "denied"]
      BY <2>5, <3>4, PendingAnswer
    <3> HIDE DEF t
    <3> QED
      BY <2>1, <2>2, <2>3, <2>5, <3>2, <3>3, <3>5 DEF Drops, Frame, Loop0
  <2>6. CASE /\ posted' = Tail(posted)
             /\ UNCHANGED <<outcome, queue, active, session, sessions, scheduled, prompt>>
    BY <2>1, <2>2, <2>6 DEF Quiet, Frame, Loop0
  <2> QED
    BY <1>4, <2>4, <2>5, <2>6 DEF DeliverCancel
<1>5. ASSUME DeliverCompleted PROVE Quiet \/ AnswersActive
  <2> DEFINE e == Head(posted)
  <2>1. /\ running /\ posted # <<>> /\ Head(posted).kind = "completed" /\ posted' = Tail(posted)
        /\ UNCHANGED <<received, running, stopping, queue>>
    BY <1>5 DEF DeliverCompleted, EventIs, authority
  <2>2. Frame /\ Loop0
    BY <1>in, <2>1, PostedTail DEF Frame, Loop0
  <2>3. CASE CallbackIsCurrent(e.token, e.gen) /\ FinishActive(active, prompt, TRUE, scheduled)
    <3>1. e.token \in Tokens
      BY <1>hd, <2>1 DEF Events, RequestEvents, CompletedEvents
    <3>2. active # NoRecord /\ TRUE \in BOOLEAN
      BY <2>3, <3>1, RecordTokens DEF CallbackIsCurrent, Tokens
    <3> QED
      BY <2>1, <2>2, <2>3, <3>2, FinishShape DEF AnswersActive
  <2>4. CASE UNCHANGED <<outcome, active>>
    BY <2>1, <2>2, <2>4 DEF Quiet
  <2> QED
    BY <1>5, <2>3, <2>4 DEF DeliverCompleted
<1>6. ASSUME Activate PROVE Quiet \/ \E t \in Tokens : Drops(t) \/ Takes(t)
  <2> DEFINE t == Head(queue)
             r == [token |-> t, gen |-> 0, identity |-> NoIdentity]
             m == BeginRequest(prompt, t, eligible[t], "None")
             a == [token |-> t, gen |-> m.gen, identity |-> Preferred(eligible[t])]
  <2>1. Frame /\ Loop0
    BY <1>6, <1>in DEF Activate, authority, Frame, Loop0
  <2>2. CASE UNCHANGED <<outcome, queue, active>>
    BY <2>1, <2>2 DEF Quiet
  <2>3. ASSUME active = NoRecord, queue # <<>>, queue' = Tail(queue)
        PROVE  /\ t \in Tokens /\ t \in ToSet(queue) /\ active.token = 0
               /\ \A u \in ToSet(queue) : t <= u
               /\ Sorted(queue') /\ ToSet(queue') = ToSet(queue) \ {t}
               /\ outcome[t] = "pending"
    <3>1. /\ Sorted(queue') /\ ToSet(queue) = ToSet(queue') \cup {t}
          /\ \A u \in ToSet(queue') : t < u
      BY <1>in, <2>3, QueueTail
    <3>2. \A u \in ToSet(queue) : u \in Tokens /\ u \in Nat
      BY HeldTokens DEF Tokens
    <3>3. t \in ToSet(queue) /\ t \in Tokens
      BY <3>1, <3>2
    <3>4. t \notin ToSet(queue')
      BY <3>1, <3>2, <3>3
    <3>5. \A u \in ToSet(queue) : t <= u
      BY <3>1, <3>2, <3>3
    <3>6. outcome[t] = "pending"
      BY <3>3 DEF RequestsInv
    <3> QED
      BY <2>3, <3>1, <3>3, <3>4, <3>5, <3>6 DEF NoRecord
  <2>4. CASE /\ active = NoRecord /\ queue # <<>> /\ queue' = Tail(queue)
             /\ \E x, y : x.token = t /\ FinishActive(x, y, FALSE, FALSE)
    <3> HIDE DEF t
    <3>1. PICK x, y : x.token = t /\ FinishActive(x, y, FALSE, FALSE)
      BY <2>4
    <3>2. outcome' = [outcome EXCEPT ![t] = Answered(outcome[t], FALSE)] /\ active' = NoRecord
      BY <3>1 DEF FinishActive
    <3>3. outcome' = [outcome EXCEPT ![t] = "denied"]
      BY <2>3, <2>4, <3>2, PendingAnswer
    <3> QED
      BY <2>1, <2>3, <2>4, <3>2, <3>3 DEF Drops, NoRecord
  <2>5. CASE /\ active = NoRecord /\ queue # <<>> /\ queue' = Tail(queue)
             /\ UNCHANGED outcome /\ active'.token = t
    BY <2>1, <2>3, <2>5 DEF Takes
  <2>6. CASE /\ active = NoRecord /\ queue # <<>> /\ queue' = Tail(queue)
             /\ FinishActive(r, prompt, FALSE, FALSE)
    BY <2>4, <2>6
  <2>7. CASE /\ active = NoRecord /\ queue # <<>> /\ queue' = Tail(queue)
             /\ UNCHANGED outcome /\ active' = a
    BY <2>5, <2>7
  <2>8. CASE /\ active = NoRecord /\ queue # <<>> /\ queue' = Tail(queue)
             /\ StartSession(a, m, a.identity, FALSE)
    <3>1. a.token = t /\ IsRecord(a)
      BY DEF IsRecord
    <3> HIDE DEF a, m
    <3>2. \/ UNCHANGED outcome /\ active'.token = a.token
          \/ FinishActive(a, m, FALSE, FALSE)
      BY <2>8, <3>1, StartShape
    <3> HIDE DEF t
    <3> QED
      BY <2>4, <2>5, <2>8, <3>1, <3>2
  <2> QED
    BY <1>6, <2>2, <2>6, <2>7, <2>8 DEF Activate
<1>7. ASSUME PamPrompt \/ UserRespond PROVE Quiet
  BY <1>7, QuietActions DEF PamPrompt, UserRespond, Delivers, authority
<1>8. ASSUME NEW ok \in BOOLEAN, PamComplete(ok) PROVE Quiet
  <2> DEFINE e == [kind |-> "completed", token |-> sessions[session].token,
                   gen |-> sessions[session].gen, ok |-> ok]
  <2>1. sessions[session] \in Sessions
    BY <1>8 DEF PamComplete, SessionIsRunning, TypeOK
  <2>2. e \in Events /\ e.kind # "request"
    BY <2>1 DEF Sessions, Events, CompletedEvents
  <2>3. /\ posted' = Append(posted, e) /\ running
        /\ UNCHANGED <<received, running, stopping, outcome, queue, active>>
    BY <1>8 DEF PamComplete, authority
  <2> HIDE DEF e
  <2> QED
    BY <2>2, <2>3, QuietActions
<1>10. ASSUME NEW i \in Identities, UserSelect(i) PROVE Quiet \/ AnswersActive
  BY <1>10, StartActiveShape DEF UserSelect, Delivers, authority, TypeOK, Records, NoRecord, IsRecord
<1>11. ASSUME UserRetry PROVE Quiet \/ AnswersActive
  <2> DEFINE m == Retried(prompt)
             r == [active EXCEPT !.gen = m.gen]
  <2>1. /\ running /\ active # NoRecord
        /\ UNCHANGED <<received, running, stopping, queue, posted>>
    BY <1>11 DEF UserRetry, Delivers, authority
  <2>2. r.token = active.token
    BY DEF TypeOK, Records, NoRecord
  <2>5. IsRecord(r)
    <3>1. r = [token |-> active.token, gen |-> m.gen, identity |-> active.identity]
      BY DEF TypeOK, Records, NoRecord
    <3> QED
      BY <3>1 DEF IsRecord
  <2>3. CASE StartSession(r, m, r.identity, scheduled)
    <3> HIDE DEF r, m
    <3> QED
      BY <2>1, <2>2, <2>3, <2>5, StartActiveShape
  <2>4. CASE UNCHANGED outcome /\ active' = r
    BY <1>in, <2>1, <2>2, <2>4 DEF Quiet, Frame, Loop0
  <2> QED
    BY <1>11, <2>3, <2>4 DEF UserRetry
<1>12. ASSUME UserCancel PROVE AnswersActive
  BY <1>12, <1>in, CancelShape DEF UserCancel, Delivers, authority
<1> QED
  BY <1>2, <1>3, <1>4, <1>5, <1>6, <1>7, <1>8, <1>10, <1>11, <1>12
  DEF Next, Authority, Loop, Pam, User

(***************************************************************************)
(* The inductive invariant.                                                *)
(***************************************************************************)

\* Initially there is no request anywhere.
LEMMA RequestsInit == Init => RequestsInv
BY DEF Init, ToSet, InTransit, Sorted, SortedRequests, Tokens, NoRecord, RequestsInv

\* Each shape keeps requests pending where they are and in order.
LEMMA RequestsStep == TypeOK /\ TypeOK' /\ RequestsInv /\ [Next]_vars => RequestsInv'
<1> SUFFICES ASSUME TypeOK, TypeOK', RequestsInv, [Next]_vars PROVE RequestsInv'
  OBVIOUS
<1>nat. \A t \in Tokens : t \in Nat /\ t # 0
  BY DEF Tokens
<1>ty. outcome \in [Tokens -> Outcomes] /\ active.token \in 0..MaxRequests /\ received \in 0..MaxRequests
  BY RecordTokens DEF TypeOK
<1>held. ToSet(queue) \subseteq Tokens /\ InTransit(posted) \subseteq Tokens
  BY HeldTokens
<1>1. CASE Quiet
  BY <1>1 DEF Quiet, Frame, Loop0, RequestsInv
<1>2. CASE AnswersActive
  BY <1>2, RecordTokens, <1>ty, <1>nat, <1>held DEF AnswersActive, NoRecord, Frame, Loop0, RequestsInv
<1>3. ASSUME NEW u \in Tokens, Drops(u) PROVE RequestsInv'
  BY <1>3, <1>ty, <1>nat, <1>held DEF Drops, Frame, Loop0, RequestsInv
<1>4. ASSUME NEW u \in Tokens, Takes(u) PROVE RequestsInv'
  BY <1>4, <1>nat, <1>held DEF Takes, Frame, Loop0, RequestsInv
<1>5. ASSUME NEW u \in Tokens, Enqueues(u) PROVE RequestsInv'
  BY <1>5, <1>nat, <1>held DEF Enqueues, Frame, RequestsInv
<1>6. ASSUME NEW ids \in SUBSET Identities, Receive(ids) PROVE RequestsInv'
  <2> DEFINE u == received + 1
             e == [kind |-> "request", token |-> u]
  <2>1. /\ u \in Tokens /\ running /\ received' = u
        /\ outcome' = [outcome EXCEPT ![u] = "pending"]
        /\ posted' = Append(posted, e)
        /\ UNCHANGED <<active, queue, running, stopping>>
    BY <1>6, <1>ty, MaxRequestsAssumption DEF Receive, Tokens
  <2>2. \A t \in Tokens : outcome'[t] = IF t = u THEN "pending" ELSE outcome[t]
    BY <1>ty, <2>1
  <2>3. /\ DOMAIN posted = 1..Len(posted) /\ Len(posted) \in Nat
        /\ DOMAIN posted' = 1..(Len(posted) + 1) /\ posted'[Len(posted) + 1] = e
        /\ \A k \in 1..Len(posted) : posted'[k] = posted[k]
    BY <2>1 DEF TypeOK
  <2>4. InTransit(posted') = InTransit(posted) \cup {u}
    BY <2>3 DEF InTransit
  <2>5. \A t \in Tokens : outcome[t] # "none" => t < u
    BY <1>nat, <1>ty DEF RequestsInv
  <2>6. \A t \in InTransit(posted) \cup ToSet(queue) : t < u
    BY <1>held, <2>5 DEF RequestsInv
  <2>7. active.token < u
    BY <1>ty, <2>1, <2>5, RecordTokens DEF RequestsInv, Tokens
  <2>8. SortedRequests(posted')
    BY <2>3, <2>6 DEF SortedRequests, RequestsInv, InTransit
  <2>9. outcome[u] = "none" /\ \A t \in Tokens : t > u <=> t > received /\ t # u
    BY <1>nat, <1>ty, <2>1 DEF RequestsInv
  <2>10. ToSet(queue') = ToSet(queue) /\ ~stopping
    BY <2>1 DEF RequestsInv
  <2>11. u \notin ToSet(queue) /\ u \notin InTransit(posted) /\ u # active.token
    BY <1>nat, <2>1, <2>6, <2>7
  <2> HIDE DEF e, u
  <2> QED
    BY <1>nat, <1>held, <2>1, <2>2, <2>4, <2>6, <2>7, <2>8, <2>9, <2>10, <2>11 DEF RequestsInv
<1>7. CASE Quit
  <2>1. \A t \in Tokens : outcome'[t] =
          IF t = active.token \/ t \in ToSet(queue) THEN "denied" ELSE outcome[t]
    BY <1>7, PendingAnswer DEF Quit, RequestsInv
  <2>2. /\ queue' = <<>> /\ active' = NoRecord /\ ~running'
        /\ posted' = posted \o CancelEvents(session) /\ UNCHANGED received
    BY <1>7 DEF Quit, authority
  <2>3. InTransit(posted') = InTransit(posted) /\ SortedRequests(posted')
    BY <2>2, PostedCancelEvents DEF TypeOK, RequestsInv
  <2>4. ToSet(queue') = {} /\ Sorted(queue') /\ active'.token = 0
    BY <2>2 DEF ToSet, Sorted, NoRecord
  <2>5. \A t \in InTransit(posted) : t # active.token /\ t \notin ToSet(queue)
    BY <1>nat, <1>held, <1>ty DEF RequestsInv
  <2>6. \A t \in Tokens : t = active.token \/ t \in ToSet(queue) => outcome[t] = "pending"
    BY DEF RequestsInv
  <2> QED
    BY <1>nat, <1>held, <2>1, <2>2, <2>3, <2>4, <2>5, <2>6 DEF RequestsInv
<1>8. CASE UNCHANGED vars
  BY <1>8 DEF vars, RequestsInv
<1> QED
  BY <1>1, <1>2, <1>3, <1>4, <1>5, <1>6, <1>7, <1>8, StepShape

\* Pending requests are exactly those in the loop, queued or active, oldest last.
THEOREM RequestsAreOrdered == Spec => []RequestsInv
<1>1. Init => TypeOK /\ RequestsInv
  BY TypeInit, RequestsInit
<1>2. TypeOK /\ RequestsInv /\ [Next]_vars => (TypeOK /\ RequestsInv)'
  BY TypeStep, RequestsStep
<1> QED
  BY <1>1, <1>2, PTL DEF Spec

\* No request is ever answered twice, and what is shown or queued is unanswered.
THEOREM EveryRequestOnce == Spec => []AnsweredOnce
<1>1. TypeOK /\ RequestsInv => AnsweredOnce
  <2> SUFFICES ASSUME TypeOK, RequestsInv PROVE AnsweredOnce
    OBVIOUS
  <2>1. active # NoRecord => outcome[active.token] = "pending" /\ active.token \notin ToSet(queue)
    BY RecordTokens DEF RequestsInv, Tokens
  <2>2. \A t \in ToSet(queue) : outcome[t] = "pending"
    BY HeldTokens DEF RequestsInv
  <2>3. IsInjective(queue)
    <3> SUFFICES ASSUME NEW i \in DOMAIN queue, NEW j \in DOMAIN queue, queue[i] = queue[j]
                 PROVE  i = j
      BY DEF IsInjective
    <3>1. i \in Nat /\ j \in Nat
      BY DEF TypeOK
    <3>3. queue[i] \in Tokens /\ queue[j] \in Tokens
      BY DEF TypeOK
    <3>4. queue[i] \in Nat /\ queue[j] \in Nat
      BY <3>3 DEF Tokens
    <3>2. i < j \/ j < i \/ i = j
      BY <3>1
    <3> QED
      BY <3>1, <3>2, <3>4 DEF RequestsInv, Sorted
  <2> QED
    BY <2>1, <2>2, <2>3 DEF AnsweredOnce, RequestsInv
<1> QED
  BY <1>1, TypeCorrect, RequestsAreOrdered, PTL

\* An answered request is never shown, queued or answered again.
THEOREM AnsweredIsFinal == Spec => NeverReopened
<1>1. TypeOK /\ RequestsInv /\ TypeOK' /\ RequestsInv' /\ [Next]_vars =>
        [\A t \in Tokens : Final(t) =>
           outcome'[t] = outcome[t] /\ active'.token # t /\ t \notin ToSet(queue')]_vars
  <2> SUFFICES ASSUME TypeOK, RequestsInv, TypeOK', RequestsInv', Next,
                      NEW t \in Tokens, Final(t)
               PROVE  outcome'[t] = outcome[t] /\ active'.token # t /\ t \notin ToSet(queue')
    BY DEF vars
  <2>1. outcome \in [Tokens -> Outcomes] /\ outcome[t] # "pending" /\ outcome[t] # "none"
    BY DEF TypeOK, Final
  <2>2. outcome'[t] = outcome[t]
    <3>1. CASE Quiet
      BY <3>1 DEF Quiet
    <3>2. CASE AnswersActive
      BY <2>1, <3>2 DEF AnswersActive, RequestsInv
    <3>3. ASSUME NEW u \in Tokens, Drops(u) \/ Takes(u) \/ Enqueues(u) PROVE outcome'[t] = outcome[t]
      BY <2>1, <3>3 DEF Drops, Takes, Enqueues, RequestsInv
    <3>4. ASSUME NEW ids \in SUBSET Identities, Receive(ids) PROVE outcome'[t] = outcome[t]
      BY <2>1, <3>4 DEF RequestsInv, TypeOK, Tokens, Receive
    <3>5. CASE Quit
      BY <2>1, <3>5 DEF Quit, RequestsInv
    <3> QED
      BY <3>1, <3>2, <3>3, <3>4, <3>5, StepShape
  <2>3. outcome'[t] # "pending"
    BY <2>1, <2>2
  <2> QED
    BY <2>2, <2>3 DEF RequestsInv
<1> QED
  BY <1>1, TypeCorrect, RequestsAreOrdered, PTL DEF Spec, NeverReopened

(***************************************************************************)
(* The agent implements AuthorizationQueue.                                *)
(***************************************************************************)

\* What waits in the abstract queue is queued or still in the event loop.
LEMMA WaitingRequests ==
  ASSUME TypeOK, RequestsInv
  PROVE  Abstract!Waiting = ToSet(queue) \cup InTransit(posted)
BY HeldTokens, RecordTokens DEF Abstract!Numbers, Tokens, RequestsInv, Abstract!Waiting

\* FIFO, one at a time, granted only when shown, final: step by step.
THEOREM AgentImplementsQueue == Spec => Implements
<1>1. Init => Abstract!AInit
  BY DEF Init, Abstract!AInit, Abstract!Numbers, Tokens, NoRecord
<1>2. TypeOK /\ RequestsInv /\ [Next]_vars => [Abstract!ANext]_(Abstract!avars)
  <2> SUFFICES ASSUME TypeOK, RequestsInv, Next
               PROVE  Abstract!ANext \/ UNCHANGED Abstract!avars
    BY DEF vars, Abstract!avars
  <2>n. Abstract!Numbers = Tokens
    BY DEF Abstract!Numbers, Tokens
  <2>w. Abstract!Waiting = ToSet(queue) \cup InTransit(posted)
    BY WaitingRequests
  <2>h. ToSet(queue) \subseteq Tokens /\ InTransit(posted) \subseteq Tokens
    BY HeldTokens
  <2>o. outcome \in [Tokens -> Outcomes]
    BY DEF TypeOK
  <2>1. CASE Quiet
    BY <2>1 DEF Quiet, Frame, Abstract!avars
  <2>2. CASE AnswersActive
    <3>1. PICK v \in {"granted", "denied"} : outcome' = [outcome EXCEPT ![active.token] = v]
      BY <2>2 DEF AnswersActive
    <3>2. running /\ active.token # 0 /\ active'.token = 0 /\ UNCHANGED running
      BY <2>2 DEF AnswersActive, Frame
    <3>3. CASE v = "granted"
      BY <3>1, <3>2, <3>3 DEF Abstract!Grant, Abstract!ANext
    <3>4. CASE v = "denied"
      BY <3>1, <3>2, <3>4 DEF Abstract!DenyCurrent, Abstract!ANext
    <3> QED
      BY <3>3, <3>4
  <2>3. ASSUME NEW t \in Tokens, Drops(t) PROVE Abstract!ANext
    <3>1. Abstract!DenyWaiting(t)
      BY <2>3, <2>w DEF Drops, Frame, Abstract!DenyWaiting
    <3> QED
      BY <2>n, <3>1 DEF Abstract!ANext
  <2>4. ASSUME NEW t \in Tokens, Takes(t) PROVE Abstract!ANext
    BY <2>4, <2>h, <2>w, <2>n DEF Takes, RequestsInv, Tokens, Frame, Abstract!Take, Abstract!ANext
  <2>5. ASSUME NEW t \in Tokens, Enqueues(t) PROVE UNCHANGED Abstract!avars
    BY <2>5 DEF Enqueues, Frame, Abstract!avars
  <2>6. ASSUME NEW ids \in SUBSET Identities, Receive(ids) PROVE Abstract!ANext
    <3> DEFINE u == received + 1
    <3>1. u \in Tokens /\ outcome[u] = "none"
      BY <2>6, MaxRequestsAssumption DEF Receive, TypeOK, RequestsInv, Tokens
    <3>2. \A t \in Tokens : t < u => outcome[t] # "none"
      BY DEF RequestsInv, TypeOK, Tokens
    <3>3. Abstract!Ask(u)
      BY <2>6, <2>n, <3>1, <3>2 DEF Receive, Abstract!Ask
    <3> QED
      BY <2>n, <3>1, <3>3 DEF Abstract!ANext
  <2>7. CASE Quit
    <3>1. \A t \in Tokens : outcome'[t] =
            IF t = active.token \/ t \in ToSet(queue) THEN "denied" ELSE outcome[t]
      BY <2>7, PendingAnswer DEF Quit, RequestsInv
    <3>2. outcome' = [t \in Tokens |-> IF t \in ToSet(queue) \/ t = active.token
                                        THEN "denied" ELSE outcome[t]]
      BY <2>7, <3>1 DEF Quit
    <3>3. running /\ ~running' /\ running' = FALSE /\ active'.token = 0
      BY <2>7 DEF Quit, NoRecord
    <3>4. ToSet(queue) \in SUBSET Abstract!Waiting
      BY <2>w
    <3>5. Abstract!Close
      BY <2>n, <3>2, <3>3, <3>4 DEF Abstract!Close
    <3> QED
      BY <3>5 DEF Abstract!ANext
  <2> QED
    BY <2>1, <2>2, <2>3, <2>4, <2>5, <2>6, <2>7, StepShape
<1> QED
  BY <1>1, <1>2, TypeCorrect, RequestsAreOrdered, PTL DEF Spec, Abstract!Spec, Implements

----------------------------------------------------------------------------
(***************************************************************************)
(* Whom the agent grants and what its user can do.                         *)
(***************************************************************************)

\* The dialog m shows the request of record r, in the record's generation.
Shows(r, m) ==
  /\ r # NoRecord
  /\ IsActive(m) /\ ~m.terminal
  /\ m.token = r.token /\ m.gen = r.gen
  /\ m.identities = eligible[r.token]
  /\ r.identity \in eligible[r.token]

\* The inductive strengthening of PromptShowsActive: every PAM session has a
\* generation of its own, the newest session the highest, so that a callback's
\* generation alone tells whose it is.
DialogInv ==
  /\ active = NoRecord => ~IsActive(prompt) /\ session = NoSession
  /\ active # NoRecord => Shows(active, prompt)
  /\ session # NoSession =>
       /\ session = Len(sessions)
       /\ sessions[session].token = active.token
       /\ sessions[session].gen = active.gen
       /\ sessions[session].identity = active.identity
  /\ \A r, s \in DOMAIN sessions : r < s => sessions[r].gen < sessions[s].gen
  /\ \A s \in DOMAIN sessions : sessions[s].gen <= prompt.gen
  /\ prompt.life = "SelectingIdentity" => \A s \in DOMAIN sessions : sessions[s].gen < prompt.gen

\* A success on its way through the loop is that of a session that succeeded.
SuccessesAreReal ==
  \A k \in DOMAIN posted : posted[k].kind = "completed" /\ posted[k].ok =>
    \E s \in DOMAIN sessions :
      /\ sessions[s].token = posted[k].token
      /\ sessions[s].gen = posted[k].gen
      /\ sessions[s].status = "succeeded"

(***************************************************************************)
(* Seen from the dialog every event has one of four shapes.                *)
(***************************************************************************)

\* ss holds the sessions so far, but that a running one may have ended.
Kept(ss) ==
  /\ ss \in Seq(Sessions)
  /\ Len(ss) = Len(sessions)
  /\ \A k \in 1..Len(sessions) :
       /\ ss[k].token = sessions[k].token
       /\ ss[k].gen = sessions[k].gen
       /\ ss[k].identity = sessions[k].identity
       /\ sessions[k].status # "running" => ss[k] = sessions[k]

\* The dialog shows what it did, with the same session behind it.
Continues ==
  /\ UNCHANGED <<active, session>>
  /\ Kept(sessions')
  /\ prompt'.token = prompt.token /\ prompt'.gen = prompt.gen
  /\ prompt'.identities = prompt.identities /\ prompt'.terminal = prompt.terminal
  /\ IsActive(prompt') <=> IsActive(prompt)
  /\ prompt'.life = "SelectingIdentity" => prompt.life = "SelectingIdentity"
  /\ prompt'.life \in {"Busy", "AwaitingInput"} => prompt.life \in {"Busy", "AwaitingInput"}
  /\ UNCHANGED sessions \/ \E ok \in BOOLEAN : PamComplete(ok)
  /\ \A t \in Tokens : outcome[t] # "none" => eligible'[t] = eligible[t]

\* The dialog closes.
Ends ==
  /\ active' = NoRecord
  /\ session' = 0
  /\ Kept(sessions')
  /\ ~IsActive(prompt')
  /\ prompt'.gen >= prompt.gen
  /\ UNCHANGED eligible

\* A session starts, in a generation no session had.
Opens ==
  /\ Shows(active', prompt')
  /\ prompt'.life = "Busy"
  /\ prompt'.gen >= prompt.gen
  /\ \A s \in DOMAIN sessions : sessions[s].gen < prompt'.gen
  /\ session' = Len(sessions) + 1
  /\ \E ss : /\ Kept(ss)
             /\ sessions' = Append(ss, [token |-> active'.token, gen |-> active'.gen,
                                        identity |-> active'.identity, status |-> "running"])
  /\ UNCHANGED eligible

\* The dialog has no session: the user selects an identity or retries.
Waits ==
  /\ Shows(active', prompt')
  /\ prompt'.life # "Busy" /\ prompt'.life # "AwaitingInput"
  /\ prompt'.gen >= prompt.gen
  /\ prompt'.life = "SelectingIdentity" => \A s \in DOMAIN sessions : sessions[s].gen < prompt'.gen
  /\ session' = 0
  /\ Kept(sessions')
  /\ UNCHANGED eligible

\* Destroying the session the coordinator holds keeps the others.
LEMMA DestroyedKeeps ==
  ASSUME TypeOK
  PROVE  Kept(Destroyed(sessions, session)) /\ Kept(sessions)
BY DestroyedType DEF Kept, TypeOK

\* Completing and resetting a dialog that has no result yet closes it.
LEMMA CompletedIsClosed ==
  ASSUME NEW m \in Prompts, IsActive(m) => ~m.terminal
  PROVE  ~IsActive(Reset(Complete(m))) /\ Reset(Complete(m)).gen = m.gen
BY DEF Complete, IsActive, Prompts, Lifecycles, Reset, ClearRequest

\* A cancelled dialog is closed in the same generation.
LEMMA DismissedIsClosed ==
  ASSUME NEW m \in Prompts
  PROVE  ~IsActive(Dismiss(m)) /\ Dismiss(m).gen = m.gen
  BY DEF Dismiss, IsActive, Prompts

\* finishActive closes the dialog, whatever the record and the answer.
LEMMA FinishEnds ==
  ASSUME TypeOK, NEW r, NEW m \in Prompts, IsActive(m) => ~m.terminal, m.gen >= prompt.gen,
         NEW ok, NEW sched, FinishActive(r, m, ok, sched),
         sessions' = Destroyed(sessions, session), UNCHANGED eligible
  PROVE  Ends
BY CompletedIsClosed, DestroyedKeeps DEF FinishActive, Ends

\* startSession of a dialog in a new generation opens a session, or closes the
\* dialog when none can be made.
LEMMA StartOpens ==
  ASSUME TypeOK, NEW r \in Records, NEW m \in Prompts, Shows(r, m),
         m.life \in {"AwaitingInput", "Busy"}, m.gen >= prompt.gen,
         \A s \in DOMAIN sessions : sessions[s].gen < m.gen,
         NEW i, i \in eligible[r.token], NEW sched, StartSession(r, m, i, sched), UNCHANGED eligible
  PROVE  Opens \/ Ends
<1>1. CASE FinishActive(r, m, FALSE, sched) /\ sessions' = Destroyed(sessions, session)
  BY <1>1, FinishEnds DEF Shows
<1>2. CASE /\ sessions' = Append(Destroyed(sessions, session),
                                 [token |-> r.token, gen |-> r.gen, identity |-> i,
                                  status |-> "running"])
           /\ session' = Len(sessions) + 1
           /\ active' = [r EXCEPT !.identity = i]
           /\ prompt' = MarkBusy(m)
  BY <1>2, DestroyedKeeps DEF Shows, Records, NoRecord, Tokens, MarkBusy, IsActive, Prompts, Opens
<1> QED
  BY <1>1, <1>2 DEF StartSession
\* Every event leaves the dialog open as it is, closes it, opens a session in it
\* or has it wait for the user.
LEMMA DialogShape ==
  ASSUME TypeOK, RequestsInv, DialogInv, Next
  PROVE  Continues \/ Ends \/ Opens \/ Waits
<1>ty. /\ prompt \in Prompts /\ active \in Records /\ sessions \in Seq(Sessions)
       /\ IsActive(prompt) => ~prompt.terminal
  BY DEF TypeOK, DialogInv, Shows
<1>kept. Kept(sessions) /\ Kept(Destroyed(sessions, session))
  BY DestroyedKeeps
<1>nat. \A s \in DOMAIN sessions : sessions[s].gen \in Nat
  <2>1. \A s \in DOMAIN sessions : sessions[s] \in Sessions
    BY <1>ty
  <2> QED
    BY <2>1 DEF Sessions
<1>ge. prompt.gen >= prompt.gen
  BY <1>ty DEF Prompts
<1>1. ASSUME UNCHANGED <<active, session, sessions, prompt>>,
             \A t \in Tokens : outcome[t] # "none" => eligible'[t] = eligible[t]
      PROVE  Continues
  BY <1>1, <1>kept DEF Continues
<1>2. ASSUME NEW ids \in SUBSET Identities, Receive(ids) PROVE Continues
  BY <1>2, <1>1 DEF RequestsInv, TypeOK, Tokens, Receive
<1>3. CASE (\E t \in Tokens : AuthorityCancel(t)) \/ DeliverRequest
  BY <1>1, <1>3 DEF AuthorityCancel, DeliverRequest, authority
<1>4. CASE DeliverCancel
  <2>1. CASE CancelActive(prompt, Tail(posted))
    BY <1>4, <1>ty, <1>ge, <2>1, FinishEnds DEF DeliverCancel, CancelActive, authority
  <2>2. CASE UNCHANGED <<active, session, sessions, prompt>>
    BY <1>1, <1>4, <2>2 DEF DeliverCancel, authority
  <2> QED
    BY <1>4, <2>1, <2>2 DEF DeliverCancel
<1>5. CASE DeliverCompleted
  <2>1. CASE FinishActive(active, prompt, TRUE, scheduled) /\ sessions' = Destroyed(sessions, session)
    BY <1>5, <1>ty, <1>ge, <2>1, FinishEnds DEF DeliverCompleted, authority
  <2>2. CASE /\ session # NoSession
             /\ session' = NoSession
             /\ sessions' = Destroyed(sessions, session)
             /\ prompt' = MarkRetryableError(prompt)
             /\ UNCHANGED <<outcome, active, scheduled>>
    BY <2>2, <1>ty, <1>5, <1>kept DEF DialogInv, MarkRetryableError, Shows, IsActive, Prompts, DeliverCompleted,
       Waits, authority
  <2>3. CASE UNCHANGED <<active, session, sessions, prompt>>
    BY <1>1, <1>5, <2>3 DEF DeliverCompleted, authority
  <2> QED
    BY <1>5, <2>1, <2>2, <2>3 DEF DeliverCompleted, CallbackIsCurrent
<1>6. CASE Activate
  <2> DEFINE t == Head(queue)
             r == [token |-> t, gen |-> 0, identity |-> NoIdentity]
             m == BeginRequest(prompt, t, eligible[t], "None")
             a == [token |-> t, gen |-> m.gen, identity |-> Preferred(eligible[t])]
  <2>e. UNCHANGED eligible
    BY <1>6 DEF Activate, authority
  <2>1. CASE UNCHANGED <<active, session, sessions, prompt>>
    BY <1>1, <2>1, <2>e
  <2>2. CASE FinishActive(r, prompt, FALSE, FALSE) /\ sessions' = Destroyed(sessions, session)
    <3> HIDE DEF r
    <3> QED
      BY <1>ty, <1>ge, <2>2, <2>e, FinishEnds
  <2>3. ASSUME active = NoRecord, queue # <<>>, eligible[t] # {}
        PROVE  /\ t \in Tokens /\ eligible[t] \in SUBSET Identities
               /\ m \in Prompts /\ a \in Records /\ Shows(a, m) /\ m.gen > prompt.gen
               /\ m.life = IF Cardinality(eligible[t]) > 1 THEN "SelectingIdentity" ELSE "AwaitingInput"
               /\ a.identity \in eligible[a.token]
    <3>1. t \in Tokens
      BY <2>3 DEF TypeOK
    <3>2. eligible[t] \in SUBSET Identities
      BY <3>1 DEF TypeOK
    <3>3. m \in Prompts
      BY <1>ty, <3>1, <3>2, PromptTypes
    <3>4. Preferred(eligible[t]) \in eligible[t]
      BY <2>3, <3>2, PreferredIsEligible
    <3>5. /\ m.gen = prompt.gen + 1 /\ m.token = t /\ m.identities = eligible[t]
          /\ ~m.terminal /\ IsActive(m)
          /\ m.life = IF Cardinality(eligible[t]) > 1 THEN "SelectingIdentity" ELSE "AwaitingInput"
      BY DEF BeginRequest, IsActive
    <3>6. prompt.gen \in Nat
      BY <1>ty DEF Prompts
    <3>7. Preferred(eligible[t]) \in Identities
      BY <3>2, <3>4
    <3> HIDE DEF m, t
    <3>8. a \in Records /\ a # NoRecord
      BY <3>1, <3>5, <3>6, <3>7 DEF Records, NoRecord, Tokens
    <3> QED
      BY <3>1, <3>2, <3>3, <3>4, <3>5, <3>6, <3>8 DEF Shows
  <2>4. ASSUME active = NoRecord, queue # <<>>, eligible[t] # {}
        PROVE  /\ m.gen >= prompt.gen
               /\ \A s \in DOMAIN sessions : sessions[s].gen < m.gen
    BY <1>ty, <2>3, <2>4, <1>nat DEF Prompts, DialogInv
  <2>5. CASE /\ active = NoRecord /\ queue # <<>> /\ eligible[t] # {}
             /\ Cardinality(eligible[t]) > 1
             /\ active' = a
             /\ prompt' = m
             /\ UNCHANGED <<session, sessions>>
    BY <2>5, <2>3, <1>kept, <2>4, <2>e DEF DialogInv, Waits
  <2>6. CASE /\ active = NoRecord /\ queue # <<>> /\ eligible[t] # {}
             /\ Cardinality(eligible[t]) = 1
             /\ StartSession(a, m, a.identity, FALSE)
    <3> HIDE DEF a, m
    <3>1. m.life = "AwaitingInput"
      BY <2>3, <2>6
    <3>2. /\ a \in Records /\ m \in Prompts /\ Shows(a, m) /\ a.identity \in eligible[a.token]
          /\ m.gen >= prompt.gen /\ \A s \in DOMAIN sessions : sessions[s].gen < m.gen
      BY <2>3, <2>4, <2>6
    <3> QED
      BY <2>6, <2>e, <3>1, <3>2, StartOpens
  <2> QED
    BY <1>6, <2>1, <2>2, <2>5, <2>6 DEF Activate
<1>7. CASE PamPrompt
  BY <1>7, <1>ty, <1>kept DEF PamPrompt, authority, Continues, PresentPrompt, IsActive, Prompts
<1>8. ASSUME NEW ok \in BOOLEAN, PamComplete(ok) PROVE Continues
  <2> DEFINE status == IF ok THEN "succeeded" ELSE "failed"
  <2>1. session \in 1..Len(sessions) /\ sessions[session] \in Sessions /\ sessions[session].status = "running"
    BY <1>8 DEF PamComplete, SessionIsRunning, TypeOK
  <2>2. [sessions[session] EXCEPT !.status = status] \in Sessions
    BY <2>1 DEF Sessions, Statuses
  <2>3. sessions' = [sessions EXCEPT ![session] = [sessions[session] EXCEPT !.status = status]]
    BY <1>8 DEF PamComplete
  <2>4. Kept(sessions')
    BY <1>ty, <2>1, <2>2, <2>3 DEF Kept, Sessions
  <2>5. UNCHANGED <<active, session, prompt, eligible>>
    BY <1>8 DEF PamComplete, authority
  <2> QED
    BY <1>8, <2>4, <2>5 DEF Continues
<1>9. CASE UserRespond
  BY <1>9, <1>ty, <1>kept DEF UserRespond, CanRespond, authority, Continues, MarkBusy, IsActive, Prompts
<1>10. ASSUME NEW i \in Identities, UserSelect(i) PROVE Opens \/ Ends
  <2>1. /\ active # NoRecord /\ prompt.life = "SelectingIdentity" /\ i \in prompt.identities
        /\ StartSession(active, MarkBusy(prompt), i, scheduled) /\ UNCHANGED eligible
    BY <1>10 DEF UserSelect, Delivers, CanSelect, authority
  <2>2. Shows(active, prompt) /\ \A s \in DOMAIN sessions : sessions[s].gen < prompt.gen
    BY <2>1 DEF DialogInv
  <2> DEFINE m == MarkBusy(prompt)
  <2>3. /\ m \in Prompts /\ m.life = "Busy" /\ m.gen = prompt.gen /\ Shows(active, m)
    BY <1>ty, <2>1, <2>2, PromptTypes DEF MarkBusy, Shows, IsActive, Prompts
  <2>4. i \in eligible[active.token] /\ m.gen >= prompt.gen
    BY <1>ty, <2>1, <2>2, <2>3 DEF Shows, Prompts
  <2> HIDE DEF m
  <2> QED
    BY <1>ty, <2>1, <2>2, <2>3, <2>4, StartOpens DEF m
<1>11. CASE UserRetry
  <2> DEFINE m == Retried(prompt)
             r == [active EXCEPT !.gen = m.gen]
  <2>1. /\ active # NoRecord /\ UNCHANGED eligible /\ Shows(active, prompt)
        /\ active \in [token : Tokens, gen : Nat, identity : Identities]
    BY <1>11 DEF UserRetry, Delivers, authority, DialogInv, TypeOK, Records
  <2>2. /\ m \in Prompts /\ m.gen = prompt.gen + 1 /\ m.token = prompt.token
        /\ m.identities = prompt.identities /\ m.terminal = prompt.terminal /\ IsActive(m)
        /\ m.life = IF Cardinality(prompt.identities) > 1 THEN "SelectingIdentity" ELSE "Busy"
    <3>1. m \in Prompts
      BY <1>ty, PromptTypes
    <3> DEFINE life == IF Cardinality(prompt.identities) > 1 THEN "SelectingIdentity" ELSE "Busy"
    <3>2. m = [prompt EXCEPT !.gen = prompt.gen + 1, !.life = life]
      BY DEF Retried
    <3>3. life = "SelectingIdentity" \/ life = "Busy"
      OBVIOUS
    <3> HIDE DEF life
    <3>4. /\ m.gen = prompt.gen + 1 /\ m.token = prompt.token
          /\ m.identities = prompt.identities /\ m.terminal = prompt.terminal
          /\ m.life = life
      BY <1>ty, <3>2 DEF Prompts
    <3>5. IsActive(m)
      BY <3>3, <3>4 DEF IsActive
    <3> QED
      BY <3>1, <3>4, <3>5 DEF life
  <2> HIDE DEF m
  <2>3. prompt.gen \in Nat /\ m.gen \in Nat
    BY <1>ty, <2>2 DEF Prompts
  <2>4. /\ r \in Records /\ r # NoRecord
        /\ r.token = active.token /\ r.gen = m.gen /\ r.identity = active.identity
    BY <2>1, <2>3 DEF Records, NoRecord, Tokens
  <2> HIDE DEF r
  <2>5. Shows(r, m)
    BY <2>1, <2>2, <2>4 DEF Shows
  <2>6. m.gen >= prompt.gen /\ \A s \in DOMAIN sessions : sessions[s].gen < m.gen
    BY <1>nat, <2>2, <2>3 DEF DialogInv
  <2>7. r.identity \in eligible[r.token] /\ prompt.identities = eligible[active.token]
    BY <2>1, <2>4 DEF Shows
  <2>8. CASE Cardinality(eligible[active.token]) = 1 /\ StartSession(r, m, r.identity, scheduled)
    BY <2>2, <2>7, <2>8, <2>1, <2>4, <2>5, <2>6, StartOpens
  <2>9. CASE /\ Cardinality(eligible[active.token]) # 1
             /\ active' = r
             /\ prompt' = m
             /\ session' = NoSession
             /\ sessions' = Destroyed(sessions, session)
    <3>1. Cardinality(prompt.identities) > 1
      BY <1>ty, <2>1, <2>4, <2>7, IdentitiesAssumption, FS_Subset, FS_CardinalityType, FS_EmptySet, <2>9 DEF Prompts
    <3>2. prompt'.life = "SelectingIdentity"
      BY <2>2, <2>9, <3>1
    <3> QED
      BY <1>kept, <2>1, <2>5, <2>6, <2>9, <3>2 DEF Waits, Shows
  <2> QED
    BY <1>11, <2>8, <2>9 DEF UserRetry, m, r
<1>12. CASE UserCancel
  <2>1. Dismiss(prompt) \in Prompts /\ ~IsActive(Dismiss(prompt)) /\ Dismiss(prompt).gen >= prompt.gen
    <3>1. prompt \in Prompts /\ prompt.gen \in Nat
      BY <1>ty DEF Prompts
    <3>2. Dismiss(prompt) \in Prompts
      BY <3>1, PromptTypes
    <3>3. ~IsActive(Dismiss(prompt)) /\ Dismiss(prompt).gen = prompt.gen
      BY <3>1, DismissedIsClosed
    <3> QED
      BY <3>1, <3>2, <3>3
  <2> QED
    BY <1>12, <2>1, FinishEnds DEF UserCancel, CancelActive, authority
<1>13. CASE Quit
  <2> DEFINE m == IF active # NoRecord THEN Reset(Complete(prompt)) ELSE prompt
  <2>1. m \in Prompts /\ m.gen = prompt.gen
    BY <1>ty, PromptTypes, CompletedIsClosed
  <2>2. prompt' = Dismiss(m)
    BY <1>13 DEF Quit
  <2> HIDE DEF m
  <2>3. ~IsActive(prompt') /\ prompt'.gen >= prompt.gen
    BY <1>ty, <2>1, <2>2, DismissedIsClosed DEF Prompts
  <2> QED
    BY <1>13, <1>kept, <2>3 DEF Quit, Ends, authority
<1> QED
  BY <1>2, <1>3, <1>4, <1>5, <1>6, <1>7, <1>8, <1>9, <1>10, <1>11, <1>12, <1>13
  DEF Next, Authority, Loop, Pam, User
\* The agent starts with no dialog and no session.
LEMMA DialogInit == Init => DialogInv
<1> SUFFICES ASSUME Init PROVE DialogInv
  OBVIOUS
<1>1. sessions = <<>> /\ session = 0 /\ active = NoRecord /\ prompt = IdlePrompt
  BY DEF Init
<1>2. prompt.life = "Idle"
  BY <1>1 DEF IdlePrompt
<1> QED
  BY <1>1, <1>2 DEF DialogInv, IsActive

\* What a started request's dialog offers stays what polkitd named.
LEMMA ShowsStays ==
  ASSUME TypeOK, RequestsInv, active # NoRecord, Shows(active, prompt),
         UNCHANGED active, prompt'.token = prompt.token, prompt'.gen = prompt.gen,
         prompt'.identities = prompt.identities, prompt'.terminal = prompt.terminal,
         IsActive(prompt'),
         \A t \in Tokens : outcome[t] # "none" => eligible'[t] = eligible[t]
  PROVE  Shows(active, prompt)' /\ eligible'[active.token] = eligible[active.token]
BY RecordTokens DEF RequestsInv, Shows

\* Each shape keeps the dialog, the record and the sessions in step.
LEMMA DialogStep ==
  TypeOK /\ TypeOK' /\ RequestsInv /\ DialogInv /\ [Next]_vars => DialogInv'
<1> SUFFICES ASSUME TypeOK, TypeOK', RequestsInv, DialogInv, [Next]_vars PROVE DialogInv'
  OBVIOUS
<1>ty. /\ sessions \in Seq(Sessions) /\ DOMAIN sessions = 1..Len(sessions) /\ Len(sessions) \in Nat
       /\ sessions' \in Seq(Sessions) /\ DOMAIN sessions' = 1..Len(sessions')
       /\ prompt \in Prompts /\ prompt' \in Prompts
       /\ session \in 0..Len(sessions)
  BY DEF TypeOK
<1>nat. /\ prompt.gen \in Nat /\ prompt'.gen \in Nat
        /\ \A s \in DOMAIN sessions : sessions[s].gen \in Nat
  <2>1. \A s \in DOMAIN sessions : sessions[s] \in Sessions
    BY <1>ty
  <2> QED
    BY <1>ty, <2>1 DEF Sessions, Prompts
<1>kept. ASSUME NEW ss, Kept(ss)
         PROVE  /\ DOMAIN ss = 1..Len(sessions)
                /\ \A s \in 1..Len(sessions) : ss[s].gen = sessions[s].gen
                /\ \A r, s \in DOMAIN ss : r < s => ss[r].gen < ss[s].gen
                /\ \A s \in DOMAIN ss : ss[s].gen <= prompt.gen
  <2>1. DOMAIN ss = 1..Len(sessions) /\ \A s \in 1..Len(sessions) : ss[s].gen = sessions[s].gen
    BY <1>kept, <1>ty DEF Kept
  <2> QED
    BY <1>ty, <2>1 DEF DialogInv
<1>1. CASE Continues
  <2>1. UNCHANGED <<active, session>> /\ Kept(sessions') /\ Len(sessions') = Len(sessions)
    BY <1>1 DEF Continues, Kept
  <2>2. active' = NoRecord => ~IsActive(prompt') /\ session' = NoSession
    BY <1>1 DEF Continues, DialogInv
  <2>3. active' # NoRecord => Shows(active, prompt)'
    BY <1>1, ShowsStays DEF Continues, DialogInv, Shows
  <2>4. session' # NoSession =>
          /\ session' = Len(sessions')
          /\ sessions'[session'].token = active'.token
          /\ sessions'[session'].gen = active'.gen
          /\ sessions'[session'].identity = active'.identity
    BY <1>ty, <2>1 DEF DialogInv, Kept
  <2>5. /\ \A r, s \in DOMAIN sessions' : r < s => sessions'[r].gen < sessions'[s].gen
        /\ \A s \in DOMAIN sessions' : sessions'[s].gen <= prompt'.gen
        /\ prompt'.life = "SelectingIdentity" =>
             \A s \in DOMAIN sessions' : sessions'[s].gen < prompt'.gen
    <3>1. prompt'.gen = prompt.gen /\ (prompt'.life = "SelectingIdentity" => prompt.life = "SelectingIdentity")
      BY <1>1 DEF Continues
    <3>2. /\ DOMAIN sessions' = 1..Len(sessions)
          /\ \A s \in 1..Len(sessions) : sessions'[s].gen = sessions[s].gen
      BY <1>kept, <2>1
    <3> QED
      BY <1>ty, <3>1, <3>2 DEF DialogInv
  <2> QED
    BY <2>2, <2>3, <2>4, <2>5 DEF DialogInv
<1>2. CASE Ends
  <2>1. \A s \in DOMAIN sessions' : sessions'[s].gen <= prompt'.gen
    BY <1>2, <1>nat, <1>ty, <1>kept DEF Ends
  <2>2. prompt'.life # "SelectingIdentity"
    BY <1>2 DEF Ends, IsActive
  <2> QED
    BY <1>2, <1>kept, <2>1, <2>2 DEF Ends, DialogInv
<1>3. CASE Opens
  <2> DEFINE new == [token |-> active'.token, gen |-> active'.gen,
                     identity |-> active'.identity, status |-> "running"]
  <2>1. PICK ss : Kept(ss) /\ sessions' = Append(ss, new)
    BY <1>3 DEF Opens
  <2>2. ss \in Seq(Sessions) /\ Len(ss) = Len(sessions)
    BY <2>1 DEF Kept
  <2>3. /\ Len(sessions') = Len(sessions) + 1
        /\ sessions'[Len(sessions) + 1] = new
        /\ \A s \in 1..Len(sessions) : sessions'[s] = ss[s]
    BY <2>1, <2>2
  <2>4. new.token = active'.token /\ new.gen = active'.gen /\ new.identity = active'.identity
    OBVIOUS
  <2> HIDE DEF new
  <2>5. /\ session' = Len(sessions) + 1 /\ active' # NoRecord /\ prompt'.life = "Busy"
        /\ active'.gen = prompt'.gen /\ Shows(active', prompt') /\ UNCHANGED eligible
        /\ \A s \in DOMAIN sessions : sessions[s].gen < prompt'.gen
    BY <1>3 DEF Opens, Shows
  <2>6. \A s \in DOMAIN sessions' :
          sessions'[s].gen = IF s = Len(sessions) + 1 THEN prompt'.gen ELSE sessions[s].gen
    BY <1>ty, <1>kept, <2>1, <2>3, <2>4, <2>5
  <2>7. /\ \A r, s \in DOMAIN sessions' : r < s => sessions'[r].gen < sessions'[s].gen
        /\ \A s \in DOMAIN sessions' : sessions'[s].gen <= prompt'.gen
    <3>1. \A s \in DOMAIN sessions' : s = Len(sessions) + 1 \/ s \in DOMAIN sessions
      BY <1>ty, <2>3
    <3>2. \A s \in DOMAIN sessions' : sessions'[s].gen <= prompt'.gen
      BY <1>nat, <2>5, <2>6, <3>1
    <3>3. ASSUME NEW r \in DOMAIN sessions', NEW s \in DOMAIN sessions', r < s
          PROVE  sessions'[r].gen < sessions'[s].gen
      BY <1>ty, <2>3, <3>3, <2>5, <2>6, <3>1 DEF DialogInv
    <3> QED
      BY <3>2, <3>3
  <2>8. Shows(active, prompt)'
    BY <2>5 DEF Shows
  <2> QED
    BY <2>3, <2>4, <2>5, <2>7, <2>8 DEF DialogInv
<1>4. CASE Waits
  <2>1. Shows(active', prompt') /\ UNCHANGED eligible /\ active' # NoRecord
    BY <1>4 DEF Waits, Shows
  <2>2. Shows(active, prompt)'
    BY <2>1 DEF Shows
  <2>3. \A s \in DOMAIN sessions' : sessions'[s].gen <= prompt'.gen
    BY <1>4, <1>nat, <1>ty, <1>kept DEF Waits
  <2>4. prompt'.life = "SelectingIdentity" =>
          \A s \in DOMAIN sessions' : sessions'[s].gen < prompt'.gen
    BY <1>4, <1>ty, <1>kept DEF Waits
  <2>5. \A r, s \in DOMAIN sessions' : r < s => sessions'[r].gen < sessions'[s].gen
    BY <1>4, <1>kept DEF Waits
  <2>6. session' = 0
    BY <1>4 DEF Waits
  <2> QED
    BY <2>1, <2>2, <2>3, <2>4, <2>5, <2>6 DEF DialogInv
<1>5. CASE UNCHANGED vars
  BY <1>5 DEF vars, DialogInv, Shows
<1> QED
  BY <1>1, <1>2, <1>3, <1>4, <1>5, DialogShape

\* No session is forgotten, none that ended runs again, and a new one is for the
\* request shown.
LEMMA SessionsGrow ==
  ASSUME TypeOK, Continues \/ Ends \/ Opens \/ Waits
  PROVE  /\ \A s \in DOMAIN sessions :
              /\ s \in DOMAIN sessions'
              /\ sessions'[s].token = sessions[s].token
              /\ sessions'[s].gen = sessions[s].gen
              /\ sessions'[s].identity = sessions[s].identity
              /\ sessions[s].status # "running" => sessions'[s].status = sessions[s].status
         /\ \A s \in DOMAIN sessions' : s \notin DOMAIN sessions =>
              active' # NoRecord /\ sessions'[s].token = active'.token
<1>ty. DOMAIN sessions = 1..Len(sessions) /\ Len(sessions) \in Nat
  BY DEF TypeOK
<1>1. CASE Kept(sessions')
  BY <1>1, <1>ty DEF Kept
<1>2. CASE Opens
  BY <1>2, <1>ty DEF Opens, Kept, Shows
<1> QED
  BY <1>1, <1>2 DEF Continues, Ends, Waits

\* What may be posted in one event: what was, and what is no success, or the
\* success of the session the coordinator holds.
PostsOne ==
  \/ \A k \in DOMAIN posted' :
       \/ \E l \in DOMAIN posted : posted'[k] = posted[l]
       \/ posted'[k].kind # "completed"
       \/ ~posted'[k].ok
  \/ /\ session # NoSession
     /\ sessions'[session].status = "succeeded"
     /\ \A k \in DOMAIN posted' :
          \/ \E l \in DOMAIN posted : posted'[k] = posted[l]
          \/ posted'[k].token = sessions[session].token /\ posted'[k].gen = sessions[session].gen

\* Posting one call.
LEMMA AppendPosts ==
  ASSUME NEW p \in Seq(Events), NEW e, NEW n, n = Append(p, e)
  PROVE  \A k \in DOMAIN n : (\E l \in DOMAIN p : n[k] = p[l]) \/ n[k] = e
OBVIOUS

\* Cancelling a session posts no success.
LEMMA CancelPosts ==
  ASSUME TypeOK, NEW p \in Seq(Events), NEW n, n = p \o CancelEvents(session)
  PROVE  \A k \in DOMAIN n : (\E l \in DOMAIN p : n[k] = p[l]) \/ ~n[k].ok
BY AppendPosts, ConcatEmptySeq DEF CancelEvents, TypeOK, Sessions, Events, CompletedEvents

\* Taking the first posted call posts nothing.
LEMMA TailPosts ==
  ASSUME NEW p \in Seq(Events), p # <<>>, NEW n, n = Tail(p)
  PROVE  \A k \in DOMAIN n : \E l \in DOMAIN p : n[k] = p[l]
OBVIOUS

\* It takes only that one.
LEMMA TailKeeps ==
  ASSUME NEW p \in Seq(Events), p # <<>>, NEW l \in DOMAIN p, p[l] # Head(p)
  PROVE  \E k \in DOMAIN Tail(p) : Tail(p)[k] = p[l]
<1> DEFINE n == Tail(p)
<1>1. /\ DOMAIN p = 1..Len(p) /\ Len(p) \in Nat /\ DOMAIN n = 1..(Len(p) - 1)
      /\ Head(p) = p[1] /\ \A k \in 1..(Len(p) - 1) : n[k] = p[k + 1]
  OBVIOUS
<1> HIDE DEF n
<1>2. l - 1 \in DOMAIN n /\ n[l - 1] = p[l]
  BY <1>1
<1> QED
  BY <1>2 DEF n

\* Only PAM's own verdict posts a success.
LEMMA PostedShape == ASSUME TypeOK, Next PROVE PostsOne
<1>p. posted \in Seq(Events)
  BY DEF TypeOK
<1>1. CASE UNCHANGED posted
  BY <1>1 DEF PostsOne
<1>2. ASSUME NEW e, e.kind # "completed", posted' = Append(posted, e) PROVE PostsOne
  BY <1>p, <1>2, AppendPosts DEF PostsOne
<1>3. CASE posted # <<>> /\ posted' = Tail(posted)
  BY <1>p, <1>3, TailPosts DEF PostsOne
<1>4. CASE posted' = posted \o CancelEvents(session)
  BY <1>p, <1>4, CancelPosts DEF PostsOne
<1>5. CASE posted # <<>> /\ posted' = Tail(posted) \o CancelEvents(session)
  <2> DEFINE p == Tail(posted)
  <2>1. p \in Seq(Events) /\ \A k \in DOMAIN p : \E l \in DOMAIN posted : p[k] = posted[l]
    BY <1>p, <1>5, TailPosts
  <2> HIDE DEF p
  <2>2. posted' = p \o CancelEvents(session)
    BY <1>5 DEF p
  <2>3. \A k \in DOMAIN posted' : (\E l \in DOMAIN p : posted'[k] = p[l]) \/ ~posted'[k].ok
    BY <2>1, <2>2, CancelPosts
  <2> QED
    BY <2>1, <2>3 DEF PostsOne
<1>6. ASSUME NEW ok \in BOOLEAN, PamComplete(ok) PROVE PostsOne
  <2> DEFINE e == [kind |-> "completed", token |-> sessions[session].token,
                   gen |-> sessions[session].gen, ok |-> ok]
  <2>1. posted' = Append(posted, e)
    BY <1>6 DEF PamComplete
  <2>2. CASE ok = FALSE
    BY <1>p, <2>1, <2>2, AppendPosts DEF PostsOne
  <2>3. CASE ok = TRUE
    <3>1. session \in 1..Len(sessions) /\ sessions[session] \in Sessions
      BY <1>6 DEF PamComplete, SessionIsRunning, TypeOK
    <3>2. sessions' = [sessions EXCEPT ![session] = [sessions[session] EXCEPT !.status = "succeeded"]]
      BY <1>6, <2>3 DEF PamComplete
    <3>3. sessions'[session].status = "succeeded"
      BY <3>1, <3>2 DEF Sessions, TypeOK
    <3>4. e.token = sessions[session].token /\ e.gen = sessions[session].gen
      OBVIOUS
    <3> HIDE DEF e
    <3> QED
      BY <1>p, <2>1, <3>1, <3>3, <3>4, AppendPosts DEF PostsOne
  <2> QED
    BY <2>2, <2>3
<1>7. ASSUME NEW t \in Tokens, AuthorityCancel(t) PROVE PostsOne
  BY <1>2, <1>7 DEF AuthorityCancel
<1>8. ASSUME NEW ids \in SUBSET Identities, Receive(ids) PROVE PostsOne
  BY <1>2, <1>8 DEF Receive
<1>9. CASE DeliverCancel
  BY <1>3, <1>5, <1>9 DEF DeliverCancel, EventIs, CancelActive
<1>10. CASE DeliverRequest \/ DeliverCompleted
  BY <1>3, <1>10 DEF DeliverRequest, DeliverCompleted, EventIs
<1>11. CASE UserCancel \/ Quit
  BY <1>4, <1>11 DEF UserCancel, CancelActive, Quit
<1> QED
  BY <1>1, <1>6, <1>7, <1>8, <1>9, <1>10, <1>11
  DEF Next, Authority, Loop, Pam, User, Activate, PamPrompt, UserRespond, UserSelect, UserRetry

\* Successes on their way stay real: the session that succeeded stays as it is.
LEMMA SuccessesStep ==
  TypeOK /\ RequestsInv /\ DialogInv /\ SuccessesAreReal /\ [Next]_vars => SuccessesAreReal'
<1> SUFFICES ASSUME TypeOK, RequestsInv, DialogInv, SuccessesAreReal, [Next]_vars
             PROVE  SuccessesAreReal'
  OBVIOUS
<1>1. CASE UNCHANGED vars
  BY <1>1 DEF vars, SuccessesAreReal
<1>2. CASE Next
  <2>1. \A s \in DOMAIN sessions :
          /\ s \in DOMAIN sessions'
          /\ sessions'[s].token = sessions[s].token
          /\ sessions'[s].gen = sessions[s].gen
          /\ sessions[s].status # "running" => sessions'[s].status = sessions[s].status
    BY <1>2, DialogShape, SessionsGrow
  <2> SUFFICES ASSUME NEW k \in DOMAIN posted', posted'[k].kind = "completed", posted'[k].ok
               PROVE  \E s \in DOMAIN sessions' :
                        /\ sessions'[s].token = posted'[k].token
                        /\ sessions'[s].gen = posted'[k].gen
                        /\ sessions'[s].status = "succeeded"
    BY DEF SuccessesAreReal
  <2>2. ASSUME NEW l \in DOMAIN posted, posted'[k] = posted[l]
        PROVE  \E s \in DOMAIN sessions' :
                 /\ sessions'[s].token = posted'[k].token
                 /\ sessions'[s].gen = posted'[k].gen
                 /\ sessions'[s].status = "succeeded"
    BY <2>2, <2>1 DEF SuccessesAreReal
  <2>3. session # 0 => session \in DOMAIN sessions
    BY DEF TypeOK
  <2> QED
    BY <1>2, <2>1, <2>2, <2>3, PostedShape DEF PostsOne
<1> QED
  BY <1>1, <1>2

\* Only the success of the active request's session grants, and grants that request.
LEMMA GrantShape ==
  ASSUME TypeOK, Next, NEW t \in Tokens, outcome'[t] = "granted"
  PROVE  \/ outcome[t] = "granted"
         \/ /\ DeliverCompleted
            /\ t = active.token
            /\ CallbackIsCurrent(Head(posted).token, Head(posted).gen)
            /\ Head(posted).ok
            /\ sessions' = Destroyed(sessions, session)
<1>o. outcome \in [Tokens -> Outcomes]
  BY DEF TypeOK
<1>1. CASE UNCHANGED outcome
  BY <1>1
<1>2. ASSUME NEW u, outcome' = [outcome EXCEPT ![u] = Answered(outcome[u], FALSE)]
      PROVE  outcome[t] = "granted"
  BY <1>o, <1>2 DEF Answered
<1>3. ASSUME NEW r, NEW m, NEW sched, FinishActive(r, m, FALSE, sched) PROVE outcome[t] = "granted"
  BY <1>2, <1>3 DEF FinishActive
<1>4. ASSUME NEW r, NEW m, NEW i, NEW sched, StartSession(r, m, i, sched) PROVE outcome[t] = "granted"
  BY <1>1, <1>3, <1>4 DEF StartSession
<1>5. ASSUME NEW ids \in SUBSET Identities, Receive(ids) PROVE outcome[t] = "granted"
  BY <1>o, <1>5 DEF Receive
<1>6. CASE DeliverRequest
  BY <1>1, <1>2, <1>6 DEF DeliverRequest
<1>7. CASE DeliverCancel
  BY <1>1, <1>2, <1>3, <1>7 DEF DeliverCancel, CancelActive
<1>8. CASE DeliverCompleted
  <2> DEFINE e == Head(posted)
  <2>1. CASE UNCHANGED outcome
    BY <2>1
  <2>2. CASE /\ CallbackIsCurrent(e.token, e.gen)
             /\ e.ok
             /\ FinishActive(active, prompt, TRUE, scheduled)
             /\ sessions' = Destroyed(sessions, session)
    <3>1. outcome' = [outcome EXCEPT ![active.token] = Answered(outcome[active.token], TRUE)]
      BY <2>2 DEF FinishActive
    <3>2. t = active.token \/ outcome[t] = "granted"
      BY <1>o, <3>1
    <3> QED
      BY <1>8, <2>2, <3>2
  <2> QED
    BY <1>8, <2>1, <2>2 DEF DeliverCompleted
<1>9. CASE Activate
  BY <1>1, <1>3, <1>4, <1>9 DEF Activate
<1>10. CASE (\E i \in Identities : UserSelect(i)) \/ UserRetry
  BY <1>1, <1>4, <1>10 DEF UserSelect, UserRetry
<1>11. CASE UserCancel
  BY <1>3, <1>11 DEF UserCancel, CancelActive
<1>12. CASE Quit
  BY <1>12 DEF Answered, Quit
<1> QED
  BY <1>1, <1>5, <1>6, <1>7, <1>8, <1>9, <1>10, <1>11, <1>12
  DEF Next, Authority, Loop, Pam, User, AuthorityCancel, PamPrompt, PamComplete, UserRespond

\* A success the coordinator takes for the current session's is the current
\* session's: no other session has its generation.
LEMMA CurrentSuccess ==
  ASSUME TypeOK, DialogInv, SuccessesAreReal, posted # <<>>, Head(posted).kind = "completed",
         Head(posted).ok, CallbackIsCurrent(Head(posted).token, Head(posted).gen)
  PROVE  /\ session \in DOMAIN sessions
         /\ sessions[session].token = active.token
         /\ sessions[session].status = "succeeded"
         /\ sessions[session].identity \in eligible[active.token]
         /\ session = Len(sessions)
<1>1. 1 \in DOMAIN posted /\ Head(posted) = posted[1]
  BY DEF TypeOK
<1>2. PICK s \in DOMAIN sessions :
        /\ sessions[s].gen = Head(posted).gen
        /\ sessions[s].status = "succeeded"
  BY <1>1 DEF SuccessesAreReal
<1>3. /\ session \in DOMAIN sessions /\ session = Len(sessions)
      /\ sessions[session].token = active.token
      /\ sessions[session].gen = Head(posted).gen
      /\ sessions[session].identity = active.identity
  BY DEF CallbackIsCurrent, TypeOK, DialogInv
<1>4. active.identity \in eligible[active.token]
  BY DEF CallbackIsCurrent, DialogInv, Shows
<1>5. s = session
  <2>1. sessions[s] \in Sessions /\ sessions[session] \in Sessions /\ s \in Nat /\ session \in Nat
    BY <1>3 DEF TypeOK
  <2>2. sessions[s].gen \in Nat /\ sessions[session].gen \in Nat
    BY <2>1 DEF Sessions
  <2> QED
    BY <1>2, <1>3, <2>1, <2>2 DEF DialogInv
<1> QED
  BY <1>2, <1>3, <1>4, <1>5

\* A grant stays that of the last session for its request.
LEMMA GrantStep ==
  TypeOK /\ TypeOK' /\ RequestsInv /\ RequestsInv' /\ DialogInv /\ SuccessesAreReal
  /\ GrantIsEarned /\ [Next]_vars => GrantIsEarned'
<1> SUFFICES ASSUME TypeOK, TypeOK', RequestsInv, RequestsInv', DialogInv, SuccessesAreReal,
                    GrantIsEarned, [Next]_vars
             PROVE  GrantIsEarned'
  OBVIOUS
<1>1. CASE UNCHANGED vars
  BY <1>1 DEF vars, GrantIsEarned
<1>2. CASE Next
  <2> SUFFICES ASSUME NEW t \in Tokens, outcome'[t] = "granted"
               PROVE  \E s \in DOMAIN sessions' :
                        /\ sessions'[s].token = t
                        /\ sessions'[s].status = "succeeded"
                        /\ sessions'[s].identity \in eligible'[t]
                        /\ \A r \in DOMAIN sessions' : sessions'[r].token = t => r <= s
    BY DEF GrantIsEarned
  <2>1. Continues \/ Ends \/ Opens \/ Waits
    BY <1>2, DialogShape
  <2>2. /\ \A s \in DOMAIN sessions :
             /\ s \in DOMAIN sessions'
             /\ sessions'[s].token = sessions[s].token
             /\ sessions'[s].identity = sessions[s].identity
             /\ sessions[s].status # "running" => sessions'[s].status = sessions[s].status
        /\ \A s \in DOMAIN sessions' : s \notin DOMAIN sessions =>
             active' # NoRecord /\ sessions'[s].token = active'.token
    BY <2>1, SessionsGrow
  <2>3. outcome[t] # "none" => eligible'[t] = eligible[t]
    BY <2>1 DEF Continues, Ends, Opens, Waits
  <2>4. active' # NoRecord => active'.token # t
    BY DEF RequestsInv
  <2>5. \A r \in DOMAIN sessions' : sessions'[r].token = t => r \in DOMAIN sessions /\ sessions[r].token = t
    BY <2>2, <2>4
  <2>6. CASE outcome[t] = "granted"
    BY <2>6, <2>3, <2>2, <2>5 DEF GrantIsEarned
  <2>7. CASE /\ DeliverCompleted
             /\ t = active.token
             /\ CallbackIsCurrent(Head(posted).token, Head(posted).gen)
             /\ Head(posted).ok
    <3>1. /\ session \in DOMAIN sessions
          /\ sessions[session].token = active.token
          /\ sessions[session].status = "succeeded"
          /\ sessions[session].identity \in eligible[active.token]
          /\ session = Len(sessions)
      BY <2>7, CurrentSuccess DEF DeliverCompleted, EventIs
    <3>2. eligible'[t] = eligible[t]
      BY <2>7 DEF DeliverCompleted, authority
    <3>3. \A r \in DOMAIN sessions : r <= session
      BY <3>1 DEF TypeOK
    <3> QED
      BY <2>2, <2>5, <2>7, <3>1, <3>2, <3>3
  <2> QED
    BY <1>2, <2>6, <2>7, GrantShape
<1> QED
  BY <1>1, <1>2

\* A completion leaves the loop only by being delivered.
LEMMA CompletionsStay ==
  ASSUME TypeOK, Next, NEW l \in DOMAIN posted, posted[l].kind = "completed"
  PROVE  \/ \E k \in DOMAIN posted' : posted'[k] = posted[l]
         \/ DeliverCompleted /\ posted[l] = Head(posted)
<1>p. posted \in Seq(Events)
  BY DEF TypeOK
<1>1. CASE UNCHANGED posted
  BY <1>1
<1>2. ASSUME NEW p \in Seq(Events), NEW k \in DOMAIN p, NEW n,
             n = p \o CancelEvents(session) \/ \E e : n = Append(p, e)
      PROVE  k \in DOMAIN n /\ n[k] = p[k]
  <2>1. CASE \E e : n = Append(p, e)
    BY <1>2, <2>1
  <2>2. CASE n = p \o CancelEvents(session)
    BY CancelEventsType, <1>2, <2>2, ConcatProperties
  <2> QED
    BY <1>2, <2>1, <2>2
<1>3. ASSUME posted # <<>>, Head(posted).kind # "completed"
      PROVE  \E k \in DOMAIN Tail(posted) : Tail(posted)[k] = posted[l]
  BY <1>p, <1>3, TailKeeps
<1>4. CASE posted # <<>> /\ Head(posted).kind # "completed" /\ posted' = Tail(posted)
  BY <1>3, <1>4
<1>5. CASE posted # <<>> /\ Head(posted).kind # "completed"
           /\ posted' = Tail(posted) \o CancelEvents(session)
  BY <1>p, <1>5, <1>2, <1>3
<1>6. CASE posted' = posted \o CancelEvents(session) \/ \E e : posted' = Append(posted, e)
  BY <1>2, <1>6, <1>p
<1>7. CASE DeliverCompleted
  <2>1. posted # <<>> /\ posted' = Tail(posted)
    BY <1>7 DEF DeliverCompleted, EventIs
  <2> QED
    BY <1>7, <1>p, <2>1, TailKeeps
<1>8. CASE DeliverCancel \/ DeliverRequest
  BY <1>4, <1>5, <1>8 DEF DeliverCancel, DeliverRequest, EventIs, CancelActive
<1>9. CASE UserCancel \/ Quit \/ Authority \/ \E ok \in BOOLEAN : PamComplete(ok)
  BY <1>6, <1>9 DEF UserCancel, CancelActive, Quit, Authority, Receive, AuthorityCancel, PamComplete
<1> QED
  BY <1>1, <1>7, <1>8, <1>9
  DEF Next, Loop, Pam, User, Activate, PamPrompt, UserRespond, UserSelect, UserRetry

\* A busy dialog stays with a running session or one whose end is under way.
LEMMA UsableStep ==
  TypeOK /\ RequestsInv /\ DialogInv /\ NoDeadPrompt /\ [Next]_vars => NoDeadPrompt'
<1> SUFFICES ASSUME TypeOK, RequestsInv, DialogInv, NoDeadPrompt, [Next]_vars PROVE NoDeadPrompt'
  OBVIOUS
<1>0. CASE UNCHANGED vars
  BY <1>0 DEF vars, NoDeadPrompt
<1> SUFFICES ASSUME Next, running', prompt'.life \in {"Busy", "AwaitingInput"}
             PROVE  /\ session' # NoSession
                    /\ \/ sessions'[session'].status = "running"
                       \/ \E k \in DOMAIN posted' :
                            /\ posted'[k].kind = "completed"
                            /\ posted'[k].token = active'.token
                            /\ posted'[k].gen = active'.gen
  BY <1>0 DEF NoDeadPrompt
<1>1. CASE Ends \/ Waits
  BY <1>1 DEF Ends, Waits, IsActive
<1>2. CASE Opens
  BY <1>2 DEF Opens, Kept, TypeOK
<1>3. CASE Continues
  <2>1. UNCHANGED <<active, session>> /\ prompt.life \in {"Busy", "AwaitingInput"}
    BY <1>3 DEF Continues
  <2>2. running
    BY DEF Next, Authority, Loop, Pam, User, Receive, AuthorityCancel, DeliverRequest, DeliverCancel,
       DeliverCompleted, EventIs, Activate, PamPrompt, PamComplete, UserRespond, UserSelect,
       UserRetry, UserCancel, Delivers, Quit
  <2>3. session # 0
    BY <2>1, <2>2 DEF NoDeadPrompt
  <2>4. /\ session \in DOMAIN sessions
        /\ sessions[session].token = active.token /\ sessions[session].gen = active.gen
    BY <2>3 DEF DialogInv, TypeOK
  <2>5. ASSUME NEW ok \in BOOLEAN, PamComplete(ok)
        PROVE  \E k \in DOMAIN posted' :
                 /\ posted'[k].kind = "completed"
                 /\ posted'[k].token = active'.token
                 /\ posted'[k].gen = active'.gen
    <3> DEFINE e == [kind |-> "completed", token |-> sessions[session].token,
                     gen |-> sessions[session].gen, ok |-> ok]
    <3>1. posted' = Append(posted, e)
      BY <2>5 DEF PamComplete
    <3>2. e.kind = "completed" /\ e.token = active'.token /\ e.gen = active'.gen
      BY <2>1, <2>4
    <3> HIDE DEF e
    <3>3. Len(posted) + 1 \in DOMAIN posted' /\ posted'[Len(posted) + 1] = e
      BY <3>1 DEF TypeOK
    <3> QED
      BY <3>2, <3>3
  <2>6. CASE UNCHANGED sessions /\ sessions[session].status = "running"
    BY <2>1, <2>3, <2>6
  <2>7. CASE sessions[session].status # "running"
    <3>1. PICK l \in DOMAIN posted :
            /\ posted[l].kind = "completed"
            /\ posted[l].token = active.token
            /\ posted[l].gen = active.gen
      BY <2>1, <2>2, <2>7 DEF NoDeadPrompt
    <3>2. ~(DeliverCompleted /\ posted[l] = Head(posted))
      BY <2>1, <2>3, <3>1 DEF DeliverCompleted, CallbackIsCurrent, FinishActive
    <3>3. PICK k \in DOMAIN posted' : posted'[k] = posted[l]
      BY <3>1, <3>2, CompletionsStay
    <3> QED
      BY <2>1, <2>3, <3>1, <3>3
  <2> QED
    BY <1>3, <2>1, <2>3, <2>5, <2>6, <2>7 DEF Continues
<1> QED
  BY <1>1, <1>2, <1>3, DialogShape

(***************************************************************************)
(* The theorems about the agent.                                           *)
(***************************************************************************)

\* The dialog, the record and the sessions agree in every reachable state.
THEOREM DialogIsInStep == Spec => []DialogInv
  BY DialogInit, DialogStep, TypeCorrect, RequestsAreOrdered, PTL DEF Spec

\* Whoever is granted was granted by the success of the last PAM session opened
\* for that very request, for an identity polkitd named.
THEOREM GrantsAreEarned == Spec => []GrantIsEarned
<1>1. Init => SuccessesAreReal /\ GrantIsEarned
  BY DEF Init, SuccessesAreReal, GrantIsEarned
<1> QED
  BY <1>1, SuccessesStep, GrantStep, TypeCorrect, RequestsAreOrdered, DialogIsInStep, PTL DEF Spec

\* The dialog shows the active request, its answers go to that request's session,
\* and a busy dialog is moved on.
THEOREM PromptsAreUsable == Spec => []PromptIsUsable
<1>1. Init => NoDeadPrompt
  BY DEF Init, IdlePrompt, NoDeadPrompt
<1>2. DialogInv => PromptShowsActive
  BY DEF DialogInv, Shows, PromptShowsActive
<1>3. NoDeadPrompt /\ PromptShowsActive => PromptIsUsable
  BY DEF PromptIsUsable
<1> QED
  BY <1>1, <1>2, <1>3, UsableStep, TypeCorrect, RequestsAreOrdered, DialogIsInStep, PTL DEF Spec

(***************************************************************************)
(* The askpass helper.                                                     *)
(***************************************************************************)

\* The inductive strengthening of AskpassIsHonest: the exit status is set by the
\* response that closes the dialog, or by SIGTERM, which closes it; until then
\* nothing was written and the dialog waits for the answer the mode asks for.
StatusFits == finished => IF Overridden THEN exit = 1 ELSE exit = 0 <=> Earned

AskpassInv ==
  /\ AskpassTypeOK
  /\ finished <=> exit # None
  /\ finished => ~IsActive(dialog)
  /\ ~finished =>
       /\ stdout = "empty" /\ ~accepted /\ ~sigterm
       /\ ~dialog.terminal
       /\ \/ dialog.life = "AwaitingInput" /\ dialog.mode = mode
          \/ dialog.life = "RetryableError"
  /\ ended => finished
  /\ StatusFits
  /\ StdoutIsProtocol

AskpassDialogs == [life : Lifecycles, mode : InputModes, token : {NoToken, AskpassToken},
                   gen : Nat, identities : SUBSET {}, terminal : BOOLEAN]

\* The helper starts with an open dialog.
LEMMA AskpassInitInv == AskpassInit => AskpassInv
<1> SUFFICES ASSUME AskpassInit PROVE AskpassInv
  OBVIOUS
<1>1. Cardinality({}) = 0
  BY FS_EmptySet
<1>2. /\ dialog = [life |-> "AwaitingInput", mode |-> mode, token |-> AskpassToken, gen |-> 1,
                   identities |-> {}, terminal |-> FALSE]
      /\ mode \in {"Text", "Confirmation", "Notification"}
  <2>1. ~(Cardinality({}) > 1)
    BY <1>1
  <2>2. IdlePrompt.gen + 1 = 1
    BY DEF IdlePrompt
  <2> QED
    BY <2>1, <2>2 DEF AskpassInit, BeginRequest
<1>3. AskpassTypeOK
  <2>1. dialog \in AskpassDialogs
    BY <1>2 DEF AskpassDialogs, Lifecycles, InputModes
  <2> QED
    BY <1>2, <2>1 DEF AskpassInit, AskpassTypeOK, AskpassDialogs
<1> QED
  BY <1>2, <1>3 DEF AskpassInit, AskpassInv, StdoutIsProtocol, None, IsActive, StatusFits

\* What the callback and the handlers make of an open dialog.
LEMMA AskpassDialogSteps ==
  ASSUME NEW m \in AskpassDialogs, ~m.terminal, IsActive(m)
  PROVE  /\ MarkBusy(m) \in AskpassDialogs /\ ~MarkBusy(m).terminal /\ IsActive(MarkBusy(m))
         /\ m.life = "AwaitingInput" =>
              MarkRetryableError(MarkBusy(m)) = [m EXCEPT !.life = "RetryableError"]
         /\ Complete(m) \in AskpassDialogs /\ ~IsActive(Complete(m))
<1> USE DEF AskpassDialogs, Lifecycles
<1>1. MarkBusy(m) \in AskpassDialogs /\ ~MarkBusy(m).terminal /\ IsActive(MarkBusy(m))
  BY DEF MarkBusy, IsActive
<1>2. ASSUME m.life = "AwaitingInput"
      PROVE  MarkRetryableError(MarkBusy(m)) = [m EXCEPT !.life = "RetryableError"]
  <2>1. MarkBusy(m) = [m EXCEPT !.life = "Busy"]
    BY <1>2 DEF MarkBusy
  <2> QED
    BY <2>1 DEF MarkRetryableError
<1>3. Complete(m) \in AskpassDialogs /\ ~IsActive(Complete(m))
  BY DEF Complete, IsActive
<1> QED
  BY <1>1, <1>2, <1>3

\* Completing or cancelling a dialog that is closed leaves it closed.
LEMMA AskpassClosed ==
  ASSUME NEW m \in AskpassDialogs
  PROVE  /\ Dismiss(m) \in AskpassDialogs /\ ~IsActive(Dismiss(m))
         /\ ~IsActive(m) => Complete(m) = m
  BY DEF AskpassDialogs, Lifecycles, Dismiss, Complete, IsActive

\* The end of the callback for an open dialog: it closes with a status.
LEMMA FinishCloses ==
  ASSUME AskpassInv, ~finished, NEW code \in {0, 1},
         \/ Finish(MarkBusy(dialog), code)
         \/ Finish(Dismiss(dialog), code)
  PROVE  finished' /\ exit' = code /\ dialog' \in AskpassDialogs /\ ~IsActive(dialog')
BY AskpassDialogSteps, AskpassClosed DEF AskpassInv, AskpassTypeOK, AskpassDialogs, IsActive, Finish

\* Every handler of the helper keeps status, output and dialog in step.
LEMMA AskpassStep == AskpassInv /\ [AskpassNext]_askpassVars => AskpassInv'
<1> SUFFICES ASSUME AskpassInv, [AskpassNext]_askpassVars PROVE AskpassInv'
  OBVIOUS
<1>ty. /\ dialog \in AskpassDialogs /\ AskpassTypeOK /\ StdoutIsProtocol
       /\ ~finished => /\ ~dialog.terminal /\ IsActive(dialog) /\ stdout = "empty" /\ exit = -1
                       /\ ~accepted /\ ~sigterm
  BY DEF AskpassInv, AskpassTypeOK, AskpassDialogs, IsActive, None
<1>1. CASE RespondValid
  <2>0. ~finished /\ mode = "Text" /\ stdout = "empty"
    BY <1>1, <1>ty DEF RespondValid, CanRespond, AskpassInv
  <2>1. CASE stdout' = "all" /\ Finish(MarkBusy(dialog), 0)
    <3>1. finished' /\ exit' = 0 /\ dialog' \in AskpassDialogs /\ ~IsActive(dialog')
      BY <2>0, <2>1, FinishCloses
    <3>2. StatusFits'
      BY <1>1, <1>ty, <2>0, <2>1, <3>1 DEF StatusFits, Overridden, Earned, RespondValid
    <3> QED
      BY <1>1, <1>ty, <2>0, <2>1, <3>1, <3>2
      DEF RespondValid, AskpassInv, AskpassTypeOK, AskpassDialogs, StdoutIsProtocol, None
  <2>2. CASE stdout' \in {stdout, "partial"} /\ Finish(MarkBusy(dialog), 1)
    <3>1. finished' /\ exit' = 1 /\ dialog' \in AskpassDialogs /\ ~IsActive(dialog')
      BY <2>0, <2>2, FinishCloses
    <3>2. StatusFits'
      BY <1>1, <1>ty, <2>0, <2>2, <3>1 DEF StatusFits, Overridden, Earned, RespondValid
    <3> QED
      BY <1>1, <1>ty, <2>0, <2>2, <3>1, <3>2
      DEF RespondValid, AskpassInv, AskpassTypeOK, AskpassDialogs, StdoutIsProtocol, None
  <2> QED
    BY <1>1, <2>0, <2>1, <2>2 DEF RespondValid
<1>2. CASE RespondInvalid
  <2>1. /\ ~finished /\ dialog.life = "AwaitingInput"
        /\ dialog' = MarkRetryableError(MarkBusy(dialog)) /\ UNCHANGED <<mode, finished, exit, stdout, accepted, sigterm, ended>>
    BY <1>2 DEF RespondInvalid, CanRespond
  <2>2. dialog' = [dialog EXCEPT !.life = "RetryableError"]
    BY <1>ty, <2>1, AskpassDialogSteps
  <2>3. dialog' \in AskpassDialogs /\ dialog'.life = "RetryableError" /\ ~dialog'.terminal
    BY <1>ty, <2>1, <2>2 DEF AskpassDialogs, Lifecycles
  <2> QED
    BY <1>ty, <2>1, <2>3 DEF AskpassInv, AskpassTypeOK, AskpassDialogs, StdoutIsProtocol, StatusFits
<1>3. CASE Retry
  <2>1. /\ ~finished
        /\ dialog' = PresentPrompt(Retried(dialog), mode)
        /\ UNCHANGED <<mode, finished, exit, stdout, accepted, sigterm, ended>>
    BY <1>3 DEF Retry
  <2>2. Cardinality(dialog.identities) = 0
    BY <1>ty, FS_EmptySet DEF AskpassDialogs
  <2>3. Retried(dialog) = [dialog EXCEPT !.gen = @ + 1, !.life = "Busy"]
    BY <2>2 DEF Retried
  <2>4. /\ Retried(dialog) \in AskpassDialogs /\ Retried(dialog).life = "Busy"
        /\ ~Retried(dialog).terminal
    <3>1. dialog.gen + 1 \in Nat /\ dialog \in AskpassDialogs /\ ~dialog.terminal
      BY <1>ty, <2>1 DEF AskpassDialogs
    <3>2. Retried(dialog) = [dialog EXCEPT !.gen = dialog.gen + 1, !.life = "Busy"]
      BY <2>3
    <3> HIDE DEF Retried
    <3> QED
      BY <3>1, <3>2 DEF AskpassDialogs, Lifecycles
  <2>5. dialog' = [Retried(dialog) EXCEPT !.mode = mode, !.life = "AwaitingInput"]
    BY <2>1, <2>4 DEF PresentPrompt
  <2>6. mode \in InputModes
    BY <1>ty DEF AskpassTypeOK, InputModes
  <2>7. /\ dialog' \in AskpassDialogs /\ ~dialog'.terminal
        /\ dialog'.life = "AwaitingInput" /\ dialog'.mode = mode
    BY <2>4, <2>5, <2>6 DEF AskpassDialogs, Lifecycles
  <2> QED
    BY <1>ty, <2>1, <2>7 DEF AskpassInv, AskpassTypeOK, AskpassDialogs, StdoutIsProtocol, StatusFits
<1>4. ASSUME NEW yes \in BOOLEAN, Confirm(yes) PROVE AskpassInv'
  <2> DEFINE code == IF yes THEN 0 ELSE 1
  <2>1. /\ ~finished /\ mode = "Confirmation" /\ Finish(MarkBusy(dialog), code)
        /\ accepted' = yes /\ UNCHANGED <<mode, stdout, sigterm, ended>>
    BY <1>4 DEF Confirm, CanConfirm, AskpassInv
  <2>2. code \in {0, 1} /\ (code = 0 => yes = TRUE) /\ (yes = TRUE => code = 0)
    OBVIOUS
  <2> HIDE DEF code
  <2>3. finished' /\ exit' = code /\ dialog' \in AskpassDialogs /\ ~IsActive(dialog')
    BY <2>1, <2>2, FinishCloses
  <2>4. accepted' \in BOOLEAN /\ (exit' = 0 => accepted') /\ (accepted' => exit' = 0)
    BY <1>4, <2>1, <2>2, <2>3
  <2>5. StatusFits'
    <3>1. mode' = "Confirmation" /\ ~sigterm'
      BY <1>ty, <2>1
    <3>2. (Earned' => accepted') /\ (accepted' => Earned') /\ ~Overridden'
      BY <3>1 DEF Earned, Overridden
    <3> QED
      BY <2>2, <2>3, <2>4, <3>2 DEF StatusFits
  <2> QED
    BY <1>ty, <2>1, <2>2, <2>3, <2>4, <2>5
    DEF AskpassInv, AskpassTypeOK, AskpassDialogs, StdoutIsProtocol, None
<1>5. CASE Acknowledge \/ Cancel
  <2>1. /\ ~finished /\ UNCHANGED <<mode, stdout, accepted, sigterm, ended>>
        /\ Finish(MarkBusy(dialog), 1) \/ Finish(Dismiss(dialog), 1)
    BY <1>5 DEF Acknowledge, Cancel
  <2>2. finished' /\ exit' = 1 /\ dialog' \in AskpassDialogs /\ ~IsActive(dialog')
    BY <2>1, FinishCloses
  <2>3. StatusFits'
    <3>1. mode' \in {"Text", "Confirmation", "Notification"} /\ ~accepted' /\ ~sigterm' /\ stdout' = "empty"
      BY <1>ty, <2>1 DEF AskpassTypeOK
    <3>2. ~Overridden'
      BY <3>1 DEF Overridden
    <3>3. CASE mode' = "Text"
      <4>1. stdout' # "all"
        BY <3>1
      <4> QED
        BY <2>2, <3>2, <3>3, <4>1 DEF StatusFits, Earned
    <3>4. CASE mode' = "Confirmation"
      BY <2>2, <3>1, <3>2, <3>4 DEF StatusFits, Earned
    <3>5. CASE mode' = "Notification"
      BY <2>2, <3>1, <3>2, <3>5 DEF StatusFits, Earned
    <3> QED
      BY <3>1, <3>3, <3>4, <3>5
  <2> QED
    BY <1>ty, <2>1, <2>2, <2>3
    DEF AskpassInv, AskpassTypeOK, AskpassDialogs, StdoutIsProtocol, None
<1>6. CASE Terminate
  <2>1. /\ sigterm' = TRUE /\ dialog' = Dismiss(dialog)
        /\ finished' = (finished \/ IsActive(dialog))
        /\ exit' = IF mode = "Notification" THEN 0 ELSE 1
        /\ UNCHANGED <<mode, stdout, accepted, ended>>
    BY <1>6 DEF Terminate
  <2>2. dialog' \in AskpassDialogs /\ ~IsActive(dialog') /\ finished' = TRUE
    BY <1>ty, <2>1, AskpassClosed DEF AskpassTypeOK
  <2>3. StatusFits'
    BY <1>ty, <2>1 DEF StatusFits, Overridden, Earned, AskpassTypeOK
  <2> QED
    BY <1>ty, <2>1, <2>2, <2>3
    DEF AskpassInv, AskpassTypeOK, AskpassDialogs, StdoutIsProtocol, None
<1>7. CASE End
  BY <1>7 DEF End, AskpassInv, AskpassTypeOK, StdoutIsProtocol, StatusFits, Overridden, Earned
<1>8. CASE UNCHANGED askpassVars
  BY <1>8 DEF askpassVars, AskpassInv, AskpassTypeOK, StdoutIsProtocol, StatusFits, Overridden, Earned
<1> QED
  BY <1>1, <1>2, <1>3, <1>4, <1>5, <1>6, <1>7, <1>8 DEF AskpassNext

\* The helper's status and output are what the user answered, in a dialog that
\* always takes an answer.
THEOREM AskpassAnswersHonestly == AskpassSpec => []AskpassIsHonest
<1>1. AskpassInv => AskpassIsHonest
  <2> SUFFICES ASSUME AskpassInv PROVE AskpassIsHonest
    OBVIOUS
  <2>1. DialogTakesAnswers
    BY DEF AskpassInv, AskpassTypeOK, DialogTakesAnswers, CanRespond, CanRetry, CanConfirm, CanAcknowledge
  <2> QED
    BY <2>1 DEF AskpassInv, AskpassIsHonest, StatusIsTheAnswer, StatusFits
<1> QED
  BY <1>1, AskpassInitInv, AskpassStep, PTL DEF AskpassSpec

(***************************************************************************)
(* The profiles the dialog shows.                                          *)
(***************************************************************************)

\* Dropping the result of a lookup, or showing it when its request is shown,
\* leaves what the dialog offers, and only profiles of its request.
LEMMA EnrichedKeeps ==
  ASSUME ProfilesAreOfThisRequest, NEW l \in profileLookups,
         NEW n, n \in {profilePrompt, Enriched(profilePrompt, l)}
  PROVE  /\ n \in [token : 0..MaxProfileRequests, made : 0..MaxProfileRequests, active : BOOLEAN,
                   offered : SUBSET ProfileIdentities, shown : [ProfileIdentities -> Profiles]]
         /\ n.token = profilePrompt.token /\ n.active = profilePrompt.active
         /\ n.offered = profilePrompt.offered
         /\ \A i \in ProfileIdentities : n.shown[i].for \in {0, n.token}
BY UsersAssumption, MaxProfileRequestsAssumption DEF ProfilesAreOfThisRequest, ProfileTypeOK, Profiles, Enriched,
   UpdateProfile

\* A profile that is shown belongs to the request that is shown, and every user
\* offered has been answered for or is being looked up: inductive as it stands.
THEOREM ProfilesBelong == ProfilesSpec => []ProfilesAreOfThisRequest
<1>1. ProfilesOfInit => ProfilesAreOfThisRequest
  BY MaxProfileRequestsAssumption DEF NoProfile, Profiles, ProfilesOfInit, ProfilesAreOfThisRequest, ProfileTypeOK
<1>2. ProfilesAreOfThisRequest /\ [ProfilesOfNext]_profileVars => ProfilesAreOfThisRequest'
  <2> SUFFICES ASSUME ProfilesAreOfThisRequest, [ProfilesOfNext]_profileVars
               PROVE  ProfilesAreOfThisRequest'
    OBVIOUS
  <2> DEFINE Prompt == [token : 0..MaxProfileRequests, made : 0..MaxProfileRequests, active : BOOLEAN,
                        offered : SUBSET ProfileIdentities, shown : [ProfileIdentities -> Profiles]]
  <2>ty. /\ profilePrompt \in Prompt /\ profileScope \in 0..MaxProfileRequests
         /\ profileLookups \subseteq [request : 1..MaxProfileRequests, user : Users, call : {"find", "get"}]
         /\ profileDone \subseteq (1..MaxProfileRequests) \X Users
         /\ 0 \in 0..MaxProfileRequests
    BY MaxProfileRequestsAssumption DEF ProfilesAreOfThisRequest, ProfileTypeOK
  <2>none. NoProfile \in Profiles /\ NoProfile.for = 0
    BY <2>ty DEF NoProfile, Profiles
  <2>1. CASE Present
    <3> DEFINE request == profilePrompt.made + 1
    <3>1. PICK offered \in SUBSET ProfileIdentities \ {{}}, recorded \in SUBSET Users :
            /\ profilePrompt' = [token |-> request, made |-> request, active |-> TRUE, offered |-> offered,
                                 shown |-> [i \in ProfileIdentities |->
                                              IF i \in offered \cap recorded
                                              THEN [from |-> "passwd", for |-> request] ELSE NoProfile]]
            /\ profileScope' = request
            /\ profileLookups' = profileLookups \cup
                 [request : {request}, user : offered \cap Users, call : {"find"}]
            /\ UNCHANGED profileDone
      BY <2>1 DEF Present
    <3>2. request \in 1..MaxProfileRequests
      BY <2>1, <2>ty, MaxProfileRequestsAssumption DEF Present
    <3> HIDE DEF request
    <3> DEFINE p == [from |-> "passwd", for |-> request]
               shown == [i \in ProfileIdentities |-> IF i \in offered \cap recorded THEN p ELSE NoProfile]
    <3>3. p \in Profiles /\ p.for = request
      BY <3>2 DEF Profiles
    <3> HIDE DEF p
    <3>4. /\ shown \in [ProfileIdentities -> Profiles]
          /\ \A i \in ProfileIdentities : shown[i].for \in {0, request}
      BY <2>none, <3>3
    <3> HIDE DEF shown
    <3>5. profilePrompt' = [token |-> request, made |-> request, active |-> TRUE, offered |-> offered,
                            shown |-> shown]
      BY <3>1 DEF shown, p
    <3>6. profilePrompt' \in Prompt /\ profileScope' \in 0..MaxProfileRequests
      BY <3>1, <3>2, <3>4, <3>5, MaxProfileRequestsAssumption
    <3>7. profileLookups' \subseteq [request : 1..MaxProfileRequests, user : Users, call : {"find", "get"}]
      BY <2>ty, <3>1, <3>2
    <3>8. \A u \in offered \cap Users : \E l \in profileLookups' : l.request = request /\ l.user = u
      <4> TAKE u \in offered \cap Users
      <4>1. [request |-> request, user |-> u, call |-> "find"] \in profileLookups'
        BY <3>1
      <4> QED
        BY <4>1
    <3> QED
      BY <2>ty, <3>1, <3>4, <3>5, <3>6, <3>7, <3>8 DEF ProfilesAreOfThisRequest, ProfileTypeOK
  <2>2. CASE RequestEnds
    <3>1. profilePrompt' \in Prompt /\ ~profilePrompt'.active
          /\ profilePrompt'.shown = profilePrompt.shown /\ profilePrompt'.token = profilePrompt.token
      BY <2>2, <2>ty DEF RequestEnds
    <3> QED
      BY <2>2, <2>ty, <3>1 DEF RequestEnds, ProfilesAreOfThisRequest, ProfileTypeOK
  <2>3. CASE RequestCleared
    <3>1. /\ profilePrompt' \in Prompt /\ ~profilePrompt'.active
          /\ \A i \in ProfileIdentities : profilePrompt'.shown[i] = NoProfile
      BY <2>3, <2>ty, <2>none DEF RequestCleared
    <3> QED
      BY <2>3, <2>ty, <2>none, <3>1 DEF RequestCleared, ProfilesAreOfThisRequest, ProfileTypeOK
  <2>4. ASSUME NEW l \in profileLookups, UserFound(l) PROVE ProfilesAreOfThisRequest'
    <3>1. l \in [request : 1..MaxProfileRequests, user : Users, call : {"find", "get"}]
      BY <2>ty
    <3>2. PICK found \in BOOLEAN :
            /\ profileLookups' = (profileLookups \ {l}) \cup
                 (IF found /\ IsHeard(l) THEN {[l EXCEPT !.call = "get"]} ELSE {})
            /\ profileDone' = IF found /\ IsHeard(l) THEN profileDone
                              ELSE profileDone \cup {<<l.request, l.user>>}
      BY <2>4 DEF UserFound
    <3> DEFINE g == [l EXCEPT !.call = "get"]
    <3>3. /\ g \in [request : 1..MaxProfileRequests, user : Users, call : {"find", "get"}]
          /\ g.request = l.request /\ g.user = l.user
      BY <3>1
    <3> HIDE DEF g
    <3>4. UNCHANGED <<profilePrompt, profileScope>>
      BY <2>4 DEF UserFound
    <3>5. CASE found /\ IsHeard(l)
      BY <3>2, <3>5, <3>3, <2>ty, <3>4 DEF g, ProfilesAreOfThisRequest, ProfileTypeOK
    <3>6. CASE ~(found /\ IsHeard(l))
      BY <3>2, <3>6, <2>ty, <3>1, <3>4 DEF ProfilesAreOfThisRequest, ProfileTypeOK
    <3> QED
      BY <3>5, <3>6
  <2>5. ASSUME NEW l \in profileLookups, PropertiesCome(l) PROVE ProfilesAreOfThisRequest'
    BY <2>ty, <2>5, EnrichedKeeps DEF PropertiesCome, ProfilesAreOfThisRequest, ProfileTypeOK
  <2>6. CASE UNCHANGED profileVars
    BY <2>6 DEF profileVars, ProfilesAreOfThisRequest, ProfileTypeOK
  <2> QED
    BY <2>1, <2>2, <2>3, <2>4, <2>5, <2>6 DEF ProfilesOfNext
<1> QED
  BY <1>1, <1>2, PTL DEF ProfilesSpec
=============================================================================
