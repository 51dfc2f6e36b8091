---------------------------- MODULE PolkitAgent ----------------------------
(***************************************************************************)
(* holonight-polkit-agent: the listener bridge, the FIFO coordinator, the  *)
(* prompt model and the PAM session adapter, all on the Qt main thread.    *)
(*                                                                         *)
(* The bridge and the adapter post calls to the event loop (posted, in     *)
(* FIFO order); the coordinator and the prompt model call each other       *)
(* synchronously inside one event.  polkitd, PAM and the user are external *)
(* and act between events.                                                 *)
(***************************************************************************)
EXTENDS PromptModel, SequencesExt

CONSTANTS MaxRequests,     \* bound: calls of BeginAuthentication
          MaxGeneration,   \* bound: the user retries only below this generation
          Identities,      \* the identities polkitd may name
          CurrentUser,     \* the identity of the agent's own uid
          NoIdentity

ASSUME MaxRequestsAssumption == MaxRequests \in Nat
ASSUME MaxGenerationAssumption == MaxGeneration \in Nat
ASSUME IdentitiesAssumption ==
  CurrentUser \in Identities /\ NoIdentity \notin Identities /\ IsFiniteSet(Identities)

VARIABLES
  received,    \* PolkitListenerBridge::next_token_: tokens handed out so far
  eligible,    \* token -> request.identities
  cancelled,   \* tokens whose GCancellable has fired
  outcome,     \* token -> what request.complete was called with
  posted,      \* calls posted to the Qt event loop, oldest first
  queue,       \* PolkitRequestCoordinator::queue_, as tokens
  active,      \* PolkitRequestCoordinator::active_, token 0 when null
  session,     \* PolkitRequestCoordinator::session_, an index of sessions, 0 when null
  sessions,    \* every PAM session created, with what its callbacks captured
  scheduled,   \* activation_scheduled_: a singleShot(0) is pending
  stopping,    \* shutting_down_
  running,     \* the event loop runs
  prompt       \* the AuthenticationPromptModel

authority == <<received, eligible, cancelled>>
vars == <<received, eligible, cancelled, outcome, posted, queue, active, session,
          sessions, scheduled, stopping, running, prompt>>

Tokens == 1..MaxRequests
NoSession == 0
NoRecord == [token |-> NoToken, gen |-> 0, identity |-> NoIdentity]
\* "twice" marks a second call of request.complete, which Completion::finish
\* would swallow: the coordinator is not meant to make one.
Outcomes == {"none", "pending", "granted", "denied", "twice"}
Statuses == {"running", "succeeded", "failed", "destroyed"}

RequestEvents == [kind : {"request", "cancel"}, token : Tokens]
CompletedEvents == [kind : {"completed"}, token : Tokens, gen : Nat, ok : BOOLEAN]
Events == RequestEvents \cup CompletedEvents

Records == [token : Tokens, gen : Nat, identity : Identities] \cup {NoRecord}
Sessions == [token : Tokens, gen : Nat, identity : Identities, status : Statuses]
Prompts == [life : Lifecycles, mode : InputModes, token : 0..MaxRequests, gen : Nat,
            identities : SUBSET Identities, terminal : BOOLEAN]

TypeOK ==
  /\ received \in 0..MaxRequests
  /\ eligible \in [Tokens -> SUBSET Identities]
  /\ cancelled \subseteq Tokens
  /\ outcome \in [Tokens -> Outcomes]
  /\ posted \in Seq(Events)
  /\ queue \in Seq(Tokens)
  /\ active \in Records
  /\ sessions \in Seq(Sessions)
  /\ session \in 0..Len(sessions)
  /\ scheduled \in BOOLEAN
  /\ stopping \in BOOLEAN
  /\ running \in BOOLEAN
  /\ prompt \in Prompts

Init ==
  /\ received = 0
  /\ eligible = [t \in Tokens |-> {}]
  /\ cancelled = {}
  /\ outcome = [t \in Tokens |-> "none"]
  /\ posted = <<>>
  /\ queue = <<>>
  /\ active = NoRecord
  /\ session = NoSession
  /\ sessions = <<>>
  /\ scheduled = FALSE
  /\ stopping = FALSE
  /\ running = TRUE
  /\ prompt = IdlePrompt

----------------------------------------------------------------------------
(* Parts of the coordinator's handlers.                                    *)

\* request.complete(ok) on a request whose outcome so far is o.
Answered(o, ok) ==
  IF o = "pending" THEN (IF ok THEN "granted" ELSE "denied") ELSE "twice"

\* Mutant: no preferred identity when the agent's own user is not named.
PreferredOwnOnly(ids) == IF CurrentUser \in ids THEN CurrentUser ELSE NoIdentity

\* IdentityListModel::preferred: the current user, else the first one.
Preferred(ids) == IF CurrentUser \in ids THEN CurrentUser ELSE CHOOSE i \in ids : TRUE

\* Destroying session s kills the PAM conversation and drops its callbacks.
Destroyed(ss, s) ==
  IF s # NoSession /\ ss[s].status = "running"
    THEN [ss EXCEPT ![s].status = "destroyed"]
    ELSE ss

\* session->cancel() on a running session reports completed(false), which the
\* adapter posts with the token and generation captured when it was created.
CancelEvents(s) ==
  IF s # NoSession /\ sessions[s].status = "running"
    THEN << [kind |-> "completed", token |-> sessions[s].token,
             gen |-> sessions[s].gen, ok |-> FALSE] >>
    ELSE <<>>

\* Mutant: the next activation is not scheduled.
NoSchedule(sched) == scheduled' = sched

\* scheduleActivation, sched being activation_scheduled_ when it is called.
ScheduleActivation(sched) == scheduled' = (sched \/ ~stopping)

\* Mutant: active_ is not cleared.
FinishKeepsActive(r, m, ok, sched) ==
  /\ outcome' = [outcome EXCEPT ![r.token] = Answered(@, ok)]
  /\ active' = r
  /\ session' = NoSession
  /\ prompt' = Reset(Complete(m))
  /\ ScheduleActivation(sched)

\* finishActive on record r and prompt model m: answers, closes the prompt and
\* schedules the next activation.  session_ is destroyed (or was moved out).
FinishActive(r, m, ok, sched) ==
  /\ outcome' = [outcome EXCEPT ![r.token] = Answered(@, ok)]
  /\ active' = NoRecord
  /\ session' = NoSession
  /\ prompt' = Reset(Complete(m))
  /\ ScheduleActivation(sched)

\* startSession for identity i of record r, the model being m; the factory
\* returns null for an identity polkit cannot parse.
StartSession(r, m, i, sched) ==
  IF i \notin eligible[r.token]
    THEN /\ active' = r
         /\ prompt' = m
         /\ scheduled' = sched
         /\ UNCHANGED <<outcome, session, sessions>>
    ELSE \/ /\ FinishActive(r, m, FALSE, sched)
            /\ sessions' = Destroyed(sessions, session)
         \/ /\ sessions' = Append(Destroyed(sessions, session),
                                  [token |-> r.token, gen |-> r.gen, identity |-> i,
                                   status |-> "running"])
            /\ session' = Len(sessions) + 1
            /\ active' = [r EXCEPT !.identity = i]
            /\ prompt' = MarkBusy(m)
            /\ scheduled' = sched
            /\ UNCHANGED outcome

\* cancel of the active request: session_ is moved out, the request answered,
\* the session cancelled last; rest is what stays posted before it.
CancelActive(m, rest) ==
  /\ FinishActive(active, m, FALSE, scheduled)
  /\ sessions' = Destroyed(sessions, session)
  /\ posted' = rest \o CancelEvents(session)
  /\ UNCHANGED queue

----------------------------------------------------------------------------
(* polkitd: PolkitListenerBridge::receive and cancellableTriggered.        *)

Receive(ids) ==
  /\ running
  /\ received < MaxRequests
  /\ received' = received + 1
  /\ eligible' = [eligible EXCEPT ![received + 1] = ids]
  /\ outcome' = [outcome EXCEPT ![received + 1] = "pending"]
  /\ posted' = Append(posted, [kind |-> "request", token |-> received + 1])
  /\ UNCHANGED <<cancelled, queue, active, session, sessions, scheduled, stopping,
                 running, prompt>>

AuthorityCancel(t) ==
  /\ running
  /\ t <= received
  /\ t \notin cancelled
  /\ cancelled' = cancelled \cup {t}
  /\ posted' = Append(posted, [kind |-> "cancel", token |-> t])
  /\ UNCHANGED <<received, eligible, outcome, queue, active, session, sessions,
                 scheduled, stopping, running, prompt>>

----------------------------------------------------------------------------
(* The event loop: one posted call at a time.                              *)

EventIs(kind) == running /\ posted # <<>> /\ Head(posted).kind = kind

\* enqueue refuses after shutdown and for a token it already holds.
Refuses(t) == stopping \/ active.token = t \/ t \in ToSet(queue)

\* Mutant: the newest request goes first.
EnqueuedFirst(t) == <<t>> \o queue

\* queue_ after enqueue.
Enqueued(t) == Append(queue, t)

\* The request handler of main: enqueue, or complete(false) when refused.
DeliverRequest ==
  /\ EventIs("request")
  /\ posted' = Tail(posted)
  /\ LET t == Head(posted).token IN
       IF Refuses(t)
         THEN /\ outcome' = [outcome EXCEPT ![t] = Answered(@, FALSE)]
              /\ UNCHANGED <<queue, scheduled>>
         ELSE /\ queue' = Enqueued(t)
              /\ ScheduleActivation(scheduled)
              /\ UNCHANGED outcome
  /\ UNCHANGED <<authority, active, session, sessions, stopping, running, prompt>>

\* cancel(token) for an authority cancellation: the active request, a queued
\* one, or none of the two when the request is already answered.
DeliverCancel ==
  /\ EventIs("cancel")
  /\ LET t == Head(posted).token IN
     \/ /\ active.token = t
        /\ CancelActive(prompt, Tail(posted))
     \/ /\ active.token # t
        /\ \E k \in DOMAIN queue :
             /\ queue[k] = t
             /\ queue' = RemoveAt(queue, k)
        /\ outcome' = [outcome EXCEPT ![t] = Answered(@, FALSE)]
        /\ posted' = Tail(posted)
        /\ UNCHANGED <<active, session, sessions, scheduled, prompt>>
     \/ /\ active.token # t
        /\ t \notin ToSet(queue)
        /\ posted' = Tail(posted)
        /\ UNCHANGED <<outcome, queue, active, session, sessions, scheduled, prompt>>
  /\ UNCHANGED <<authority, stopping, running>>

\* Mutant: any callback of a past session is taken for the current one's.
AnyCallbackIsCurrent(t, g) == session # NoSession

\* callbackIsCurrent: token and generation a callback captured against active_.
CallbackIsCurrent(t, g) ==
  session # NoSession /\ active.token = t /\ active.gen = g

\* sessionCompleted, as posted by the adapter.
DeliverCompleted ==
  /\ EventIs("completed")
  /\ posted' = Tail(posted)
  /\ LET e == Head(posted) IN
     \/ /\ CallbackIsCurrent(e.token, e.gen)
        /\ e.ok
        /\ FinishActive(active, prompt, TRUE, scheduled)
        /\ sessions' = Destroyed(sessions, session)
     \/ /\ CallbackIsCurrent(e.token, e.gen)
        /\ ~e.ok
        /\ session' = NoSession
        /\ sessions' = Destroyed(sessions, session)
        /\ prompt' = MarkRetryableError(prompt)
        /\ UNCHANGED <<outcome, active, scheduled>>
     \/ /\ ~CallbackIsCurrent(e.token, e.gen)
        /\ UNCHANGED <<outcome, active, session, sessions, scheduled, prompt>>
  /\ UNCHANGED <<authority, queue, stopping, running>>

\* The singleShot(0) of scheduleActivation: activateNext.
Activate ==
  /\ running
  /\ scheduled
  /\ \/ /\ stopping \/ active # NoRecord \/ queue = <<>>
        /\ scheduled' = FALSE
        /\ UNCHANGED <<outcome, queue, active, session, sessions, prompt>>
     \/ /\ ~stopping /\ active = NoRecord /\ queue # <<>>
        /\ queue' = Tail(queue)
        /\ LET t == Head(queue)
               r == [token |-> t, gen |-> 0, identity |-> NoIdentity] IN
           \/ /\ eligible[t] = {} \/ IsActive(prompt)
              /\ FinishActive(r, prompt, FALSE, FALSE)
              /\ sessions' = Destroyed(sessions, session)
           \/ /\ eligible[t] # {} /\ ~IsActive(prompt)
              /\ LET m == BeginRequest(prompt, t, eligible[t], "None")
                     a == [token |-> t, gen |-> m.gen,
                           identity |-> Preferred(eligible[t])] IN
                 \/ /\ Cardinality(eligible[t]) > 1
                    /\ active' = a
                    /\ prompt' = m
                    /\ scheduled' = FALSE
                    /\ UNCHANGED <<outcome, session, sessions>>
                 \/ /\ Cardinality(eligible[t]) = 1
                    /\ StartSession(a, m, a.identity, FALSE)
  /\ UNCHANGED <<authority, posted, stopping, running>>

----------------------------------------------------------------------------
(* PAM: the conversation of the session the coordinator holds; a destroyed *)
(* session is silent.                                                      *)

SessionIsRunning == session # NoSession /\ sessions[session].status = "running"

\* A prompt reaches sessionPrompt with the session's own token and generation.
PamPrompt ==
  /\ running
  /\ SessionIsRunning
  /\ CallbackIsCurrent(sessions[session].token, sessions[session].gen)
  /\ prompt' = PresentPrompt(prompt, "Text")
  /\ prompt' # prompt
  /\ UNCHANGED <<authority, outcome, posted, queue, active, session, sessions,
                 scheduled, stopping, running>>

\* PAM decides; the adapter posts completed with the callbacks' captures.
PamComplete(ok) ==
  /\ running
  /\ SessionIsRunning
  /\ sessions' = [sessions EXCEPT ![session].status = IF ok THEN "succeeded" ELSE "failed"]
  /\ posted' = Append(posted, [kind |-> "completed", token |-> sessions[session].token,
                               gen |-> sessions[session].gen, ok |-> ok])
  /\ UNCHANGED <<authority, outcome, queue, active, session, scheduled, stopping,
                 running, prompt>>

----------------------------------------------------------------------------
(* The user: the dialog's slots, each with the response it delivers.  The  *)
(* callback drops a response unless active_ is still the model's request.  *)

Delivers == running /\ active # NoRecord /\ active.token = prompt.token

\* respond: the text goes to session_, if there is one.
UserRespond ==
  /\ Delivers
  /\ CanRespond(prompt)
  /\ prompt' = MarkBusy(prompt)
  /\ UNCHANGED <<authority, outcome, posted, queue, active, session, sessions,
                 scheduled, stopping, running>>

\* selectIdentity
UserSelect(i) ==
  /\ Delivers
  /\ CanSelect(prompt, i)
  /\ StartSession(active, MarkBusy(prompt), i, scheduled)
  /\ UNCHANGED <<authority, posted, queue, stopping, running>>

\* retry: the record takes the new generation; with a single identity its
\* session starts at once, with several the user selects again.
UserRetry ==
  /\ Delivers
  /\ CanRetry(prompt)
  /\ prompt.gen < MaxGeneration
  /\ LET m == Retried(prompt)
         r == [active EXCEPT !.gen = m.gen] IN
     \/ /\ Cardinality(eligible[active.token]) = 1
        /\ StartSession(r, m, r.identity, scheduled)
     \/ /\ Cardinality(eligible[active.token]) # 1
        /\ active' = r
        /\ prompt' = m
        /\ session' = NoSession
        /\ sessions' = Destroyed(sessions, session)
        /\ UNCHANGED <<outcome, scheduled>>
  /\ UNCHANGED <<authority, posted, queue, stopping, running>>

\* cancel
UserCancel ==
  /\ Delivers
  /\ CanCancel(prompt)
  /\ CancelActive(Dismiss(prompt), posted)
  /\ UNCHANGED <<authority, stopping, running>>

----------------------------------------------------------------------------
\* SIGTERM ends the event loop and aboutToQuit runs shutdown: the active and
\* the queued requests are refused; what is still posted is never delivered.
Quit ==
  /\ running
  /\ running' = FALSE
  /\ stopping' = TRUE
  /\ outcome' = [t \in Tokens |-> IF t = active.token \/ t \in ToSet(queue)
                                  THEN Answered(outcome[t], FALSE) ELSE outcome[t]]
  /\ active' = NoRecord
  /\ session' = NoSession
  /\ sessions' = Destroyed(sessions, session)
  /\ prompt' = Dismiss(IF active # NoRecord THEN Reset(Complete(prompt)) ELSE prompt)
  /\ posted' = posted \o CancelEvents(session)
  /\ queue' = <<>>
  /\ UNCHANGED <<authority, scheduled>>

Authority == \/ \E ids \in SUBSET Identities : Receive(ids)
             \/ \E t \in Tokens : AuthorityCancel(t)
Loop == DeliverRequest \/ DeliverCancel \/ DeliverCompleted \/ Activate
Pam == PamPrompt \/ \E ok \in BOOLEAN : PamComplete(ok)
User == \/ UserRespond
        \/ \E i \in Identities : UserSelect(i)
        \/ UserRetry
        \/ UserCancel

Next == Authority \/ Loop \/ Pam \/ User \/ Quit

\* The event loop runs what is posted to it; nothing obliges polkitd, PAM or
\* the user to act.
Fairness ==
  /\ WF_vars(DeliverRequest \/ DeliverCancel \/ DeliverCompleted)
  /\ WF_vars(Activate)

Spec == Init /\ [][Next]_vars
FairSpec == Spec /\ Fairness

----------------------------------------------------------------------------
(* Properties.                                                             *)

Final(t) == outcome[t] \in {"granted", "denied"}

\* Every upstream request gets at most one terminal result although five
\* paths (grant, user cancel, authority cancel, refusal, shutdown) answer it,
\* and what waits or is shown has not been answered.
AnsweredOnce ==
  /\ \A t \in Tokens : outcome[t] # "twice"
  /\ active # NoRecord => outcome[active.token] = "pending" /\ active.token \notin ToSet(queue)
  /\ \A t \in ToSet(queue) : outcome[t] = "pending"
  /\ IsInjective(queue)

\* The inductive strengthening of AnsweredOnce and of the refinement: a request
\* is pending exactly while it is on its way through the loop, queued or active,
\* and each of these stages holds older requests than the one before it.
InTransit(p) == {p[k].token : k \in {l \in DOMAIN p : p[l].kind = "request"}}
SortedRequests(p) ==
  \A k, l \in DOMAIN p :
    k < l /\ p[k].kind = "request" /\ p[l].kind = "request" => p[k].token < p[l].token
Sorted(q) == \A i, j \in DOMAIN q : i < j => q[i] < q[j]

RequestsInv ==
  /\ \A t \in Tokens : outcome[t] # "twice"
  /\ \A t \in Tokens : outcome[t] = "none" <=> t > received
  /\ \A t \in Tokens :
       outcome[t] = "pending" <=>
         t = active.token \/ t \in ToSet(queue) \/ t \in InTransit(posted)
  /\ \A t \in ToSet(queue) : active.token < t
  /\ \A t \in InTransit(posted) : active.token < t
  /\ \A t \in ToSet(queue), u \in InTransit(posted) : t < u
  /\ Sorted(queue)
  /\ SortedRequests(posted)
  /\ running => ~stopping
  /\ ~running => active = NoRecord /\ queue = <<>>

\* A request is granted only because the last PAM session opened for that
\* very request, for an identity polkitd named, succeeded: a late completion of
\* a cancelled request or of a failed attempt never grants another one.
GrantIsEarned ==
  \A t \in Tokens : outcome[t] = "granted" =>
    \E s \in DOMAIN sessions :
      /\ sessions[s].token = t
      /\ sessions[s].status = "succeeded"
      /\ sessions[s].identity \in eligible[t]
      /\ \A r \in DOMAIN sessions : sessions[r].token = t => r <= s

\* The dialog shows exactly the active request, in its generation, and the
\* PAM session the user's answers go to was opened for it.
PromptShowsActive ==
  /\ IsActive(prompt) <=> active # NoRecord
  /\ active # NoRecord =>
       /\ prompt.token = active.token
       /\ prompt.gen = active.gen
       /\ prompt.identities = eligible[active.token]
  /\ session # NoSession =>
       /\ sessions[session].token = active.token
       /\ sessions[session].gen = active.gen
       /\ sessions[session].identity = active.identity

\* A dialog that shows no control but Cancel always has somebody to move it
\* on: the PAM session runs, or its result is on its way through the loop.
NoDeadPrompt ==
  running /\ (prompt.life = "Busy" \/ prompt.life = "AwaitingInput") =>
    /\ session # NoSession
    /\ \/ sessions[session].status = "running"
       \/ \E k \in DOMAIN posted :
            /\ posted[k].kind = "completed"
            /\ posted[k].token = active.token
            /\ posted[k].gen = active.gen

\* The user can always answer the request in front of the agent: the dialog, the
\* active record and the PAM session agree, and a busy dialog is moved on.
PromptIsUsable == PromptShowsActive /\ NoDeadPrompt

\* What has been answered is never shown or queued again, whatever arrives late.
NeverReopened ==
  [][\A t \in Tokens : Final(t) =>
       outcome'[t] = outcome[t] /\ active'.token # t /\ t \notin ToSet(queue')]_vars

\* The agent implements the queue of authorizations polkitd relies on: FIFO, one
\* shown at a time, a grant only for the one shown, every result final.
Abstract == INSTANCE AuthorizationQueue
  WITH result <- outcome, current <- active.token, open <- running
Implements == Abstract!Spec

\* Waiting requests do not starve behind an empty dialog.
QueueIsServed ==
  (queue # <<>> /\ active = NoRecord) ~> (active # NoRecord \/ queue = <<>>)

\* A request the authority cancels gets its result, shown, queued or still in
\* the loop, unless the agent exits first.
CancellationAnswers ==
  \A t \in Tokens : t \in cancelled ~> (outcome[t] # "pending" \/ ~running)

\* Every request is served: shown in its turn, or answered when it is withdrawn.
RequestsAreServed == QueueIsServed /\ CancellationAnswers
=============================================================================
