------------------------ MODULE AuthorizationQueue -------------------------
(***************************************************************************)
(* What the polkit agent promises polkitd and the user, without dialog,    *)
(* PAM or event loop: requests are numbered in arrival order, at most one  *)
(* is in front of the user, the next one is always the oldest still        *)
(* waiting, only the one in front can be granted, and a result is final.   *)
(***************************************************************************)
EXTENDS Naturals

CONSTANT MaxRequests

VARIABLES result,    \* token -> none, pending, granted or denied
          current,   \* the request in front of the user, 0 when there is none
          open       \* the agent is up

avars == <<result, current, open>>

Numbers == 1..MaxRequests
Waiting == {t \in Numbers : result[t] = "pending" /\ t # current}

AInit ==
  /\ result = [t \in Numbers |-> "none"]
  /\ current = 0
  /\ open = TRUE

Ask(t) ==
  /\ open
  /\ result[t] = "none"
  /\ \A u \in Numbers : u < t => result[u] # "none"
  /\ result' = [result EXCEPT ![t] = "pending"]
  /\ UNCHANGED <<current, open>>

Take(t) ==
  /\ open
  /\ current = 0
  /\ t \in Waiting
  /\ \A u \in Waiting : t <= u
  /\ current' = t
  /\ UNCHANGED <<result, open>>

Grant ==
  /\ open
  /\ current # 0
  /\ result' = [result EXCEPT ![current] = "granted"]
  /\ current' = 0
  /\ UNCHANGED open

DenyCurrent ==
  /\ open
  /\ current # 0
  /\ result' = [result EXCEPT ![current] = "denied"]
  /\ current' = 0
  /\ UNCHANGED open

DenyWaiting(t) ==
  /\ open
  /\ t \in Waiting
  /\ result' = [result EXCEPT ![t] = "denied"]
  /\ UNCHANGED <<current, open>>

\* The agent exits: what is in front of the user and some of what waits is denied.
Close ==
  /\ open
  /\ open' = FALSE
  /\ current' = 0
  /\ \E S \in SUBSET Waiting :
       result' = [t \in Numbers |-> IF t \in S \/ t = current THEN "denied" ELSE result[t]]

ANext ==
  \/ \E t \in Numbers : Ask(t) \/ Take(t) \/ DenyWaiting(t)
  \/ Grant
  \/ DenyCurrent
  \/ Close

Spec == AInit /\ [][ANext]_avars
=============================================================================
