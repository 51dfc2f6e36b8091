------------------------- MODULE AuthenticationMC -------------------------
(***************************************************************************)
(* Small instances of the authentication front ends: the agent, the        *)
(* askpass helper and the agent's profile resolver.  They share the prompt *)
(* model, not a state, so that one is used in each behaviour.              *)
(***************************************************************************)
EXTENDS PolkitAgent, Askpass, AccountProfiles

VARIABLE used   \* the part this behaviour is of

allVars == <<vars, askpassVars, profileVars, used>>

MCInit ==
  /\ used \in {"agent", "askpass", "profiles"}
  /\ Init /\ AskpassInit /\ ProfilesOfInit
  /\ used # "askpass" => mode = "Text"

MCNext ==
  /\ UNCHANGED used
  /\ \/ used = "agent" /\ Next /\ UNCHANGED <<askpassVars, profileVars>>
     \/ used = "askpass" /\ AskpassNext /\ UNCHANGED <<vars, profileVars>>
     \/ used = "profiles" /\ ProfilesOfNext /\ UNCHANGED <<vars, askpassVars>>

MCSpec == MCInit /\ [][MCNext]_allVars /\ Fairness
=============================================================================
