---------------------------- MODULE ActivityMC ----------------------------
(***************************************************************************)
(* Small instances of the services that poll the network while the user is *)
(* active.  They share signals, not state: one is used in each behaviour.  *)
(***************************************************************************)
EXTENDS CalendarSync, Weather

VARIABLE used   \* the service this behaviour is of

allVars == <<vars, weatherVars, used>>

MCInit ==
  /\ used \in {"calendar", "weather"}
  /\ Init /\ WeatherInit
  /\ used # "calendar" => \A a \in Accounts : cache[a] = {}
  /\ used # "weather" => weatherConfig \in Unusable /\ disk = NoData

MCNext ==
  /\ UNCHANGED used
  /\ \/ used = "calendar" /\ Next /\ UNCHANGED weatherVars
     \/ used = "weather" /\ WeatherNext /\ UNCHANGED vars

MCSpec == MCInit /\ [][MCNext]_allVars /\ Fairness

\* The state of both services is well formed: no back-off passes its cap.
TypesOK == TypeOK /\ WeatherTypeOK
=============================================================================
