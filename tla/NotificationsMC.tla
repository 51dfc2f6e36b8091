-------------------------- MODULE NotificationsMC --------------------------
(***************************************************************************)
(* Small instances of the notification service: the live toasts, the       *)
(* history and the rules.  NotificationService calls one after the other   *)
(* and none reads another's state, so that one is used in each behaviour.  *)
(* The monitors are interchangeable: no definition names or chooses one.   *)
(***************************************************************************)
EXTENDS NotificationToasts, NotificationHistory, NotificationRules

VARIABLE used   \* the part this behaviour is of

allVars == <<vars, historyVars, ruleVars, used>>

MonitorSymmetry == Permutations(Monitors)

MCInit ==
  /\ used \in {"toasts", "history", "rules"}
  /\ Init /\ HistoryInit /\ RulesInit
  /\ used # "toasts" => maxVisible = CHOOSE limit \in Limits : TRUE
  /\ used # "history" => config = CHOOSE c \in Configs : TRUE
  /\ used # "rules" => ruleDisk = <<>>

MCNext ==
  /\ UNCHANGED used
  /\ \/ used = "toasts" /\ Next /\ UNCHANGED <<historyVars, ruleVars>>
     \/ used = "history" /\ HistoryNext /\ UNCHANGED <<vars, ruleVars>>
     \/ used = "rules" /\ RulesNext /\ UNCHANGED <<vars, historyVars>>

MCSpec == MCInit /\ [][MCNext]_allVars /\ Fairness

\* The state of the three parts is well formed.
TypesOK == TypeOK /\ HistoryTypeOK /\ RuleTypeOK
=============================================================================
