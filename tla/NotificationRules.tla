--------------------------- MODULE NotificationRules ---------------------------
(***************************************************************************)
(* NotificationRuleModel, NotificationRuleStore and the filter: a rule for *)
(* each application that ever notified, which the user edits, written to   *)
(* disk by a worker one snapshot at a time, and lost with the process.     *)
(***************************************************************************)
EXTENDS Naturals, SequencesExt, Subsequences

CONSTANTS RuleApps,
          MaxRules,    \* kMaxRuleCount
          MaxEdits     \* bound: notifications and edits

ASSUME RuleBoundsAssumption == MaxRules \in Nat /\ MaxEdits \in Nat

VARIABLES
  ruleDisk,     \* the rules in the file
  rules,        \* rules_ of the model, in order
  ruleStore,    \* the snapshot being written, the one that waits, and whether the last write failed
  ruleDnd,      \* do not disturb
  ruleEdits,    \* what the user and the applications did
  ruleShown     \* ghost: what was shown for an application since its rule was last changed

ruleVars == <<ruleDisk, rules, ruleStore, ruleDnd, ruleEdits, ruleShown>>

Filters == {"none", "low", "normal", "both"}
RuleUrgencies == {"low", "normal", "critical"}
StoreAtRest == [writing |-> FALSE, snapshot |-> <<>>, dirty |-> FALSE, pending |-> <<>>, failed |-> FALSE]

RuleTypeOK ==
  /\ \A list \in {ruleDisk, rules, ruleStore.snapshot, ruleStore.pending} :
       \A i \in DOMAIN list : list[i] \in [app : RuleApps, enabled : BOOLEAN, filter : Filters, seen : Nat]
  /\ ruleStore.writing \in BOOLEAN /\ ruleStore.dirty \in BOOLEAN /\ ruleStore.failed \in BOOLEAN
  /\ ruleDnd \in BOOLEAN /\ ruleEdits \in 0..MaxEdits
  /\ ruleShown \subseteq RuleApps \X RuleUrgencies

----------------------------------------------------------------------------
(* NotificationRuleStore.                                                  *)

\* Mutant: a snapshot that comes during a write waits only if none waits already.
PersistOnce(store, snapshot) ==
  IF ~store.writing THEN [store EXCEPT !.writing = TRUE, !.snapshot = snapshot, !.dirty = FALSE]
  ELSE IF store.dirty THEN store ELSE [store EXCEPT !.dirty = TRUE, !.pending = snapshot]

PersistRules(store, snapshot) ==
  IF store.writing THEN [store EXCEPT !.dirty = TRUE, !.pending = snapshot]
  ELSE [store EXCEPT !.writing = TRUE, !.snapshot = snapshot, !.dirty = FALSE]

\* onWriteFinished: the file is replaced or left as it was; the snapshot that waits is next.
RulesWritten ==
  /\ ruleStore.writing
  /\ \E ok \in BOOLEAN :
       /\ ruleDisk' = IF ok THEN ruleStore.snapshot ELSE ruleDisk
       /\ ruleStore' = IF ruleStore.dirty
                       THEN [ruleStore EXCEPT !.snapshot = ruleStore.pending, !.dirty = FALSE, !.pending = <<>>, !.failed = ~ok]
                       ELSE [StoreAtRest EXCEPT !.failed = ~ok]
  /\ UNCHANGED <<rules, ruleDnd, ruleEdits, ruleShown>>

----------------------------------------------------------------------------
(* NotificationRuleModel.                                                  *)

RowOf(list, app) == IF \E i \in DOMAIN list : list[i].app = app
                    THEN CHOOSE i \in DOMAIN list : list[i].app = app ELSE 0

\* ensureApp: the rule of a known application is seen again, a new one is added while there is room.
Ensured(list, app, now) ==
  LET row == RowOf(list, app) IN
  IF row # 0 THEN [list EXCEPT ![row].seen = now]
  ELSE IF Len(list) >= MaxRules THEN list
  ELSE Append(list, [app |-> app, enabled |-> TRUE, filter |-> "none", seen |-> now])

\* evaluateFilter
Suppressed(list, dnd, app, urgency) ==
  LET row == RowOf(list, app) IN
  urgency # "critical" /\ (dnd \/ (row # 0 /\ (~list[row].enabled \/ list[row].filter \in {"both", urgency})))

\* processIncomingNotification, as far as the rules go; a list that was full stays as it was,
\* and nothing is written.
Notified(app, urgency) ==
  /\ ruleEdits < MaxEdits /\ ruleEdits' = ruleEdits + 1
  /\ LET list == Ensured(rules, app, ruleEdits + 1) IN
     /\ rules' = list
     /\ ruleStore' = IF RowOf(list, app) # 0 THEN PersistRules(ruleStore, list) ELSE ruleStore
     /\ ruleShown' = IF Suppressed(list, ruleDnd, app, urgency) THEN ruleShown ELSE ruleShown \cup {<<app, urgency>>}
  /\ UNCHANGED <<ruleDisk, ruleDnd>>

\* setEnabled and setUrgencyFilter of a row; a value that is there already writes nothing.
Edit(row) ==
  /\ row \in DOMAIN rules /\ ruleEdits < MaxEdits /\ ruleEdits' = ruleEdits + 1
  /\ \E rule \in {[rules[row] EXCEPT !.enabled = ~@]} \cup
                 {[rules[row] EXCEPT !.filter = f] : f \in Filters \ {rules[row].filter}} :
       /\ rules' = [rules EXCEPT ![row] = rule]
       /\ ruleStore' = PersistRules(ruleStore, rules')
       /\ ruleShown' = {shown \in ruleShown : shown[1] # rule.app}
  /\ UNCHANGED <<ruleDisk, ruleDnd>>

ToggleDnd ==
  /\ ruleEdits < MaxEdits /\ ruleEdits' = ruleEdits + 1
  /\ ruleDnd' = ~ruleDnd /\ ruleShown' = {}
  /\ UNCHANGED <<ruleDisk, rules, ruleStore>>

\* The rules that outlive rule i where there is no room for all.
Newer(list, i) ==
  {j \in DOMAIN list : list[j].seen > list[i].seen \/ (list[j].seen = list[i].seen /\ j > i)}

\* boundedRules: the least recently seen go until the rest fits.
Bounded(list) ==
  SubSeqAt(list, {i \in DOMAIN list : Cardinality(Newer(list, i)) < MaxRules})

\* loadPersistedRules: rules of applications that are not installed are pruned, and what is left is bounded.
Loaded(written, gone) ==
  Bounded(SubSeqAt(written, {i \in DOMAIN written : written[i].app \notin gone}))

Started(written) ==
  \E gone \in SUBSET RuleApps :
    LET loaded == Loaded(written, gone) IN
    /\ ruleDisk' = written /\ rules' = loaded
    /\ ruleStore' = IF Len(loaded) # Len(written) THEN PersistRules(StoreAtRest, loaded) ELSE StoreAtRest
    /\ ruleDnd' = FALSE /\ ruleShown' = {}

\* The first start, with no file or one that was edited by hand.
RulesInit ==
  /\ ruleDisk \in {<<>>} \cup {<<[app |-> a, enabled |-> FALSE, filter |-> "none", seen |-> 1],
                                 [app |-> b, enabled |-> TRUE, filter |-> "low", seen |-> 0]>> :
                               a, b \in RuleApps}
  /\ IsInjective([i \in DOMAIN ruleDisk |-> ruleDisk[i].app])
  /\ rules = Loaded(ruleDisk, {})
  /\ ruleStore = IF Len(rules) # Len(ruleDisk) THEN PersistRules(StoreAtRest, rules) ELSE StoreAtRest
  /\ ruleDnd = FALSE /\ ruleEdits = 0 /\ ruleShown = {}

\* The process ends, with whatever waits; what is being written may be on the disk or not.
Restart ==
  /\ Started(ruleDisk) \/ (ruleStore.writing /\ Started(ruleStore.snapshot))
  /\ UNCHANGED ruleEdits

RulesNext ==
  \/ RulesWritten \/ ToggleDnd \/ Restart
  \/ \E app \in RuleApps, urgency \in RuleUrgencies : Notified(app, urgency)
  \/ \E row \in DOMAIN rules : Edit(row)

RulesSpec == RulesInit /\ [][RulesNext]_ruleVars

----------------------------------------------------------------------------
(* Properties.                                                             *)

\* The latest rules are on their way to the disk or on it, unless the last write failed, and
\* what was shown since an application's rule was set is what the rule lets through.
RulesAreObeyed ==
  /\ Len(rules) <= MaxRules
  /\ IF ruleStore.dirty THEN ruleStore.pending = rules
     ELSE IF ruleStore.writing THEN ruleStore.snapshot = rules
     ELSE ruleStore.failed \/ ruleDisk = rules
  /\ \A shown \in ruleShown :
       LET row == RowOf(rules, shown[1]) IN
       \/ shown[2] = "critical"
       \/ ~ruleDnd /\ (row = 0 \/ (rules[row].enabled /\ rules[row].filter \notin {"both", shown[2]}))
=============================================================================
