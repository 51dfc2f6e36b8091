SPECIFICATION MCSpec
CONSTANTS
  MaxId = 3
  Monitors = {m1, m2}
  Limits = {1, 2}
  MaxRecords = 3
  ItemLimits = {1, 2}
  RuleApps = {mail, chat}
  MaxRules = 1
  MaxEdits = 4
SYMMETRY MonitorSymmetry
INVARIANTS
  TypesOK
  ToastsAgree
  HistoryIsKept
  RulesAreObeyed
PROPERTIES
  ToastsMoveInTurn
  DiskNeverGoesBack
  AskedIsWritten
