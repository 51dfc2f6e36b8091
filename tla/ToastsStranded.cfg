SPECIFICATION Spec
CONSTANTS
  MaxId = 2
  Monitors = {m1}
  Limits = {1}
INVARIANT NoStrandedToast
