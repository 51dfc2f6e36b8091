SPECIFICATION Spec
CONSTANTS
  a1 = a1
  a2 = a2
  Accounts = {a1, a2}
  CalDav = {a1}
  Events = {e}
  e = e
  MaxConfigs = 2
  MaxBackoff = 2
INVARIANT IdleStopsPolling
