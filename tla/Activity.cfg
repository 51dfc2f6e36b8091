SPECIFICATION MCSpec
CONSTANTS
  a1 = a1
  a2 = a2
  Accounts = {a1, a2}
  CalDav = {a1}
  Events = {e}
  e = e
  MaxConfigs = 2
  MaxBackoff = 2
  fixed = fixed
  named = named
  looked = looked
  bad = bad
  p = p
  q = q
  NoData = NoData
  Fixed = {fixed, named}
  Named = {named}
  Lookup = {looked}
  Unusable = {bad}
  Found = {p, q}
  Interval = 3
  MaxStep = 3
INVARIANTS
  TypesOK
  CalendarAgrees
  WeatherIsForConfig
PROPERTIES
  FetchesAgain
