SPECIFICATION MCSpec
CONSTANTS
  alpha = alpha
  bravo = bravo
  AppOrder <- AppsByName
  WithAction = {bravo}
  Matching = {alpha, bravo}
  MaxRecent = 1
  MimeTypes = {text}
  Browser = browser
  Handlers = {editor, viewer}
  MimeLists = {mimeapps}
  NoHandler = nohandler
  MaxSets = 1
  MaxQueries = 1
  Cursors = {c1}
  NoCursor = nocursor
  Changing = {"files"}
  MaxFacts = 1
  Schemes = {light, dark}
  Backends = {gtk}
  NoScheme = noscheme
  MaxCalls = 2
  MaxTurns = 1
  Documents <- TheDocuments
  Rewrites <- TheRewrites
  MaxRewrites = 2
  CacheAccounts <- TheCacheAccounts
  Answers <- TheAnswers
  LegacyRows <- TheLegacyRows
  LastTime = 1
  RetainPast = 0
  RetainFuture = 2
  Feeds <- TheFeeds
  FeedFrom = 0
  FeedUntil = 5
  Zone = 1
  Calendars = {c1, c2}
  c2 = c2
  Uids = {u}
  u = u
  Chosen = {{}, {"work"}}
  MaxServerSteps = 2
  Reminded <- TheReminded
  StartMinutes = {3, 4}
  LastMinute = 6
  NotifyWindow = 3
  MaxMoves = 1
  DesktopPaths = {"user/a", "system/a", "system/b"}
  DirectoryOf <- TheDirectories
  DesktopId <- TheIds
  EntryTexts <- TheTexts
  ReadableTexts <- TheReadable
  MaxFileChanges = 2
INVARIANTS
  TypesOK
  ApplicationsAreServed
  
  WhatIsReadIsUnderstood
  CalendarIsPassedOn
CHECK_DEADLOCK FALSE
