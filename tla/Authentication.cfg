SPECIFICATION MCSpec
CONSTANTS
  MaxRequests = 2
  MaxGeneration = 3
  Identities = {me, admin}
  CurrentUser = me
  NoIdentity = nobody
  MaxDialogs = 12
  ProfileIdentities = {ua, ub, wheel}
  Users = {ua, ub}
  MaxProfileRequests = 2
INVARIANTS
  TypeOK
  AnsweredOnce
  GrantIsEarned
  PromptIsUsable
  AskpassIsHonest
  ProfilesAreOfThisRequest
PROPERTIES
  Implements
  RequestsAreServed
CHECK_DEADLOCK FALSE
