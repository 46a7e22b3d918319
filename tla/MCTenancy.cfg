\* A person who is two users in turn and a deletion request; the other
\* components have their constants in the module.
SPECIFICATION RunSpec
CONSTANTS
  People = {p1}
  Requests = {d1}
  Founders = {}
  MaxUsers = 2
  MaxReviews = 2
  MaxFaults = 1
  None = None
INVARIANTS
  AccountsHaveOneUser
  OwnersLeaveNothing
PROPERTIES
  RevokedStays
  AccountsEnd
  TokensFollowConsent
  DemoKeepsItsPromises
CHECK_DEADLOCK FALSE
