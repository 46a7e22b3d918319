CONSTANTS
  None = None
  Profiles = {p1}
  p1 = p1
  Raws = {a}
  stray = stray
  Overrides = {}
  NoOwner = NoOwner
  NoProfile = NoProfile
  MaxRevision = 3
  Workers = {w1}
  ProfileOf <- AllButStray
  MaxAttempts = 3
  MaxFaults = 0
SPECIFICATION LaneSpec
INVARIANTS
  DeadLetterIsEarned
CHECK_DEADLOCK FALSE
