CONSTANTS
  Profiles = {p1}
  p1 = p1
  Raws = {a, b}
  Overrides = {}
  NoOwner = NoOwner
  MaxRevision = 2
  Workers = {w1}
  Searches = {s1}
  SearchProfile <- ForP1
  Lives = {}
  MaxAttempts = 2
  MaxFaults = 0
SPECIFICATION LaneSpec
INVARIANTS
  CompletedSearchIsNormalized
CHECK_DEADLOCK FALSE
