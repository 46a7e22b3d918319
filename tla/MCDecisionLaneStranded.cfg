CONSTANTS
  Profiles = {p1}
  p1 = p1
  Raws = {a}
  Overrides = {}
  NoOwner = NoOwner
  MaxRevision = 1
  Workers = {w1}
  Searches = {}
  SearchProfile <- ForP1
  Lives = {}
  MaxAttempts = 2
  MaxFaults = 1
SPECIFICATION FairLaneSpec
PROPERTIES
  RunningJobIsRecovered
CHECK_DEADLOCK FALSE
