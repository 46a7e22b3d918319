CONSTANTS
  Profiles = {p1}
  p1 = p1
  Raws = {a, b}
  Overrides = {}
  NoOwner = NoOwner
  MaxRevision = 2
  Workers = {w1}
  Searches = {}
  SearchProfile <- ForP1
  Lives = {"dismissed"}
  MaxAttempts = 2
  MaxFaults = 0
SPECIFICATION LaneSpec
PROPERTIES
  MovesAreKept
CHECK_DEADLOCK FALSE
