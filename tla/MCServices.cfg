\* Two requests about one viewing; the other components have their constants
\* in the module.
SPECIFICATION RunSpec
CONSTANTS
  Requests = {r1, r2}
  MaxViewings = 1
  MaxHolds = 2
  Notes = {n}
  Checks = {"free", "busy", "failed"}
  Decides = TRUE
  None = None
  home1 = home1
  home2 = home2
INVARIANTS
  HoldsAreApproved
  ShownIsStored
PROPERTIES
  EachIsHandledOnce
  SearchIsTheUsers
CHECK_DEADLOCK FALSE
