\* One profile, two sources, an override, two workers and a fault; the other
\* instances have their constants in the module.
SPECIFICATION RunSpec
CONSTANTS
  Profiles = {p1}
  p1 = p1
  Raws = {a, b}
  Overrides = {o1}
  NoOwner = NoOwner
  MaxRevision = 3
  Workers = {w1, w2}
  Searches = {}
  SearchProfile <- ForP1
  Lives = {"dismissed"}
  MaxAttempts = 2
  MaxFaults = 1
INVARIANTS
  TypeOK
  EveryRevisionHasJob
  SnapshotHolds
  NewestRunShown
  SettledProjectionIsFresh
  SearchEndsWithARun
PROPERTIES
  AppliedPlanIsCurrent
  ImplementsPublication
  JobsAreDecidedOnce
  ProfilesStayApart
SYMMETRY Symmetric
CHECK_DEADLOCK FALSE
