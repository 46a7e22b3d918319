\* One job and two workers that claim directly; the other components have
\* their constants in the module.
SPECIFICATION RunSpec
CONSTANTS
  Jobs = {j1}
  Workers = {w1, w2}
  Hosted = FALSE
  MaxAttempts = 2
  MaxDispatches = 0
  MaxRuns = 3
  MaxFaults = 2
  None = None
INVARIANTS
  CloudIsAccountedFor
PROPERTIES
  CapturesAreAcceptedOnce
  BrowserIsTheUsers
  TabsAreTheUsers
  DispatchedJobsAreKept
CHECK_DEADLOCK FALSE
