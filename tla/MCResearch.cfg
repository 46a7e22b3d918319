\* One request that may be stopped, with RentCast and Zillow and two listings
\* to find; the other components have their constants in the module.
SPECIFICATION RunSpec
CONSTANTS
  Posts = {"p1"}
  Runs = {"r1"}
  RunOf <- OneRun
  RetryOf <- NoRetry
  RentCast = TRUE
  Browser <- JustZillow
  Listings = {"l1", "l2"}
  CanStop = TRUE
  MaxCrashes = 1
  None = None
INVARIANTS
  OneSearchAtATime
  RetriesAreSearches
  BrowsesAsApproved
  StatusTellsTheTruth
PROPERTIES
  CardsAreOfOneDecision
CHECK_DEADLOCK FALSE
