\* Two listings of a profile and one of none, two workers and two faults; the
\* other components have their constants in the module.
SPECIFICATION RunSpec
CONSTANTS
  Profiles = {p1}
  p1 = p1
  Raws = {a, b, stray}
  stray = stray
  Overrides = {}
  NoOwner = NoOwner
  NoProfile = NoProfile
  MaxRevision = 3
  Workers = {w1, w2}
  ProfileOf <- AllButStray
  MaxAttempts = 3
  MaxFaults = 2
  None = None
INVARIANTS
  TypeOK
  RowsAreSound
  EveryListingIsDecided
PROPERTIES
  OutcomeIsFinal
  EvidenceIsJudged
  ListingsAreKept
  SourcesAreFollowed
SYMMETRY Symmetric
CHECK_DEADLOCK FALSE
