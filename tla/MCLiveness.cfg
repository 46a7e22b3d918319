\* The components have their constants in the module.
SPECIFICATION RunSpec
CONSTANTS
  None = None
  NoOwner = NoOwner
PROPERTIES
  JobsEnd
  DueHappens
  RequestsAreAnswered
CHECK_DEADLOCK FALSE
