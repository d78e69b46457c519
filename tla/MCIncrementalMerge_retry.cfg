SPECIFICATION Spec
CONSTANTS
  Runs <- MCRuns3
  ItemsPerBlock = 2
  SinkRaises = TRUE
  MaxQuantum = 2
  MaxCalls = 5
INVARIANTS PendingBounded
CHECK_DEADLOCK FALSE
