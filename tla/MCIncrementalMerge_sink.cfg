SPECIFICATION Spec
CONSTANTS
  Runs <- MCRuns
  ItemsPerBlock = 2
  SinkRaises = TRUE
  MaxQuantum = 3
  MaxCalls = 9
INVARIANTS DoneIsComplete
PROPERTIES ImplementsMergedRun
CHECK_DEADLOCK FALSE
