\* Every pair of runs, every schedule.
CONSTANTS
  Runs <- MCRuns
  ItemsPerBlock = 2
  SinkRaises = FALSE
  MaxQuantum = 3
  MaxCalls = 9
  Schedules <- MCSchedules
  MergeLevels = {3, 4}
SPECIFICATION OracleFair
INVARIANTS TypeOK PendingBounded AnswerIsCanonical SelfCheckPasses
PROPERTIES OracleAnswers
CHECK_DEADLOCK FALSE
