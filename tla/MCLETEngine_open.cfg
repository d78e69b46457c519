SPECIFICATION Spec
CONSTANTS
  v1 = v1
  v2 = v2
  Keys <- MCKeys
  Values <- MCValues
  Batches <- MCAppends
  Capacity = 2
  Epsilon = 0
  PgmConfigured = TRUE
  Calls <- OpenCalls
  RelocateAhead = FALSE
  Faults = {"step", "inside"}
  MaxBlocks = 3
  MaxLevels = 3
  MaxSlot = 3
INVARIANTS BlocksIntact LevelsDisjoint PgmCurrent
PROPERTIES BlocksImmutable
CHECK_DEADLOCK FALSE
