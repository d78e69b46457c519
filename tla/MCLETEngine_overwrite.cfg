SPECIFICATION Spec
CONSTANTS
  v1 = v1
  v2 = v2
  Keys <- MCKeys
  Values <- MCValues
  Batches <- MCBatches
  Capacity = 2
  Epsilon = 0
  PgmConfigured = TRUE
  Calls <- CanonicalCalls
  RelocateAhead = TRUE
  Faults = {}
  MaxBlocks = 4
  MaxLevels = 3
  MaxSlot = 4
INVARIANTS BlocksIntact
CHECK_DEADLOCK FALSE
