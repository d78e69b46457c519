SPECIFICATION Spec
CONSTANTS
  v1 = v1
  v2 = v2
  Keys <- MCKeys
  Values <- MCValues
  Batches <- MCAppends
  Capacity = 2
  Epsilon = 0
  PgmConfigured = TRUE
  Calls <- AppendCalls
  RelocateAhead = FALSE
  Faults = {}
  MaxBlocks = 4
  MaxLevels = 2
  MaxSlot = 4
INVARIANTS LookupExact
CHECK_DEADLOCK FALSE
