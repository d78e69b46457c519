SPECIFICATION Spec
CONSTANTS
  v1 = v1
  v2 = v2
  Keys <- MCKeys
  Values <- MCValues
  Batches <- MCBlocks
  Capacity = 2
  Epsilon = 0
  PgmConfigured = FALSE
  Calls <- AllCalls
  RelocateAhead = TRUE
  Faults = {"step"}
  MaxBlocks = 3
  MaxLevels = 3
  MaxSlot = 2
INVARIANTS MappingBijective NoOrphanSlot
PROPERTIES MergeFailsCleanly
CHECK_DEADLOCK FALSE
