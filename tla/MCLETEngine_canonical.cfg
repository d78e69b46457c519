SPECIFICATION Spec
CONSTANTS
  v1 = v1
  v2 = v2
  Keys <- MCKeys
  Values <- MCValues
  Batches <- MCBatches
  Capacity = 2
  Epsilon = 0
  PgmConfigured = TRUE
  Calls <- CanonicalCalls
  RelocateAhead = FALSE
  Faults = {"inside"}
  MaxBlocks = 5
  MaxLevels = 4
  MaxSlot = 1
INVARIANTS TypeOK LevelsCanonical LookupExact
PROPERTIES IdsFresh ImplementsLevelStore
CHECK_DEADLOCK FALSE
