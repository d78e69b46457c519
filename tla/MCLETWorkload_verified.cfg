SPECIFICATION WSpec
CONSTANTS
  v1 = v1
  v2 = v2
  v3 = v3
  NoAnswer = NoAnswer
  Keys <- MCKeys
  Values <- MCValues
  Batches <- MCBatches
  AllowEmpty = FALSE
  Capacity = 2
  Epsilon = 0
  PgmConfigured = TRUE
  Calls = {"build_pgm"}
  RelocateAhead = FALSE
  Faults = {"step"}
  MaxBlocks = 5
  MaxLevels = 5
  MaxSlot = 0
INVARIANTS VerificationPasses NoMismatch
PROPERTIES ImplementsKVMap
CHECK_DEADLOCK FALSE
