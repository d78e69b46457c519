SPECIFICATION WSpec
CONSTANTS
  v1 = v1
  v2 = v2
  v3 = v3
  NoAnswer = NoAnswer
  Keys <- MCKeys
  Values <- MCValues
  Batches <- MCBatchesEmpty
  AllowEmpty = TRUE
  Capacity = 2
  Epsilon = 0
  PgmConfigured = TRUE
  Calls = {"build_pgm"}
  RelocateAhead = FALSE
  Faults = {}
  MaxBlocks = 4
  MaxLevels = 3
  MaxSlot = 0
INVARIANTS NoMismatch
CHECK_DEADLOCK FALSE
