SPECIFICATION MCSpec
CONSTANTS
  MaxLength = 6
  Kinds <- AllKinds
  KeepRecent = 2
  MaxBatch = 2
  Oversized <- OnlyOversized
  MaxMessages = 8
  MaxTurns = 3
INVARIANTS
  SanitizedIsPaired
  CutsKeepPairs
  LeavesTold
CHECK_DEADLOCK FALSE
