SPECIFICATION MemorySpec
CONSTANTS
  Turns = {"turn"}
  NumMessages = 5
  FileOnly = {2}
  MessageTokens = 2
  SummaryTokens = {1}
  LeafMinFanout = 2
  CondensedMinFanout = 2
  FreshTailCount = 1
  LeafChunkTokens = 3
  CondensedTargetTokens = 2
  OrdinalStep = 100
  MaxSummaries = 3
  MaxClears = 1
  MaxFaults = 1
INVARIANTS
  Resolvable
  NothingForgotten
  OnceInOrder
  ClearedStaysCleared
CHECK_DEADLOCK FALSE
