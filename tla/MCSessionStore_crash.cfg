SPECIFICATION Spec
CONSTANTS
  OldLines <- ThoughtInFile
  Transient <- Thoughts
  AliasHistory <- AliasOfTwo
  AliasSummary = "alias"
  Summaries = {"", "s"}
  NoSummary = ""
  Messages = {1, 2, 3, 4}
  MaxFailures = 2
INVARIANTS
  NothingLost
  ExactUnlessStale
PROPERTY KeepsPromise
CHECK_DEADLOCK FALSE
