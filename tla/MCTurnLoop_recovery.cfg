SPECIFICATION Spec
CONSTANTS
  OldHistory <- TwoOldTurns
  DefaultAgent = TRUE
  Continued = TRUE
  NumSteer = 1
  SteeringAll = TRUE
  MaxIterations = 2
  MaxCalls = 2
  Failures = {"context", "vision"}
  HookActions = {"deny"}
  Interrupts = {"graceful", "rollback"}
  OverBudget = TRUE
INVARIANTS
  CallsPaired
CHECK_DEADLOCK FALSE
