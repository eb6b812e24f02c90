SPECIFICATION FairSpec
CONSTANTS
  OldHistory <- OneOldTurn
  DefaultAgent = TRUE
  Continued = FALSE
  NumSteer = 2
  SteeringAll = FALSE
  MaxIterations = 2
  MaxCalls = 3
  Failures = {"timeout", "error"}
  HookActions = {"deny", "respond", "abort_turn", "hard_abort"}
  Interrupts = {"graceful", "hard"}
  OverBudget = FALSE
INVARIANTS
  ContextIsStored
  NoToolAfterSteering
  IterationsBounded
  SteeringKept
  RollbackComplete
PROPERTY TurnEnds
CHECK_DEADLOCK FALSE
