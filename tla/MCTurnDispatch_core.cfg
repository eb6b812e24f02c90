SPECIFICATION DispatcherOnlySpec
CONSTANTS
  NumInbound = 4
  SystemMsgs = {}
  ApiMsgs = {101}
  Sessions = {"s1", "s2"}
  SessionOf <- TwoChats
  MaxParallelTurns = 2
  MaxQueueSize = 2
  SteeringAll = FALSE
  TurnOutcomes = {"ok", "panic"}
  EarlyExits = {"command"}
  Manual = "manual"
INVARIANTS
  ScopeIsolation
  ClaimHasLiveOwner
  MessageConservation
  SteeredInOrder
PROPERTY LoopKeepsDraining
CHECK_DEADLOCK FALSE
