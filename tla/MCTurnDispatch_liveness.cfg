SPECIFICATION FairSpec
CONSTANTS
  NumInbound = 3
  SystemMsgs = {3}
  ApiMsgs = {}
  Sessions = {"s1", "main"}
  SessionOf <- WithSystem
  MaxParallelTurns = 1
  MaxQueueSize = 2
  SteeringAll = TRUE
  TurnOutcomes = {"ok", "error", "aborted", "canceled", "panic"}
  EarlyExits = {"command", "routeError", "panic", "initError"}
  Manual = "manual"
PROPERTIES
  SessionsReleased
CHECK_DEADLOCK FALSE
