SPECIFICATION Spec
CONSTANTS
  Executions = {e1, e2, e3}
  NumCandidates = 2
  RPM <- LastLimited
  Minute = 2
  StandardBase = 1
  StandardCap = 3
  BillingBase = 2
  BillingCap = 3
  FailureWindow = 3
  MaxStarted = 3
  MaxNow = 4
INVARIANTS
  RateBound
  CooldownRespected
PROPERTY NeverShortened
SYMMETRY AnyOrder
CHECK_DEADLOCK FALSE
