SPECIFICATION FairSpec
CONSTANTS
  NumSubs = 4
  MaxDepth = 3
  MaxConcurrent = 2
  Capacity = 1
  MaxAborts = 1
ACTION_CONSTRAINT SpawnsWithin
INVARIANTS
  IInv
  ResultGoesToOnePlace
PROPERTIES
  AbortFreesDelivery
  AbortReachesChildren
CHECK_DEADLOCK FALSE
