SPECIFICATION FairSpec
CONSTANTS
  NumMsgs = 4
  ChannelOf <- TwoAndTwo
  Media = {3}
  Direct = {4}
  Chunks <- OneThenTwo
  Names = {"a", "b"}
  Started = {"a"}
  Changes <- SomeChanges
  BusCapacity = 1
  QueueCapacity = 1
  MaxAttempts = 2
  MaxInstances = 2
  MaxReloads = 1
  MaxPlaceholders = 1
  Doubtful = {2}
INVARIANTS
  ShownInOrder
  NoSilentLoss
  OnePlace
PROPERTY ComesToRest
CHECK_DEADLOCK FALSE
