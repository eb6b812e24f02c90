SPECIFICATION FairSpec
CONSTANTS
  NumJobs = 2
  OneShot = {1}
  Commands = {1, 2}
  Period = 1
  Ahead = 1
  Hour = 2
  NumServices = 2
  MaxEdits = 1
INVARIANTS
  AtMostOnce
  NeverForgotten
  RemovedStays
PROPERTY RecurringRuns
