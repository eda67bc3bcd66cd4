CONSTANTS
  a = a
  b = b
  Tasks = {a, b}
  Clients <- MCClients
  MaxLate = 1
  MaxId = 2
SPECIFICATION FairSpec
CHECK_DEADLOCK FALSE
INVARIANTS RemovedRunsAtMostOnceMore IdFindsTask
PROPERTIES EveryTaskRuns DestructorReturns
