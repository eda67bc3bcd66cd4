CONSTANTS
  Workers = {w1, w2}
  MaxTasks = 1
  None = None
SPECIFICATION FairSpec
CHECK_DEADLOCK FALSE
PROPERTY ShutdownReturns
