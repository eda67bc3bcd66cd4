CONSTANTS
  Workers = {w1, w2, w3}
  MaxTasks = 2
  None = None
SPECIFICATION FairSpec
CHECK_DEADLOCK FALSE
INVARIANTS TypeOK TasksInOrder TakenRunsOnce ShutdownIsSafe
PROPERTY ShutdownReturnsUnlessMissed
