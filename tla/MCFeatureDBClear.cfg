CONSTANTS
  f1 = f1
  f2 = f2
  f3 = f3
  k1 = k1
  k2 = k2
  Threads = {t1}
  Files <- MCFiles
  Keys = {k1, k2}
  BadKey = BadKey
  Content <- MCContent
  Intact = {f1, f2}
  MaxCalls = 2
  MaxCrash = 0
  None = None
SPECIFICATION Spec
CHECK_DEADLOCK FALSE
PROPERTY ClearEmpties
