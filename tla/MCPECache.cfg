CONSTANTS
  Threads = {t1, t2, t3}
  Keys = {k1, k2}
  MaxItems = 3
SYMMETRY Symmetry
SPECIFICATION Spec
CHECK_DEADLOCK FALSE
INVARIANTS SearchesEnd CacheExact
