CONSTANTS
  Mains = {m1, m2}
  Services = {s1, s2, s3}
  PoolThreads = {t1, t2}
  MaxFaults = 2
  MaxLaunches = 3
SPECIFICATION FairSpec
CHECK_DEADLOCK FALSE
INVARIANTS TypeOK OnePastTheTest
PROPERTY ServiceComesBack
