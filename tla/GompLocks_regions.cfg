CONSTANTS
  t1 = t1
  t2 = t2
  t3 = t3
  Threads = {t1, t2, t3}
  InitLockCallers = {t1, t2}
  TestLockCallers = {t3}
  MaxRegions = 2
  SemWords = 18
SPECIFICATION Spec
INVARIANTS AllocationSound RegionExclusion WordsSuffice
