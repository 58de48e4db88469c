SPECIFICATION FairSpec
CONSTANTS
  m1 = m1  m2 = m2  s1 = s1  s2 = s2
  Masters = {m1, m2}
  Slaves <- TrioAndOne
  NEvents = 1
  MaxBars = 2
  MaxRegions = 1
INVARIANTS CountersSound TeamsHeld EventsExclusive
PROPERTY RegionsEnd
CHECK_DEADLOCK FALSE
