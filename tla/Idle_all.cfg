SPECIFICATION Spec
CONSTANTS
  c1 = c1
  c2 = c2
  c3 = c3
  Cores <- MCCores
  Wakers = {"messages", "events"}
  MaxSyncs = 3
INVARIANT SyncSound
PROPERTIES SleepsUntilWoken WokenRuns SyncEnds
