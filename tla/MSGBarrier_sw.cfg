CONSTANTS
  N = 4
  DefaultMaxProc = 12
  FlagMod = 2
  MaxRounds = 3
SPECIFICATION FairSpec
INVARIANT BarrierSafety
PROPERTIES ImplementsBarrier AllLeave
