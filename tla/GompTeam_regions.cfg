CONSTANTS
  N = 3
  PoolBits = 32
  DefaultMaxProc = 8
  FlagMod = 2
  MaxTeams = 4
  MaxBars = 1
SPECIFICATION FairSpec
INVARIANTS CoresAccounted CoresInPlace JoinBeforeFree
PROPERTY AllStop
