CONSTANTS
  N = 3
  MaxLen = 2
  Programs <- MCAll
SPECIFICATION FairSpec
INVARIANTS DescriptorReady SharedOut
PROPERTY AllDone
