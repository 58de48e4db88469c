SPECIFICATION FairSpec
CONSTANTS
  Channels = 2
  JT_SIZE = 2
  Modes <- TwoModes
  MaxOut <- TwoOut
  MaxJobs <- TwoJobs
INVARIANTS WaitMeansMoved TransfersSound JobsKept
PROPERTIES WaitReturns
