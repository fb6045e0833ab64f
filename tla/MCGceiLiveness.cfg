SPECIFICATION FairSpec
CONSTANTS
  None = None
  MaxEpoch = 2
  MaxBlock = 2
  MaxBlockSize = 3
  MaxBatch = 2
  MaxTimeouts <- Unbounded
  MaxOrphans = 1
  MaxResets = 0
PROPERTIES BatchesComplete EpochEnds
CHECK_DEADLOCK FALSE
