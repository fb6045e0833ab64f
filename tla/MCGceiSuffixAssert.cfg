SPECIFICATION Spec
CONSTANTS
  None = None
  MaxEpoch = 2
  MaxBlock = 3
  MaxBlockSize = 3
  MaxBatch = 2
  MaxTimeouts = 1
  MaxOrphans = 1
  MaxResets = 0
INVARIANTS SuffixAssertHolds
CHECK_DEADLOCK FALSE
