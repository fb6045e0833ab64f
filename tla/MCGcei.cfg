SPECIFICATION Spec
CONSTANTS
  None = None
  MaxEpoch = 2
  MaxBlock = 2
  MaxBlockSize = 3
  MaxBatch = 2
  MaxTimeouts = 1
  MaxOrphans = 2
  MaxResets = 1
INVARIANTS ExtendsExecuted NodeStaysUp AnswersMatch EpochChangeOrdered
PROPERTIES ImplementsExecutionLog
CHECK_DEADLOCK FALSE
