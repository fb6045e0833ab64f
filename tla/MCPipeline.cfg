SPECIFICATION MCSpec
CONSTANTS
  v1 = v1
  v2 = v2
  v3 = v3
  v4 = v4
  v5 = v5
  w1 = w1
  Validators <- KeysValidators
  Byzantine <- KeysByzantine
  Authors <- KeysAuthors
  Quorums <- KeysQuorums
  Keys <- KeysKeys
  MaxEpoch = 1
  MaxCrashes = 1
SYMMETRY Symmetry
INVARIANTS
  PipelineCorrect
  KeysAreSaved
  AugDataCorrect
CHECK_DEADLOCK FALSE
