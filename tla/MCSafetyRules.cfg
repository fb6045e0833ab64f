SPECIFICATION Spec
CONSTANTS
  None = None
  MaxEpoch = 2
  MaxRound = 2
  Epochs <- MCEpochs
  Rounds <- MCRounds
  InSet <- MCInSet
  Accepts <- MCAccepts
  Ids = {a, b}
SYMMETRY IdSymmetry
INVARIANTS
  TypeOK OneVotePerRound TimeoutCarriesQC StorageCoherent
PROPERTIES
  SafetyDataMonotone
