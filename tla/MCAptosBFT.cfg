SPECIFICATION Spec
CONSTANTS
  None = None
  v1 = v1 v2 = v2 v3 = v3 f = f x = x y = y
  Honest <- MCHonest
  Byzantine <- MCByzantine
  Quorums <- MCQuorums
  Ids <- MCIds
  MaxRound = 2
  OrderVoteEnabled = TRUE
SYMMETRY Symmetric
INVARIANTS OneQCPerRound Agreement OrderedIsSafe
CHECK_DEADLOCK FALSE
