SPECIFICATION MCSpec
CONSTANTS
  n1 = n1
  n2 = n2
  n3 = n3
  p1 = p1
  p2 = p2
  none = none
  Nodes <- LeadersNodes
  Last = 4
  RoundOf <- LeaderRounds
  EndsEpoch <- LeadersEndsEpoch
  Rounds <- LeadersRounds
  Exclude = 2
  Powers <- LeadersPowers
  Performance <- Performances
  Lost <- LeadersLost
  Threshold = 33
  Active = 10
  Inactive = 5
  Failed = 1
  Seed <- LeadersSeed
  AlphaBlock = 1
  Window = 2
  RefreshCalls = 2
SYMMETRY Symmetry
INVARIANTS
  ChainCorrect
  
  
  ObserverCorrect
CHECK_DEADLOCK FALSE
