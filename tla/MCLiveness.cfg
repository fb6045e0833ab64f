SPECIFICATION FairSpec
CONSTANTS
  d1 = d1
  w1 = w1
  r1 = r1
  alice = alice
  me = me
  v1 = v1
  v2 = v2
PROPERTIES
  QuorumStoreProgress
  
CHECK_DEADLOCK FALSE
