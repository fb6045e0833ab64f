SPECIFICATION Spec
CONSTANTS
  me = me
  a = a
  a2 = a2
  none = none
INVARIANTS
  
  
  ClientCorrect
PROPERTIES
  NoTwoNodes
CHECK_DEADLOCK FALSE
