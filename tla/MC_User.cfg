CONSTANTS
  p1 = p1
  p2 = p2
  c1 = c1
  c2 = c2
  NONE = NONE
SPECIFICATION Spec
CHECK_DEADLOCK FALSE
INVARIANTS  SessionSound
PROPERTIES SessionGoesOn
