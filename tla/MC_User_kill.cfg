CONSTANTS
  p1 = p1
  p2 = p2
  c1 = c1
  c2 = c2
  NONE = NONE
SPECIFICATION KillSpec
PROPERTIES PromptReturns
CHECK_DEADLOCK FALSE
