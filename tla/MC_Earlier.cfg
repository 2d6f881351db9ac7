CONSTANTS
  p1 = p1
  p2 = p2
SPECIFICATION Spec
INVARIANTS  EndpointsSound
PROPERTIES EarlierSteps
