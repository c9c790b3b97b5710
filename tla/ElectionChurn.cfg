CONSTANTS
  Node = {1, 2, 3}
  Late = {3}
  Crashable = {2}
  MaxInFlight = 0
  NoNode = NoNode

SPECIFICATION Spec

INVARIANT TypeOK
INVARIANT DisagreesOnlyByCrossing

CHECK_DEADLOCK FALSE
