CONSTANTS
  MaxStates = 12
  MaxCount = 9

SPECIFICATION Spec

INVARIANT NothingLostByDividing
INVARIANT ReturnsDealtStacks
INVARIANT FairShares
PROPERTY EveryoneGetsAStack
