CONSTANTS
  Node = {1, 2, 3}
  Matrix <- MCCutMatrix
  Path <- SimplePath
  Roots <- PopulateStates
  Children <- MCChildren
  LoopCycles = 1
  InitSteps = 1
  Leader = {3}
  Late = {}
  Crashable = {}
  TailLoss = FALSE
  Timing = "rounds"
  MaxInFlight = 0
  NoEntry = NoEntry

SPECIFICATION FairSpec

INVARIANT PrintsLargestCut
INVARIANT NothingLost
INVARIANT EndsWithoutLeftOver
PROPERTY ImplementsWorkPool
PROPERTY EveryoneEnds
