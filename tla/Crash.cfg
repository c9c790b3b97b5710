CONSTANTS
  Node = {1, 2, 3}
  Matrix <- MCSmallMatrix
  Path <- SimplePath
  Roots <- PopulateStates
  Children <- MCChildren
  LoopCycles = 0
  InitSteps = 1
  Leader = {3}
  Late = {}
  Crashable = {2}
  TailLoss = TRUE
  Timing = "rounds"
  MaxInFlight = 0
  NoEntry = NoEntry

SPECIFICATION FairSpec

INVARIANT IdleHasNoWork
INVARIANT TypeOK
PROPERTY EveryoneEnds
