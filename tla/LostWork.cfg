CONSTANTS
  Node = {1, 2}
  Matrix <- MCBigMatrix
  Path <- SimplePath
  Roots <- PopulateStates
  Children <- MCChildren
  LoopCycles = 0
  InitSteps = 1
  Leader = {1}
  Late = {}
  Crashable = {}
  TailLoss = FALSE
  Timing = "async"
  MaxInFlight = 1
  NoEntry = NoEntry

SPECIFICATION Spec

INVARIANT EndsWithoutLeftOver
