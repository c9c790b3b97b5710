CONSTANTS
  Node = {1, 2, 3}
  Matrix <- MCMatrix
  Path <- SimplePath
  Roots <- PopulateStates
  Children <- MCChildren
  LoopCycles = 0
  InitSteps = 1
  Leader = {3}
  Late = {1}
  Crashable = {}
  TailLoss = FALSE
  Timing = "rounds"
  MaxInFlight = 0
  NoEntry = NoEntry

SPECIFICATION Spec

INVARIANT NothingForgotten
