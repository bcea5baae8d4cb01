CONSTANTS
  gpu_threads = 2
  BlockSize = 2
  LoopLimit = 4
  Stride = 2
  Top = 3
  IDataSpan = 2
  ResetValues = {0}
  XInitialEdge = FALSE
  Quads <- QuadCircular
  Signals <- MCSignals
  Value <- MCValue
  Domain <- MCDomain
  Inputs <- MCInputs
  Clocks <- MCClocks
  Circular <- MCCircular
  Senses <- MCSenses
  MTasks <- MCMTasks
  MTaskEdges <- MCMTaskEdges
  MTaskOrder <- MCMTaskOrder
  Reads <- MCReads
  Writes <- MCWrites
  ResetStates <- MCResetStates
  MTaskCode <- MCMTaskCode
  SettleLogic <- MCSettleLogic
  InitialLogic <- MCInitialLogic
SPECIFICATION SpecH
INVARIANTS
  StableAtReturn
CHECK_DEADLOCK FALSE
