CONSTANTS
  gpu_threads = 3
  BlockSize = 2
  LoopLimit = 3
  Stride = 1
  Top = 2
  IDataSpan = 4
  ResetValues = {0}
  XInitialEdge = FALSE
  Quads <- NoQuads
  Signals <- MCSignals
  Value <- MCValue
  Domain <- MCDomain
  Inputs <- MCInputs
  Clocks <- MCClocks
  Circular <- MCCircular
  Senses <- MCSenses
  MTasks <- MCMTasks
  MTaskEdges <- MCMTaskEdges
  MTaskOrder <- MCMTaskOrder
  Reads <- MCReads
  Writes <- MCWrites
  ResetStates <- MCResetStates
  MTaskCode <- MCMTaskCode
  SettleLogic <- MCSettleLogic
  InitialLogic <- MCInitialLogic
SPECIFICATION SpecH
INVARIANTS
  FatalNeedsAStimulus
CHECK_DEADLOCK FALSE
