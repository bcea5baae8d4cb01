CONSTANTS
  gpu_threads = 2
  BlockSize = 1
  LoopLimit = 4
  Stride = 1
  Top = 3
  IDataSpan = 8
  ResetValues = {0}
  XInitialEdge = FALSE
  Quads <- NoQuads
  Signals <- MCSignals
  Value <- MCValue
  Domain <- MCDomain
  Inputs <- MCInputs
  Clocks <- MCClocks
  Circular <- MCCircular
  Senses <- MCSenses
  MTasks <- MCMTasks
  MTaskEdges <- MCMTaskEdges
  MTaskOrder <- MCMTaskOrder
  Reads <- MCReads
  Writes <- MCWrites
  ResetStates <- MCResetStates
  MTaskCode <- MCMTaskCode
  SettleLogic <- MCSettleLogic
  InitialLogic <- MCInitialLogic
SPECIFICATION SpecH
INVARIANTS
  TypeOK
  EdgesConsumed
  QuietIsStable
  StableAtReturn
  InterleavingIsSequential
  FatalNeedsAStimulus
PROPERTIES
  SoloSpec
  RunTerminates
CHECK_DEADLOCK FALSE
