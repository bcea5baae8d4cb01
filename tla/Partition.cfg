CONSTANTS
  Logic <- MCLogic
  Cost <- MCCost
  Vars <- MCVars
  SystemCVars <- MCSystemCVars
  SerializeDpi = TRUE
  Designs <- MCDesigns
  Steps <- MCSteps
  StepPercent = 150
  Threads = 2
  ThreadsMaxMTasks = 4
SPECIFICATION GoSpec
INVARIANTS
  GoTypeOK
  PreRanked
  WritersSerialized
  GoAcyclic
  CpNear
  SearchIsExact
  WithinLimit
  FinalOrder
PROPERTIES
  PartitioningEnds
CHECK_DEADLOCK FALSE
