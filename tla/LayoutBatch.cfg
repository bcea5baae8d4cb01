CONSTANTS
  Modules <- MCModules
  Top = "top"
  Rank <- MCRank
  Scopes <- MCScopes
  ModuleOf <- MCModuleOf
  Vars <- MCVars
  VarsOf <- MCVarsOf
  Width <- MCWidth
  Elements <- MCElements
  Ports <- MCPorts
  NoReset <- MCNoReset
  THREADS = 2
  gpu_threads = 2
  UIntSpan = 4096
  MaxStores = 2
  MemWidth = 8
  BusWidth = 70
  BusElements = 0
SPECIFICATION Spec
INVARIANTS
  TypeOK
  InBounds
  Disjoint
  PortsAgree
  NothingRaw
PROPERTIES
  StoreSpec
CHECK_DEADLOCK FALSE
