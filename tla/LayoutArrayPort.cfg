CONSTANTS
  Modules <- MCModules
  Top = "top"
  Rank <- MCRank
  Scopes <- MCScopes
  ModuleOf <- MCModuleOf
  Vars <- MCVars
  VarsOf <- MCVarsOf
  Width <- MCWidth
  Elements <- MCElements
  Ports <- MCPorts
  NoReset <- MCNoReset
  THREADS = 2
  gpu_threads = 2
  UIntSpan = 4096
  MaxStores = 1
  MemWidth = 8
  BusWidth = 16
  BusElements = 2
SPECIFICATION Spec
INVARIANTS
  PortsAgree
CHECK_DEADLOCK FALSE
