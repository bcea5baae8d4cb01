CONSTANTS
  Signals <- MCSignals
  Values <- MCValues
  Times <- MCTimes
  MaxTraceBuffers = 2
  m_rolloverMB = 4
  m_wrFlush = 2
  MaxFiles = 3
  CallsAfterClose = {}
SPECIFICATION Spec
INVARIANTS
  BuffersAccounted
  WorkerQuiet
  FlushedIsWritten
PROPERTIES
  LogSpec
  CallsReturn
CHECK_DEADLOCK FALSE
