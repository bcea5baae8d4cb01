CONSTANTS
  Signals <- MCSignals
  Values <- MCValues
  Times <- MCTimes
  MaxTraceBuffers = 2
  m_rolloverMB = 0
  m_wrFlush = 2
  MaxFiles = 1
  CallsAfterClose = {"flush"}
SPECIFICATION Spec
PROPERTIES
  CallsReturn
CHECK_DEADLOCK FALSE
