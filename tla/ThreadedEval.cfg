CONSTANTS
  Tasks <- MCTasks
  nThreads = 3
  SandbagNumerator = 30
  SandbagDenom = 100
  NoTask = NoTask
  Main = Main
  Graphs <- MCGraphs
  Messages <- MCMessages
SPECIFICATION Spec
INVARIANTS
  NoCircularWait
  ThreadOrder
  CountersTurn
PROPERTIES
  EvalSpec
  CallsReturn
CHECK_DEADLOCK FALSE
