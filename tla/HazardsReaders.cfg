CONSTANTS
  Logic <- MCLogic
  Cost <- MCCost
  Vars <- MCVars
  SystemCVars = {}
  SerializeDpi = TRUE
  Designs <- CircularDesigns
SPECIFICATION Spec
INVARIANTS
  ReadersSerialized
CHECK_DEADLOCK FALSE
