CONSTANTS
  MaxTyped = 4
  SendBuffer = 2
  Faults = TRUE
SPECIFICATION FairSpec
INVARIANTS SuccessIsComplete
PROPERTIES NoFalseSuccess BothEnd
CHECK_DEADLOCK FALSE
