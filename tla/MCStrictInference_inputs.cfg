SPECIFICATION Spec
CONSTANTS
  NumOutputs = 1
  Capacity = 1
INVARIANT InputsKeptUntilOrtIsDone
CHECK_DEADLOCK FALSE
