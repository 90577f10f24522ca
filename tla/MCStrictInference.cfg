SPECIFICATION FairSpec
CONSTANTS
  NumOutputs = 3
  Capacity = 2
INVARIANTS BlocksAccountedFor OutputsKeptFromOrt LossIsBounded
PROPERTY FramesEnd
CHECK_DEADLOCK FALSE
