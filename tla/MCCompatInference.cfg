SPECIFICATION Spec
CONSTANTS
  NumOutputs = 4
  Static = {1, 2, 4}
INVARIANTS OrtKeepsItsBuffers OrphanNeedsSubmission
CHECK_DEADLOCK FALSE
