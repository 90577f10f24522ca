SPECIFICATION Spec
CONSTANTS
  Streams = {s1}
  Readers = {}
  Leases = {l1}
  Producer = producer
INVARIANT UnknownCompletionNeverReleased
CHECK_DEADLOCK FALSE
