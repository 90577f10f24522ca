SPECIFICATION Spec
CONSTANTS
  Executors = {e1}
  Transports = {"std", "nitros"}
INVARIANT QueuedCallbacksAreSafe
CHECK_DEADLOCK FALSE
