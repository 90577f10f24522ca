SPECIFICATION FairSpec
CONSTANTS
  Executors = {e1, e2, e3}
  Transports = {"managed", "nitros", "std"}
INVARIANTS ActiveCallbacksAreSafe
PROPERTY DestructorReturns
CHECK_DEADLOCK FALSE
