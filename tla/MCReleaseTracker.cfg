SPECIFICATION FairTrackerSpec
CONSTANTS
  top = top
  adopted = adopted
  source = source
  below = below
  Nobody = Nobody
  Buffers <- MCBuffers
  Apps = {a1, a2}
  Waiters = {w}
  Async <- AllButBelow
  Owner <- MCOwner
  Source <- MCSource
INVARIANTS NoDeleterUnderTracker ZeroMeansReleased WaitersAreTold
PROPERTY ReleasesComplete
CHECK_DEADLOCK FALSE
