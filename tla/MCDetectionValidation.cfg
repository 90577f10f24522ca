SPECIFICATION ValidationSpec
CONSTANTS
  NotFinite = NotFinite
  None = None
  DetectionType = DetectionType
  NanosPerSecond = 2
  MaxFrames = 2
  Messages <- MCMessages
  Options <- MCOptions
INVARIANTS EverythingIsCounted TotalsIgnoreArrivalOrder OfflineConserves AgreesWithOffline BadDataIsNotReported
CHECK_DEADLOCK FALSE
