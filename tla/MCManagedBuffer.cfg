SPECIFICATION FairSpec
CONSTANTS
  Streams = {s1, s2}
  Readers = {r1}
  Leases = {l1}
  Producer = producer
INVARIANTS
  WriterExclusive
  ReadAfterWrite
  UncertainNeverReleased
  NoUseAfterRelease
  HeldEventsAreLive
  EventsAccountedFor
  NoSpuriousOrphan
PROPERTIES
  OwnersOutliveProducer
  KeepsPromise
  ReleaseCompletes
CHECK_DEADLOCK FALSE
