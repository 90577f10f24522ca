SPECIFICATION Spec
CONSTANTS
  Sizes = {1, 2, 3, 9}
  Messages <- MCMessages
  PoolCapacity = 2
  MaxTensorBytes = 9
  MaxCacheBytes = 9
  MaxCacheEntries = 2
  SizeMax = 15
INVARIANTS CacheWithinLimits BlocksFitTensors NoRecyclingUnderCopy SourcesOutliveCopies
CHECK_DEADLOCK FALSE
