SPECIFICATION FairSpec
CONSTANTS
  Threads = {t1, t2, t3}
  Blocks = {b1, b2}
  NoBlock = NoBlock
INVARIANTS BlocksConserved AllocationOutlivesBlocks NoLostWakeup
PROPERTIES TimedCallsReturn StoppingFreesAcquirers
CHECK_DEADLOCK FALSE
