SPECIFICATION Spec
CONSTANTS
  None = None
  Says <- MCSays
  AgentWords <- MCAgentWords
  CopyLikeKernels = {"copy_rows", "__amd_rocclr_copyBuffer"}
  CopyBufferKernels = {"__amd_rocclr_copyBuffer"}
  CommandLines <- MCCommandLines
  Records <- MCRecords
  Processes <- MCProcesses
  MaxInputs = 2
INVARIANTS
  FailIsMonotone
  SelfComparisonNeverFails
  PassIsEarned
  ExitZeroMeansFreshPass
CHECK_DEADLOCK FALSE
