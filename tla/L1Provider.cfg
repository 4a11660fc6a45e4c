SPECIFICATION Spec
CONSTANTS
  None = None
  Concurrency = 2
  Delay = 1
  StartHeight = 0
  StartBlocks = 3
  MaxBlocks = 3
  MaxForks = 1
  MaxFailures = 1
  MaxCalls = 1
INVARIANT
  CachedUnderFinalized
PROPERTIES
  ReceiptsFetched
  CatchesUp
CHECK_DEADLOCK FALSE
