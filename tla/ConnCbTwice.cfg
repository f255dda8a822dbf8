SPECIFICATION Spec
CONSTANTS
  MaxSeqLen = 2
  SyncLimit = 2
  ConcatMax = 2
  Shapes <- TinyShapes
  MaxSends = 1
  CbOptions = {TRUE}
  Watchdog = FALSE
  MaxReads = 1
  UserOps = {}
  HandlerCalls = {0}
INVARIANTS
  CallbackAtMostOnce
