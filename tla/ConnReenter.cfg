SPECIFICATION CbSpec
CONSTANTS
  MaxSeqLen = 2
  SyncLimit = 2
  ConcatMax = 2
  Shapes <- TinyShapes
  MaxSends = 3
  CbOptions = {TRUE}
  Watchdog = FALSE
  MaxReads = 1
  UserOps = {}
  HandlerCalls = {0}
  CallbackSends = {"sync"}
INVARIANTS
  StreamInOrder
