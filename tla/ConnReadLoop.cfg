SPECIFICATION Spec
CONSTANTS
  MaxSeqLen = 2
  SyncLimit = 2
  ConcatMax = 2
  Shapes <- TinyShapes
  MaxSends = 0
  CbOptions = {FALSE}
  Watchdog = FALSE
  MaxReads = 3
  UserOps = {"start_reading", "stop_reading", "restart_reading"}
  HandlerCalls = {0}
INVARIANTS
  SingleReadLoop
