SPECIFICATION FairSpec
CONSTANTS
  MaxSeqLen = 2
  SyncLimit = 2
  ConcatMax = 2
  Shapes <- TinyShapes
  MaxSends = 2
  CbOptions = {FALSE}
  Watchdog = TRUE
  MaxReads = 1
  UserOps = {"start_reading", "stop_reading", "reset_handler", "shutdown", "stop_io"}
  HandlerCalls = {0, 1}
INVARIANTS
  ReadBufferOwned
PROPERTIES
  ShutdownOnce
  WriteEnds
  ReleasedIsDestroyed
