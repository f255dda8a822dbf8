SPECIFICATION CbSpec
CONSTANTS
  MaxSeqLen = 2
  SyncLimit = 2
  ConcatMax = 2
  Shapes <- WriteShapes
  MaxSends = 3
  CbOptions = {TRUE, FALSE}
  Watchdog = TRUE
  MaxReads = 1
  UserOps = {"shutdown", "stop_io"}
  HandlerCalls = {0, 1}
  CallbackSends = {"async"}
INVARIANTS
  StreamInOrder
  QueueShape
  NothingStuck
  SuccessMeansWritten
  AnsweredInOrder
  NoCallbackLost
PROPERTIES
  NoSpuriousTimeout
  ImplementsStream
