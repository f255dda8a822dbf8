SPECIFICATION FairSendSpec
CONSTANTS
  Tags = {s1}
  MaxBufs = 3
  Threads = {t1}
  MaxMsgs = 1
  MaxLength = 16
INVARIANTS
  OneInFlight
  PackagesWhole
  SuccessIsWritten
PROPERTIES
  NeverGoesBack
  LatestIsWritten
  CallbackEnds
CHECK_DEADLOCK FALSE
