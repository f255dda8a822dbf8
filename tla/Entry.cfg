SPECIFICATION FairSpec
CONSTANTS
  InlineOptions = {TRUE, FALSE}
  MaxUnits = 3
  MaxChunk = 2
  MaxClose = 1
INVARIANTS
  TerminateOnce
  HeartbeatRuns
  StreamIsDrained
  NoMessageLost
PROPERTIES
  AppendNotServed
  ShutdownIsNoticed
  EndIsDone
CHECK_DEADLOCK FALSE
