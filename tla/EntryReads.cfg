SPECIFICATION FairReadSpec
CONSTANTS
  Initiate = 3
  Await = 6
  MaxLag = 3
  ReplyTime = 0
  ConfigSizes = {1, 3, 4, 7}
  ReadLimit = 6
  MaxPosted = 2
INVARIANTS
  AlivePeerIsKept
  DetectionBound
  ReadSizeKnown
  ReadIsLimited
PROPERTIES
  SilentPeerIsDetected
