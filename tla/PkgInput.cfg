SPECIFICATION FairSpec
CONSTANTS
  Capacity = 3
  HeaderSize = 2
  MaxBuf = 2
  MaxBytes = 5
  LongSkips = FALSE
INVARIANTS
  RingInv
  CountIsParsed
PROPERTIES
  ImplementsInput
  CallEnds
