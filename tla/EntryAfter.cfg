SPECIFICATION Spec
CONSTANTS
  InlineOptions = {FALSE}
  MaxUnits = 3
  MaxChunk = 2
  MaxClose = 1
PROPERTIES
  NoMessageAfterTerminate
CHECK_DEADLOCK FALSE
