CONSTANTS
  Fill <- MemoryByte
  Starts <- AllStarts
  Codes <- AllCodes
SPECIFICATION Spec
CHECK_DEADLOCK FALSE
INVARIANT FetchesAgree
PROPERTIES ReturnsMatch SumsRight
