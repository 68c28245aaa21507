CONSTANTS
  RomVersion = 1
  MaxPaste = 2
  SwapCommandOption = TRUE
  JoystickType = 0
  Width = 640
  Height = 400
  MaxDelta = 63
  CompressAge = 2
  Sessions <- AllSessions
SPECIFICATION FairSpec
CHECK_DEADLOCK FALSE
INVARIANTS IrqsExplained NoKeyStuck
PROPERTIES CharsArrive ImplementsKeyFifo PointerCatchesUp
