CONSTANTS
  NumOsc = 4
  Controls <- ControlValues
  Enabled = {1, 2, 3}
SPECIFICATION Spec
CHECK_DEADLOCK FALSE
INVARIANT RanksExact
PROPERTIES EndAwaited EndInterrupts
