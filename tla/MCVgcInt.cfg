CONSTANTS
  Lines = 4
  Visible = 2
  VblLine = 1
  LineLen = 2
  MaxCost = 1
  QuarterFrames = 1
  SecondFrames = 1
SPECIFICATION FairSpec
INVARIANTS VgcIrqExact MegaIrqExplained ScanEventBooked
PROPERTIES ClearedScbNotTaken ScanLineComes
