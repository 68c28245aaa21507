CONSTANTS
  Lines = 4
  Visible = 2
  VblLine = 1
  LineLen = 2
  MaxCost = 2
  QuarterFrames = 1
  SecondFrames = 2
SPECIFICATION FairSpec
INVARIANT ScanOnItsLine
