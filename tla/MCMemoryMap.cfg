CONSTANTS
  RomVersion = 3
  Breakpoints <- Breaks
  MaxBreaks = 1
  MaxChanged = 3
SPECIFICATION Spec
INVARIANTS TableMatches BreaksMarked WritesReachScreen
