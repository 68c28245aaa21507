SPECIFICATION Spec
CONSTANTS
  Sectors525 = 2
  Aux = 2
  PhysToDos <- MCPhysToDos
  PhysToProdos <- MCPhysToProdos
  Sectors35 = 2
  Rows = 2
  TagRows = 1
  FirstGap525 = 5
  Gap525 = 2
  DataGap525 = 2
  FirstGap35 = 5
  Gap35 = 2
  DataGap35 = 2
  NumQtr = 10
  Std525 = 8
  Arm525 = 9
  Bits525 = 520
  Bits35 = 600
  MinWozBits = 100
  ShortTrack = 200
  Images <- MCImages
  Programs <- MCPrograms
  MotorVbls = 2
  PhaseTicks = 700
  Faults = 1
CHECK_DEADLOCK FALSE
INVARIANTS
  SyncChained
  CleanMeansSaved
  NoTornSector
  SavedWhenStopped
  WozReread
  EveryNibbleRead
