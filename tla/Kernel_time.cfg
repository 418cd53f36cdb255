SPECIFICATION FairKernelSpec
CONSTANTS
  Char <- MCChar
  Scancode <- QuietScancode
  keyboard_map <- Quietmap
  keyboard_map_shift <- Quietmap
  ShiftKey = {}
  Spelling <- MCSpelling
  StellarLine <- MCStellarLine
  tz_table <- MCtz_table
  DefaultZone <- MCDefaultZone
  DefaultUserLength = 0
  LineLimit = 2
  COLS = 3
  NameCol = 1
  ZoneCol = 1
  DoneCol = 1
  MaxPrints = 0
  RowBound = 2
  TickMod = 16
  SleepTicks = 2
  Frames = 2
  BlinkTicks = 3
  MaxLate = 1
INVARIANTS
  KernelTypeOK
  BlinkNotMissed
PROPERTIES
  BlinkSpaced
  ClockRuns
