SPECIFICATION KernelSpec
CONSTANTS
  Char <- MCChar
  Scancode <- MCScancode
  keyboard_map <- MCmap
  keyboard_map_shift <- MCmap
  ShiftKey = {}
  Spelling <- MCSpelling
  StellarLine <- MCStellarLine
  tz_table <- MCtz_table
  DefaultZone <- MCDefaultZone
  DefaultUserLength = 0
  LineLimit = 2
  COLS = 3
  NameCol = 1
  ZoneCol = 1
  DoneCol = 1
  MaxPrints = 0
  RowBound = 2
  TickMod = 3
  SleepTicks = 0
  Frames = 2
  BlinkTicks = 1
  MaxLate = 0
INVARIANTS
  BarsExplained
  KernelLineCovered
PROPERTIES
  KernelImplementsSession
CHECK_DEADLOCK FALSE
