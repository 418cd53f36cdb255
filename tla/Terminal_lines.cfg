SPECIFICATION Spec
CONSTANTS
  Char <- MCChar
  Scancode <- MCScancode
  keyboard_map <- MCmap
  keyboard_map_shift <- MCmap_shift
  ShiftKey = {"L", "R"}
  Spelling <- MCSpelling
  StellarLine <- MCStellarLine
  tz_table <- MCtz_table
  DefaultZone <- MCDefaultZone
  DefaultUserLength = 0
  LineLimit = 5
  COLS = 4
  NameCol = 2
  ZoneCol = 3
  DoneCol = 2
  MaxPrints = 1
  RowBound = 4
INVARIANTS
  TypeOK
  LineCovered
  ZoneConsistent
  ShiftNotStuck
PROPERTIES
  ImplementsSession
