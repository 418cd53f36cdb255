SPECIFICATION Spec
CONSTANTS
  Width = 12
  Height = 5
  ClockCol = 4
  ClockRow = 4
  TimeCol = 3
  FreeCol = 2
  UnitCol = 5
  NameLength = 3
  Precision = 4
  IntMod = 1024
  Denominator = 16
  Clocks <- MCClocks
  Frees <- MCFrees
  Values <- MCValues
  MaxLine = 2
  MaxRow = 5
  MaxStale = 1
INVARIANTS
  OutputShown
  ClockWhole
