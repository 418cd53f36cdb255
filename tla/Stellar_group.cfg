SPECIFICATION Spec
CONSTANTS
  Arith <- MCArith
  One = 36
  InputValue = 270
  Junk = 5555
  Registers = 8
  StackSize = 7
  Symbols = 8
  IfPlaces = 3
  LoopPlaces = 3
  ScopePlaces = 4
  ExitPlaces = 4
  Names <- MCNames
  Programs <- GroupedPrograms
INVARIANTS
  Computes
CHECK_DEADLOCK FALSE
