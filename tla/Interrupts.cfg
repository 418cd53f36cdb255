SPECIFICATION Spec
CONSTANTS
  MaxKeys = 4
INVARIANTS
  IntTypeOK
  OneHandler
  NoFault
  KeysInOrder
PROPERTIES
  KeysArrive
  TicksArrive
