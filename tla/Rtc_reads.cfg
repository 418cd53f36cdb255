SPECIFICATION Spec
CONSTANTS
  Hours = 3
  Minutes = 2
  Seconds = 2
  Offset <- MCOffset
INVARIANTS
  RtcTypeOK
  HandlerCoherent
  MainCoherent
