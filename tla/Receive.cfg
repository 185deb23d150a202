SPECIFICATION Spec
CONSTANTS
  MaxChunks = 6
INVARIANTS
  TypeOK
  DeliversWhole
  ServerEchoesLatest
PROPERTIES
  V2DeliversWhole
CHECK_DEADLOCK FALSE
