SPECIFICATION FairSpec
CONSTANTS
  Frames = 3
  MaxDials = 2
INVARIANTS
  TypeOK
  SuccessMeansWhole
  NoLostSignal
PROPERTIES
  Exits
CHECK_DEADLOCK FALSE
