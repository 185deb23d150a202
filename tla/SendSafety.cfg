SPECIFICATION Spec
CONSTANTS
  short1 = short1
  short2 = short2
  long = long
  Senders = {s1, s2}
  Messages <- AllMessages
  Size <- Sizes
  MaxMsgs = 2
  MaxBytes = 3
  OwnHeartbeat = TRUE
  None = None
INVARIANTS
  TypeOK
  CountersExact
  QueueKept
  NoLostWakeup
PROPERTY
  FifoSpec
