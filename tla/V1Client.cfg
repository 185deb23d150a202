SPECIFICATION FairSpec
CONSTANTS
  Senders = {s1, s2}
  Wsis = {w1, w2}
  None = None
  MaxMsgs = 2
  InitDelay = 1
  MaxDelay = 5
  MaxSends = 2
  MaxStarts = 2
INVARIANTS
  TypeOK
  ConnectionKept
  NoLostWakeup
  NothingLeft
PROPERTIES
  BacklogSpec
  Backoff
  StopReturns
  SilentPeerClosed
CHECK_DEADLOCK FALSE
