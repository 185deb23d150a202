SPECIFICATION FairSpec
CONSTANTS
  Senders = {s1}
  Wsis = {w1}
  None = None
  MaxMsgs = 1
  InitDelay = 1
  MaxDelay = 2
  MaxFailures = 2
  Pings = TRUE
  OwnHeartbeat = FALSE
  MaxSends = 1
  MaxStarts = 1
PROPERTIES
  SilentPeerClosed
CHECK_DEADLOCK FALSE
