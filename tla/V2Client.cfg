SPECIFICATION FairSpec
CONSTANTS
  Senders = {s1}
  Wsis = {w1, w2}
  None = None
  MaxMsgs = 2
  InitDelay = 1
  MaxDelay = 3
  MaxFailures = 2
  Pings = TRUE
  OwnHeartbeat = TRUE
  MaxSends = 2
  MaxStarts = 2
INVARIANTS
  TypeOK
  ConnectionKept
  NoLostWakeup
  HeartbeatGoesOn
  LeaksOnlyLate
PROPERTIES
  BacklogSpec
  BacklogWritten
CHECK_DEADLOCK FALSE
