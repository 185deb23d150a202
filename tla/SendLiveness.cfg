SPECIFICATION FairSpec
CONSTANTS
  short1 = short1
  short2 = short2
  long = long
  Senders = {s1, s2}
  Messages <- TwoMessages
  Size <- Sizes
  MaxMsgs = 2
  MaxBytes = 4
  OwnHeartbeat = FALSE
  None = None
PROPERTIES
  BacklogWritten
  SilentPeerClosed
