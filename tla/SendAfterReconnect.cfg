SPECIFICATION FairSpec
CONSTANTS
  short1 = short1
  short2 = short2
  long = long
  Senders = {s1}
  Messages <- TwoMessages
  Size <- Sizes
  MaxMsgs = 2
  MaxBytes = 4
  OwnHeartbeat = TRUE
  None = None
PROPERTY SentAfterReconnect
