SPECIFICATION FairSpec
CONSTANTS
  Clients = {c1}
  Threads = {main, t1}
  Main = main
  Wsis = {w1}
  MaxClients = 3
  Hooked = {c1}
  Nil = Nil
PROPERTIES
  StopReturns
  DialsAgain
  DestroyReturns
