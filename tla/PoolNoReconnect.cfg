SPECIFICATION Spec
CONSTANTS
  Clients = {c1, c2}
  Threads = {main, t1}
  Main = main
  Wsis = {w1, w2}
  MaxClients = 3
  Hooked = {c2}
  Nil = Nil
PROPERTY NoReconnect
