CONSTANTS
  c1 = c1
  Clients <- OneClient
  NoSock = NoSock
  Aborts = TRUE
  Fails = TRUE
  MaxPrint = 0
  MaxKeys = 2
  MaxStops = 1
SPECIFICATION Spec
INVARIANTS TypeOK StreamUsable KeysOnce
PROPERTY DeliversKeys
CHECK_DEADLOCK FALSE
