CONSTANTS
  c1 = c1
  Clients <- OneClient
  NoSock = NoSock
  Aborts = FALSE
  Fails = FALSE
  MaxPrint = 1
  MaxKeys = 0
  MaxStops = 0
SPECIFICATION FairSpec
PROPERTY OutputShown
CHECK_DEADLOCK FALSE
