CONSTANTS
  c1 = c1
  Clients <- OneClient
  NoSock = NoSock
  Aborts = FALSE
  Fails = TRUE
  MaxPrint = 1
  MaxKeys = 0
  MaxStops = 1
SPECIFICATION FairSpec
PROPERTY PollDelivers
CHECK_DEADLOCK FALSE
