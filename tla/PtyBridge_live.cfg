CONSTANTS
  c1 = c1
  c2 = c2
  r1 = r1
  r2 = r2
  r3 = r3
  Conns <- OneConn
  Requests <- OneRequest
  Kinds <- LiveKinds
  Messages <- Typed
  NoOne = NoOne
  MaxOutput = 1
  KeyCap = 1
  BufCap = 1
SPECIFICATION FairSpec

PROPERTIES ExitEndsBridge RequestsAnswered GoneClientsLeave
CHECK_DEADLOCK FALSE
