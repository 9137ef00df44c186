CONSTANTS
  c1 = c1
  c2 = c2
  r1 = r1
  r2 = r2
  r3 = r3
  Conns <- TwoConns
  Requests <- NoRequests
  Kinds <- NoKinds
  Messages <- Pings
  NoOne = NoOne
  MaxOutput = 2
  KeyCap = 1
  BufCap = 1
SPECIFICATION Spec
SYMMETRY Symmetry
INVARIANTS TypeOK OneSession StreamComplete ExitIsTrue
CHECK_DEADLOCK FALSE
PROPERTY Implements
