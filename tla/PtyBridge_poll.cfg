CONSTANTS
  c1 = c1
  c2 = c2
  r1 = r1
  r2 = r2
  r3 = r3
  Conns <- NoConns
  Requests <- ThreeRequests
  Kinds <- PollKinds
  Messages <- NoMessages
  NoOne = NoOne
  MaxOutput = 3
  KeyCap = 1
  BufCap = 1
SPECIFICATION Spec
SYMMETRY Symmetry
INVARIANTS BufferIsTail ExitIsTrue
CHECK_DEADLOCK FALSE
PROPERTY Implements
