CONSTANTS
  c1 = c1
  c2 = c2
  r1 = r1
  r2 = r2
  app = app
  NoRepo = NoRepo
  NoCall = NoCall
  Home = Home
  NoDir = NoDir
  Conns <- TwoConns
  Repos <- TwoRepos
  BaseName <- Name
  Args <- Typed
  MaxLost = 1
  MaxStops = 1
SPECIFICATION Spec
INVARIANTS TypeOK OpensRepo OneClone PanicsOnlyAfterFailure
PROPERTY WorkStays
CHECK_DEADLOCK FALSE
