CONSTANTS
  s1 = s1
  s2 = s2
  Sessions <- TwoSessions
  Slow <- OneSession
  MaxEvents = 2
SPECIFICATION FairSpec
INVARIANTS TypeOK TakenIsForwarded ExitIsLast LateTakesOnce
PROPERTIES SessionEnds SharesOutput
CHECK_DEADLOCK FALSE
