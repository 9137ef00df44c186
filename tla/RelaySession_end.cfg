CONSTANTS
  Pings = TRUE
  Free = Free
  MaxKeys = 2
  MaxWins = 2
  MaxIn = 2
SPECIFICATION FairSpec
INVARIANTS TypeOK OneWriter NothingAfterEnd
PROPERTIES DoneClosedOnce SessionEnds
CHECK_DEADLOCK FALSE
