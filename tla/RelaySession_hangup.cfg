CONSTANTS
  Pings = TRUE
  Free = Free
  MaxKeys = 0
  MaxWins = 0
  MaxIn = 0
SPECIFICATION FairSpec
PROPERTY HangupEnds
CHECK_DEADLOCK FALSE
