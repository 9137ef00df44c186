CONSTANTS
  k1 = k1
  k2 = k2
  l1 = l1
  l2 = l2
  NoKey = NoKey
  Keys <- TwoKeys
  Logins <- TwoLogins
  MaxFaults = 3
  MaxTime = 1
SPECIFICATION FairSpec
INVARIANTS TypeOK AcceptedStays OneHostKey
PROPERTIES DateSettles ComesUp
