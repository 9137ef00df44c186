CONSTANTS
  s1 = s1
  s2 = s2
  Sessions <- OneSession
  Slow <- OneSession
  MaxEvents = 1
SPECIFICATION Spec
PROPERTY HangUpEndsOneSession
CHECK_DEADLOCK FALSE
