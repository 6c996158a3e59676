SPECIFICATION Spec
CONSTANTS
  RingSize = 2
  PrevSize = 3
  MaxLines = 5
  MaxResets = 2
  MaxShown = 4
PROPERTIES CrashCostsOneLine
CHECK_DEADLOCK FALSE
