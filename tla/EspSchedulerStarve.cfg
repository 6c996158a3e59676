CONSTANTS
  Keepalive = Keepalive
  Web = Web
  None = None
  Tasks = {1}
  IntervalDays <- MCDaily
  MaxDays = 1
  DayHours = 2
  WithProfile = {}
  SwitchBack = {1}
  MaxRequests = 0
  MaxRestarts = 0
SPECIFICATION FairSpec
PROPERTY TasksTakeTurns
