CONSTANTS
  Keepalive = Keepalive
  Web = Web
  None = None
  Tasks = {1}
  IntervalDays <- MCIntervalDays
  MaxDays = 2
  DayHours = 2
  WithProfile = {Keepalive, 1}
  SwitchBack = {1}
  MaxRequests = 1
  MaxRestarts = 1
SPECIFICATION FairSpec
INVARIANTS CardSound
PROPERTIES RunsSpaced TasksTakeTurns
