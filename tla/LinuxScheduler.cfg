SPECIFICATION Spec
CONSTANTS
  Tasks <- MCTasks
  DayHours = 4
  BeatHour = 1
  RebootHour = 1
  Days <- MCDays
  MinUptime = 2
  MaxOff = 0
  MaxHours = 6
  MaxFailures = 1
  MaxCrashes = 1
  MaxSaves = 1
INVARIANTS OncePerDay
PROPERTIES NotRolledBack RunsSpaced
CHECK_DEADLOCK FALSE
