CONSTANTS
  Networks = {A}
  None = None
  StreakMax = 1
  SlowTicks = 2
  MaxQueue = 2
  MaxEvents = 1
SPECIFICATION Spec
INVARIANT HotspotReported
CHECK_DEADLOCK FALSE
