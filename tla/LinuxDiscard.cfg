SPECIFICATION SumSpec
CONSTANTS
  A = A
  B = B
  Running = {"Push"}
  Channels = {a}
  Email = b
  Msgs = {m}
  NoMsg = n
  Configs <- Settings
  Capacity = 2
  RetryMax = 2
  MaxEvents = 2
  None = None
  Networks = {A, B}
  StreakMax = 2
  SlowTicks = 2
  MaxQueue = 2
  MaxWifiEvents = 2
  MaxRequests = 3
  MaxStarts = 1
  MaxRestarts = 1
  Plain = {}
  Parts = {"part"}
  Orders = {}
  Resets = {}
  Garbled = {}
  MaxTrouble = 0
INVARIANT MarkedWhenAllSucceeded
CHECK_DEADLOCK FALSE
