SPECIFICATION FairSumSpec
CONSTANTS
  A = A
  B = B
  Running <- MCRunning
  Channels = {a}
  Email = b
  Msgs = {m}
  NoMsg = n
  Configs <- Settings
  Capacity = 2
  RetryMax = 2
  MaxEvents = 2
  None = None
  Networks = {A, B}
  StreakMax = 2
  SlowTicks = 2
  MaxQueue = 2
  MaxWifiEvents = 2
  MaxRequests = 3
  MaxStarts = 1
  MaxRestarts = 1
  Plain = {}
  Parts = {"part"}
  Orders = {}
  Resets = {}
  Garbled = {}
  MaxTrouble = 0
INVARIANTS FlagCurrent DispatchSound
PROPERTIES StaysInReach OneOwner JobsMakeRoom ImplementsLedger DispatchEnds
CHECK_DEADLOCK FALSE
