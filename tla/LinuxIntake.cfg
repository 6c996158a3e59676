SPECIFICATION FairIntakeSpec
CONSTANTS
  Running <- MCRunning
  Plain <- MCPlain
  Parts <- MCParts
  Orders <- MCOrders
  Resets <- MCResets
  Garbled <- MCGarbled
  MaxTrouble = 1
  Channels = {}
  Email = email
  Msgs = {}
  NoMsg = nomsg
  Configs <- MCConfigs
  Capacity = 1
  RetryMax = 1
  MaxEvents = 0
  None = None
  Networks = {}
  StreakMax = 1
  SlowTicks = 1
  MaxQueue = 1
  MaxWifiEvents = 0
  MaxRequests = 0
  MaxStarts = 0
  MaxRestarts = 0
INVARIANTS IntakeSound
PROPERTY TakenIn
