SPECIFICATION Spec
CONSTANTS
  a = a
  b = b
  c = c
  None = None
  Capacity = 2
  MaxId = 5
  OldFlash <- MCOldFlash
  Callers = {1, 2}
  Hidden = 0
  Gap = 3
  Delay = 1
  MaxCalls = 3
  Headers = {0, 2}
  Firmwares = {0, 1, 3, 5, 6}
  Marker = 2
  Tails = {1, 2}
  Slack = 1
  Piece = 3
  PartSize = 5
  HeaderMax = 4
  MaxPauses = 1
  RingSize = 2
  PrevSize = 3
  MaxLines = 5
  MaxResets = 2
  MaxShown = 4
  Forms <- MCForms
  LegacyUrl = TRUE
  MaxSaves = 2
  MaxTime = 1
  MaxFailures = 1
  MaxRestarts = 1
  Cards = {1, 2}
  Content <- MCContent
  Aliases = {0}
  Alias <- MCAlias
  Swept = {1}
  OutOfRange = 9
  ChainMax = 1
  MaxTrouble = 2
  MaxSwaps = 1
  MaxOps = 2
  Slots = 2
  Parts = 3
  TimeOut = 1
  MessageKeys = {a, b, c}
  NoKey = None
  Inputs <- MCInputs
  MaxDeliveries = 4
INVARIANT NoSilentDrop
CHECK_DEADLOCK FALSE
