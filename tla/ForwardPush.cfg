CONSTANTS
  a = a
  b = b
  Channels = {a, b}
  Email = Email
  Msgs = {m1}
  NoMsg = NoMsg
  None = None
  Configs <- MCConfigs
  FwdMax = 1
  PushMax = 2
  EmailMax = 1
  RetryMax = 2
  MaxEvents = 2
SPECIFICATION Spec
INVARIANTS TypeOK QueuesBounded CompletionAccounting CompletionEntryFree
PROPERTY ImplementsLedger
