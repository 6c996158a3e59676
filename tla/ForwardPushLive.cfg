CONSTANTS
  a = a
  b = b
  Channels = {a}
  Email = Email
  Msgs = {m1}
  NoMsg = NoMsg
  None = None
  Configs <- MCConfigs
  FwdMax = 1
  PushMax = 1
  EmailMax = 1
  RetryMax = 2
  MaxEvents = 2
SPECIFICATION FairSpec
PROPERTY QueuesDrain
