CONSTANTS
  short = short
  long = long
  bad = bad
  Msgs = {short, long, bad}
  PartsOf <- MCPartsOf
  Bad = {bad}
  Slots = {1, 10}
  None = None
  IndexMax = 1
  RingMax = 4
  BatchMax = 1
  ListMax = 1
  StallMax = 3
  MaxDeliveries = 2
  MaxLines = 1
  MaxRestarts = 1
SPECIFICATION FairSpec
INVARIANTS StoreSound
PROPERTIES NothingVanishes StorageDrains
