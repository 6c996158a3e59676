CONSTANTS
  short = short
  long = long
  bad = bad
  Msgs = {long}
  PartsOf <- MCPartsOf
  Bad = {}
  Slots = {1, 10}
  None = None
  IndexMax = 1
  RingMax = 4
  BatchMax = 1
  ListMax = 1
  StallMax = 3
  MaxDeliveries = 2
  MaxLines = 1
  MaxRestarts = 0
SPECIFICATION Spec
INVARIANT TwoPathsSafe
