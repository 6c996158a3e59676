CONSTANTS
  Cards = {A}
  None = None
  PollsMax = 1
  RetryMax = 2
  FailMax = 2
  DeregMax = 2
  MaxEvents = 1
SPECIFICATION Spec
INVARIANT RoamingDataOff
