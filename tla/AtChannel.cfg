CONSTANTS
  WireSize = 3
  ResponseSize = 3
  BufferSize = 3
  MaxAnnounced = 2
  MaxCommands = 1
SPECIFICATION FairSpec
INVARIANTS TakenOnceInOrder
PROPERTIES AllArrive
CHECK_DEADLOCK FALSE
