SPECIFICATION StreamSpec
CONSTANTS
  Modes = {1, 3}
  Overlaps = {TRUE, FALSE}
  Lengths = {"data"}
  NParts = 1
  MaxConn = 2
  MaxBlock = 3
  BlockSizes = {1, 3}
  MaxResets = 1
INVARIANTS
  AlarmsExplained
  SinkHasWork
CHECK_DEADLOCK FALSE
PROPERTIES
  ImplementsTransfer
  ImplementsStream
  SinkCatchesUp
