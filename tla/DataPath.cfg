SPECIFICATION PathSpec
CONSTANTS
  Modes = {3}
  Overlaps = {FALSE}
  Lengths = {"data"}
  NParts = 1
  MaxConn = 2
  MaxBlock = 3
  BlockSizes = {1, 2}
  MaxResets = 0
  NBlocks = 2
  NWords = 1
  Readers = {r1}
  MaxAge = 3
  MaxEpoch = 2
  r1 = r1
PROPERTIES
  ImplementsDelivery
CHECK_DEADLOCK FALSE
