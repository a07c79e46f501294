SPECIFICATION PathSpec
CONSTANTS
  Modes = {1}
  Overlaps = {FALSE}
  Lengths = {"data"}
  NParts = 1
  MaxConn = 2
  MaxBlock = 2
  BlockSizes = {1, 2}
  MaxResets = 1
  NBlocks = 2
  NWords = 1
  Readers = {r1}
  MaxAge = 3
  MaxEpoch = 2
  r1 = r1
INVARIANTS
  AckedIsInRing
CHECK_DEADLOCK FALSE
