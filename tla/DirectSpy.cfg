SPECIFICATION DirectSpec
CONSTANTS
  NBlocks = 2
  NWords = 2
  Readers = {}
  Full = Full
  Half = Half
  Sizes = {Full, Half}
  BlockSize = Full
  MaxAge = 3
  MaxEpoch = 2
INVARIANTS
  FirstHitsInOrder
  RepeatsBounded
CHECK_DEADLOCK FALSE
PROPERTIES
  UnreadIsRead
