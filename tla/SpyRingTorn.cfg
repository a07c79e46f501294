SPECIFICATION FairSpec
CONSTANTS
  NBlocks = 2
  NWords = 2
  Readers = {r1}
  Full = Full
  Half = Half
  Sizes = {Full, Half}
  BlockSize = Full
  MaxAge = 4
  MaxEpoch = 2
  r1 = r1
INVARIANTS
  ReturnedIntact
