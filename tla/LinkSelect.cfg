SPECIFICATION Spec
CONSTANTS
  NPorts = 2
  NConns = 2
  BlockPieces = 2
  MaxBlocks = 1
INVARIANTS
  ReadsOnlyWhenReady
CHECK_DEADLOCK FALSE
