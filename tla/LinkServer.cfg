SPECIFICATION FairSpec
CONSTANTS
  NPorts = 2
  NConns = 2
  BlockPieces = 2
  MaxBlocks = 2
INVARIANTS
  StoredWhole
  OneClientPerPort
  AckPerMessage
  Reassembly
CHECK_DEADLOCK FALSE
PROPERTIES
  InputIsTaken
