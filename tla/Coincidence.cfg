SPECIFICATION BothSpec
CONSTANTS
  Master = 0
  Shift = 4
  Window = 4
  MapTime = 1
  MaxStamp = 3
  MaxHits = 4
  MaxPasses = 3
INVARIANTS
  SyncCheckFinds
  TasFinds
  SentAloneOnce
  HitsStay
CHECK_DEADLOCK FALSE
