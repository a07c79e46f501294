SPECIFICATION FairSpec
CONSTANTS
  MaxReads = 2
  MaxWaits = 1
INVARIANTS
  HandedOver
  FilledOnce
  LocksAreReleased
CHECK_DEADLOCK FALSE
PROPERTIES
  HitsAreMerged
  TimerReturns
