SPECIFICATION FairSpec
CONSTANTS
  Modes = {1, 3}
  Overlaps = {TRUE, FALSE}
  Lengths = {"data"}
  NParts = 2
  MaxConn = 3
  MaxBlock = 3
INVARIANTS
  WireFramed
  NeverResent
PROPERTIES
  RequestUndisturbed
  AckAnswersThisMessage
  CallReturns
CHECK_DEADLOCK FALSE
