SPECIFICATION Spec
CONSTANTS
  Raws = {2, 4, 8, 64}
  Lupos = {4, 8}
  BufferEvents = 2
  MaxEvents = 5
  TsMod = 16
  LowMod = 2
  NoTs = 32
  BlockSize = 46
  MAXTSCNT = 5
  MAXTSBUFF = 7
  MaxSubevents = 2
  MaxRecords = 6
  BUFFERSIZE = 20
  Filled = 14
INVARIANTS
  RecordsFit
  RecordsTellEvents
  HitsAreRecords
PROPERTIES
  EventsInOrder
