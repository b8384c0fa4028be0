SPECIFICATION FairSpec
CONSTANTS
  MaxBuffer = 2
  Interval = 1
  HubFails = TRUE
  MaxEntries = 5
  MaxSecond = 4
INVARIANTS TypeOK BufferKept
PROPERTIES ImplementsLog StopReturns
CHECK_DEADLOCK FALSE
