SPECIFICATION FairSpec
CONSTANTS
  MaxRetry = 1
  MaxInit = 1
  MaxReadErr = 1
  Bounds <- MCBounds
INVARIANTS
  OwnAnswer
  Listening
  EachPacketOnce
PROPERTIES
  CallsEnd
CHECK_DEADLOCK FALSE
