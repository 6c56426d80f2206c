SPECIFICATION FairSpec
CONSTANTS
  Old <- MCOld
  New <- MCNew
  Room = 2
  MaxRetries = 1
  Bounds <- MCBounds
INVARIANTS
  ReportsTrue
  AnsweredOnce
PROPERTIES
  MessageWhole
  RequestsEnd
CHECK_DEADLOCK FALSE
