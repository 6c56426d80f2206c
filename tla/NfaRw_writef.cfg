SPECIFICATION Spec
CONSTANTS
  Old <- MCOld
  New <- MCNew
  Room = 2
  MaxRetries = 1
  Bounds <- MCUnfinished
INVARIANT
  ReadsWhole
CHECK_DEADLOCK FALSE
