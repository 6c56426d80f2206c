SPECIFICATION FairSpec
CONSTANTS
  RF = RF
  Dyn = {ee}
  Dh = ee
  Credits = 2
  NoFC = 9
  SmallCap = 1
  MaxCap = 2
  Bounds <- MCBounds
INVARIANTS
  CreditLedger
  PacketsWhole
  ReceivedRight
PROPERTIES
  DeactivateWaits
  WaitsEnd
CHECK_DEADLOCK FALSE
