SPECIFICATION FairSpec
CONSTANTS
  Bounds <- MCBounds
INVARIANTS
  AgreesWithNfcc
  ActivationsEnd
PROPERTIES
  CommandsEnd
CHECK_DEADLOCK FALSE
