CONSTANTS
  Kinds = {"plain"}
  Cases = {"overtaken"}
  MaxIds = 4
  MaxNtf = 0
  MaxFaults = 2
  MaxPower = 4
SPECIFICATION FairSpec
PROPERTIES
  OvertakenEnd
CHECK_DEADLOCK FALSE
