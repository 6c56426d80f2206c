CONSTANTS
  Kinds = {"plain"}
  Cases = {}
  MaxIds = 6
  MaxNtf = 0
  MaxFaults = 1
  MaxPower = 1
SPECIFICATION Spec
INVARIANTS
  Survives
CHECK_DEADLOCK FALSE
