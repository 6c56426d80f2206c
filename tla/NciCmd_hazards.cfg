CONSTANTS
  Kinds = {"nxp"}
  Cases = {"rf", "late", "restart", "give_up", "cycle", "overtaken"}
  MaxIds = 4
  MaxNtf = 1
  MaxFaults = 1
  MaxPower = 2
SPECIFICATION Spec
INVARIANTS
  TypeOK
  NoStrandedCommand
CHECK_DEADLOCK FALSE
