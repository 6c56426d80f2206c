CONSTANTS
  Kinds = {"plain", "vsc"}
  Cases = {"rf"}
  MaxIds = 5
  MaxNtf = 3
  MaxFaults = 2
  MaxPower = 2
SPECIFICATION FairSpec
INVARIANTS
  OneOutstanding
  TimerGuardsWindow
  AgreesWithNfcc
  CallbackOwn
PROPERTIES
  InOrder
  CommandsGoOut
  RequestsAnswered
CHECK_DEADLOCK FALSE
