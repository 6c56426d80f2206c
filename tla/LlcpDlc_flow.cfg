SPECIFICATION Spec
CONSTANTS
  SeqMod = 3
  Rw <- Rw12
  MinRxCongest = 2
  NumRxBuff = 9
  Clients = {"initiator", "target"}
  Patient = {"target"}
  Bounds <- FlowBounds
INVARIANTS
  TypeOK
  NoFrameError
  NoHalfOpen
  RxBounded
  DataNotified
PROPERTIES
  Implements
  DisconnectWaits
