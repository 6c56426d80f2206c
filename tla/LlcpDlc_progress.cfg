SPECIFICATION FairSpec
CONSTANTS
  SeqMod = 2
  Rw <- Rw1
  MinRxCongest = 2
  NumRxBuff = 9
  Clients = {"initiator"}
  Patient = {"target"}
  Bounds <- ProgressBounds
PROPERTIES
  SendingCompletes
