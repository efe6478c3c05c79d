CONSTANTS
  Client = client
  Server = server
  SeqnoMod = 32
  SizeMod = 256
  WinMod = 64
  MaxPayload = 2
  RtTimeout = 1
  MaxRetx = 1
  ClientLen = 2
  ServerLen = 0
  Isn <- MCIsn
  StreamLen <- MCStreamLen
  SendCapacity = 2
  RecvCapacity = 2
  TickMs = 5
  Patient = FALSE
  MaxLost = 0
  MaxDuplicated = 1
  MaxReordered = 1
  MaxWire = 2
SPECIFICATION Spec
CHECK_DEADLOCK FALSE
INVARIANTS TypeOK NothingInvented
PROPERTIES InOrderBothWays StatesMoveForward
