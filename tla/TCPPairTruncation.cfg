CONSTANTS
  Client = client
  Server = server
  SeqnoMod = 32
  SizeMod = 256
  WinMod = 64
  MaxPayload = 3
  RtTimeout = 1
  MaxRetx = 2
  ClientLen = 6
  ServerLen = 0
  Isn <- MCIsn
  StreamLen <- MCStreamLen
  SendCapacity = 3
  RecvCapacity = 4
  TickMs = 5
  Patient = TRUE
  MaxLost = 0
  MaxDuplicated = 1
  MaxReordered = 1
  MaxWire = 2
SPECIFICATION Spec
CHECK_DEADLOCK FALSE
INVARIANTS NoTruncation
