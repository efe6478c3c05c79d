CONSTANTS
  Client = client
  Server = server
  SeqnoMod = 32
  SizeMod = 256
  WinMod = 64
  MaxPayload = 1
  RtTimeout = 1
  MaxRetx = 3
  ClientLen = 3
  ServerLen = 1
  Isn <- MCIsn
  StreamLen <- MCStreamLen
  SendCapacity = 2
  RecvCapacity = 1
  TickMs = 2
  Patient = TRUE
  MaxLost = 1
  MaxDuplicated = 1
  MaxReordered = 0
  MaxWire = 2
SPECIFICATION FairSpec
CHECK_DEADLOCK FALSE
INVARIANTS NothingForgotten WindowRespected CleanClose SomeoneLingers
PROPERTIES ReliableBothWays BothClose
