CONSTANTS
  SeqnoMod = 32
  SizeMod = 256
  WinMod = 64
  MaxPayload = 2
  RtTimeout = 1
  MaxRetx = 1
  SendCapacity = 1
  RecvCapacity = 2
  Isn = 31
  PeerIsn = 5
  PeerCapacity = 2
  ThreadRoom = 2
  OwnerRoom = 1
  MaxCopyLength = 2
  MaxBytes = 2
  TickMs = 10
  MaxTrouble = 1
  MaxEvents = 3
SPECIFICATION FairSpec
INVARIANTS EndsDelivered
PROPERTIES SocketReliable CallsReturn
CHECK_DEADLOCK FALSE
