CONSTANTS
  Capacity = 5
  StreamLen = 8
  MaxPush = 6
  SizeMod = 64
SPECIFICATION Spec
INVARIANTS DeliversPrefix WaitingDisjoint MemoryAccountedInWindow
           NoPrematureEof EndsIffMarked NothingStuck
