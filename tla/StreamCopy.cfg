CONSTANTS
  BufferSize = 3
  MaxCopyLength = 1
  KernelSize = 1
  MaxTyped = 4
  MaxSent = 3
SPECIFICATION FairSpec
INVARIANTS CopyConserves EndsBehindData ReturnsWhenDone ThrowsOnlyWhenCutOff
PROPERTY CopyEnds
CHECK_DEADLOCK FALSE
