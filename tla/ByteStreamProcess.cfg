\* Callers stop writing once they have ended the input.
CONSTANTS
  Byte = {a, b}
  Capacity = 2
  WriteAfterEnd = FALSE
  MaxData = 3
  MaxWritten = 5
SPECIFICATION StreamSpec
CHECK_DEADLOCK TRUE
INVARIANT Conservation
PROPERTY ImplementsReliableStream
