CONSTANTS
  Bytes = {0, 1}
  NoByte = 2
  Mem = 2
  Buf = 3
  MaxLen = 4
  Mixed = FALSE
SPECIFICATION Spec
INVARIANT TypeOK
PROPERTY ImplementsFile
