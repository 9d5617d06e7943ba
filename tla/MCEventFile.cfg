SPECIFICATION Spec
CONSTANTS
  BlockSize = 3
  MaxBlocks = 4
  Quote = 34
  Comma = 44
  LF = 10
  CR = 13
  Slash = 92
  EnChar = 110
  Sizes <- MCSizes
  Values <- MCValues
  Plain <- MCPlain
  FieldCount = 2
  BufSizes <- MCBufSizes
  MaxEvents = 4
  MaxLines = 2
INVARIANT
  TableRight
PROPERTY
  ImplementsLog
CHECK_DEADLOCK FALSE
