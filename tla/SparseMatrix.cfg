SPECIFICATION MatrixSpec
CONSTANTS
  Ids = {0, 1, 2}
  MaxNodes = 6
INVARIANT MatrixInv
PROPERTY IsPairSet
CHECK_DEADLOCK FALSE
