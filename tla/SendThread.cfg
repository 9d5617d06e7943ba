SPECIFICATION FairSpec
CONSTANTS
  MaxMem = 10
  MaxFile = 10
  ProperSize = 3
  MaxCount = 1
  BlockStep = 0
  PrefixSize = 1
  Callers = {a}
  Kinds = {"record", "headed"}
  Lengths = {1, 5}
  Modes = {TRUE, FALSE}
  PkgSize = 5
  HeaderSize = 1
  RecordHeaderSize = 1
  BindSize = 4
  Tries = 1
  MaxCalls = 2
  MaxBreaks = 1
  MaxLinkChecks = 1
INVARIANT SendInv
PROPERTIES IsOutbox AllSent
CHECK_DEADLOCK FALSE
