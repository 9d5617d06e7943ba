SPECIFICATION Spec
CONSTANTS
  Slaves = {1, 2}
  Matrices <- MCMatrices
  Calls <- MCCalls
  Tries = 1
  MaxCloses = 2
  MaxLinks = 3
  MaxPorts = 1
  MaxQueue = 1
  MaxCalls = 1
INVARIANTS
  ConnMapInv
  AddressInv
  ToldInv
CHECK_DEADLOCK FALSE
