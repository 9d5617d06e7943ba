SPECIFICATION MCSpec
CONSTANTS
  PeIds = {0, 1, 2, 3, 7}
  LocalIds = {0, 1, 2}
  Wild = Wild
  Configs <- MCConfigs
  MaxReloads = 2
  LocalPEs = {1, 2}
  RemotePEs = {3}
  Network = {net}
  Workers = {worker}
  Addresses = {a1, a2, a3, a4, a5}
  NoEvent = NoEvent
  Free = Free
INVARIANTS
  NodeInv
  LookupInv
  StartedInv
  OwnershipInv
SYMMETRY Symmetry
