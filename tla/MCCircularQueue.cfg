SPECIFICATION Spec
CONSTANTS
  Producers = {p1, p2}
  Consumers = {c1}
  Values = {v1, v2}
  NoValue = NoValue
  NoThread = NoThread
  Capacity = 2
  CountRange = 4
INVARIANTS
  QueueInv
  NoSlotRace
PROPERTIES
  IsBoundedQueue
SYMMETRY Symmetry
