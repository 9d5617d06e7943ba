SPECIFICATION FairSpec
CONSTANTS
  Producers = {p1, p2}
  Consumers = {c1}
  Values = {v1}
  NoValue = NoValue
  NoThread = NoThread
  Capacity = 1
  CountRange = 2
PROPERTIES
  PushProceeds
  PopProceeds
  TimedEnds
