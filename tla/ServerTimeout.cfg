SPECIFICATION FairSpec
CONSTANTS
    MaxConns = 1
    Capacity = 1
PROPERTIES
    SendEnds
CHECK_DEADLOCK FALSE
