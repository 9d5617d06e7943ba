SPECIFICATION FairSpec
CONSTANTS
    MaxConns = 2
    Capacity = 1
INVARIANTS
    ServerInv
    HandlersAlive
PROPERTIES
    SendsAlive
    BroadcastEnds
    LostIsClosed
CHECK_DEADLOCK FALSE
