SPECIFICATION Spec
CONSTANTS
    MaxConns = 2
    Capacity = 1
INVARIANTS
    EntriesAreConnections
CHECK_DEADLOCK FALSE
