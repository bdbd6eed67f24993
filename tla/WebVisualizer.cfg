SPECIFICATION FairSpec
CONSTANTS
    Conns = {c1, c2}
    NoConn = NoConn
    Room = 3
    Divider = 2
INVARIANTS
    NoLeak
PROPERTIES
    GoneDropped
    Joins
    StopsSoon
    KeepsFeeding
CHECK_DEADLOCK FALSE
