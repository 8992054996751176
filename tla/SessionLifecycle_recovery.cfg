SPECIFICATION FairSpec
CONSTANTS
    s1 = s1
    s2 = s2
    c1 = c1
    g1 = g1
    g2 = g2
    Brokers = {b1, b2}
    Sessions = {s1}
    Calls = {}
    CallOf <- NoCall
    Closures = {g1, g2}
    Other = Other
    Foreign = Foreign
    None = None
    MaxOps = 3
    MaxMoves = 3
INVARIANT SuspendedWithoutPort
PROPERTY SessionRecovers
CHECK_DEADLOCK FALSE
