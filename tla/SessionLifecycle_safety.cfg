SPECIFICATION Spec
CONSTANTS
    s1 = s1
    s2 = s2
    c1 = c1
    g1 = g1
    g2 = g2
    Brokers = {b1, b2, b3}
    Sessions = {s1, s2}
    Calls = {c1}
    CallOf <- OneCall
    Closures = {g1, g2}
    Other = Other
    Foreign = Foreign
    None = None
    MaxOps = 2
    MaxMoves = 1
SYMMETRY Alike
INVARIANTS  NoOrphanBroker 
CHECK_DEADLOCK FALSE
