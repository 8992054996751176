SPECIFICATION Spec
CONSTANTS
    p1 = p1
    p2 = p2
    k1 = k1
    q1 = q1
    Procs = {p1}
    Calls = {k1}
    Polls = {}
    Home <- ToolOnly
    Primary = Primary
    Foreign = Foreign
    Takers = {Primary, Foreign}
    None = None
    Coalesce = TRUE
    MaxExits = 0
    MaxStops = 0
    MaxFrames = 2
INVARIANT ProxyHonest
CHECK_DEADLOCK FALSE
