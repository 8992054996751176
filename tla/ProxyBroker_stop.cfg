SPECIFICATION Spec
CONSTANTS
    p1 = p1
    p2 = p2
    k1 = k1
    q1 = q1
    Procs = {p1}
    Calls = {k1}
    Polls = {}
    Home <- ToolOnly
    Primary = Primary
    Foreign = Foreign
    Takers = {Primary, Foreign}
    None = None
    Coalesce = FALSE
    MaxExits = 1
    MaxStops = 2
    MaxFrames = 2
INVARIANTS TypeOK ProxyHonest NoLeakedListener StoppedIsQuiet HealingContinues
PROPERTY RequestsEndWithSocket
CHECK_DEADLOCK FALSE
