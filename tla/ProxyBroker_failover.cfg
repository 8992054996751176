SPECIFICATION FairSpec
CONSTANTS
    p1 = p1
    p2 = p2
    k1 = k1
    q1 = q1
    Procs = {p1, p2}
    Calls = {}
    Polls = {}
    Home <- NoCalls
    Primary = Primary
    Foreign = Foreign
    Takers = {Primary, Foreign}
    None = None
    Coalesce = FALSE
    MaxExits = 1
    MaxStops = 0
    MaxFrames = 2
PROPERTY Recovers
CHECK_DEADLOCK FALSE
