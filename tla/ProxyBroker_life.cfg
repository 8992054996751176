SPECIFICATION FairSpec
CONSTANTS
    p1 = p1
    p2 = p2
    k1 = k1
    q1 = q1
    Procs = {p1}
    Calls = {q1}
    Polls = {q1}
    Home <- PollOnly
    Primary = Primary
    Foreign = Foreign
    Takers = {Primary}
    None = None
    Coalesce = FALSE
    MaxExits = 1
    MaxStops = 1
    MaxFrames = 0
PROPERTIES Recovers StopsEnd CallsEnd
CHECK_DEADLOCK FALSE
