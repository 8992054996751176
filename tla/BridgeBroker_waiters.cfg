SPECIFICATION Spec
CONSTANTS
    Bridges = {b1, b2}
    Peers = {p1}
    Calls = {c1, c2}
    None = None
    MaxQueue = 1
INVARIANT WaitersReleased
