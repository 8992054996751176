SPECIFICATION Spec
CONSTANTS
    Bridges = {b1, b2}
    Peers = {p1}
    Calls = {c1}
    None = None
    MaxQueue = 2
SYMMETRY Symmetry
INVARIANTS TypeOK PendingOnBridge BridgeIsTracked StopIsFinal PeersKnowBridge CancelledNeverBlocks
PROPERTY PromiseKept
