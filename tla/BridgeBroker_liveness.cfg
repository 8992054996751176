SPECIFICATION FairSpec
CONSTANTS
    Bridges = {b1}
    Peers = {p1}
    Calls = {c1}
    None = None
    MaxQueue = 2
PROPERTIES EveryCallSettles SilentBridgeDropped OperationsFinish
