SPECIFICATION SumSpec
CONSTANTS
    Tools = {k1}
    Unset = Unset
    FullWait = 2
    ColdWait = 1
    FreshGrace = 3
    MemoTtl = 2
    Backoff = 1
    ToolTimeout = 2
    RelayTimeout = 1
    MaxClock = 6
    MaxSessions = 3
    MaxFailovers = 1
    MaxQuits = 1
    Unknown = Unknown
    Grace = 4
    Period = 2
    MaxMoment = 11
    MaxSuspends = 2
    Pis = {x1, x2}
    Nobody = Nobody
    MaxStarts = 2
    MaxSuspensions = 1
    MaxDeaths = 1
SYMMETRY Alike
INVARIANTS ReloadIsReal WarmReconnect BoundedCall DisconnectExplained OneWarning WarningComes OwnerIsListed OwnerIsAnnounced RecordsEnd
PROPERTY WarningEarned
CHECK_DEADLOCK FALSE
