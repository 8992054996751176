SPECIFICATION Spec
CONSTANTS
    Tasks = {t1}
    Procs = {p1, p2}
    Listers = {p2}
    Replies <- SomeReplies
    Ttl = 1
    MaxTime = 2
    MaxFaults = 1
INVARIANTS VerdictRecorded HistoryIsWhole BadFileIsolated
PROPERTIES GcKeepsFresh LedgerKept
CHECK_DEADLOCK FALSE
