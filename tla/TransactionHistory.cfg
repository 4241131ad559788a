SPECIFICATION Spec
CONSTANTS
    Process = {p1}
    Manager = {p1}
    ProcessOf <- Identity
    NoProcess = NoProcess
    TxId = {t1, t2}
    Inode = {i1, i2}
    NoId = NoId
    NoInode = NoInode
    Empty = Empty
    max_history_entries = 1
    MaxClock = 0
    MaxEarlier = 1
    Calls <- Outcomes
    Faults <- AllFaults
    CallersLock = TRUE
    CallersReload = TRUE
SYMMETRY Symmetry
INVARIANTS
    HistoryTellsTruth
    HistoryWithinLimit
PROPERTY
    ImplementsLifecycle
CHECK_DEADLOCK FALSE
