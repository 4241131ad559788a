SPECIFICATION Spec
CONSTANTS
    Process = {p1}
    Manager = {p1}
    ProcessOf <- Identity
    NoProcess = NoProcess
    TxId = {t1, t2}
    Inode = {i1, i2}
    NoId = NoId
    NoInode = NoInode
    Empty = Empty
    max_history_entries = 1
    MaxClock = 0
    MaxEarlier = 2
    Calls <- Outcomes
    Faults <- NoFaults
    CallersLock = TRUE
    CallersReload = TRUE
SYMMETRY Symmetry
INVARIANTS
    LatestOutcomeRecorded
CHECK_DEADLOCK FALSE
