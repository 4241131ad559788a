SPECIFICATION Spec
CONSTANTS
    Process = {p1, p2}
    Manager = {p1, p2}
    ProcessOf <- Identity
    NoProcess = NoProcess
    TxId = {t1, t2}
    Inode = {i1, i2}
    NoId = NoId
    NoInode = NoInode
    Empty = Empty
    max_history_entries = 2
    MaxClock = 1
    MaxEarlier = 2
    Calls <- Paths
    Faults <- ProcessFaults
    CallersLock = TRUE
    CallersReload = TRUE
SYMMETRY Symmetry
INVARIANTS
    TypeOK
    LockMutualExclusion
    RecordNeverTorn
    SessionMatchesDisk
    PathBelongsToTransaction
PROPERTIES
    ImplementsLifecycle
CHECK_DEADLOCK FALSE
