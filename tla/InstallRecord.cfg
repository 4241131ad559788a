SPECIFICATION Spec
CONSTANTS
    v1 = v1  v2 = v2  a = a  b = b
    NoInode = NoInode  NoPayload = NoPayload  NoJob = NoJob
    Process = {p1, p2}
    Version = {v1, v2}
    Payload = {a, b}
    Release <- RereleasedVersion
    Inode = {i1, i2, i3, i4}
    Blocks = 1
    Capacity = 16
    Margin = 1
    Overlap = "versions"
    DirsExist = TRUE
    RenameWorks = TRUE
    Calls = {"cleanup_staging"}
    Faults = {"io", "crash"}
INVARIANTS TypeOK TargetNeverTorn RecordedImageIntact OnlyFaultsFail
PROPERTIES ImplementsInstallTarget
SYMMETRY Symmetry
