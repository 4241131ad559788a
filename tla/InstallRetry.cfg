SPECIFICATION Spec
CONSTANTS
    v1 = v1  v2 = v2  a = a  b = b
    NoInode = NoInode  NoPayload = NoPayload  NoJob = NoJob
    Process = {p1, p2}
    Version = {v1, v2}
    Payload = {a}
    Release <- SameImage
    Inode = {i1, i2, i3, i4}
    Blocks = 1
    Capacity = 3
    Margin = 0
    Overlap = "versions"
    DirsExist = TRUE
    RenameWorks = FALSE
    Calls = {"cleanup_install_target"}
    Faults = {"power"}
INVARIANTS OnlyFaultsFail
SYMMETRY Symmetry
