SPECIFICATION Spec
CONSTANTS
    v1 = v1  v2 = v2  a = a  b = b
    NoInode = NoInode  NoPayload = NoPayload  NoJob = NoJob
    Process = {p1}
    Version = {v1}
    Payload = {a, b}
    Release <- OneVersionOneImage
    Inode = {i1, i2}
    Blocks = 2
    Capacity = 16
    Margin = 1
    Overlap = "none"
    DirsExist = TRUE
    RenameWorks = TRUE
    Calls = {}
    Faults = {"power"}
INVARIANTS RecordedImageIntact
