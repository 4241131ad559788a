SPECIFICATION Spec
CONSTANTS
    NoFile = NoFile  Empty = Empty
    MaxBoots = 2
    Commands = {c1, c2}
    MaxCommands = 3
SYMMETRY Symmetry
INVARIANTS
    TypeOK
    StatesTellWhatHappened
    LoneCommandDecides
    RecordWholeAtRest
CHECK_DEADLOCK FALSE
