SPECIFICATION Spec
CONSTANTS
    NoFile = NoFile  Empty = Empty  NoSlot = NoSlot
    MaxBoots = 3
    Setups = {TRUE, FALSE}
    Calls = {}
    MaxEarlier = 3
    Faults = {"io", "crash", "power"}
INVARIANTS TypeOK SelectionSurvives PendingIsOther MemoryIsRecorded
PROPERTIES ImplementsBootSelection
