SPECIFICATION Spec
CONSTANTS
    NoVersion = NoVersion  NoInfo = NoInfo  NoSlot = NoSlot
    v1 = v1
    DefaultVersion = v1
    Version = {v1}
    Manager = {m1, m2}
    Writers = {m1}
    MaxVersions = 1
    MaxEarlier = 2
    CallerStates = {"BOOTABLE"}
    Faults = {"crash", "power"}
INVARIANTS TypeOK DetectsInconsistency ActiveSlotRemembered
PROPERTIES ActiveSlotPreserved SwitchHeals
