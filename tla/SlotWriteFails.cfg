SPECIFICATION Spec
CONSTANTS
    NoVersion = NoVersion  NoInfo = NoInfo  NoSlot = NoSlot
    v1 = v1 
    DefaultVersion = v1
    Version = {v1}
    Manager = {m1}
    Writers = {m1}
    MaxVersions = 2
    MaxEarlier = 3
    CallerStates = {}
    Faults = {"io"}
INVARIANTS DetectsInconsistency
