SPECIFICATION Spec
CONSTANTS
    b1 = b1
    b2 = b2
    release_key = release_key
    Bodies <- MCBodies
    SigningKeys = {release_key}
    KeyFiles <- MCKeyFiles
    Elsewhere <- MCElsewhere
    NoFile = NoFile
    Garbled = Garbled
    Nothing = Nothing
    Commands = {c1, c2}
    MaxCreations = 2
    MaxSignings = 2
    MaxCommands = 2
SYMMETRY Symmetry
INVARIANTS
    TypeOK
    ValidForWhatWasRead
    ValidWasSigned
    SignedIsAccepted
CHECK_DEADLOCK FALSE
