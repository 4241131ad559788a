SPECIFICATION Spec
CONSTANTS
    imageA = imageA
    imageB = imageB
    Missing = Missing
    c1 = c1
    IntMax = 2
    Images = {imageA, imageB}
    Publications <- SomeReleases
    Size <- TwoBlocks
    MaxReleases = 2
    Commands = {c1}
    hardware_version = "revA"
    software_version <- installed
    retry_count = 1
INVARIANTS
    TypeOK
    AcceptedWasReleased
    NothingHalfLeft
PROPERTIES
    LoadedIsConsistent
    OfferIsNewest
    CommandEnds
