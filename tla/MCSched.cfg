SPECIFICATION Spec
CONSTANTS
    Streams = {1, 2, 4}
    Loads = {l1}
    MaxBatch = 1
    EventFreq = 1
    Bounds <- OneLoad
    Blockable = {1}
    NoLoad = NoLoad
INVARIANTS
    TypeOK
    UnitInOnePlace
    SerialLoad
    PlacedUntilRace
    IoConservation
PROPERTIES
    OwnershipSpec
CHECK_DEADLOCK FALSE
