SPECIFICATION FairSpec
CONSTANTS
    NrCores = 4
    Tables <- SmallTables
    LoadsPerXstream = 1
    TotalBuckets = 3
    NrSlots = 2
    Word = 2
INVARIANTS
    TypeOK
    SlotOwned
    NoSlotLeaked
    CountsExact
    LoadsSpread
    KeyMapsToLoad
    NoDangling
PROPERTIES
    CleanExit
CHECK_DEADLOCK FALSE
