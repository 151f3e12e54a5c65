SPECIFICATION FairSpec
CONSTANTS
    Streams = {1, 2}
    Loads = {l1, l2}
    MaxBatch = 1
    EventFreq = 1
    Bounds <- OneOrTwoLoads
    Blockable = {}
    NoLoad = NoLoad
PROPERTIES
    IoCompletes
    MigrationCompletes
    FinalizeTerminates
CHECK_DEADLOCK FALSE
