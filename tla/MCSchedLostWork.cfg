SPECIFICATION Spec
CONSTANTS
    Streams = {1}
    Loads = {l1}
    MaxBatch = 1
    EventFreq = 1
    Bounds <- OneLwt
    Blockable = {}
    NoLoad = NoLoad
INVARIANTS
    AllWorkDone
CHECK_DEADLOCK FALSE
