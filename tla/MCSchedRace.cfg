SPECIFICATION Spec
CONSTANTS
    Streams = {1, 2}
    Loads = {l1}
    MaxBatch = 1
    EventFreq = 1
    Bounds <- TwoMoves
    Blockable = {}
    NoLoad = NoLoad
INVARIANTS
    PlacedWhereRanked
CHECK_DEADLOCK FALSE
