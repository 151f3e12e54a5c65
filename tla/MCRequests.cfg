SPECIFICATION FairSpec
CONSTANTS
    NrCores = 3
    Topologies <- ThreeCores
    Producers = {p1, p2}
    Nodes = {x1, x2}
    Loads = {l1, l2}
    ReqQ = req_q
    Poison = poison
    MaxReqs = 3
INVARIANTS
    TypeOK
    SafeCursor
    RemovedIsEmpty
PROPERTIES
    FifoSpec
    RequestsServed
CHECK_DEADLOCK FALSE
