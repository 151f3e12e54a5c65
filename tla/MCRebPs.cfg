SPECIFICATION Spec
CONSTANTS
    Cores = {1, 3, 4}
    NumaOf <- LargeFirst
    NrNumas = 4
    NrParts = 2
    PartMap <- FirstApart
    Loads = {l1, m1}
    LoadPart <- Mappings
    Sizes = {0, 1}
    Sleeps = {0, 1000000000}
    Interval = 1
    MinIos = 1
    MaxPicked = 1
    Levels = {3}
    PsModes = {TRUE, FALSE}
    Word = 64
    None = None
    SecondMapping = {m1}
INVARIANTS
    LoadPlacement
    StatsCurrent
    PartitionKept
    PsConsistent
CHECK_DEADLOCK FALSE
