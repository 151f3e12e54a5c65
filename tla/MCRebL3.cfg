SPECIFICATION Spec
CONSTANTS
    Cores = {1, 2, 3, 4}
    NumaOf <- Halves
    NrNumas = 2
    NrParts = 1
    PartMap <- OnePart
    Loads = {l1, l2, l3}
    LoadPart <- Mappings
    Sizes = {1, 8}
    Sleeps = {0}
    Interval = 1
    MinIos = 1
    MaxPicked = 1
    Levels = {3}
    PsModes = {FALSE}
    Word = 64
    None = None
    SecondMapping = {}
INVARIANTS
    LoadPlacement
    StatsCurrent
    QdepthTracksLoads
PROPERTIES
    L3KeepsOrder
SYMMETRY LoadSymmetry
