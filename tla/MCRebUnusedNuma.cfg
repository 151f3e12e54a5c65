SPECIFICATION Spec
CONSTANTS
    Cores = {1, 2}
    NumaOf <- OneNuma
    NrNumas = 2
    NrParts = 1
    PartMap <- OnePart
    Loads = {1, 2, 3}
    LoadPart <- Mappings
    Sizes = {0, 1, 3}
    Sleeps = {0, 1000000000}
    Interval = 1
    MinIos = 2
    MaxPicked = 1
    Levels = {0, 1}
    PsModes = {FALSE}
    Word = 64
    None = None
    SecondMapping = {}
INVARIANTS
    NeverTraps
