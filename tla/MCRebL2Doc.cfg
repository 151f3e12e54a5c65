SPECIFICATION Spec
CONSTANTS
    Cores = {1, 2, 3}
    NumaOf <- OneNuma
    NrNumas = 1
    NrParts = 2
    PartMap <- TwoAndRest
    Loads = {l1, l2, m1}
    LoadPart <- Mappings
    Sizes = {2, 6}
    Sleeps = {0}
    Interval = 1
    MinIos = 1
    MaxPicked = 1
    Levels = {2}
    PsModes = {FALSE}
    Word = 64
    None = None
    SecondMapping = {m1}
PROPERTIES
    L2Documented
