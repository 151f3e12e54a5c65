SPECIFICATION Spec
CONSTANTS
    NrCores = 4
    Tables <- OneTable
    LoadsPerXstream = 1
    TotalBuckets = 3
    NrSlots = 2
    Word = 16
INVARIANTS
    QuietCountsAgree
CHECK_DEADLOCK FALSE
