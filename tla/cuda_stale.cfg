SPECIFICATION Spec
CONSTANTS
    Depth = 3
    BlockDim = 2
    IoCounts <- SomeCounts
    OldPhases = {0, 1}
INVARIANTS
    RoundReapsItsBatch
