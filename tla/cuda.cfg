SPECIFICATION Spec
CONSTANTS
    Depth = 3
    BlockDim = 2
    IoCounts <- SomeCounts
    OldPhases = {0}
INVARIANTS
    RoundReapsItsBatch
    RungSlotsHoldTheirBatch
PROPERTIES
    EveryThreadEnds
