SPECIFICATION Spec
CONSTANTS
    PageSize = 2
    DevicePage = 8
    RoundTo = 8
    InitSizes <- AskedSizes
    DmaRuns <- Scattered
    Sizes = {3}
    Alignments = {2, 4}
    Arrays <- MixedArrays
    MaxLive = 3
    PrpListLen = 3
INVARIANTS
    TypeOK
    BlocksServeAllocations
    HoldsOnlyWhileUp
    PrpsDescribeBuffers
PROPERTIES
    FreeMergesAll
