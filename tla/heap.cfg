SPECIFICATION Spec
CONSTANTS
    PageSize = 2
    HugePage = 8
    NHuge = 3
    HeaderSize = 1
    WordSize = 65536
    Sizes = {2}
    Alignments <- OnePage
    Arrays <- MixedArrays
    MaxLive = 3
    PhysLut <- Scattered
    PrpListLen = 3
INVARIANTS
    TypeOK
    BlocksTile
    AllocationsDisjoint
    ElementsContiguous
    AllFreedRestoresHeap
    PrpsDescribeBuffers
    FailsOnlyWhenNothingFits
PROPERTIES
    EveryCallEnds
