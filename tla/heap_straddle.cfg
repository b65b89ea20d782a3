SPECIFICATION Spec
CONSTANTS
    PageSize = 4
    HugePage = 16
    NHuge = 3
    HeaderSize = 1
    WordSize = 131072
    Sizes = {4}
    Alignments <- OnePage
    Arrays <- OddArrays
    MaxLive = 2
    PhysLut <- Scattered
    PrpListLen = 3
INVARIANT ElementsContiguous
