SPECIFICATION Spec
CONSTANTS
    PageSize = 2
    HugePage = 8
    NHuge = 2
    HeaderSize = 1
    WordSize = 65536
    Sizes = {2}
    Alignments <- PageOrTwo
    Arrays <- NoArrays
    MaxLive = 2
    PhysLut <- ScatteredTwo
    PrpListLen = 3
INVARIANT FreedMemoryIsFree
