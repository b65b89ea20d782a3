SPECIFICATION Spec
CONSTANTS
    Gran = 4
    NChunks = 5
    Ranges <- OverlappingRanges
    Fds = {1, 2, 3, 4}
    MaxRegistrations = 3
    PageSize = 2
    PrpListLen = 2
INVARIANTS
    TypeOK
    RefcountsExact
    AttachedWhileReferenced
    MappedPrpsDescribeBuffers
PROPERTIES
    RegisteredStaysMapped
