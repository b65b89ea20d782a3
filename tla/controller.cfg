SPECIFICATION Spec
CONSTANTS
    QidMax = 4
    BitsPerWord = 3
    Qids <- AllQids
    Caps <- SomeCaps
    Frames = {1, 2, 3, 4}
    HostFrames = {1, 2, 3}
    GpuFrames = {4}
    Hugepages = {1, 2}
    MaxDoubts = 2
INVARIANTS
    TypeOK
    QueuesBacked
    QueuePairsUsable
    AdminQueueSetUpWhenStopped
    ClosedHoldsNothing
PROPERTIES
    MappingsOutliveController
