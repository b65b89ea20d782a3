SPECIFICATION SyncSpec
CONSTANTS
    PoolLen = 4
    Depth = 4
    QueueLimit = 1
    MaxCalls = 6
    Ops <- CallNumbers
    NoOp = NoOp
    Statuses <- GenericStatuses
INVARIANTS
    SyncTypeOK
    OneRequestLostPerTimeout
    BacklogIsTimeouts
    OwnCompletionUntilTimeout
PROPERTIES
    EveryCallReturns
\* The calls are bounded, and a failed assert stops the host.
CHECK_DEADLOCK FALSE
