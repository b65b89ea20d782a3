SPECIFICATION SyncSpec
CONSTANTS
    PoolLen = 3
    Depth = 3
    QueueLimit = 1
    MaxCalls = 3
    Ops <- CallNumbers
    NoOp = NoOp
    Statuses <- AllStatuses
INVARIANT ErrorStatusIsReturned
\* The calls are bounded.
CHECK_DEADLOCK FALSE
