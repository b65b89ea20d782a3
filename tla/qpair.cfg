SPECIFICATION Spec
CONSTANTS
    PoolLen = 3
    Depth = 3
    QueueLimit = 2
    Ops <- MCOps
    NoOp = NoOp
INVARIANTS
    TypeOK
    CidsConserved
    PhaseTagExact
    CompletionMatchesRequest
    NoAbort
PROPERTIES
    RingsKeepEntries
    EveryCommandReturns
    ImplementsService
