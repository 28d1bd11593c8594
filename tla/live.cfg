SPECIFICATION MCSpec
CONSTANTS
    Contexts = {a, b}
    NoCtx = NoCtx
    Mask <- DistinctMasks
    NoMask = NoMask
    Opcodes = {ping}
    NoOp = NoOp
    ReqEntries = 2
    CmpEntries = 2
    IdLimit = 2
    MaxRequests = 1
    TimeoutTicks = 2
    MayDie = TRUE
    Clients = {p}
    Nobody = Nobody
    Capacity = 2
    Period = 2
    CursorBase = 2
    SeqLimit = 12
    FirstSeq = 4
    Target = 4
    Chunk = 2
    CreditRetries = 1
    RetryLimit = 1
    WaitLimit = 1
    HeartbeatWaits = 1
    MaxGen = 1
    ReuseWhileHeld = FALSE
PROPERTIES
    OperationsReturn
    SessionsEnd
CHECK_DEADLOCK FALSE
