SPECIFICATION Spec
CONSTANTS
    Clients = {p, q}
    Nobody = Nobody
    Capacity = 1
    Period = 1
    CursorBase = 2
    SeqLimit = 4
    FirstSeq = 2
    Target = 1
    Chunk = 1
    CreditRetries = 0
    RetryLimit = 1
    WaitLimit = 1
    HeartbeatWaits = 2
    MaxGen = 2
    ReuseWhileHeld = TRUE
SYMMETRY Symmetry
PROPERTIES
    NoCreditFromLaterLease
    OnlyOwnLeaseEnds
CHECK_DEADLOCK FALSE
