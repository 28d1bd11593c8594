SPECIFICATION MCSpec
CONSTANTS
    a = a
    b = b
    Contexts = {a, b}
    NoCtx = NoCtx
    MaxCalls = 3
    HardBeats = 2
    DrainPolls = 2
    WatchReads = 2
    MayDie = TRUE
INVARIANTS
    TypeOK
    EnabledHasServer
    CancelledKeepsBuffers
    NoMissedWake
PROPERTIES
    WatchOutlastsCancelled
    CallsAndDisarmReturn
CHECK_DEADLOCK FALSE
