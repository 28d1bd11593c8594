SPECIFICATION Spec
CONSTANTS
    a = a
    b = b
    Contexts = {a}
    NoCtx = NoCtx
    MaxCalls = 1
    HardBeats = 1
    DrainPolls = 1
    WatchReads = 2
    MayDie = FALSE
INVARIANTS
    BuffersOutliveRequest
CHECK_DEADLOCK FALSE
