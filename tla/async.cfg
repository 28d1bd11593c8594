SPECIFICATION MCSpec
CONSTANTS
    Tasks = {a, b}
    Dispatcher = Dispatcher
    Nobody = Nobody
    IrqSupported = TRUE
    RingSize = 2
    WaitPolls = 1
    MaxId = 2
    MaxContexts = 2
    MixedCalls = FALSE
    OpenInClose = FALSE
    Count = 2
    Tools = {"msg", "batch", "cancel", "ports", "callback"}
    MaxRounds = 2
    OthersOpen = {TRUE, FALSE}
INVARIANTS
    TypeOK
    ReportedOnce
    OwnReply
    NoLostWakeup
    NoReplySleptOn
    SuccessLeavesNothing
PROPERTIES
    QueuedIsReported
    CallsReturn
    ToolEnds
CHECK_DEADLOCK FALSE
