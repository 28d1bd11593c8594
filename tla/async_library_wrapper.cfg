SPECIFICATION FairSpec
CONSTANTS
    Tasks = {a, b}
    Dispatcher = Dispatcher
    Nobody = Nobody
    IrqSupported = TRUE
    RingSize = 2
    WaitPolls = 1
    MaxId = 2
    MaxContexts = 1
    MixedCalls = TRUE
    OpenInClose = FALSE
PROPERTY
    QueuedIsReported
CHECK_DEADLOCK FALSE
