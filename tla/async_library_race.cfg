SPECIFICATION Spec
CONSTANTS
    Tasks = {a, b}
    Dispatcher = Dispatcher
    Nobody = Nobody
    IrqSupported = TRUE
    RingSize = 2
    WaitPolls = 1
    MaxId = 4
    MaxContexts = 1
    MixedCalls = FALSE
    OpenInClose = TRUE
SYMMETRY Symmetry
INVARIANT
    ReportedOnce
CHECK_DEADLOCK FALSE
