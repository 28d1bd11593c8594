SPECIFICATION ProgramSpec
CONSTANTS
    Tasks = {a}
    Dispatcher = Dispatcher
    Nobody = Nobody
    IrqSupported = TRUE
    RingSize = 2
    WaitPolls = 1
    MaxId = 3
    MaxContexts = 1
    MixedCalls = FALSE
    OpenInClose = FALSE
    Count = 2
    Tools = {"batch"}
    MaxRounds = 2
    OthersOpen = {FALSE}
INVARIANT
    TimeoutIsGenuine
CHECK_DEADLOCK FALSE
