SPECIFICATION Spec
CONSTANTS
    Contexts = {a, b}
    NoCtx = NoCtx
    Mask <- DistinctMasks
    NoMask = NoMask
    Opcodes = {ping}
    NoOp = NoOp
    ReqEntries = 3
    CmpEntries = 3
    IdLimit = 2
    MaxRequests = 2
    TimeoutTicks = 2
    MayDie = TRUE
SYMMETRY Symmetry
INVARIANTS
    TypeOK
    CallGetsOwnReply
    Conservation
PROPERTIES
    RingsAreChannels
CHECK_DEADLOCK FALSE
