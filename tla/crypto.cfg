SPECIFICATION MCSpec
CONSTANTS
    Count = 3
    MaxInFlight = 2
    TimeoutTicks = 2
    RingSize = 1
    MaxBatches = 2
    Foreign = 1
    Operations = {"x25519", "verify", "aead"}
    RecordSizes = {1}
    MaxOps = 2
    InboxSize = 2
    MaxHandles = 6
INVARIANTS
    TypeOK
    ResultIsOwn
    OkFillsEverySlot
    InFlightExact
    OffloadResultIsOwn
    BlocksAccounted
PROPERTY
    BatchReturns
CHECK_DEADLOCK FALSE
