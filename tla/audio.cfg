SPECIFICATION MCSpec
CONSTANTS
    Clients = {p, q}
    Nobody = Nobody
    Capacity = 4
    Period = 2
    CursorBase = 4
    SeqLimit = 6
    FirstSeq = 4
    Target = 7
    Chunk = 3
    CreditRetries = 1
    RetryLimit = 1
    WaitLimit = 1
    HeartbeatWaits = 1
    MaxGen = 2
    ReuseWhileHeld = FALSE
    Setups <- MCSetups
    FileLength = 20
    InputCapacity = 9
    FullPcm = 4
    AckBatch = 3
    Retries = 12
    MaxSeeks = 1
    ReadsKeepFlag = TRUE
    Films <- MCFilms
    FilmPeriod = 2
    HighWater = 3
    ReadChunk = 3
    CardInput = 5
    MaxPauses = 1
    MaxBusy = 1
    MaxSince = 2
INVARIANTS
    TypeOK
    CursorChain
    PublishedPcmIntact
    NoSpuriousFault
    HeardInOrder
    StreamPlays
    HeardWhole
    UnderrunsAreGaps
PROPERTIES
    DrainedMeansPlayed
    PlaybackEnds
CHECK_DEADLOCK FALSE
