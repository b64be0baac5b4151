SPECIFICATION ServerSpec
CONSTANTS
    Tokens = {t1, t2, t3}
    MAX_ENTRIES = 3
    MaxLines = 3
    LOG_TAIL_LINES = 2
    SERVER_LOG_HIGH_WATER = 2
    SERVER_LOG_BURST = 2
    MaxLogged = 5
    Pictures = {p1, p2}
    TOTAL = 2
    CHUNKS_PER_POLL = 1
    MAX_PENDING = 4
    VIOLATION_BURST = 2
    MAX_CACHED = 1
    MaxSets = 3
    AVATAR_FEED_HIGH_WATER = 2
    MAX_WAITED = 1
    MaxMoves = 3
    Musicians = {ana}
    QUEUE_TICKS = 2
    Uploads = TRUE
    MaxStarts = 2
    MaxStops = 2
    MaxTicks = 4
    MaxMinute = 0
    Destinations = {"tw", "yt"}
    MAX_DESTINATIONS = 2
    MaxFaults = 2
    MaxOps = 3
    FEED_QUEUE = 2
    MaxMixed = 4
    MaxEpoch = 2
    MaxRequests = 2
    CHUNK_QUEUE = 1
    PART_SIZE = 2
    MAX_PARTS = 2
    MAX_ATTEMPTS = 2
    MaxBytes = 6
    MaxUploads = 2
INVARIANTS
    FileKeepsFaith
    NothingMadeUp
    ChargedOnlyForCrossedTrains
    KeepsTrueTime
    RowsMatchChildren
    KeepsTime
    LevelsMatchRoster
    TakeIsWholeOrAbsent
    MarkerCoversUpload
PROPERTIES
    PictureArrives
    ExitFinishesTake
    GoesLive
    EndsOnceAsked
CHECK_DEADLOCK FALSE
