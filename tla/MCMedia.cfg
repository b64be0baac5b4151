SPECIFICATION MediaSpec
CONSTANTS
    WINDOW = 3
    MaxCounter = 6
    MIN_TARGET = 1
    MAX_TARGET = 2
    SHRINK_PATIENCE = 2
    RESET_JUMP = 3
    MAX_BUFFERED = 3
    REANCHOR_PATIENCE = 3
    MaxFrame = 4
    MaxSteady = 9
    CUSHION_STEP = 2
    Callback = 3
    Floor = 7
    Ceiling = 14
    CUSHION_QUIET = 2
    MaxDip = 12
    REOPEN_BACKOFF_MAX = 2
    REOPEN_ATTEMPTS_MAX = 3
    STREAM_SETTLED_AFTER = 3
    CUTTING_OUT_COUNT = 3
    CUTTING_OUT_WINDOW = 5
    MaxPicks = 1
INVARIANTS
    AtMostOnce
    RefusedOnlyWhenLate
    NeverPlayedTwice
    HealsInTime
    DenseStopsAreShown
PROPERTIES
    MovesGently
    TriesUntilTold
CHECK_DEADLOCK FALSE
