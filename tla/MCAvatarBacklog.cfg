SPECIFICATION Spec
CONSTANTS
    Pictures = {p1}
    TOTAL = 6
    CHUNKS_PER_POLL = 2
    MAX_PENDING = 3
    VIOLATION_BURST = 2
    MAX_CACHED = 1
    MaxSets = 1
INVARIANT HonestClientNotCharged
CHECK_DEADLOCK FALSE
