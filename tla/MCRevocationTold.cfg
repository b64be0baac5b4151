SPECIFICATION RevokeSpec
CONSTANTS
    Tokens = {t1, t2}
    MAX_ENTRIES = 3
    MaxLines = 3
INVARIANT ToldIsRefused
CHECK_DEADLOCK FALSE
