SPECIFICATION SessionFairSpec
CONSTANTS
    Tokens <- SoloTokens
    Seats <- SoloSeats
    SeatOf <- SoloSeatOf
    RoleOf <- SoloRoleOf
    HostSeat <- MCHostSeat
    Cap <- OneEach
    Names = {}
    REJOIN_SILENCE = 0
    RESP_CACHE = 1
    MEMBER_QUIET = 1
    MEMBER_TIMEOUT = 3
    CONNECTION_TIMEOUT = 2
    VIOLATION_BURST = 1
    MaxInits = 2
    MaxAdmits = 3
    MaxQueue = 1
PROPERTIES
    SplitHeals
    GhostReaped
CHECK_DEADLOCK FALSE
