SPECIFICATION RoomAndLinkSpec
CONSTANTS
    Tokens <- MCTokens
    Seats <- MCSeats
    SeatOf <- MCSeatOf
    RoleOf <- MCRoleOf
    HostSeat <- MCHostSeat
    Cap <- MCCap
    Names = {"stage name"}
    REJOIN_SILENCE = 0
    RESP_CACHE = 1
    MEMBER_QUIET = 1
    MEMBER_TIMEOUT = 2
    VIOLATION_BURST = 1
    MaxInits = 1
    MaxAdmits = 3
    Msg = {m1}
    RECV_WINDOW = 2
    ACK_BITS = 2
    MAX_PENDING = 2
    MAX_SENDS = 2
    ClientFrames = 3
    ServerFrames = 1
    MaxSeq <- MCMaxSeq
    TRIGGER_BURST = 1
    TRIGGER_RATE = 1
    INIT_BURST = 2
    INIT_RATE = 1
    INIT_SLOT_BURST = 2
    INIT_SLOT_RATE = 1
    REJECT_BURST = 1
    REJECT_RATE = 1
    REJECT_INTERVAL = 2
    COOKIE_ANSWER_BURST = 1
    ANSWER_BEATS = 2
    COOKIE_ROTATION = 3
    INIT_RESEND_MAX = 4
    REJECT_RETRY = 3
    REJECT_RETRY_MAX = 6
    CONNECTION_TIMEOUT = 8
INVARIANTS
    NoOfferWasted
    CapacityRespected
    RevokedHasNoSeat
    RosterCurrent
    RetiredWasReceived
PROPERTIES
    RevokeSparesOthers
CHECK_DEADLOCK FALSE
