SPECIFICATION SessionDeliveringSpec
CONSTANTS
    Tokens <- RoomTokens
    Seats <- RoomSeats
    SeatOf <- RoomSeatOf
    RoleOf <- RoomRoleOf
    HostSeat <- MCHostSeat
    Cap <- OneEach
    Names = {}
    REJOIN_SILENCE = 0
    RESP_CACHE = 0
    MEMBER_QUIET = 2
    MEMBER_TIMEOUT = 0
    CONNECTION_TIMEOUT = 0
    VIOLATION_BURST = 1
    MaxInits = 1
    MaxAdmits = 3
    MaxQueue = 0
PROPERTIES
    FreedSeatIsTaken
CHECK_DEADLOCK FALSE
