CONSTANTS
    Msg = {m1, m2}
    RECV_WINDOW = 2
    ACK_BITS = 2
    MAX_PENDING = 3
    MAX_SENDS = 2
    ClientFrames = 4
    ServerFrames = 0
    MaxSeq <- MCMaxSeq
SPECIFICATION FairSpec
PROPERTIES
    ImplementsFifo
    DeliveredOrDead
CHECK_DEADLOCK FALSE
