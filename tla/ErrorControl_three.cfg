SPECIFICATION FairSpec
CONSTANTS
    a = a
    b = b
    c = c
    Player = {a, b, c}
    MAX_QUEUE = 4
    MAX_RECV_QUEUE = 2
    Noisy = {a, b, c}
    Budget <- OneMessage
PROPERTY EventualDelivery
CHECK_DEADLOCK FALSE
