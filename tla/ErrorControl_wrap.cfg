SPECIFICATION Spec
CONSTANTS
    a = a
    b = b
    c = c
    Player = {a, b}
    MAX_QUEUE = 4
    MAX_RECV_QUEUE = 2
    Noisy = {a, b}
    Budget <- OneSender
INVARIANTS
    TypeOK
    KeptUntilAccepted
    BoundedReordering
PROPERTIES
    AcceptsOnce
    ImplementsMulticast
CHECK_DEADLOCK FALSE
