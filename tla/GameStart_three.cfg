SPECIFICATION Spec
CONSTANTS
    Host = h
    a = a
    b = b
    Machine <- Three
    Lossy = TRUE
INVARIANTS TypeOK HostWaitsForAll
PROPERTY WaitEnds
CHECK_DEADLOCK FALSE
