SPECIFICATION LiveSpec
CONSTANTS
    Host = h
    a = a
    b = b
    third = c
    Machine <- Four
    MAX_NATION = 3
    MAX_COLOR_SCHEME = 3
    BadPassword = {b}
    MayCancel = {}
    MayLeave = {a}
    MayBreak <- PairAB
    MaxClick <- NoClicks
INVARIANTS TypeOK SameIds HostRoster
PROPERTY Joined
CHECK_DEADLOCK FALSE
