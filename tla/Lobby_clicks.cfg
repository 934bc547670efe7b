SPECIFICATION Spec
CONSTANTS
    Host = h
    a = a
    b = b
    third = c
    Machine <- Three
    MAX_NATION = 3
    MAX_COLOR_SCHEME = 3
    BadPassword = {}
    MayCancel = {b}
    MayLeave = {b, h}
    MayBreak <- NoPair
    MaxClick <- AFewClicks
INVARIANTS ColorsExact HostKnows FlagsAgree
CHECK_DEADLOCK FALSE
