SPECIFICATION Spec
CONSTANTS
    a = a
    b = b
    k = k
    c = c
    us = us
    them = them
    Market = {a, b}
    Mine = {k}
    Factory = {c}
    Own = us
    Foreign = {them}
    NoFirm = nofirm
    Road = road
    MaxRaw = 2
    RawId <- MineRaw
    Linked <- Links
    MaxMarketGoods = 2
    MaxStopForCaravan = 3
    MaxStock = 2
    MaxCarry = 2
    MinFirmStock = 1
    MaxInput = 1
    MaxMake = 1
    WaitTerm = 1
    WaitFactor = 1
    Remote = TRUE
    Start <- Starts
INVARIANTS
    TypeOK
    StopsPacked
    InsideKnowsItsWay
PROPERTIES
    GoodsConserved
    VisitsEveryStop
CHECK_DEADLOCK FALSE
