SPECIFICATION Spec
CONSTANTS
 h = h
 x = x
 y = y
 Human = {h}
 Ai = {x, y}
 Talk = {"trade","friendly","alliance","embargo","cease_war","request_war","request_surrender","end_trade","end_alliance","declare_war"}
 MaxMsg = 3
 MaxEvents = 2
 MaxOrders = 1
 Start <- Starts
 SlowAi = FALSE
INVARIANTS TypeOK TreatiesAgree MessagesAlive QueueRefers NoRepeats
PROPERTY TreatyByOffer
CHECK_DEADLOCK FALSE
