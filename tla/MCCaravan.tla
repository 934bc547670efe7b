----------------------------- MODULE MCCaravan -----------------------------
(***************************************************************************)
(* Two markets, of which b is a friend's, a mine and a factory.            *)
(***************************************************************************)
EXTENDS Caravan

CONSTANTS a, b, k, c, us, them

Links ==
    [f \in Firm |-> CASE f = a -> <<k, c>>
                      [] f = b -> <<c>>
                      [] f = k -> <<c, a>>
                      [] f = c -> <<k, a>>]
MineRaw == [f \in Mine |-> 1]

\* A stop as it is when it is set: raw material 1 and its product are made.
Picked(f) ==
    CASE f \in Mine -> 1
      [] f \in Factory -> MaxRaw + 1
      [] f \in Market -> AutoPickUp

Stopping(fs) ==
    [i \in StopId |->
        IF i > Len(fs) THEN NoStop
        ELSE [firm |-> fs[i], site |-> 1, type |-> Picked(fs[i]),
              goods |-> {Picked(fs[i])} \ {AutoPickUp}]]

\* A caravan on the road that is about to go to the first of its stops.
World(fs, reserve, slots) ==
    [firm |-> [f \in Firm |-> [status |-> "ready", site |-> 1,
                               owner |-> IF f = b THEN them ELSE us]],
     treaty |-> {them},
     market |-> slots,
     mine |-> [f \in Mine |-> [stock |-> 0, reserve |-> reserve]],
     factory |-> [f \in Factory |-> [product |-> 1, raw |-> 0, stock |-> 0]],
     cargo |-> [g \in Goods |-> 0],
     stop |-> Stopping(fs), stop_defined_num |-> Len(fs), dest |-> 1,
     journey |-> "on_way", wait |-> 0, inside |-> NoFirm, door |-> Road,
     place |-> Road, goal |-> Road, moving |-> FALSE, life |-> "alive"]

\* b has a unit of the other raw material and a slot for the product; or both
\* have so much of that material that it does not fit into a.
NoSlot == [good |-> 0, stock |-> 0]
Slots(i, j) == [n \in Slot |-> CASE n = 1 -> i [] n = 2 -> j [] n > 2 -> NoSlot]
Bare == [m \in Market |-> EmptySlots]
Partly == [Bare EXCEPT ![b] = Slots([good |-> MaxRaw, stock |-> 1], [good |-> MaxRaw + 1, stock |-> 0])]
Filled == [m \in Market |-> Slots([good |-> MaxRaw, stock |-> IF m = a THEN 1 ELSE 2], NoSlot)]

With(w, o, e) == [world |-> w, budget |-> [orders |-> o, events |-> e]]

\* Mine, factory and market; two markets and an event; three stops and two
\* orders; a firm that is replaced; an order and an event.
Starts ==
    {With(World(<<k, c, a>>, 2, Partly), 0, 0),
     With(World(<<a, b>>, 1, Partly), 0, 1),
     With(World(<<a, b, k>>, 0, Partly), 2, 0),
     With(World(<<a, b>>, 0, Partly), 0, 2),
     With(World(<<a, b>>, 0, Bare), 1, 1),
     With(World(<<b, a>>, 0, Filled), 0, 0)}
=============================================================================
