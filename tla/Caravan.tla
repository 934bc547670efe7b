------------------------------ MODULE Caravan ------------------------------
(***************************************************************************)
(* A caravan on its round and the firms it trades with.  The player lists  *)
(* up to three stops; the caravan goes from one to the next, disappears in *)
(* the firm, unloads and loads, and comes out again.  Firms are destroyed, *)
(* captured and built and treaties end meanwhile, so the list shrinks and  *)
(* moves up.  In a multiplayer game (Remote) an order takes effect some    *)
(* frames after the click.  The firms hand goods on to each other as well, *)
(* over the links between them: raw material from mines to factories and   *)
(* markets, products from factories to markets.                            *)
(*                                                                         *)
(* The world is a record; an operator named after a function of the code   *)
(* takes the world before the call and returns the world after it, or the  *)
(* set of the worlds there may be.  The map is reduced to where the        *)
(* caravan is: in the surroundings of a firm, or on the Road.  Stocks are  *)
(* counted in whole units.                                                 *)
(*                                                                         *)
(* Left out: prices (what a nation can afford is any amount), how far the  *)
(* supply of the last 30 days reaches (any slot may count as supplied),    *)
(* other caravans, and what the computer player decides by: its stops and  *)
(* pick-ups are set through the same functions as a human's.               *)
(***************************************************************************)
EXTENDS Integers, Sequences, SequencesExt

CONSTANTS
    Market, Mine, Factory,      \* the firms, by what they are
    Own, Foreign,               \* the nation of the caravan, and the others
    NoFirm, Road,
    MaxRaw,                     \* kinds of raw material, and of products
    RawId,                      \* of every mine
    Linked,                     \* linked_firm_array of every firm
    MaxMarketGoods,             \* slots of a market
    MaxStopForCaravan,
    MaxStock, MaxCarry, MinFirmStock,   \* capacities, and what a market keeps
    MaxInput, MaxMake,          \* what a market takes in, a factory or mine makes at once
    WaitTerm, WaitFactor,       \* frames in a firm, and how much longer beside it or
                                \* behind a door that is blocked
    Remote,                     \* whether this is a multiplayer game
    Start                       \* the states the runs start in

Firm == Market \cup Mine \cup Factory
Nation == {Own} \cup Foreign
Raw == 1..MaxRaw
Product == MaxRaw+1 .. 2*MaxRaw
Goods == Raw \cup Product
Slot == 1..MaxMarketGoods
StopId == 1..MaxStopForCaravan

AutoPickUp == 0
NoPickUp == 2*MaxRaw + 1

ASSUME FirmAssumption ==
    /\ IsFiniteSet(Firm) /\ NoFirm \notin Firm /\ Road \notin Firm /\ Own \notin Foreign
    /\ Market \cap (Mine \cup Factory) = {} /\ Mine \cap Factory = {}
    /\ RawId \in [Mine -> Raw] /\ Linked \in [Firm -> Seq(Firm)]
ASSUME NumberAssumption ==
    /\ {MaxRaw, MaxMarketGoods, MaxStock, MaxCarry, MaxInput, MaxMake} \subseteq Nat \ {0}
    /\ MaxStopForCaravan \in Nat /\ MaxStopForCaravan > 2
    /\ {MinFirmStock, WaitTerm, WaitFactor} \subseteq Nat
    /\ Remote \in BOOLEAN

VARIABLES
    world,
    orders,     \* given and not yet executed
    budget      \* bound: orders that may yet be given, and events that may happen

vars == <<world, orders, budget>>

\* What the world consists of.
Field == {"firm", "treaty", "market", "mine", "factory", "cargo",
          "stop", "stop_defined_num", "dest", "journey", "wait",
          "inside", "door", "place", "goal", "moving", "life"}

Least(a, b) == IF a < b THEN a ELSE b

NoStop == [firm |-> NoFirm, site |-> 0, type |-> 0, goods |-> {}]
NoStops == [i \in StopId |-> NoStop]
Defined(w) == {i \in StopId : w.stop[i].firm # NoFirm}

Visible(w) == w.inside = NoFirm
DestFirm(w) == IF w.dest = 0 THEN NoFirm ELSE w.stop[w.dest].firm

-----------------------------------------------------------------------------
(* The list of stops *)

Deleted(w, f) == f = NoFirm \/ w.firm[f].status = "none"
Ours(w, f) == w.firm[f].owner = Own
Trades(w, f) == w.firm[f].owner \in {Own} \cup w.treaty

CanSetStop(w, f) ==
    /\ w.firm[f].status = "ready"
    /\ IF f \in Market THEN Trades(w, f) ELSE Ours(w, f)

\* The number of a firm that is gone may be given to a new one elsewhere.
Valid(w, s) ==
    /\ ~Deleted(w, s.firm)
    /\ CanSetStop(w, s.firm)
    /\ w.firm[s.firm].site = s.site

Packed(list) == [i \in StopId |-> IF i <= Len(list) THEN list[i] ELSE NoStop]

\* The stops that are valid.
ValidStops(w) ==
    FlattenSeq([i \in StopId |-> IF Valid(w, w.stop[i]) THEN <<w.stop[i]>> ELSE <<>>])

\* A stop equal to the one before it is dropped.
Apart(valid) ==
    FlattenSeq([i \in DOMAIN valid |->
        IF i = 1 \/ valid[i].firm # valid[i - 1].firm THEN <<valid[i]>> ELSE <<>>])

\* Mistake: the last stop is not compared with the first.
RoundOpen(valid) == Apart(valid)

\* Nor is the last stop the first one again.
Round(valid) ==
    LET apart == Apart(valid)
        n == Len(apart)
    IN  IF n > 2 /\ apart[n].firm = apart[1].firm THEN SubSeq(apart, 1, n - 1) ELSE apart

\* The search for the nearest stop, when the destination has gone, assigns
\* the wrong variable and finds the last one.
KeepStops(w, valid, round, count) ==
    LET same == {i \in DOMAIN round : round[i].firm = DestFirm(w)} IN
    CASE count < 1 ->
            [w EXCEPT !.stop = NoStops, !.stop_defined_num = count, !.dest = 0]
      [] count = 1 ->
            [w EXCEPT !.stop = Packed(<<Head(valid)>>), !.stop_defined_num = 1, !.dest = 1]
      [] count > 1 /\ \A i \in DOMAIN round : ~Ours(w, round[i].firm) ->
            [w EXCEPT !.stop = NoStops, !.stop_defined_num = 0, !.dest = 0, !.journey = "on_way"]
      [] OTHER ->
            [w EXCEPT !.stop = Packed(round),
                      !.stop_defined_num = count - (Len(valid) - Len(round)),
                      !.dest = IF same # {} THEN Min(same) ELSE Len(round)]

UpdateStopList(w) ==
    LET valid == ValidStops(w)
        count == w.stop_defined_num - (Cardinality(Defined(w)) - Len(valid))
    IN  KeepStops(w, valid, Round(valid), count)

\* stop() and move_to_firm_surround().
StopMoving(w) == [w EXCEPT !.goal = w.place, !.moving = FALSE]
MoveToFirmSurround(w, f) == [w EXCEPT !.goal = f, !.moving = w.place # f]

-----------------------------------------------------------------------------
(* What is picked up at a stop *)

\* The goods whose buttons a stop shows.
GoodsOf(w, f) ==
    CASE f \in Mine -> {RawId[f]}
      [] f \in Factory -> {w.factory[f].product + MaxRaw}
      [] f \in Market -> {w.market[f][i].good : i \in Slot} \ {0}

PickUpSetAuto(s) == [s EXCEPT !.goods = {}, !.type = AutoPickUp]
PickUpSetNone(s) == [s EXCEPT !.goods = {}, !.type = NoPickUp]

PickUpToggle(s, g) ==
    LET rest == s.goods \ {g} IN
    IF g \notin s.goods THEN [s EXCEPT !.goods = @ \cup {g}, !.type = g]
    ELSE [s EXCEPT !.goods = rest,
                   !.type = IF s.firm \in Market /\ rest # {} THEN Min(rest) ELSE NoPickUp]

UpdatePickUp(w, s) ==
    LET on == GoodsOf(w, s.firm)
        kept == s.goods \cap on
    IN  CASE s.firm \notin Market -> IF kept = {} THEN PickUpSetNone(s) ELSE s
          [] s.firm \in Market /\ on = {} -> PickUpSetNone(s)
          [] s.firm \in Market /\ Cardinality(on) = 1 /\ s.type = AutoPickUp ->
                [s EXCEPT !.goods = on, !.type = Min(on)]
          [] OTHER -> [s EXCEPT !.goods = kept]

UpdateAllPickUps(w) ==
    [w EXCEPT !.stop = [i \in StopId |->
        IF w.stop[i].firm = NoFirm THEN w.stop[i] ELSE UpdatePickUp(w, w.stop[i])]]

-----------------------------------------------------------------------------
(* Orders to the caravan *)

NewStop(w, f) ==
    LET on == GoodsOf(w, f)
        empty == [firm |-> f, site |-> w.firm[f].site, type |-> 0, goods |-> {}]
    IN  CASE Cardinality(on) = 1 -> PickUpToggle(empty, Min(on))
          [] on = {} -> PickUpSetNone(empty)
          [] OTHER -> PickUpSetAuto(empty)

\* v is the world w with its list brought up to date.
Redirect(w, v) ==
    CASE v.dest = 0 -> StopMoving(v)
      [] v.dest # 0 /\ DestFirm(v) = DestFirm(w) -> v
      [] OTHER -> [MoveToFirmSurround(v, DestFirm(v)) EXCEPT !.journey = "on_way"]

\* All firms are in one region: a stop in another one is ignored.
SetStop(w, id, f) ==
    LET put == [w EXCEPT !.stop[id] = NewStop(w, f),
                         !.stop_defined_num = IF w.stop[id].firm = NoFirm THEN @ + 1 ELSE @]
    IN  IF ~CanSetStop(w, f) \/ w.stop[id].firm = f THEN w ELSE Redirect(w, UpdateStopList(put))

DelStop(w, id) ==
    IF Remote /\ w.stop[id].firm = NoFirm THEN w
    ELSE UpdateStopList([w EXCEPT !.stop[id] = NoStop, !.stop_defined_num = @ - 1])

\* In a multiplayer game the pick-ups of all stops are brought up to date
\* first, which looks at their firms whether they exist or not.
SetStopPickUp(w, id, type) ==
    LET v == IF Remote /\ type \notin Goods THEN UpdateAllPickUps(w) ELSE w
        s == v.stop[id]
        several == Cardinality(GoodsOf(w, w.stop[id].firm)) > 1
        ready == ~Remote \/ several \/ s.type \in {AutoPickUp, NoPickUp}
        new == CASE type = AutoPickUp /\ ready -> PickUpSetAuto(s)
                 [] type = NoPickUp /\ ready -> PickUpSetNone(s)
                 [] type \in GoodsOf(w, w.stop[id].firm) -> PickUpToggle(s, type)
                 [] OTHER -> s
    IN  CASE Deleted(w, w.stop[id].firm) \/ w.stop_defined_num < id -> w
          [] type \notin Goods /\ Remote
                /\ \E i \in StopId : w.stop[i].firm # NoFirm /\ Deleted(w, w.stop[i].firm) ->
                [w EXCEPT !.life = "crashed"]
          [] OTHER -> [v EXCEPT !.stop[id] = new]

-----------------------------------------------------------------------------
(* Unloading and loading.  t is the trade under way: the cargo, the slots of *)
(* the market, what was done with each of the goods, how many slots could be *)
(* given to other goods, whether there is more to unload, what the nation    *)
(* can still afford, and which goods are wanted.                             *)

SlotOrder == [i \in Slot |-> i]

\* Mistake: what does not fit leaves the caravan too.
UnloadNowAll(t, i) ==
    LET g == t.slot[i].good
        qty == Least(t.cargo[g], MaxStock - t.slot[i].stock)
    IN  [t EXCEPT !.cargo[g] = 0, !.slot[i].stock = @ + qty, !.done[g] = "unloaded"]

UnloadNow(t, i) ==
    LET g == t.slot[i].good
        qty == Least(t.cargo[g], MaxStock - t.slot[i].stock)
    IN  [t EXCEPT !.cargo[g] = @ - qty, !.slot[i].stock = @ + qty, !.done[g] = "unloaded"]

\* Mistake: the other slots are not searched for the goods.
UnloadInEmptySlotAgain(t, i) ==
    LET fresh == {g \in Goods : t.done[g] = "no" /\ t.cargo[g] > 0} IN
    IF fresh = {} THEN [t EXCEPT !.more = FALSE]
    ELSE UnloadNow([t EXCEPT !.slot[i] = [good |-> Min(fresh), stock |-> 0]], i)

\* Products come before raw material.
UnloadInEmptySlot(t, i) ==
    LET fresh == {g \in Goods : t.done[g] = "no" /\ t.cargo[g] > 0}
        new == {g \in fresh : \A j \in Slot : t.slot[j].good # g}
        first == Min(IF new \cap Product # {} THEN new \cap Product ELSE new)
    IN  IF new = {} THEN [t EXCEPT !.more = fresh # {}]
        ELSE UnloadNow([t EXCEPT !.slot[i] = [good |-> first, stock |-> 0], !.more = TRUE], i)

UnloadSlot(t, i) ==
    LET g == t.slot[i].good
        room == t.slot[i].stock < MaxStock
    IN  CASE ~t.more -> t
          [] t.more /\ g = 0 -> UnloadInEmptySlot(t, i)
          [] t.more /\ g # 0 /\ t.cargo[g] > 0 ->
                IF room THEN UnloadNow(t, i) ELSE [t EXCEPT !.done[g] = "full"]
          [] t.more /\ g # 0 /\ t.cargo[g] = 0 ->
                IF t.slot[i].stock = 0 /\ i \notin t.supplied THEN [t EXCEPT !.free = @ + 1] ELSE t

ReuseSlot(t, i) ==
    IF t.free = 0 \/ t.slot[i].stock > 0 \/ i \in t.supplied THEN t
    ELSE [UnloadInEmptySlot(t, i) EXCEPT !.free = @ - 1]

MarketUnload(t) ==
    FoldLeft(ReuseSlot, FoldLeft(UnloadSlot, t, SlotOrder), SlotOrder)

MarketLoadNow(t, i, most) ==
    LET g == t.slot[i].good
        carry == Least(MaxCarry - t.cargo[g], most)
        qty == IF t.ours THEN carry ELSE Least(carry, t.purse)
    IN  [t EXCEPT !.cargo[g] = @ + qty, !.slot[i].stock = @ - qty,
                  !.purse = IF t.ours THEN @ ELSE @ - qty]

LoadSelected(t, i) ==
    IF t.slot[i].good # 0 /\ t.slot[i].good \in t.wanted
    THEN MarketLoadNow(t, i, t.slot[i].stock) ELSE t

LoadAuto(t, i) ==
    IF t.slot[i].good # 0 /\ t.slot[i].stock > MinFirmStock /\ t.done[t.slot[i].good] # "unloaded"
    THEN MarketLoadNow(t, i, t.slot[i].stock - MinFirmStock) ELSE t

MarketLoad(t, type) ==
    CASE type = AutoPickUp -> FoldLeft(LoadAuto, t, SlotOrder)
      [] type = NoPickUp -> t
      [] OTHER -> FoldLeft(LoadSelected, t, SlotOrder)

MarketTrade(w, f, s, c) ==
    LET before == [cargo |-> w.cargo, slot |-> w.market[f], done |-> [g \in Goods |-> "no"],
                   free |-> 0, more |-> TRUE, supplied |-> c.supplied, purse |-> c.purse,
                   ours |-> Ours(w, f), wanted |-> s.goods]
        after == MarketLoad(IF Ours(w, f) THEN MarketUnload(before) ELSE before, s.type)
    IN  [w EXCEPT !.cargo = after.cargo, !.market[f] = after.slot]

\* What a mine or a factory gives away.
Supply(stock, type) ==
    CASE type = NoPickUp -> 0
      [] type = AutoPickUp -> IF stock > MinFirmStock THEN stock - MinFirmStock ELSE 0
      [] OTHER -> stock

MineTrade(w, f, s) ==
    LET g == RawId[f]
        qty == Least(MaxCarry - w.cargo[g], Supply(w.mine[f].stock, s.type))
    IN  IF ~Ours(w, f) THEN w
        ELSE [w EXCEPT !.cargo[g] = @ + qty, !.mine[f].stock = @ - qty]

\* An idle factory takes up what the caravan brings.
FactoryTrade(w, f, s, c) ==
    LET old == w.factory[f]
        brought == {g \in Raw : w.cargo[g] > 0}
        r == IF c.idle /\ old.stock = 0 /\ old.raw = 0 /\ Cardinality(brought) = 1
             THEN Min(brought) ELSE old.product
        p == r + MaxRaw
        in == Least(w.cargo[r], MaxStock - old.raw)
        out == IF s.type \in {AutoPickUp, p}
               THEN Least(MaxCarry - w.cargo[p], Supply(old.stock, s.type)) ELSE 0
    IN  IF ~Ours(w, f) THEN w
        ELSE [w EXCEPT !.cargo[r] = @ - in, !.cargo[p] = @ + out,
                       !.factory[f] = [product |-> r, raw |-> old.raw + in, stock |-> old.stock - out]]

\* At the destination, with what the stop s picks up there.
Trade(w, s, c) ==
    LET f == s.firm IN
    CASE ~Trades(w, f) -> w
      [] Trades(w, f) /\ f \in Market -> MarketTrade(w, f, s, c)
      [] Trades(w, f) /\ f \in Mine -> MineTrade(w, f, s)
      [] Trades(w, f) /\ f \in Factory -> FactoryTrade(w, f, s, c)

-----------------------------------------------------------------------------
(* The caravan in one frame.  c is what the rest of the game decides: see    *)
(* Circumstances.                                                            *)

\* The stop after that at f.
StopAfter(w, f) ==
    LET same == {i \in 1..w.stop_defined_num : w.stop[i].firm = f} IN
    CASE w.stop_defined_num = 0 -> 0
      [] w.stop_defined_num > 0 /\ same # {} /\ Min(same) < w.stop_defined_num -> Min(same) + 1
      [] OTHER -> 1

GetNextStopId(w, cur) ==
    LET next == IF cur >= w.stop_defined_num THEN 1 ELSE cur + 1
        After(v) == [world |-> v, id |-> StopAfter(v, w.stop[cur].firm)]
    IN  IF Valid(w, w.stop[next]) THEN [world |-> w, id |-> next] ELSE After(UpdateStopList(w))

NoStopLeft(w) ==
    [(IF w.journey = "none" THEN w ELSE StopMoving(w)) EXCEPT !.journey = "none"]

OneStop(w, c) ==
    LET s == w.stop[1]
        f == s.firm
        near == [w EXCEPT !.journey = "surround"]
    IN  CASE Deleted(w, f) -> UpdateStopList(w)
          [] ~Deleted(w, f) /\ w.firm[f].site # s.site -> UpdateStopList(w)
          [] OTHER ->
                CASE w.place # f /\ w.moving -> [w EXCEPT !.journey = "on_way"]
                  [] w.place # f /\ ~w.moving -> MoveToFirmSurround(w, f)
                  [] w.place = f /\ ~Trades(w, f) -> near
                  [] w.place = f /\ Trades(w, f) ->
                        IF w.wait > 0 THEN [near EXCEPT !.wait = @ - 1]
                        ELSE [Trade(near, PickUpSetNone(s), c) EXCEPT !.wait = WaitTerm * WaitFactor]

\* Mistake: the destination is not updated.
GoOnUnassigned(next) ==
    IF next.id = 0 THEN [next.world EXCEPT !.dest = 0, !.journey = "none"]
    ELSE [MoveToFirmSurround(next.world, next.world.stop[next.id].firm) EXCEPT !.journey = "on_way"]

\* Where to go from the firm it was in; next is as GetNextStopId returns it.
GoOn(next) ==
    LET v == [next.world EXCEPT !.dest = next.id] IN
    CASE next.id = 0 -> [v EXCEPT !.journey = "none"]
      [] next.id # 0 /\ next.id = next.world.dest -> [v EXCEPT !.journey = "surround"]
      [] OTHER -> [MoveToFirmSurround(v, DestFirm(v)) EXCEPT !.journey = "on_way"]

CaravanInFirm(w, c) ==
    LET at == IF c.blocked = "door" THEN w.inside ELSE w.door
        out == [w EXCEPT !.inside = NoFirm, !.place = at, !.goal = at, !.moving = FALSE]
    IN  CASE Deleted(w, w.inside) -> [w EXCEPT !.life = "dead"]
          [] ~Deleted(w, w.inside) /\ w.wait > 0 -> [w EXCEPT !.wait = @ - 1]
          [] OTHER -> IF c.blocked = "all" THEN [w EXCEPT !.wait = WaitTerm * WaitFactor]
                      ELSE GoOn(GetNextStopId(out, w.dest))

EnterFirm(w, c) ==
    LET s == UpdatePickUp(w, w.stop[w.dest]) IN
    [Trade([w EXCEPT !.stop[w.dest] = s], s, c) EXCEPT
        !.inside = s.firm, !.door = w.goal, !.wait = WaitTerm, !.moving = FALSE,
        !.journey = "inside"]

CaravanOnWay(w, c) ==
    LET f == DestFirm(w)
        idle == ~w.moving /\ w.journey # "surround"
        here == w.journey = "surround" \/ (w.place = w.goal /\ w.place = f)
        updated == UpdateStopList(w)
    IN  CASE ~Deleted(w, f) /\ idle ->
                [MoveToFirmSurround(w, f) EXCEPT !.journey = IF w.place = f THEN "surround" ELSE @]
          [] ~Deleted(w, f) /\ ~idle -> IF here THEN EnterFirm(w, c) ELSE w
          [] Deleted(w, f) ->
                IF updated.stop_defined_num = 0 THEN updated
                ELSE MoveToFirmSurround(updated, updated.stop[updated.stop_defined_num].firm)

PreProcess(w, c) ==
    CASE w.stop_defined_num = 0 -> NoStopLeft(w)
      [] w.stop_defined_num = 1 -> OneStop(w, c)
      [] w.stop_defined_num > 1 /\ w.journey = "inside" -> CaravanInFirm(w, c)
      [] OTHER -> CaravanOnWay(w, c)

\* A path may be blocked; a caravan that has arrived stops a frame later.
MoveOn(w, c) ==
    CASE ~Visible(w) \/ ~w.moving -> w
      [] Visible(w) /\ w.moving /\ w.place = w.goal -> [w EXCEPT !.moving = FALSE]
      [] OTHER ->
            CASE c.move = "on" -> [w EXCEPT !.place = Road]
              [] c.move = "arrives" -> [w EXCEPT !.place = w.goal]
              [] c.move = "blocked" -> StopMoving(w)

-----------------------------------------------------------------------------
(* The firms' own trade, over the links that are open (from), with the next  *)
(* output of some of them being this firm (output).                          *)

\* The world w with the stocks of v.
Stocked(w, v) == [w EXCEPT !.market = v.market, !.mine = v.mine, !.factory = v.factory]

Producer == Mine \cup Factory
StoreOf(w, s) == IF s \in Mine THEN w.mine[s].stock ELSE w.factory[s].stock
GoodOf(w, s) == IF s \in Mine THEN RawId[s] ELSE w.factory[s].product + MaxRaw
TakeFrom(w, s, n) ==
    IF s \in Mine THEN [w EXCEPT !.mine[s].stock = @ - n] ELSE [w EXCEPT !.factory[s].stock = @ - n]

\* A firm whose goods have no slot may get one, the first in the list does.
InputFrom(t, s) ==
    LET w == t.world
        m == t.market
        g == GoodOf(w, s)
        same == {i \in Slot : w.market[m][i].good = g}
        i == Min(same)
        qty == Least(Least(StoreOf(w, s), MaxInput), MaxStock - w.market[m][i].stock)
    IN  CASE s \notin t.from \cap Producer -> t
          [] s \in t.from \cap Producer /\ same # {} ->
                [t EXCEPT !.inputing = @ \cup {i},
                          !.world = IF s \in t.output
                                    THEN [TakeFrom(w, s, qty) EXCEPT !.market[m][i].stock = @ + qty]
                                    ELSE w]
          [] s \in t.from \cap Producer /\ same = {} ->
                IF StoreOf(w, s) > 0 /\ t.queued = NoFirm THEN [t EXCEPT !.queued = s] ELSE t

MarketInput(w, m, from, output) ==
    LET t == FoldLeft(InputFrom, [world |-> w, market |-> m, from |-> from, output |-> output,
                                  inputing |-> {}, queued |-> NoFirm], Linked[m])
        empty == {i \in Slot \ t.inputing : t.world.market[m][i].stock = 0}
        v == Stocked(w, t.world)
    IN  IF t.queued = NoFirm \/ empty = {} THEN v
        ELSE [v EXCEPT !.market[m][Min(empty)].good = GoodOf(w, t.queued)]

\* What another nation's firm gives is limited by the purse.
Afford(t, s, n) == IF t.world.firm[s].owner = t.world.firm[t.factory].owner THEN n ELSE Least(n, t.purse)

RawFrom(t, s) ==
    LET w == t.world
        f == t.factory
        room == MaxStock - w.factory[f].raw
        same == IF s \in Market THEN {i \in Slot : w.market[s][i].good = w.factory[f].product} ELSE {}
        i == Min(same)
        n == Afford(t, s, Least(room, IF s \in Mine THEN w.mine[s].stock ELSE w.market[s][i].stock))
        paid == [t EXCEPT !.world.factory[f].raw = @ + n,
                          !.purse = IF Afford(t, s, MaxStock) = MaxStock THEN @ ELSE @ - n]
    IN  CASE s \in t.output \cap Mine /\ RawId[s] = w.factory[f].product ->
                [paid EXCEPT !.world.mine[s].stock = @ - n]
          [] s \in t.output \cap Market /\ same # {} ->
                [paid EXCEPT !.world.market[s][i].stock = @ - n]
          [] OTHER -> t

InputRaw(w, f, output, purse) ==
    Stocked(w, FoldLeft(RawFrom, [world |-> w, factory |-> f, output |-> output, purse |-> purse],
                        Linked[f]).world)

Manufacture(w, f, most) ==
    LET qty == Least(Least(w.factory[f].raw, most), MaxStock - w.factory[f].stock) IN
    [w EXCEPT !.factory[f].raw = @ - qty, !.factory[f].stock = @ + qty]

-----------------------------------------------------------------------------
(* Actions *)

\* One slot for each of the goods of a market, and none for no goods.
SlotsOf(market) ==
    \A i, j \in Slot : /\ market[i].good = 0 => market[i].stock = 0
                       /\ market[i].good = market[j].good => i = j \/ market[i].good = 0

Typed(w) ==
    /\ w.firm \in [Firm -> [status : {"none", "building", "ready"}, owner : Nation, site : {1, 2}]]
    /\ w.treaty \subseteq Foreign
    /\ w.market \in [Market -> [Slot -> [good : {0} \cup Goods, stock : 0..MaxStock]]]
    /\ \A m \in Market : SlotsOf(w.market[m])
    /\ w.mine \in [Mine -> [stock : 0..MaxStock, reserve : Nat]]
    /\ w.factory \in [Factory -> [product : Raw, raw : 0..MaxStock, stock : 0..MaxStock]]
    /\ w.cargo \in [Goods -> 0..MaxCarry]
    /\ w.stop_defined_num \in 0..MaxStopForCaravan /\ w.dest \in 0..MaxStopForCaravan
    /\ w.journey \in {"none", "on_way", "surround", "inside"}
    /\ w.inside \in Firm \cup {NoFirm} /\ {w.place, w.goal, w.door} \subseteq Firm \cup {Road}
    /\ w.moving \in BOOLEAN /\ w.wait \in Nat

InOrder(w) ==
    LET n == w.stop_defined_num IN
    /\ \A i \in StopId : w.stop[i].firm # NoFirm <=> i <= n
    /\ n > 1 => \A i \in 1..n : w.stop[i].firm # w.stop[IF i = n THEN 1 ELSE i + 1].firm
    /\ IF n = 0 THEN w.dest = 0 ELSE w.dest \in 1..n

KnowsItsWay(w) ==
    ~Visible(w) => w.journey = "inside" /\ w.stop_defined_num > 1 /\ DestFirm(w) = w.inside

\* The game starts, or is loaded, with a round in order.
ASSUME StartAssumption == \A s \in Start :
    /\ DOMAIN s.world = Field
    /\ s.world.stop \in [StopId -> [firm : Firm \cup {NoFirm}, site : {0, 1, 2},
                                    type : 0..NoPickUp, goods : SUBSET Goods]]
    /\ Typed(s.world) /\ InOrder(s.world) /\ KnowsItsWay(s.world)
    /\ s.budget \in [orders : Nat, events : Nat]

Init ==
    \E s \in Start :
        /\ world = s.world
        /\ budget = s.budget
        /\ orders = <<>>

\* What the rest of the game decides in a frame: which goods of the market
\* have been supplied by a link in the last 30 days, what the nation can
\* afford, whether a factory has not produced for 30 days, whether the door it
\* came through or all places round the firm are blocked, and how far the
\* caravan gets.  What makes no difference is fixed.
Circumstances(w) ==
    LET f == DestFirm(w)
        trades == Visible(w) /\ f # NoFirm /\ (w.journey = "surround" \/ w.place = f)
        unsold == IF f \in Market THEN {i \in Slot : w.market[f][i].stock = 0} ELSE {}
    IN  [supplied : IF trades THEN SUBSET unsold ELSE {{}},
         purse : IF trades /\ ~Ours(w, f) THEN 0..MaxCarry ELSE {0},
         idle : IF trades /\ f \in Factory THEN BOOLEAN ELSE {FALSE},
         blocked : IF Visible(w) THEN {"no"} ELSE {"no", "door", "all"},
         move : IF Visible(w) THEN {"on", "arrives", "blocked"} ELSE {"on"}]

Frame ==
    \E c \in Circumstances(world) :
        /\ world' = MoveOn(PreProcess(world, c), c)
        /\ UNCHANGED <<orders, budget>>

\* Mistake: the list is brought up to date inside a firm as well.
RefreshAnywhere ==
    /\ world' = UpdateAllPickUps(UpdateStopList(world))
    /\ UNCHANGED <<orders, budget>>

\* For a caravan that is selected, by any of the players.
Refresh ==
    /\ Remote => Visible(world)
    /\ world' = UpdateAllPickUps(UpdateStopList(world))
    /\ UNCHANGED <<orders, budget>>

Clicks(w) ==
    LET there == {i \in 1..w.stop_defined_num : ~Deleted(w, w.stop[i].firm)}
        Buttons(f) == GoodsOf(w, f) \cup
                        IF Cardinality(GoodsOf(w, f)) > 1 THEN {AutoPickUp, NoPickUp} ELSE {}
    IN  {[kind |-> "set", id |-> i, firm |-> f, site |-> w.firm[f].site] :
            i \in StopId, f \in {g \in Firm : CanSetStop(w, g)}}
        \cup {[kind |-> "del", id |-> i, firm |-> w.stop[i].firm] : i \in 1..w.stop_defined_num}
        \cup UNION {{[kind |-> "goods", id |-> i, type |-> g] : g \in Buttons(w.stop[i].firm)} : i \in there}

Execute(w, o) ==
    CASE ~Visible(w) -> w
      [] Visible(w) /\ o.kind = "set" ->
            IF w.firm[o.firm].site = o.site THEN SetStop(w, o.id, o.firm) ELSE w
      [] Visible(w) /\ o.kind = "del" -> DelStop(w, o.id)
      [] Visible(w) /\ o.kind = "goods" -> SetStopPickUp(w, o.id, o.type)

GiveOrder ==
    \E o \in Clicks(world) :
        /\ Visible(world)
        /\ budget.orders > 0
        /\ budget' = [budget EXCEPT !.orders = @ - 1]
        /\ IF Remote THEN orders' = Append(orders, o) /\ UNCHANGED world
           ELSE world' = Execute(world, o) /\ UNCHANGED orders

ExecuteOrder ==
    /\ orders # <<>>
    /\ world' = Execute(world, Head(orders))
    /\ orders' = Tail(orders)
    /\ UNCHANGED budget

\* An event of which there are a few in a run.
Event(w) ==
    /\ budget.events > 0
    /\ budget' = [budget EXCEPT !.events = @ - 1]
    /\ world' = w
    /\ UNCHANGED orders

\* The player sends the caravan to some place.
MoveOrder == Visible(world) /\ Event([world EXCEPT !.goal = Road, !.moving = TRUE])
CaravanDies == Visible(world) /\ Event([world EXCEPT !.life = "dead"])

Ready(f) == world.firm[f].status = "ready"
Open(f) == {s \in ToSet(Linked[f]) : Ready(s)}
Daily(w) == world' = w /\ UNCHANGED <<orders, budget>>

ProduceRaw(f) ==
    LET m == world.mine[f] IN
    \E n \in 1..Least(MaxMake, Least(m.reserve, MaxStock - m.stock)) :
        Ready(f) /\ Daily([world EXCEPT !.mine[f] = [stock |-> m.stock + n, reserve |-> m.reserve - n]])

Production(f) ==
    \E output \in SUBSET Open(f), purse \in 0..MaxStock, most \in 0..MaxMake :
        /\ Ready(f)
        /\ (\A s \in output : world.firm[s].owner = world.firm[f].owner) => purse = 0
        /\ Daily(Manufacture(InputRaw(world, f, output, purse), f, most))

InputGoods(f) ==
    \E from \in SUBSET Open(f) : \E output \in SUBSET from :
        Ready(f) /\ Daily(MarketInput(world, f, from, output))

SellGoods(f) ==
    \E sold \in [Slot -> 0..MaxMake] :
        /\ Ready(f)
        /\ \A i \in Slot : /\ sold[i] <= world.market[f][i].stock
                           /\ sold[i] > 0 => world.market[f][i].good \in Product
        /\ Daily([world EXCEPT !.market[f] =
                    [i \in Slot |-> [world.market[f][i] EXCEPT !.stock = @ - sold[i]]]])

\* The owner clears a slot, or gives the factory another product.
ClearGoods(f, i) ==
    /\ Ready(f) /\ world.market[f][i].good # 0
    /\ Event([world EXCEPT !.market[f][i] = [good |-> 0, stock |-> 0]])

ChangeProduction(f, r) ==
    Ready(f) /\ Event([world EXCEPT !.factory[f] = [product |-> r, raw |-> 0, stock |-> 0]])

EmptySlots == [i \in Slot |-> [good |-> 0, stock |-> 0]]

DelFirm(f) ==
    LET Off(p) == IF p = f THEN Road ELSE p IN
    /\ ~Deleted(world, f)
    /\ Event([world EXCEPT !.firm[f].status = "none",
                           !.market = IF f \in Market THEN [@ EXCEPT ![f] = EmptySlots] ELSE @,
                           !.mine = IF f \in Mine THEN [@ EXCEPT ![f] = [stock |-> 0, reserve |-> 0]] ELSE @,
                           !.factory = IF f \in Factory THEN [@ EXCEPT ![f].raw = 0, ![f].stock = 0] ELSE @,
                           !.place = Off(@), !.goal = Off(@), !.door = Off(@)])

CaptureFirm(f, n) ==
    Ready(f) /\ world.firm[f].owner # n /\ Event([world EXCEPT !.firm[f].owner = n])

\* Another market gets the number of one that is gone.
BuildFirm(f, n, site) ==
    /\ Deleted(world, f)
    /\ Event([world EXCEPT !.firm[f] = [status |-> "building", owner |-> n, site |-> site]])

CompleteFirm(f) ==
    world.firm[f].status = "building" /\ Daily([world EXCEPT !.firm[f].status = "ready"])

TreatyBegins(n) == n \notin world.treaty /\ Event([world EXCEPT !.treaty = @ \cup {n}])
TreatyEnds(n) == n \in world.treaty /\ Event([world EXCEPT !.treaty = @ \ {n}])

Next ==
    /\ world.life = "alive"
    /\ \/ Frame \/ Refresh \/ GiveOrder \/ ExecuteOrder \/ MoveOrder \/ CaravanDies
       \/ \E f \in Mine : ProduceRaw(f)
       \/ \E f \in Factory : Production(f) \/ (\E r \in Raw : ChangeProduction(f, r))
       \/ \E f \in Market : \/ InputGoods(f) \/ SellGoods(f) \/ CompleteFirm(f)
                            \/ \E i \in Slot : ClearGoods(f, i)
                            \/ \E n \in Nation, site \in {1, 2} : BuildFirm(f, n, site)
       \/ \E f \in Firm : DelFirm(f) \/ (\E n \in Nation : CaptureFirm(f, n))
       \/ \E n \in Foreign : TreatyBegins(n) \/ TreatyEnds(n)

Live == world.life = "alive" /\ Frame

\* A caravan on its way to a firm, and one that may come out of the firm.
OnTheWay ==
    /\ world.life = "alive" /\ Visible(world) /\ world.moving /\ world.place # world.goal
    /\ world.journey = "on_way" /\ ~Deleted(world, DestFirm(world))
Waited ==
    /\ world.life = "alive" /\ ~Visible(world) /\ world.journey = "inside"
    /\ world.stop_defined_num > 1 /\ ~Deleted(world, world.inside) /\ world.wait = 0
Arrives == OnTheWay /\ Live /\ world'.place = world.goal
Leaves == Waited /\ Live /\ Visible(world')

\* Frames go on as long as there is a round: weak fairness of Live, with the
\* states written out in which a frame may change nothing.  A path is not
\* blocked for ever, nor is a door: strong fairness of Arrives and Leaves, with
\* the states written out in which they may happen.
Fairness ==
    /\ []<>(world.life # "alive" \/ world.stop_defined_num < 2) \/ []<><<Live>>_vars
    /\ []<>OnTheWay => []<><<Arrives>>_vars
    /\ []<>Waited => []<><<Leaves>>_vars

Spec == Init /\ [][Next]_vars /\ Fairness

-----------------------------------------------------------------------------
(* Properties *)

\* Every field keeps its type: no stock and no cargo is negative or beyond its
\* capacity (the err_when of the trade functions), and a market has one slot
\* for each of its goods and none for no goods.
TypeOK == Typed(world)

\* The stops are counted, stand at the front of the list, and no two neighbours
\* on the round are the same; the destination is one of them (the assertions of
\* update_stop_list).
StopsPacked == InOrder(world)

\* A caravan in a firm is on a round and that firm is its destination, so that it
\* comes out again, whatever was clicked before it went in and is executed while
\* it is inside (caravan_in_firm).
InsideKnowsItsWay == KnowsItsWay(world)

Stores(w) == <<w.cargo, w.market, w.mine, w.factory>>

\* All there is of a material, in the ground, as raw material and as product.
HeldBy(w, r) ==
    LET InMarket(m) == SumFunction([i \in Slot |-> IF w.market[m][i].good \in {r, r + MaxRaw}
                                                   THEN w.market[m][i].stock ELSE 0])
        InMine(f) == IF RawId[f] = r THEN w.mine[f].stock + w.mine[f].reserve ELSE 0
        InFactory(f) == IF w.factory[f].product = r THEN w.factory[f].raw + w.factory[f].stock ELSE 0
    IN  w.cargo[r] + w.cargo[r + MaxRaw] + SumFunction([m \in Market |-> InMarket(m)])
            + SumFunction([f \in Mine |-> InMine(f)]) + SumFunction([f \in Factory |-> InFactory(f)])

\* Goods come from the ground only, and nothing but a sale, a player's order to
\* drop them or the end of a firm makes them disappear: trade, with its partial
\* loads, slots that change their goods and stocks that are full, neither
\* loses nor doubles them (OU_CARAT.cpp, input_goods, input_raw).
Spent == budget' # budget \/ \E f \in Market : SellGoods(f)
GoodsConserved ==
    [][Stores(world') # Stores(world) =>
        \A r \in Raw : /\ HeldBy(world', r) <= HeldBy(world, r)
                       /\ ~Spent => HeldBy(world', r) = HeldBy(world, r)]_vars

\* A caravan that has a round visits each of its stops again and again, unless
\* the stop ceases to be one (get_next_stop_id, caravan_on_way).
OnRound(f) ==
    /\ world.life = "alive" /\ world.stop_defined_num > 1
    /\ \E i \in StopId : world.stop[i].firm = f /\ Valid(world, world.stop[i])
VisitsEveryStop == \A f \in Firm : []<>(OnRound(f) => world.inside = f)

-----------------------------------------------------------------------------
(* Promises of the comments that the code does not keep; see the README. *)

\* A caravan trades "in the surrounding of the firm".
TradesWhereItStands ==
    [][Visible(world) /\ ~Visible(world') => world.place = world'.inside]_vars

\* "stop is deleted before receiving this message, thus, ignore": an order takes
\* away the stop that was clicked.
DeletesWhatWasClicked == \A i \in DOMAIN orders :
    orders[i].kind = "del" => orders[i].firm = world.stop[orders[i].id].firm

\* What a stop picks up goes with its type (the assertion of update_pick_up).
PicksUpByType == \A i \in 1..world.stop_defined_num :
    world.stop[i].type \in {AutoPickUp, NoPickUp} => world.stop[i].goods = {}

\* A firm that is gone is not used (firm_array.is_deleted).
NeverUsesDeleted == world.life # "crashed"
=============================================================================
