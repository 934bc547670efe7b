------------------------------- MODULE People -------------------------------
(***************************************************************************)
(* Where the people of the game are, and who they belong to: peasants in   *)
(* towns, workers and overseers in firms, units on the map, and the spies  *)
(* among them.  The same person is counted in several objects at a time: a *)
(* worker of a mine is part of the population of the town it lives in, a   *)
(* unit in training is still a peasant of its town, a spy is an object of  *)
(* spy_array that knows its place, and the place has to know the spy.      *)
(*                                                                         *)
(* A world is a record of the four object arrays; every operator below     *)
(* that is named after a function of the code takes the world before the   *)
(* call and returns the world after it, so that the handlers chain the     *)
(* calls in the order of the code.  An object that is deleted equals NoTown*)
(* (NoUnit, NoSpy, nation 0 for a firm); 0 is no object and no nation, an  *)
(* independent town has nation 0.                                          *)
(*                                                                         *)
(* Left out: races (there is one), loyalty, ranks and skill levels (any    *)
(* decision they take may go either way), the map (a search for free land  *)
(* may fail at the places in Crowded), defenders, rebels, builders, ships. *)
(***************************************************************************)
EXTENDS Integers, Sequences, FiniteSets, SequencesExt

CONSTANTS
    Town, Firm, Unit, Spy,  \* what the object arrays have room for
    Nation,
    MAX_TOWN_POPULATION, MAX_WORKER,
    LiveInTown,             \* the firms whose workers live in towns
    NeedOverseer,           \* the firms with an overseer
    MaxPeople,              \* bound: no births beyond this many people
    Crowded,                \* where there may be no free land: town, firm
    Rare,                   \* events that are allowed, see RareEvents
    Start                   \* the world at the start

RareEvents ==
    {"bribe_spy",       \* a person is bribed who is a spy of another nation
     "surrender_spy",   \* a town changes hands while it trains a spy
     "killed_training", \* an exposed spy is killed while he, or the only
                        \* peasant beside him, is trained
     "stale_home",      \* a worker is ordered into a town that has filled up
                        \* since the order was given
     "migrate_trainee", \* the only peasant who is counted as honest, and sent
                        \* to another town, is a spy in training
     "stale_migrate",   \* people are ordered into a town that has changed
                        \* hands since the order was given
     "deinit_spy"}      \* a firm ends on land that has no room for one of its
                        \* workers, who is a spy

ASSUME IdAssumption ==
    /\ \A ids \in {Town, Firm, Unit, Spy, Nation} : IsFiniteSet(ids) /\ 0 \notin ids
    /\ MAX_TOWN_POPULATION \in Nat \ {0}
    /\ MAX_WORKER \in Nat \ {0}
    /\ MaxPeople \in Nat
\* Camps and bases have overseers; their workers do not live in towns.
ASSUME FirmAssumption ==
    /\ LiveInTown \subseteq Firm /\ NeedOverseer \subseteq Firm
    /\ LiveInTown \cap NeedOverseer = {}
ASSUME ChoiceAssumption == Crowded \subseteq {"town", "firm"} /\ Rare \subseteq RareEvents

VARIABLES town, firm, unit, spy,
          gone      \* the nations that have handed themselves over

vars == <<town, firm, unit, spy, gone>>

NoTown == [nation |-> 0, population |-> 0, jobless |-> 0, spies |-> 0, trainee |-> 0]
NoUnit == [nation |-> 0, spy |-> 0, mode |-> "none", para |-> 0, skilled |-> FALSE]
NoSpy == [true |-> 0, cloaked |-> 0, place |-> "none", para |-> 0, exposed |-> FALSE]

World == [town |-> town, firm |-> firm, unit |-> unit, spy |-> spy]
Become(w) ==
    town' = w.town /\ firm' = w.firm /\ unit' = w.unit /\ spy' = w.spy

\* Whether a search for free land at a town or a firm succeeds.
Space(place) == IF place \in Crowded THEN BOOLEAN ELSE {TRUE}
\* The places in the area of a firm that is gone that may be free for its people,
\* when they are not enough for all of them.
Cramped == IF "firm" \in Crowded THEN 0..MAX_WORKER ELSE {}

TownThere(w, t) == w.town[t].population > 0
FirmThere(w, f) == w.firm[f].nation # 0
Pick(S) == CHOOSE x \in S : TRUE
SpiesIn(w, place, p) == {s \in Spy : w.spy[s].place = place /\ w.spy[s].para = p}
\* The workers, as pairs of a firm and an index, who live in town t.
LivingIn(w, t) ==
    {x \in Firm \X (1..MAX_WORKER) :
        x[2] <= Len(w.firm[x[1]].workers) /\ w.firm[x[1]].workers[x[2]].home = t}
NewTown(w) == CHOOSE t \in Town : w.town[t] = NoTown
NewUnit(w) == CHOOSE u \in Unit : w.unit[u] = NoUnit
NewSpy(w) == CHOOSE s \in Spy : w.spy[s] = NoSpy

-----------------------------------------------------------------------------
(* Spies and units *)

\* Leaving a town and entering one keep its count of spies; in a town and in a
\* firm the cloak is that of the place.
SetPlace(w, s, place, p) ==
    LET old == w.spy[s]
        left == IF old.place = "town" /\ TownThere(w, old.para)
                THEN [w EXCEPT !.town[old.para].spies = @ - 1] ELSE w
        there == IF place = "town"
                 THEN [left EXCEPT !.town[p].spies = @ + 1] ELSE left
        cloak == IF place = "town" THEN there.town[p].nation
                 ELSE IF place = "firm" THEN there.firm[p].nation ELSE old.cloaked
    IN  [there EXCEPT !.spy[s] =
            [old EXCEPT !.place = place, !.para = p, !.cloaked = cloak]]

DelSpy(w, s) == [SetPlace(w, s, "none", 0) EXCEPT !.spy[s] = NoSpy]

\* Neither the town that trains the unit nor the firm that it oversees is told.
DelUnit(w, u) ==
    [IF w.unit[u].spy # 0 THEN DelSpy(w, w.unit[u].spy) ELSE w
        EXCEPT !.unit[u] = NoUnit]

AddUnit(w, u, nation) ==
    [w EXCEPT !.unit[u] = [NoUnit EXCEPT !.nation = nation, !.mode = "map"]]

-----------------------------------------------------------------------------
(* Towns *)

\* Peasants who may be recruited.  The trainee is still counted as a peasant.
Recruitable(w, t, withSpies) ==
    LET here == w.town[t]
        all == here.jobless - (IF here.trainee # 0 THEN 1 ELSE 0)
    IN  IF withSpies THEN all
        ELSE IF all - here.spies = -1 THEN 0 ELSE all - here.spies

IncPop(w, t, hasJob) ==
    [w EXCEPT !.town[t].population = @ + 1,
              !.town[t].jobless = IF hasJob THEN @ ELSE @ + 1]

\* The last person's departure removes the town, and whom it trains.
DecPop(w, t, hasJob) ==
    LET here == w.town[t]
    IN  IF here.population > 1
        THEN [w EXCEPT !.town[t].population = @ - 1,
                       !.town[t].jobless = IF hasJob THEN @ ELSE @ - 1]
        ELSE [IF here.trainee # 0 THEN DelUnit(w, here.trainee) ELSE w
                EXCEPT !.town[t] = NoTown]

\* Mistake: the town takes everybody.
TownAssignUnitCrowded(w, t, u) ==
    LET s == w.unit[u].spy
        grown == IncPop(w, t, FALSE)
    IN  DelUnit(IF s = 0 THEN grown
                ELSE [SetPlace(grown, s, "town", t) EXCEPT !.unit[u].spy = 0], u)

\* A unit moves into the town as a peasant.
TownAssignUnit(w, t, u) ==
    LET s == w.unit[u].spy
        grown == IncPop(w, t, FALSE)
        settled == IF s = 0 THEN grown
                   ELSE [SetPlace(grown, s, "town", t) EXCEPT !.unit[u].spy = 0]
    IN  IF w.town[t].population >= MAX_TOWN_POPULATION THEN w ELSE DelUnit(settled, u)

-----------------------------------------------------------------------------
(* Firms *)

RemoveWorker(w, f, i) == [w EXCEPT !.firm[f].workers = RemoveAt(@, i)]

\* Mistake: the worker stays with the population of its town.
CreateWorkerUnitAtHome(w, f, worker) ==
    LET u == NewUnit(w)
        made == AddUnit(w, u, IF worker.home # 0 THEN w.town[worker.home].nation
                              ELSE w.firm[f].nation)
    IN  IF worker.spy = 0 THEN made
        ELSE SetPlace([made EXCEPT !.unit[u].spy = worker.spy], worker.spy, "mobile", u)

CreateWorkerUnit(w, f, worker) ==
    LET u == NewUnit(w)
        made == AddUnit(w, u, IF worker.home # 0 THEN w.town[worker.home].nation
                              ELSE w.firm[f].nation)
        moved == IF worker.home # 0 THEN DecPop(made, worker.home, FALSE) ELSE made
    IN  IF worker.spy = 0 THEN moved
        ELSE SetPlace([moved EXCEPT !.unit[u].spy = worker.spy], worker.spy, "mobile", u)

\* A worker without a home needs free land at the firm.
ResignWorker(w, f, i, space) ==
    LET worker == w.firm[f].workers[i]
        idle == [w EXCEPT !.town[worker.home].jobless = @ + 1]
        home == IF worker.spy = 0 THEN idle
                ELSE SetPlace(idle, worker.spy, "town", worker.home)
    IN  IF worker.home # 0 THEN RemoveWorker(home, f, i)
        ELSE IF space THEN RemoveWorker(CreateWorkerUnit(w, f, worker), f, i)
        ELSE w

MobilizeWorker(w, f, i, space) ==
    LET worker == w.firm[f].workers[i]
        resigned == ResignWorker(w, f, i, space)
    IN  IF worker.home # 0 /\ space THEN CreateWorkerUnit(resigned, f, worker)
        ELSE resigned

\* With free land: without it the callers do not come here, but for
\* MobilizeSpy; a successor leaves free the place on which it stood.
MobilizeOverseer(w, f) ==
    LET u == w.firm[f].overseer
        s == w.unit[u].spy
        out == IF s = 0 THEN w ELSE SetPlace(w, s, "mobile", u)
    IN  [out EXCEPT !.unit[u].mode = "map", !.unit[u].para = 0, !.firm[f].overseer = 0]

KillOverseer(w, f) ==
    LET u == w.firm[f].overseer
        s == w.unit[u].spy
        out == IF s = 0 THEN w ELSE SetPlace(w, s, "none", 0)
    IN  [DelUnit(out, u) EXCEPT !.firm[f].overseer = 0]

\* Mistake: the dead worker is taken for a peasant without a job.
KillWorkerJobless(w, f, i) ==
    LET worker == w.firm[f].workers[i]
        fewer == IF worker.home = 0 THEN w ELSE DecPop(w, worker.home, FALSE)
    IN  RemoveWorker(IF worker.spy = 0 THEN fewer ELSE DelSpy(fewer, worker.spy), f, i)

KillWorker(w, f, i) ==
    LET worker == w.firm[f].workers[i]
        fewer == IF worker.home = 0 THEN w ELSE DecPop(w, worker.home, TRUE)
        clean == IF worker.spy = 0 THEN fewer ELSE DelSpy(fewer, worker.spy)
    IN  RemoveWorker(clean, f, i)

AssignOverseer(w, f, u) ==
    LET free == IF w.firm[f].overseer = 0 THEN w ELSE MobilizeOverseer(w, f)
        s == w.unit[u].spy
        led == [free EXCEPT !.firm[f].overseer = u,
                            !.unit[u].mode = "oversee", !.unit[u].para = f]
    IN  IF s = 0 THEN led ELSE SetPlace(led, s, "firm", f)

\* The homes that a new worker of firm f may get, each with the world in which
\* it has moved in: a town of the nation with room, else a new one, else none.
AssignSettle(w, f, space) ==
    LET own == {t \in Town : /\ w.town[t].nation = w.firm[f].nation
                             /\ w.town[t].population \in 1..(MAX_TOWN_POPULATION - 1)}
        free == {t \in Town : w.town[t] = NoTown}
        founded(t) == [w EXCEPT !.town[t] = [NoTown EXCEPT !.nation = w.firm[f].nation,
                                                           !.population = 1]]
    IN  IF own # {} THEN {<<IncPop(w, t, TRUE), t>> : t \in own}
        ELSE IF space /\ free # {} THEN {<<founded(NewTown(w)), NewTown(w)>>}
        ELSE {<<w, 0>>}

\* The unit u becomes a worker, with home h.
Employ(w, f, u, h) ==
    LET s == w.unit[u].spy
        hired == [w EXCEPT !.firm[f].workers = Append(@, [home |-> h, spy |-> s]),
                           !.unit[u].spy = 0]
    IN  DelUnit(IF s = 0 THEN hired ELSE SetPlace(hired, s, "firm", f), u)

TrueNation(w, u) ==
    IF w.unit[u].spy # 0 THEN w.spy[w.unit[u].spy].true ELSE w.unit[u].nation

\* In a full firm the worst worker, which may be any, makes room.
AssignWorker(w, f, u, space) ==
    LET n == Len(w.firm[f].workers)
        ready == IF n < MAX_WORKER THEN {w}
                 ELSE {ResignWorker(w, f, i, TRUE) : i \in 1..n}
        settled == IF f \in LiveInTown
                   THEN UNION {AssignSettle(r, f, space) : r \in ready}
                   ELSE {<<r, 0>> : r \in ready}
    IN  IF n = MAX_WORKER /\ TrueNation(w, u) # w.firm[f].nation THEN {w}
        ELSE {IF f \in LiveInTown /\ x[2] = 0 THEN x[1]
              ELSE Employ(x[1], f, u, x[2]) : x \in settled}

-----------------------------------------------------------------------------
(* Changes of nation *)

\* Mistake: the spies in the firm keep their cloaks.
FirmChangeNationBare(w, f, n) == [w EXCEPT !.firm[f].nation = n]

FirmChangeNation(w, f, n) ==
    [w EXCEPT !.firm[f].nation = n,
              !.spy = [s \in Spy |->
                  IF s \in SpiesIn(w, "firm", f) /\ w.spy[s].cloaked = w.firm[f].nation
                  THEN [w.spy[s] EXCEPT !.cloaked = n] ELSE w.spy[s]]]

\* Mistake: the firm keeps its nation.
UnitChangeNationAlone(w, u, n) == [w EXCEPT !.unit[u].nation = n]

\* The firm of an overseer goes with it.
UnitChangeNation(w, u, n) ==
    LET turned == [w EXCEPT !.unit[u].nation = n]
        f == w.unit[u].para
    IN  IF w.unit[u].mode = "oversee" /\ w.firm[f].nation # n
        THEN FirmChangeNation(turned, f, n) ELSE turned

SpyChangeNation(w, u, n) ==
    IF w.unit[u].nation = n THEN w
    ELSE UnitChangeNation([w EXCEPT !.spy[w.unit[u].spy].cloaked = n], u, n)

\* The spies in the town take the colour of the new nation; the trainee's
\* nation is changed as that of any unit, also when the trainee is a spy.
TownSetNation(w, t, n) ==
    LET cloaked == [w EXCEPT
            !.town[t].nation = n,
            !.spy = [s \in Spy |->
                IF s \in SpiesIn(w, "town", t) /\ w.spy[s].cloaked = w.town[t].nation
                THEN [w.spy[s] EXCEPT !.cloaked = n] ELSE w.spy[s]]]
    IN  IF w.town[t].nation = n THEN w
        ELSE IF w.town[t].trainee = 0 THEN cloaked
        ELSE UnitChangeNation(cloaked, w.town[t].trainee, n)

\* Mistake: nobody thinks of the spies.
HandOverKeepSpies(w, from, to) ==
    [w EXCEPT
        !.unit = [u \in Unit |-> IF w.unit[u].nation = from /\ w.unit[u].mode # "none"
                                 THEN [w.unit[u] EXCEPT !.nation = to] ELSE w.unit[u]],
        !.firm = [f \in Firm |-> IF w.firm[f].nation = from
                                 THEN [w.firm[f] EXCEPT !.nation = to] ELSE w.firm[f]],
        !.town = [t \in Town |-> IF w.town[t].nation = from
                                 THEN [w.town[t] EXCEPT !.nation = to] ELSE w.town[t]]]

\* Units first, because overseers take their firms with them.
HandOver(w, from, to) ==
    LET turnUnit(v, u) ==
            IF v.unit[u].nation # from \/ v.unit[u].mode = "none" THEN v
            ELSE IF v.unit[u].spy # 0 THEN SpyChangeNation(v, u, to)
            ELSE UnitChangeNation(v, u, to)
        turnFirm(v, f) == IF v.firm[f].nation # from THEN v ELSE FirmChangeNation(v, f, to)
        turnTown(v, t) == IF v.town[t].nation # from THEN v ELSE TownSetNation(v, t, to)
        units == FoldSet(LAMBDA u, v : turnUnit(v, u), w, Unit)
        firms == FoldSet(LAMBDA f, v : turnFirm(v, f), units, Firm)
        towns == FoldSet(LAMBDA t, v : turnTown(v, t), firms, Town)
    IN  [towns EXCEPT !.spy = [s \in Spy |->
            IF towns.spy[s].true = from THEN [towns.spy[s] EXCEPT !.true = to]
            ELSE towns.spy[s]]]

-----------------------------------------------------------------------------
(* Calling people out of a town; each result is a world and the new unit,   *)
(* or 0 if there is none                                                    *)

UnjobTownPeople(w, t) == {ResignWorker(w, x[1], x[2], TRUE) : x \in LivingIn(w, t)}

\* Without a peasant to recruit, a worker loses its job, even if no land is found.
MobilizeTownPeople(w, t, decPop, withSpies, space) ==
    LET ready == IF Recruitable(w, t, withSpies) # 0 THEN {w} ELSE UnjobTownPeople(w, t)
        called(r) == AddUnit(r, NewUnit(r), r.town[t].nation)
    IN  IF ready = {} THEN {<<w, 0>>}
        ELSE IF ~space THEN {<<r, 0>> : r \in ready}
        ELSE {<<IF decPop THEN DecPop(called(r), t, FALSE) ELSE called(r), NewUnit(r)>> :
                r \in ready}

MobilizeTownSpy(w, s, decPop, space) ==
    {IF x[2] = 0 THEN x
     ELSE <<SetPlace([x[1] EXCEPT !.unit[x[2]].spy = s], s, "mobile", x[2]), x[2]>> :
        x \in MobilizeTownPeople(w, w.spy[s].para, decPop, TRUE, space)}

\* Worlds and units after recruit has called somebody out of the town.  The
\* more spies among the recruitable, the likelier one of them is called, foreign
\* ones first; own spies only when no honest peasant is left.
CallOut(w, t, decPop, space) ==
    LET count == Recruitable(w, t, TRUE)
        here == SpiesIn(w, "town", t)
        foreign == {s \in here : w.spy[s].true # w.town[t].nation}
        chosen == IF foreign # {} THEN foreign
                  ELSE IF count > w.town[t].spies THEN {} ELSE here
        \* the spy could not be called out: recruit goes on with a peasant
        aspy(s) == UNION {IF x[2] # 0 THEN {x}
                          ELSE MobilizeTownPeople(x[1], t, decPop, FALSE, space) :
                            x \in MobilizeTownSpy(w, s, decPop, space)}
        peasant == MobilizeTownPeople(w, t, decPop, FALSE, space)
    IN  (IF w.town[t].spies >= 1 THEN UNION {aspy(s) : s \in chosen} ELSE {})
        \cup (IF w.town[t].spies < count \/ chosen = {} THEN peasant ELSE {})

GetKilled(w, s) ==
    LET p == w.spy[s].para
        place == w.spy[s].place
        u == w.firm[p].overseer
        workers == {i \in 1..Len(w.firm[p].workers) : w.firm[p].workers[i].spy = s}
    IN  IF place = "town" THEN DelSpy(DecPop(w, p, FALSE), s)
        ELSE IF place = "mobile" THEN DelUnit(w, p)
        ELSE IF u # 0 /\ w.unit[u].spy = s THEN KillOverseer(w, p)
        ELSE IF workers # {} THEN KillWorker(w, p, Pick(workers))
        ELSE w

-----------------------------------------------------------------------------
Orders(W) == (\E w \in W : Become(w)) /\ UNCHANGED gone
Living == Nation \ gone
OnMap == {u \in Unit : unit[u].mode = "map"}
Settled == {t \in Town : TownThere(World, t)}
Open == {f \in Firm : FirmThere(World, f)}
Active == {s \in Spy : spy[s] # NoSpy}

\* Everybody: a trainee and a worker with a home are counted by the town.
HeadCount(w) ==
    FoldSet(LAMBDA t, n : n + w.town[t].population, 0, Town)
    + FoldSet(LAMBDA f, n : n + Len(w.firm[f].workers), 0, Firm \ LiveInTown)
    + Cardinality({u \in Unit : w.unit[u].mode \in {"map", "oversee"}})

(* Life in the towns *)

PopulationGrow(t) ==
    /\ t \in Settled
    /\ town[t].population < MAX_TOWN_POPULATION
    /\ HeadCount(World) < MaxPeople
    /\ Orders({IncPop(World, t, FALSE)})

\* To a recruit without training, the people of the town are all the same.
Recruit(t, space) ==
    /\ t \in Settled /\ town[t].nation # 0
    /\ Recruitable(World, t, TRUE) > 0
    /\ Orders({x[1] : x \in CallOut(World, t, TRUE, space)})

\* The unit x[2] called out for training leaves the map and stays a peasant.
Train(x, t, skilled) ==
    IF x[2] = 0 THEN x[1]
    ELSE [x[1] EXCEPT !.town[t].trainee = x[2],
                      !.unit[x[2]].mode = "training", !.unit[x[2]].para = t,
                      !.unit[x[2]].skilled = skilled]

RecruitToTrain(t, space) ==
    /\ t \in Settled /\ town[t].nation # 0 /\ town[t].trainee = 0
    /\ Recruitable(World, t, TRUE) > 0
    /\ Orders({Train(x, t, TRUE) : x \in CallOut(World, t, FALSE, space)})

\* A new spy of the town's own nation.
AddSpy(x, t) ==
    LET s == NewSpy(x[1])
    IN  IF x[2] = 0 THEN x
        ELSE <<[x[1] EXCEPT !.unit[x[2]].spy = s,
                            !.spy[s] = [true |-> x[1].unit[x[2]].nation,
                                        cloaked |-> x[1].unit[x[2]].nation,
                                        place |-> "mobile", para |-> x[2],
                                        exposed |-> FALSE]], x[2]>>

\* Training a spy avoids the spies; where there is nobody else, one is uncloaked.
RecruitToSpy(t, space) ==
    LET honest == Recruitable(World, t, TRUE) > town[t].spies
        first == Pick(SpiesIn(World, "town", t))
    IN  /\ t \in Settled /\ town[t].nation # 0 /\ town[t].trainee = 0
        /\ Recruitable(World, t, TRUE) > 0
        /\ \E s \in Spy : spy[s] = NoSpy
        /\ Orders(IF honest
                  THEN {Train(AddSpy(x, t), t, FALSE) :
                          x \in MobilizeTownPeople(World, t, FALSE, FALSE, space)}
                  ELSE {IF x[2] = 0 THEN x[1]
                        ELSE SpyChangeNation(x[1], x[2], spy[first].true) :
                          x \in MobilizeTownSpy(World, first, TRUE, space)})

\* Training ends early when the town has no honest peasant left for the trainee.
ProcessTrain(t, space) ==
    LET u == town[t].trainee
        trained == [World EXCEPT !.unit[u].mode = "map", !.unit[u].para = 0,
                                 !.unit[u].skilled = FALSE, !.town[t].trainee = 0]
    IN  /\ t \in Settled /\ u # 0
        /\ Orders(IF town[t].jobless = 0 \/ town[t].spies = town[t].jobless
                  THEN {[DelUnit(World, u) EXCEPT !.town[t].trainee = 0]}
                  ELSE IF space THEN {DecPop(trained, t, FALSE)} ELSE {})

\* A spy who was in the town before the training goes back to the peasants.
CancelTrainUnit(t) ==
    LET u == town[t].trainee
        s == unit[u].spy
        back == IF s # 0 /\ unit[u].skilled
                THEN [SetPlace(World, s, "town", t) EXCEPT !.unit[u].spy = 0] ELSE World
    IN  /\ t \in Settled /\ u # 0
        /\ Orders({[DelUnit(back, u) EXCEPT !.town[t].trainee = 0]})

\* Peasants who are no spies move to another town, or get lost on the way there.
ThinkMigrate(t, dest) ==
    /\ t \in Settled /\ dest \in Settled \ {t}
    /\ Recruitable(World, t, FALSE) # 0
    /\ town[dest].population < MAX_TOWN_POPULATION
    /\ Orders({IncPop(DecPop(World, t, FALSE), dest, FALSE), DecPop(World, t, FALSE)})

\* Mistake: a spy never moves.
MovePopHonest(w, t, dest, hasJob) == {DecPop(IncPop(w, dest, hasJob), t, hasJob)}

\* The town is ordered to send somebody: a peasant, and when all of them are
\* spies a spy; or a worker who lives here changes homes.
MovePop(w, t, dest, hasJob) ==
    LET only == ~hasJob /\ w.town[t].spies = w.town[t].jobless
        moved(v) == DecPop(IncPop(v, dest, hasJob), t, hasJob)
    IN  IF ~only THEN {moved(w)}
        ELSE {moved([w EXCEPT !.spy[s].para = dest, !.town[t].spies = @ - 1,
                              !.town[dest].spies = @ + 1]) :
                s \in SpiesIn(w, "town", t)}

\* All peasants but the trainee are known for spies, and he is one too.
OnlyTraineeHonest(t) ==
    /\ town[t].trainee # 0 /\ unit[town[t].trainee].spy # 0
    /\ town[t].spies > 0 /\ town[t].jobless = town[t].spies + 1

MigrateTo(t, dest) ==
    /\ t \in Settled /\ dest \in Settled \ {t}
    /\ town[dest].nation = town[t].nation \/ "stale_migrate" \in Rare
    /\ OnlyTraineeHonest(t) => "migrate_trainee" \in Rare
    /\ town[dest].population < MAX_TOWN_POPULATION
    /\ Orders(IF Recruitable(World, t, TRUE) > 0 THEN MovePop(World, t, dest, FALSE)
              ELSE UNION {MovePop([World EXCEPT !.firm[x[1]].workers[x[2]].home = dest],
                                  t, dest, TRUE) : x \in LivingIn(World, t)})

\* The victim may be a spy.  Workers are called home to be killed.
KillTownPeople(t) ==
    LET ready == IF Recruitable(World, t, TRUE) = 0 THEN UnjobTownPeople(World, t)
                 ELSE {World}
        victims(w) ==
            (IF w.town[t].spies >= 1
             THEN {DelSpy(w, s) : s \in SpiesIn(w, "town", t)} ELSE {})
            \cup (IF w.town[t].spies < Recruitable(w, t, TRUE) THEN {w} ELSE {})
    IN  /\ t \in Settled
        /\ Orders(UNION {{DecPop(v, t, FALSE) : v \in victims(w)} : w \in ready})

Surrender(t, n) ==
    /\ t \in Settled /\ n \in Living \ {town[t].nation}
    /\ town[t].trainee # 0 /\ unit[town[t].trainee].spy # 0 => "surrender_spy" \in Rare
    /\ Orders({TownSetNation(World, t, n)})

(* Units and firms *)

AssignToTown(u, t) ==
    /\ u \in OnMap /\ t \in Settled
    /\ Orders({TownAssignUnit(World, t, u)})

\* A unit founds a town.
Settle(u) ==
    LET free == {t \in Town : town[t] = NoTown}
        founded == [World EXCEPT !.town[NewTown(World)].nation = unit[u].nation]
    IN  /\ u \in OnMap /\ unit[u].nation # 0 /\ free # {}
        /\ Orders({TownAssignUnit(founded, NewTown(World), u)})

\* A camp takes a general as overseer and anybody else as worker, in a firm
\* without overseers all are workers, but not those of another nation.
AssignToFirm(u, f, space) ==
    /\ u \in OnMap /\ f \in Open
    /\ \/ /\ f \in NeedOverseer /\ unit[u].nation = firm[f].nation
          /\ Orders({AssignOverseer(World, f, u)})
       \/ /\ f \in NeedOverseer \/ unit[u].nation = firm[f].nation
          /\ Orders(AssignWorker(World, f, u, space))

\* The firm hires a peasant of a town, who may be a spy.
PullTownPeople(f, t) ==
    LET count == Recruitable(World, t, TRUE)
        left == IF f \in LiveInTown THEN [World EXCEPT !.town[t].jobless = @ - 1]
                ELSE DecPop(World, t, FALSE)
        home == IF f \in LiveInTown THEN t ELSE 0
        hired(s) == [left EXCEPT !.firm[f].workers = Append(@, [home |-> home, spy |-> s])]
    IN  /\ f \in Open /\ t \in Settled
        /\ Len(firm[f].workers) < MAX_WORKER
        /\ count > 0
        /\ Orders((IF town[t].spies >= 1
                   THEN {SetPlace(hired(s), s, "firm", f) : s \in SpiesIn(World, "town", t)}
                   ELSE {})
                  \cup (IF town[t].spies < count THEN {hired(0)} ELSE {}))

WorkerIds(f) == 1..Len(firm[f].workers)

MobilizeWorkerOrder(f, i, space) ==
    /\ f \in Open /\ i \in WorkerIds(f)
    /\ Orders({MobilizeWorker(World, f, i, space)})

ChangeHome(f, i, t) ==
    [IncPop(DecPop(World, firm[f].workers[i].home, TRUE), t, TRUE)
        EXCEPT !.firm[f].workers[i].home = t]

\* A worker thinks of moving by itself.
WorkerMigrate(f, i, t) ==
    /\ f \in Open /\ i \in WorkerIds(f) /\ t \in Settled
    /\ firm[f].workers[i].home \notin {0, t}
    /\ town[t].population < MAX_TOWN_POPULATION
    /\ Orders({ChangeHome(f, i, t)})

\* set_worker_home_town: the home town again means resignation; a worker whose
\* home is of the firm's nation moves, whether or not the other town is full.
SetWorkerHomeTown(f, i, t) ==
    LET home == firm[f].workers[i].home
    IN  /\ f \in Open /\ i \in WorkerIds(f) /\ t \in Settled /\ home # 0
        /\ IF home = t THEN Orders({ResignWorker(World, f, i, TRUE)})
           ELSE /\ LET s == firm[f].workers[i].spy
                   IN  \/ town[home].nation = firm[f].nation
                       \/ s # 0 /\ spy[s].true = firm[f].nation
                /\ town[t].population < MAX_TOWN_POPULATION \/ "stale_home" \in Rare
                /\ Orders({ChangeHome(f, i, t)})

\* Without free land the overseer stays, and nothing changes.
MobilizeOverseerOrder(f) ==
    /\ f \in Open /\ firm[f].overseer # 0
    /\ Orders({MobilizeOverseer(World, f)})

\* A firm that is sold or destroyed sends its people out: workers to their
\* homes, the others to its own land, the overseer first.  Whom that has no room
\* for dies, but a spy among the workers lost so keeps his record.
FirmDeinit(f, room) ==
    LET led == firm[f].overseer # 0
        out == IF ~led THEN World
               ELSE IF room > 0 THEN MobilizeOverseer(World, f) ELSE KillOverseer(World, f)
        left == IF led THEN room - 1 ELSE room
        empty == FoldSet(LAMBDA i, w : ResignWorker(w, f, 1, i <= left), out, WorkerIds(f))
        lost == ToSet(empty.firm[f].workers)
    IN  /\ f \in Open
        /\ (\E worker \in lost : worker.spy # 0) => "deinit_spy" \in Rare
        /\ Orders({[empty EXCEPT !.firm[f].nation = 0, !.firm[f].workers = <<>>]})

UnitDies(u) == u \in OnMap /\ Orders({DelUnit(World, u)})

\* Spies do not betray here.
UnitBetrays(u, n) ==
    /\ unit[u].mode \in {"map", "oversee"} /\ unit[u].spy = 0 /\ unit[u].nation # 0
    /\ n \in Living \ {unit[u].nation}
    /\ Orders({UnitChangeNation(World, u, n)})

(* Spies *)

\* Without free land mobilize_overseer deletes a spy who oversees the firm, and
\* mobilize_firm_spy goes on with the worker behind the last one: left out.
MobilizeSpy(s, space) ==
    LET f == spy[s].para
        workers == {i \in WorkerIds(f) : firm[f].workers[i].spy = s}
    IN  \/ /\ s \in Active /\ spy[s].place = "town"
           /\ Orders({x[1] : x \in MobilizeTownSpy(World, s, TRUE, space)})
        \/ /\ s \in Active /\ spy[s].place = "firm"
           /\ Orders(IF firm[f].overseer # 0 /\ unit[firm[f].overseer].spy = s
                     THEN IF space THEN {MobilizeOverseer(World, f)} ELSE {}
                     ELSE {MobilizeWorker(World, f, Pick(workers), space)})

\* The spy becomes an ordinary person of the nation it is cloaked as.
DropSpyIdentity(s) ==
    LET p == spy[s].para
        u == firm[p].overseer
        workers == {i \in WorkerIds(p) : firm[p].workers[i].spy = s}
        forgotten ==
            IF spy[s].place = "mobile" THEN [World EXCEPT !.unit[p].spy = 0]
            ELSE IF spy[s].place = "town" THEN World
            ELSE IF u # 0 /\ unit[u].spy = s THEN [World EXCEPT !.unit[u].spy = 0]
            ELSE [World EXCEPT !.firm[p].workers[Pick(workers)].spy = 0]
    IN  /\ s \in Active
        /\ Orders({DelSpy(forgotten, s)})

ChangeCloak(s, n) ==
    /\ s \in Active /\ spy[s].place = "mobile" /\ unit[spy[s].para].mode = "map"
    /\ n \in (Living \cup {0}) \ {spy[s].cloaked}
    /\ Orders({SpyChangeNation(World, spy[s].para, n)})

\* Somebody looks at the secrets of the town or firm; the next day the spy is
\* killed unless he wears his true colour by then.
SetExposed(s) ==
    /\ s \in Active /\ spy[s].place \in {"town", "firm"} /\ ~spy[s].exposed
    /\ Orders({[World EXCEPT !.spy[s].exposed = TRUE]})

LoseTrainee(s) ==
    LET p == spy[s].para
    IN  \/ spy[s].place = "mobile" /\ unit[p].mode = "training"
        \/ spy[s].place = "town" /\ town[p].trainee # 0 /\ town[p].jobless = 1

NextDay(s) ==
    /\ s \in Active /\ spy[s].exposed
    /\ spy[s].true # spy[s].cloaked /\ LoseTrainee(s) => "killed_training" \in Rare
    /\ Orders({IF spy[s].true # spy[s].cloaked THEN GetKilled(World, s)
               ELSE [World EXCEPT !.spy[s].exposed = FALSE]})

\* Counterspies of the place catch a foreign spy, unless all are foreign spies.
\* In a town this follows process_train in the same call of next_day.
CatchSpy(s) ==
    LET place == spy[s].place
        p == spy[s].para
        nation == IF place = "town" THEN town[p].nation ELSE firm[p].nation
        total == IF place = "town" THEN town[p].population
                 ELSE Len(firm[p].workers) + (IF firm[p].overseer # 0 THEN 1 ELSE 0)
    IN  /\ s \in Active /\ place \in {"town", "firm"} /\ spy[s].true # nation
        /\ place = "town" /\ town[p].trainee # 0 => town[p].spies # town[p].jobless
        /\ Cardinality({x \in SpiesIn(World, place, p) : spy[x].true # nation}) # total
        /\ Orders({GetKilled(World, s)})

\* The overseer captures a camp: the workers who are no spies and do not obey
\* leave.  (The loop goes on behind the place of one who left.)
Follow(f, space) ==
    LET step(w, i) == IF i > Len(w.firm[f].workers) \/ w.firm[f].workers[i].spy # 0
                      THEN {w} ELSE {w, MobilizeWorker(w, f, i, space)}
        after[i \in 0..MAX_WORKER] ==
            IF i = 0 THEN {World} ELSE UNION {step(w, i) : w \in after[i - 1]}
    IN  after[MAX_WORKER]

CaptureFirm(s, space) ==
    LET f == spy[s].para
        u == firm[f].overseer
        own(worker) == worker.spy # 0 /\ spy[worker.spy].true = spy[s].true
    IN  /\ s \in Active /\ spy[s].place = "firm"
        /\ \/ /\ u # 0 /\ unit[u].spy = s
              /\ Orders({SpyChangeNation(w, u, spy[s].true) : w \in Follow(f, space)})
           \/ /\ f \notin NeedOverseer
              /\ \A i \in WorkerIds(f) : own(firm[f].workers[i])
              /\ Orders({FirmChangeNation(World, f, spy[s].true)})

\* The overseer dies, the spy dies, or both.
Assassinate(s) ==
    LET f == spy[s].para
        u == firm[f].overseer
        others == {i \in WorkerIds(f) :
                    LET x == firm[f].workers[i].spy
                    IN  IF x = 0 THEN TRUE ELSE spy[x].true = firm[f].nation}
        done == KillOverseer(World, f)
    IN  /\ s \in Active /\ spy[s].place = "firm"
        /\ u # 0 /\ unit[u].spy # s
        /\ Orders({done, GetKilled(World, s)}
                  \cup (IF others # {} THEN {GetKilled(done, s)} ELSE {}))

\* The person bribed becomes a spy of the briber, or the briber is killed.
SpyBribe(s, i) ==
    LET f == spy[s].para
        u == firm[f].overseer
        old == IF i = 0 THEN unit[u].spy ELSE firm[f].workers[i].spy
        new == NewSpy(World)
        made == [World EXCEPT !.spy[new] =
                    [NoSpy EXCEPT !.true = spy[s].true, !.cloaked = spy[s].cloaked]]
        bribed == IF i = 0 THEN [made EXCEPT !.unit[u].spy = new]
                  ELSE [made EXCEPT !.firm[f].workers[i].spy = new]
    IN  /\ s \in Active /\ spy[s].place = "firm"
        /\ i \in WorkerIds(f) \cup (IF u # 0 THEN {0} ELSE {})
        /\ IF old = 0 THEN TRUE
           ELSE spy[old].true # spy[s].true /\ "bribe_spy" \in Rare
        /\ \E x \in Spy : spy[x] = NoSpy
        /\ Orders({SetPlace(bribed, new, "firm", f), GetKilled(World, s)})

\* A nation joins another one.
HandOverTo(from, to) ==
    /\ from \in Living /\ to \in Living \ {from}
    /\ gone' = gone \cup {from}
    /\ Become(HandOver(World, from, to))

-----------------------------------------------------------------------------
\* What moves people, and what may let them be born or die.
Move ==
    \/ \E t \in Town : CancelTrainUnit(t)
    \/ \E t \in Town : \E space \in Space("town") : Recruit(t, space)
    \/ \E t \in Town : \E space \in Space("town") : RecruitToTrain(t, space)
    \/ \E t \in Town : \E space \in Space("town") : RecruitToSpy(t, space)
    \/ \E t \in Town : \E space \in Space("town") : ProcessTrain(t, space)
    \/ \E t, dest \in Town : MigrateTo(t, dest)
    \/ \E t \in Town, n \in Nation : Surrender(t, n)
    \/ \E u \in Unit, t \in Town : AssignToTown(u, t)
    \/ \E u \in Unit : Settle(u)
    \/ \E u \in Unit, f \in Firm : \E space \in Space("town") : AssignToFirm(u, f, space)
    \/ \E f \in Firm, t \in Town : PullTownPeople(f, t)
    \/ \E f \in Firm : \E i \in WorkerIds(f), space \in Space("firm") :
          MobilizeWorkerOrder(f, i, space)
    \/ \E f \in Firm : \E i \in WorkerIds(f), t \in Town : WorkerMigrate(f, i, t)
    \/ \E f \in Firm : \E i \in WorkerIds(f), t \in Town : SetWorkerHomeTown(f, i, t)
    \/ \E f \in Firm : MobilizeOverseerOrder(f)
    \/ \E f \in Firm : FirmDeinit(f, MAX_WORKER + 1)
    \/ \E u \in Unit, n \in Nation : UnitBetrays(u, n)
    \/ \E s \in Spy : \E space \in Space("town") : MobilizeSpy(s, space)
    \/ \E s \in Spy : DropSpyIdentity(s)
    \/ \E s \in Spy, n \in Nation \cup {0} : ChangeCloak(s, n)
    \/ \E s \in Spy : SetExposed(s)
    \/ \E s \in Spy : \E space \in Space("firm") : CaptureFirm(s, space)
    \/ \E m, n \in Nation : HandOverTo(m, n)

LifeAndDeath ==
    \/ \E f \in Firm : \E room \in Cramped : FirmDeinit(f, room)
    \/ \E t \in Town : PopulationGrow(t)
    \/ \E t, dest \in Town : ThinkMigrate(t, dest)
    \/ \E t \in Town : KillTownPeople(t)
    \/ \E u \in Unit : UnitDies(u)
    \/ \E s \in Spy : NextDay(s)
    \/ \E s \in Spy : CatchSpy(s)
    \/ \E s \in Spy : Assassinate(s)
    \/ \E s \in Spy : \E i \in 0..MAX_WORKER : SpyBribe(s, i)

Next == Move \/ LifeAndDeath

Init == town = Start.town /\ firm = Start.firm /\ unit = Start.unit /\ spy = Start.spy /\ gone = {}

Spec == Init /\ [][Next]_vars

-----------------------------------------------------------------------------
\* Every record is one the arrays may hold; no town is above its limit and no
\* firm has more workers than it has places (Town::init_pop, Firm::assign_worker).
TypeOK ==
    /\ town \in [Town -> [nation : Nation \cup {0}, population : 0..MAX_TOWN_POPULATION,
                          jobless : 0..MAX_TOWN_POPULATION, spies : 0..MAX_TOWN_POPULATION,
                          trainee : Unit \cup {0}]]
    /\ \A f \in Firm : /\ firm[f].nation \in Nation \cup {0}
                       /\ Len(firm[f].workers) <= MAX_WORKER
                       /\ \A i \in WorkerIds(f) :
                             firm[f].workers[i] \in [home : Town \cup {0}, spy : Spy \cup {0}]
                       /\ firm[f].overseer \in Unit \cup {0}
    /\ unit \in [Unit -> [nation : Nation \cup {0}, spy : Spy \cup {0},
                          mode : {"none", "map", "training", "oversee"},
                          para : Town \cup Firm \cup {0}, skilled : BOOLEAN]]
    /\ spy \in [Spy -> [true : Nation \cup {0}, cloaked : Nation \cup {0},
                        place : {"none", "mobile", "town", "firm"},
                        para : Town \cup Firm \cup Unit \cup {0},
                        exposed : BOOLEAN]]

\* A town's peasants without a job and the workers who live in it are its
\* population, as the err_when of Town::next_day demand: every hiring, resignation,
\* death and move of a worker has to change town and firm together.
JobsAddUp ==
    \A t \in Town : town[t].jobless + Cardinality(LivingIn(World, t)) = town[t].population

\* A town counts the spies among its peasants and never has more spies than
\* peasants, as the err_when of Town::next_day and Town::move_pop demand; who is
\* trained is one of the peasants.  By these numbers recruit, move_pop and
\* kill_town_people decide whether there is a spy, or anybody else, to take.
SpiesCounted ==
    \A t \in Town :
        /\ town[t].spies = Cardinality(SpiesIn(World, "town", t))
        /\ town[t].spies <= town[t].jobless
        /\ town[t].trainee # 0 => town[t].jobless > 0

\* A spy is where his record says, his place refers back to him, and in a town
\* or firm he wears its colour, as the err_when of Spy::next_day demand.  Every
\* change of nation of a place and every move of a spy has to see to it.
SpyPlaced ==
    \A s \in Active :
        LET p == spy[s].para
        IN  CASE spy[s].place = "mobile" -> unit[p].spy = s
              [] spy[s].place = "town" -> spy[s].cloaked = town[p].nation
              [] spy[s].place = "firm" ->
                    /\ spy[s].cloaked = firm[p].nation
                    /\ \/ \E i \in WorkerIds(p) : firm[p].workers[i].spy = s
                       \/ firm[p].overseer # 0 /\ unit[firm[p].overseer].spy = s
              [] OTHER -> FALSE

\* The trainee of a town and the overseer of a firm are units that say so and
\* have its nation (the err_when of Unit::next_day); whoever trains or oversees is known there; the spy in a unit
\* or among the workers refers back to it.
RolesAgree ==
    /\ \A t \in Town : town[t].trainee # 0 =>
          /\ unit[town[t].trainee].mode = "training" /\ unit[town[t].trainee].para = t
          /\ unit[town[t].trainee].nation = town[t].nation
    /\ \A f \in Firm : firm[f].overseer # 0 =>
          /\ unit[firm[f].overseer].mode = "oversee" /\ unit[firm[f].overseer].para = f
          /\ unit[firm[f].overseer].nation = firm[f].nation
    /\ \A u \in Unit :
          /\ unit[u].mode = "training" => town[unit[u].para].trainee = u
          /\ unit[u].mode = "oversee" => firm[unit[u].para].overseer = u
          /\ unit[u].spy # 0 => /\ spy[unit[u].spy].cloaked = unit[u].nation
                                /\ spy[unit[u].spy].place = IF unit[u].mode = "oversee"
                                                            THEN "firm" ELSE "mobile"
    /\ \A f \in Firm : \A i \in WorkerIds(f) :
          LET s == firm[f].workers[i].spy
          IN  s # 0 => spy[s].place = "firm" /\ spy[s].para = f

\* A nation that has joined another one owns nothing and nobody, and nobody
\* spies for it or wears its colour: the err_when of NationBase::deinit and
\* hand_over_to, for everything that was done to its people before.
NationsExist ==
    /\ \A t \in Town : town[t].nation \notin gone
    /\ \A f \in Firm : firm[f].nation \notin gone
    /\ \A u \in Unit : unit[u].nation \notin gone
    /\ \A s \in Spy : spy[s].true \notin gone /\ spy[s].cloaked \notin gone

\* Hiring, training, moving, changing sides and spying lose nobody and make
\* nobody: only births, deaths (those of people on their way out of a firm without
\* land around it among them), bribes and journeys to far towns change the number
\* of people.
PeopleConserved == [][HeadCount(World)' # HeadCount(World) => ~Move]_vars
=============================================================================
