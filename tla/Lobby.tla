------------------------------- MODULE Lobby -------------------------------
(***************************************************************************)
(* The lobby of a multiplayer game: mp_join_session and mp_select_option   *)
(* of class Game over the player pool of class MultiPlayer, up to the      *)
(* moment in which the host presses Start.                                 *)
(*                                                                         *)
(* Every machine has a pool of players, indexed by player id, and a list   *)
(* of registered players in the order they are drawn.  The host gives out  *)
(* ids and colours.  The machines are connected by ENet, pair by pair; the *)
(* older client connects to the newer one when the host tells it to.       *)
(*                                                                         *)
(* ENet is modelled as the code uses it: a connection is a channel each    *)
(* way, reliable and in order while both ends keep it; the first thing in  *)
(* it is the CONNECT event; an end that is dropped by the other sees a     *)
(* DISCONNECT event sooner or later, perhaps before the last messages.     *)
(*                                                                         *)
(* A machine has an array of ENet peers, each with a data pointer in which *)
(* MultiPlayer keeps the player it is for.  ENet takes a free peer for a   *)
(* connection, the first it finds, and leaves the pointer as it is.  Which *)
(* are free depends on attempts to connect of which the program never      *)
(* hears, so the model takes any: one never used, or one that was another  *)
(* machine's.  Peers do not run out: there are as many as players, and     *)
(* each in use or with a pointer left in it is for one other than oneself. *)
(***************************************************************************)
EXTENDS Integers, Sequences, FiniteSets, FiniteSetsExt, SequencesExt

CONSTANTS
    Machine,      \* machines, identified by their network address
    Host,         \* the one that created the session
    MAX_NATION,   \* size of the pool and of the list of players
    MAX_COLOR_SCHEME,
    BadPassword,  \* machines that give a wrong password
    MayCancel,    \* bound: machines whose player may press Cancel while joining
    MayLeave,     \* bound: machines whose player may leave the lobby
    MayBreak,     \* bound: pairs of machines whose connection may break
    MaxClick      \* bound: MaxClick[m] clicks on colours and Ready at m

ASSUME HostAssumption == Host \in Machine
ASSUME ColorAssumption ==
    /\ MAX_NATION \in Nat \ {0}
    /\ MAX_COLOR_SCHEME \in Nat
    /\ MAX_NATION <= MAX_COLOR_SCHEME

VARIABLES
    phase,         \* away, joining (mp_join_session), lobby, started, gone
    link,          \* link[m][n]: m's connection with n
    data,          \* data[m][n]: the id of the player to whom m's peer for n
                   \* points, or the free peer that was n's; 0 when it is NULL
    chan,          \* chan[m][n]: on the way from m to n
    player_pool,   \* player_pool[m]: ids in use, with their PlayerDesc
    my_player_id,  \* 0 until the host has assigned it
    reg,           \* regPlayerId, playerReadyFlag and playerColor of m
    selfReadyFlag,
    colorAssigned, \* the host's, the set of colours marked
    player_nation_color,
    clicks         \* clicks made so far

lobby == <<player_pool, my_player_id, reg, selfReadyFlag, colorAssigned,
           player_nation_color>>
vars == <<phase, link, data, chan, lobby, clicks>>

Slot   == 1 .. MAX_NATION
Color  == 1 .. MAX_COLOR_SCHEME
Client == Machine \ {Host}

Desc(m) == [machine |-> m, connecting |-> TRUE, authorized |-> FALSE]
Entry(i, c) == [id |-> i, ready |-> FALSE, color |-> c]

Ids(list) == {list[k].id : k \in DOMAIN list}
IdsOf(pool, m) == {i \in DOMAIN pool : pool[i].machine = m}
Position(list, i) == CHOOSE k \in DOMAIN list : list[k].id = i

-----------------------------------------------------------------------------
(* ENet and MultiPlayer *)

Peers(lk, m) == {n \in Machine : lk[m][n] = "up"}

\* MultiPlayer::receive: the player of an event is the one its peer points to,
\* and only when that is NULL the one with the address (no more than one).
Sender(m, n) == IF data[m][n] # 0 THEN {data[m][n]} ELSE IdsOf(player_pool[m], n)

\* The number that receive hands out with a message.
From(m, n) == CHOOSE i \in Sender(m, n) : TRUE

\* The peers that were other machines' and are free, their pointers left in them.
Leftover(m) == {x \in Machine : link[m][x] = "closed" /\ data[m][x] # 0}

\* The peer that was x's is n's now (x = n for one never used) and points to i.
TakePeer(m, x, n, i) ==
    [data EXCEPT ![m] = [p \in Machine |-> IF p = n THEN i ELSE IF p = x THEN 0 ELSE @[p]]]

\* MultiPlayer::send; what is sent to a machine that dropped the connection
\* is lost.
Push(ch, m, to, msgs) ==
    [ch EXCEPT ![m] = [n \in Machine |->
        IF n \in to /\ link[n][m] # "closed" THEN @[n] \o msgs ELSE @[n]]]

\* enet_host_connect: the answer of the other side is on its way.
Dial(ch, m, n) == Push(ch, n, {m}, <<[type |-> "CONNECT"]>>)

Dropped(ch, m, others) ==
    [n \in Machine |-> IF n \in others THEN [ch[n] EXCEPT ![m] = <<>>] ELSE ch[n]]

Taken(m, n) == [chan EXCEPT ![n][m] = Tail(@)]

\* The machine leaves: its ENet host is destroyed.
Quit(m, ch) ==
    /\ phase' = [phase EXCEPT ![m] = "gone"]
    /\ link' = [link EXCEPT ![m] = [n \in Machine |-> "closed"]]
    /\ data' = [data EXCEPT ![m] = [n \in Machine |-> 0]]
    /\ chan' = Dropped(ch, m, Machine)
    /\ player_pool' = [player_pool EXCEPT ![m] = <<>>]
    /\ my_player_id' = [my_player_id EXCEPT ![m] = 0]
    /\ reg' = [reg EXCEPT ![m] = <<>>]
    /\ selfReadyFlag' = [selfReadyFlag EXCEPT ![m] = FALSE]
    /\ player_nation_color' = [player_nation_color EXCEPT ![m] = 0]
    /\ colorAssigned' = IF m = Host THEN {} ELSE colorAssigned

Without(f, S) == [i \in DOMAIN f \ S |-> f[i]]

\* The entries with these ids, in their order.
Entries(list, ids) ==
    FlattenSeq([k \in DOMAIN list |-> IF list[k].id \in ids THEN <<list[k]>> ELSE <<>>])

\* Mistake: only the ids move up, the ready flags stay where they are.
UnregisterIdsOnly(list, lost) ==
    LET kept == Entries(list, Ids(list) \ lost)
    IN  [k \in DOMAIN kept |-> [kept[k] EXCEPT !.ready = list[k].ready]]

\* The entries behind a removed one move up.
Unregister(list, lost) == Entries(list, Ids(list) \ lost)

ColorsOf(list, ids) == {list[k].color : k \in {j \in DOMAIN list : list[j].id \in ids}}

\* Mistake: the host keeps the loss to itself.
DisconnectNoticeNone(list) == <<>>

DisconnectNotice(list) ==
    [k \in DOMAIN list |-> [type |-> "PLAYER_DISCONNECT", id |-> list[k].id]]

\* delete_player: the peer that points to the player is disconnected, whatever
\* became of its connection, and points to nobody.
PeersOf(dt, m, ids) == {n \in Machine : dt[m][n] \in ids}
Closed(lk, m, cut) ==
    [lk EXCEPT ![m] = [n \in Machine |-> IF n \in cut THEN "closed" ELSE @[n]]]

\* Mistake: the pointer is left as it is.
ClearedNever(dt, m, cut) == dt

Cleared(dt, m, cut) ==
    [dt EXCEPT ![m] = [n \in Machine |-> IF n \in cut THEN 0 ELSE @[n]]]

\* What follows a system message in the lobby: every registered player that
\* is not marked connecting is deleted.  A client that thus loses the host gives
\* up.  pool, lk, dt, ch: the pool of m, connections, pointers and channels
\* after the event.
SysMsg(m, pool, lk, dt, ch) ==
    LET lost == {i \in Ids(reg[m]) : i \notin DOMAIN pool \/ ~pool[i].connecting}
        cut  == PeersOf(dt, m, lost)
        lk2  == Closed(lk, m, cut)
        ch2  == Dropped(ch, m, cut)
    IN  IF m # Host /\ 1 \in lost
        THEN Quit(m, ch)
        ELSE /\ player_pool' = [player_pool EXCEPT ![m] = Without(pool, lost)]
             /\ link' = lk2
             /\ data' = Cleared(dt, m, cut)
             /\ reg' = [reg EXCEPT ![m] = Unregister(@, lost)]
             /\ IF m = Host
                THEN /\ colorAssigned' = colorAssigned \ ColorsOf(reg[m], lost)
                     /\ chan' = Push(ch2, m, Peers(lk2, m),
                                    DisconnectNotice(Entries(reg[m], lost)))
                ELSE /\ chan' = ch2
                     /\ UNCHANGED colorAssigned
             /\ UNCHANGED <<phase, my_player_id, selfReadyFlag, player_nation_color>>

-----------------------------------------------------------------------------
(* Events *)

Events(m, n) ==
    /\ phase[m] \in {"joining", "lobby"}
    /\ link[m][n] # "closed"
    /\ chan[n][m] # <<>>

Connect(m, n) ==
    /\ Events(m, n)
    /\ Head(chan[n][m]).type = "CONNECT"

\* The connection in answer to enet_host_connect; the other side hears of it.
Answer(m, n) ==
    IF link[m][n] = "dialled" THEN <<[type |-> "CONNECT"]>> ELSE <<>>

\* create_player: the first free slot of the pool.
FreeSlot(pool) ==
    LET free == Slot \ DOMAIN pool
    IN  {i \in free : \A j \in free : i <= j}

\* In mp_join_session: the connection to the host is there.  The lobby opens
\* and asks the host for an id and a colour.
EnterLobby(m, n) ==
    /\ Connect(m, n)
    /\ phase[m] = "joining"
    /\ phase' = [phase EXCEPT ![m] = "lobby"]
    /\ link' = [link EXCEPT ![m][n] = "up"]
    /\ chan' = Push(Taken(m, n), m, {n}, Answer(m, n) \o <<[type |-> "NEW_PLAYER"]>>)
    /\ UNCHANGED <<data, lobby, clicks>>

\* add_player, create_player: an entry i for n, if there is none.
Made(pool, i, n) ==
    [j \in DOMAIN pool \cup {i} |-> IF j \in DOMAIN pool THEN pool[j] ELSE Desc(n)]

\* The peer that was x's is for n and points to player i.
Admit(m, n, x, i) ==
    SysMsg(m, Made(player_pool[m], i, n), [link EXCEPT ![m][n] = "up"],
           TakePeer(m, x, n, i), Push(Taken(m, n), m, {n}, Answer(m, n)))

\* A connection on a peer that points to a player, or with a player in the pool;
\* the host makes an entry if there is neither.  An entry that is found is left
\* as it is, with the address and the marks it has.
PeerConnects(m, n) ==
    /\ Connect(m, n)
    /\ phase[m] = "lobby"
    /\ \/ \E i \in Sender(m, n) : Admit(m, n, n, i)
       \/ /\ m = Host
          /\ Sender(m, n) = {}
          /\ \E i \in FreeSlot(player_pool[m]) : Admit(m, n, n, i)
       \/ /\ link[m][n] = "none"
          /\ \E x \in Leftover(m) : Admit(m, n, x, data[m][x])
    /\ UNCHANGED clicks

\* Everybody else is disconnected at once.
StrangerConnects(m, n) ==
    /\ Connect(m, n)
    /\ phase[m] = "lobby"
    /\ Sender(m, n) = {}
    /\ m = Host => FreeSlot(player_pool[m]) = {}
    /\ SysMsg(m, player_pool[m], [link EXCEPT ![m][n] = "closed"], data,
              Dropped(chan, m, {n}))
    /\ UNCHANGED clicks

\* ENet reports that a connection is gone.  The pointer of its peer stays.
Disconnect(m, n) ==
    LET pool == [i \in DOMAIN player_pool[m] |->
                    [player_pool[m][i] EXCEPT !.connecting = @ /\ i \notin Sender(m, n)]]
        ch == Dropped(chan, m, {n})
    IN  /\ phase[m] \in {"joining", "lobby"}
        /\ link[m][n] \in {"dialled", "up"}
        /\ link[n][m] = "closed" \/ {m, n} \in MayBreak
        /\ IF phase[m] = "joining"
           THEN Quit(m, ch)
           ELSE SysMsg(m, pool, [link EXCEPT ![m][n] = "closed"], data, ch)
        /\ UNCHANGED clicks

Got(m, n, type) ==
    /\ Events(m, n)
    /\ phase[m] = "lobby"
    /\ link[m][n] = "up"
    /\ Head(chan[n][m]).type = type

-----------------------------------------------------------------------------
(* Messages to the host *)

AcceptMsg(i, n, contact) ==
    [type |-> "ACCEPT_NEW_PLAYER", id |-> i, machine |-> n, make_contact |-> contact]
ColorMsg(c) == [type |-> "ACCEPT_COLOR", color |-> c]
ReadyMsg(i, flag) == [type |-> "PLAYER_READY", id |-> i, flag |-> flag]

\* "send the new player the list of players": whatever is in the pool.
PlayerList(pool, f) ==
    FlattenSeq([i \in Slot |-> IF i \in DOMAIN pool \ {f}
                               THEN <<AcceptMsg(i, pool[i].machine, FALSE)>> ELSE <<>>])

\* Mistake: the flags of those that are ready already are not sent.
ReadyListNone(list) == <<>>

ReadyList(list) ==
    FlattenSeq([k \in DOMAIN list |->
                   IF list[k].ready THEN <<ReadyMsg(list[k].id, TRUE)>> ELSE <<>>])

\* NEW_PLAYER: id, announcement to all with the address that is in the entry,
\* list of players, colour, ready flags.
NewPlayer(n) ==
    LET pool == player_pool[Host]
        f    == From(Host, n)
        toAll == Push(Push(Taken(Host, n), Host, {n}, <<[type |-> "PLAYER_ID", id |-> f]>>),
                      Host, Peers(link, Host), <<AcceptMsg(f, pool[f].machine, TRUE)>>)
    IN  /\ Got(Host, n, "NEW_PLAYER")
        /\ Len(reg[Host]) < MAX_NATION
        /\ ~pool[f].authorized
        /\ n \notin BadPassword
        /\ player_pool' = [player_pool EXCEPT ![Host][f].authorized = TRUE]
        /\ \E c \in Color \ colorAssigned :
            /\ colorAssigned' = colorAssigned \cup {c}
            /\ reg' = [reg EXCEPT ![Host] = Append(@, Entry(f, c))]
            /\ chan' = Push(toAll, Host, {n},
                            PlayerList(pool, f) \o <<ColorMsg(c)>> \o ReadyList(reg[Host]))
        /\ UNCHANGED <<phase, link, data, my_player_id, selfReadyFlag, player_nation_color, clicks>>

\* Mistake: no answer.
RefusePlayerSilently(n) ==
    /\ Got(Host, n, "NEW_PLAYER")
    /\ n \in BadPassword \/ Len(reg[Host]) >= MAX_NATION
    /\ chan' = Taken(Host, n)
    /\ UNCHANGED <<phase, link, data, lobby, clicks>>

RefusePlayer(n) ==
    /\ Got(Host, n, "NEW_PLAYER")
    /\ \/ Len(reg[Host]) >= MAX_NATION
       \/ player_pool[Host][From(Host, n)].authorized
       \/ n \in BadPassword
    /\ chan' = Push(Taken(Host, n), Host, {n}, <<[type |-> "REFUSE_NEW_PLAYER"]>>)
    /\ UNCHANGED <<phase, link, data, lobby, clicks>>

\* Mistake: the colour the player had stays marked.
RecolorKeep(k, c) ==
    /\ colorAssigned' = colorAssigned \cup {c}
    /\ reg' = [reg EXCEPT ![Host][k].color = c]

\* A player changes from the colour it had to c.
Recolor(k, c) ==
    /\ colorAssigned' = (colorAssigned \ {reg[Host][k].color}) \cup {c}
    /\ reg' = [reg EXCEPT ![Host][k].color = c]

\* ACQUIRE_COLOR; a refusal changes nothing at the client.  Only the host does
\* something about it.
AcquireColor(m, n) ==
    LET f == From(m, n)
        c == Head(chan[n][m]).color
    IN  /\ Got(m, n, "ACQUIRE_COLOR")
        /\ IF m = Host /\ c \notin colorAssigned /\ f \in Ids(reg[Host])
           THEN /\ Recolor(Position(reg[Host], f), c)
                /\ chan' = Push(Taken(Host, n), Host, {n}, <<ColorMsg(c)>>)
           ELSE /\ chan' = Taken(m, n)
                /\ UNCHANGED <<colorAssigned, reg>>
        /\ UNCHANGED <<phase, link, data, player_pool, my_player_id, selfReadyFlag,
                       player_nation_color, clicks>>

-----------------------------------------------------------------------------
(* Messages to all or to clients *)

\* The host forwards a player's flag to everyone, the player included.
Forward(m, ch, msg) ==
    IF m = Host THEN Push(ch, m, Peers(link, m), <<msg>>) ELSE ch

\* PLAYER_READY and PLAYER_UNREADY.
PlayerReady(m, n) ==
    LET msg == Head(chan[n][m])
    IN  /\ Got(m, n, "PLAYER_READY")
        /\ reg' = [reg EXCEPT ![m] = [k \in DOMAIN @ |->
                      IF @[k].id = msg.id THEN [@[k] EXCEPT !.ready = msg.flag] ELSE @[k]]]
        /\ chan' = Forward(m, Taken(m, n), msg)
        /\ UNCHANGED <<phase, link, data, player_pool, my_player_id, selfReadyFlag,
                       colorAssigned, player_nation_color, clicks>>

\* PLAYER_ID: set_my_player_id, and the own entry in the list.
PlayerId(m, n) ==
    LET i == Head(chan[n][m]).id
    IN  /\ Got(m, n, "PLAYER_ID")
        /\ chan' = Taken(m, n)
        /\ IF my_player_id[m] = 0
           THEN /\ my_player_id' = [my_player_id EXCEPT ![m] = i]
                /\ player_pool' = [player_pool EXCEPT ![m] =
                       [j \in DOMAIN @ \cup {i} |-> IF j = i THEN Desc(m) ELSE @[j]]]
                /\ reg' = [reg EXCEPT ![m] = Append(@, Entry(i, 0))]
           ELSE UNCHANGED <<my_player_id, player_pool, reg>>
        /\ UNCHANGED <<phase, link, data, selfReadyFlag, colorAssigned, player_nation_color,
                       clicks>>

\* ACCEPT_NEW_PLAYER: add_player, which connects to a player not known yet if
\* told to, the pointer of the peer set to NULL, and an entry in the list, with
\* the ready flag down.
AcceptNewPlayer(m, n) ==
    LET msg  == Head(chan[n][m])
        new  == msg.id \notin DOMAIN player_pool[m]
        dial == new /\ msg.make_contact
    IN  /\ Got(m, n, "ACCEPT_NEW_PLAYER")
        /\ IF Len(reg[m]) < MAX_NATION /\ msg.id # my_player_id[m]
           THEN /\ player_pool' = [player_pool EXCEPT ![m] = Made(@, msg.id, msg.machine)]
                /\ reg' = [reg EXCEPT ![m] =
                       IF msg.id \in Ids(@) THEN [@ EXCEPT ![Position(@, msg.id)].ready = FALSE]
                                            ELSE Append(@, Entry(msg.id, 0))]
                /\ link' = IF dial THEN [link EXCEPT ![m][msg.machine] = "dialled"] ELSE link
                /\ IF dial THEN \E x \in {msg.machine} \cup Leftover(m) :
                                   data' = TakePeer(m, x, msg.machine, 0)
                           ELSE UNCHANGED data
                /\ chan' = IF dial THEN Dial(Taken(m, n), m, msg.machine) ELSE Taken(m, n)
           ELSE /\ chan' = Taken(m, n)
                /\ UNCHANGED <<player_pool, reg, link, data>>
        /\ UNCHANGED <<phase, my_player_id, selfReadyFlag, colorAssigned,
                       player_nation_color, clicks>>

\* ACCEPT_COLOR.  It bears the id of the client that asked, which is the only one
\* it is sent to, so that the comparison with the own id always holds.
AcceptColor(m, n) ==
    /\ Got(m, n, "ACCEPT_COLOR")
    /\ player_nation_color' = [player_nation_color EXCEPT ![m] = Head(chan[n][m]).color]
    /\ chan' = Taken(m, n)
    /\ UNCHANGED <<phase, link, data, player_pool, my_player_id, reg, selfReadyFlag,
                   colorAssigned, clicks>>

\* PLAYER_DISCONNECT: delete_player and the entry in the list.
PlayerDisconnect(m, n) ==
    LET i    == Head(chan[n][m]).id
        cut  == PeersOf(data, m, {i})
    IN  /\ Got(m, n, "PLAYER_DISCONNECT")
        /\ player_pool' = [player_pool EXCEPT ![m] = Without(@, {i})]
        /\ reg' = [reg EXCEPT ![m] = Unregister(@, {i})]
        /\ link' = Closed(link, m, cut)
        /\ data' = Cleared(data, m, cut)
        /\ chan' = Dropped(Taken(m, n), m, cut)
        /\ UNCHANGED <<phase, my_player_id, selfReadyFlag, colorAssigned, player_nation_color,
                       clicks>>

\* REFUSE_NEW_PLAYER and ABORT_GAME: back to the menu.
Dismissed(m, n) ==
    /\ Got(m, n, "REFUSE_NEW_PLAYER") \/ Got(m, n, "ABORT_GAME")
    /\ Quit(m, Taken(m, n))
    /\ UNCHANGED clicks

-----------------------------------------------------------------------------
(* What players do *)

JoinSession(c) ==
    /\ phase[c] = "away"
    /\ phase[Host] = "lobby"
    /\ phase' = [phase EXCEPT ![c] = "joining"]
    /\ player_pool' = [player_pool EXCEPT ![c] = <<Desc(Host)>>]
    /\ link' = [link EXCEPT ![c][Host] = "dialled"]
    /\ data' = [data EXCEPT ![c][Host] = 1]
    /\ chan' = Dial(chan, c, Host)
    /\ UNCHANGED <<my_player_id, reg, selfReadyFlag, colorAssigned, player_nation_color, clicks>>

\* Cancel in mp_join_session: it returns whether the host's entry in the pool is
\* marked connecting, which it is from the start, and so the lobby opens.  The
\* request for an id is lost, since the connection is not there yet.
CancelJoin(c) ==
    /\ c \in MayCancel
    /\ phase[c] = "joining"
    /\ player_pool[c][1].connecting
    /\ phase' = [phase EXCEPT ![c] = "lobby"]
    /\ UNCHANGED <<link, data, chan, lobby, clicks>>

Click(m) ==
    /\ phase[m] = "lobby"
    /\ clicks[m] < MaxClick[m]
    /\ clicks' = [clicks EXCEPT ![m] = @ + 1]

\* A click on a colour: the host takes it, a client asks the host.
HostClicksColor(c) ==
    /\ Click(Host)
    /\ ~selfReadyFlag[Host]
    /\ c \notin colorAssigned
    /\ Recolor(Position(reg[Host], 1), c)
    /\ player_nation_color' = [player_nation_color EXCEPT ![Host] = c]
    /\ UNCHANGED <<phase, link, data, chan, player_pool, my_player_id, selfReadyFlag>>

\* The question goes to the peer that points to player 1, if its connection is up.
\* (hostPlayerId is 0, which send takes for everybody, until the first
\* ACCEPT_NEW_PLAYER has come; nobody but the host answers, and the host has no
\* entry for a client that has not been told its id.)
ClientClicksColor(m, c) ==
    /\ m # Host
    /\ Click(m)
    /\ ~selfReadyFlag[m]
    /\ chan' = Push(chan, m, {n \in Peers(link, m) : data[m][n] = 1},
                    <<[type |-> "ACQUIRE_COLOR", color |-> c]>>)
    /\ UNCHANGED <<phase, link, data, lobby>>

ClickReady(m) ==
    LET flag == ~selfReadyFlag[m]
        i    == my_player_id[m]
    IN  /\ Click(m)
        /\ i \in Ids(reg[m])
        /\ selfReadyFlag' = [selfReadyFlag EXCEPT ![m] = flag]
        /\ reg' = [reg EXCEPT ![m][Position(reg[m], i)].ready = flag]
        /\ chan' = Push(chan, m, Peers(link, m), <<ReadyMsg(i, flag)>>)
        /\ UNCHANGED <<phase, link, data, player_pool, my_player_id, colorAssigned,
                       player_nation_color>>

\* The player goes back to the menu; the host aborts the game.
Leave(m) ==
    /\ m \in MayLeave
    /\ phase[m] \in {"joining", "lobby"}
    /\ Quit(m, IF m = Host THEN Push(chan, m, Peers(link, m), <<[type |-> "ABORT_GAME"]>>)
                           ELSE chan)
    /\ UNCHANGED clicks

\* The host starts the game when all are ready.
Start ==
    /\ phase[Host] = "lobby"
    /\ Len(reg[Host]) >= 2
    /\ \A k \in DOMAIN reg[Host] : reg[Host][k].ready
    /\ phase' = [phase EXCEPT ![Host] = "started"]
    /\ UNCHANGED <<link, data, chan, lobby, clicks>>

-----------------------------------------------------------------------------
Init ==
    /\ phase = [m \in Machine |-> IF m = Host THEN "lobby" ELSE "away"]
    /\ link = [m \in Machine |-> [n \in Machine |-> "none"]]
    /\ data = [m \in Machine |-> [n \in Machine |-> 0]]
    /\ chan = [m \in Machine |-> [n \in Machine |-> <<>>]]
    /\ player_pool = [m \in Machine |-> IF m = Host THEN <<Desc(Host)>> ELSE <<>>]
    /\ my_player_id = [m \in Machine |-> IF m = Host THEN 1 ELSE 0]
    /\ reg = [m \in Machine |-> IF m = Host THEN <<Entry(1, 1)>> ELSE <<>>]
    /\ selfReadyFlag = [m \in Machine |-> FALSE]
    /\ colorAssigned = {1}
    /\ player_nation_color = [m \in Machine |-> IF m = Host THEN 1 ELSE 0]
    /\ clicks = [m \in Machine |-> 0]

\* One call of MultiPlayer::receive that returns something, and what follows.
Receive(m, n) ==
    \/ EnterLobby(m, n)
    \/ PeerConnects(m, n)
    \/ StrangerConnects(m, n)
    \/ Disconnect(m, n)
    \/ PlayerReady(m, n)
    \/ PlayerId(m, n)
    \/ AcceptNewPlayer(m, n)
    \/ AcceptColor(m, n)
    \/ PlayerDisconnect(m, n)
    \/ Dismissed(m, n)
    \/ AcquireColor(m, n)
    \/ m = Host /\ (NewPlayer(n) \/ RefusePlayer(n))

Play(m) ==
    \/ \E c \in Color : ClientClicksColor(m, c)
    \/ ClickReady(m)
    \/ Leave(m)

Next ==
    \/ \E m, n \in Machine : Receive(m, n)
    \/ \E m \in Machine : Play(m)
    \/ \E c \in Color : HostClicksColor(c)
    \/ \E c \in Client : JoinSession(c) \/ CancelJoin(c)
    \/ Start

Spec == Init /\ [][Next]_vars

\* Every machine handles what ENet reports to it (the loops call receive for
\* ever); nothing is assumed of players.
Fairness == \A m, n \in Machine : WF_vars(Receive(m, n))

LiveSpec == Spec /\ Fairness

-----------------------------------------------------------------------------
(* Properties *)

Message ==
    [type : {"CONNECT", "NEW_PLAYER", "REFUSE_NEW_PLAYER", "ABORT_GAME"}]
        \cup [type : {"PLAYER_ID", "PLAYER_DISCONNECT"}, id : Slot]
        \cup [type : {"ACCEPT_COLOR", "ACQUIRE_COLOR"}, color : Color]
        \cup [type : {"PLAYER_READY"}, id : Slot, flag : BOOLEAN]
        \cup [type : {"ACCEPT_NEW_PLAYER"}, id : Slot, machine : Machine,
              make_contact : BOOLEAN]

Player == [machine : Machine, connecting : BOOLEAN, authorized : BOOLEAN]

\* Every variable keeps its type; the list of registered players never grows
\* beyond its array, although PLAYER_ID appends to it without a check; no peer
\* points to a player that has been deleted, and no two to the same.
TypeOK ==
    /\ phase \in [Machine -> {"away", "joining", "lobby", "started", "gone"}]
    /\ link \in [Machine -> [Machine -> {"none", "dialled", "up", "closed"}]]
    /\ data \in [Machine -> [Machine -> Slot \cup {0}]]
    /\ \A m, n \in Machine : data[m][n] # 0 =>
        /\ data[m][n] \in DOMAIN player_pool[m]
        /\ \A x \in Machine : data[m][x] = data[m][n] => x = n
    /\ \A m, n \in Machine :
        \A k \in DOMAIN chan[m][n] : chan[m][n][k] \in Message
    /\ \A m \in Machine :
        /\ DOMAIN player_pool[m] \subseteq Slot
        /\ \A i \in DOMAIN player_pool[m] : player_pool[m][i] \in Player
        /\ Len(reg[m]) <= MAX_NATION
        /\ \A k \in DOMAIN reg[m] :
            reg[m][k] \in [id : Slot, ready : BOOLEAN, color : Color \cup {0}]
    /\ my_player_id \in [Machine -> Slot \cup {0}]
    /\ selfReadyFlag \in [Machine -> BOOLEAN]
    /\ colorAssigned \subseteq Color
    /\ player_nation_color \in [Machine -> Color \cup {0}]
    /\ clicks \in [Machine -> Nat]

Linked(m, n) == link[m][n] = "up" /\ link[n][m] = "up"

UnderWay(m, n, types) == \E k \in DOMAIN chan[m][n] : chan[m][n][k].type \in types

\* The address in the k-th entry of the host's list.
Registered(k) == player_pool[Host][reg[Host][k].id].machine

\* The id under which the host hears m.
Heard(m) == IF m = Host THEN 1 ELSE data[Host][m]

\* The colours marked at the host are those of the registered players, and no
\* two players have the same colour, id or address, whatever is asked for and
\* whoever leaves.
ColorsExact ==
    /\ colorAssigned = {reg[Host][k].color : k \in DOMAIN reg[Host]}
    /\ \A k, l \in DOMAIN reg[Host] :
        k # l => /\ reg[Host][k].color # reg[Host][l].color
                 /\ reg[Host][k].id # reg[Host][l].id
                 /\ Registered(k) # Registered(l)

\* What the host has down for a player it hears is what that player sees: its
\* id, its colour, its ready flag, unless a message about it is on its way.
HostKnows ==
    \A k \in DOMAIN reg[Host], c \in Client :
        Linked(Host, c) /\ Heard(c) = reg[Host][k].id =>
            /\ ~UnderWay(Host, c, {"PLAYER_ID"}) => my_player_id[c] = reg[Host][k].id
            /\ ~UnderWay(Host, c, {"ACCEPT_COLOR"}) =>
                   player_nation_color[c] = reg[Host][k].color
            /\ ~UnderWay(c, Host, {"PLAYER_READY"}) =>
                   selfReadyFlag[c] = reg[Host][k].ready

\* An id stands for the same address at a client as at the host, also when it
\* was given to a second player, unless the notice of the first one's
\* disconnection is on its way; and the machine the host hears under an id is
\* the one at that address, but for an entry taken over from a machine that
\* left before it was registered, which is still marked as not connecting.
SameIds ==
    \A c \in Client : Linked(Host, c) =>
        /\ player_pool[Host][Heard(c)].connecting => player_pool[Host][Heard(c)].machine = c
        /\ \A i \in (DOMAIN player_pool[c] \cap DOMAIN player_pool[Host]) \ {my_player_id[c]} :
              \/ player_pool[c][i].machine = player_pool[Host][i].machine
              \/ UnderWay(Host, c, {"PLAYER_DISCONNECT"})

\* Nothing is on its way and every loss has been noticed.
Settled ==
    LET here == {m \in Machine : phase[m] \in {"joining", "lobby"}}
    IN  /\ phase[Host] = "lobby"
        /\ \A m \in here, n \in Machine :
            /\ n \in here => chan[n][m] = <<>>
            /\ link[m][n] # "dialled"
            /\ link[m][n] = "up" => link[n][m] = "up"

\* When all is settled the host has registered itself and exactly the players
\* whose machines are connected to it: nobody waits without an answer, nobody
\* is forgotten.
HostRoster ==
    Settled => Ids(reg[Host]) = {Heard(n) : n \in {Host} \cup Peers(link, Host)}

\* When all is settled, no machine connected to the host shows a wrong ready
\* flag for a player that both have in their lists.
FlagsAgree ==
    Settled =>
        \A m, n \in {Host} \cup Peers(link, Host) : \A k \in DOMAIN reg[m] :
            reg[m][k].id = Heard(n) => reg[m][k].ready = selfReadyFlag[n]

\* A machine that joins is given an id, or turned away, or loses the
\* connection, as long as the host stays in the lobby.
Joined ==
    \A c \in Client :
        phase[c] = "joining" ~>
            my_player_id[c] # 0 \/ link[c][Host] = "closed" \/ phase[Host] # "lobby"

-----------------------------------------------------------------------------
(* What comments in the code say of the lobby and does not hold: TLC finds *)
(* a behaviour that violates each of the following.                        *)

\* "notify all players of the new player", "send the new player the list of
\* players": when all is settled everybody has the same players in the list.
SameRoster ==
    Settled => \A m \in Peers(link, Host) : Ids(reg[m]) = Ids(reg[Host])

\* "Cannot continue without a game organizer": a client that has been told
\* that the connection to the host is gone does not stay in the lobby.
HostLossNoticed ==
    \A c \in Client : phase[c] = "lobby" => link[c][Host] # "closed"

\* "the ability to back out in case this doesn't work": no client is in the lobby
\* while its connection to the host is still being made.
BacksOut == \A c \in Client : phase[c] = "lobby" => link[c][Host] # "dialled"

\* "see any player disconnect": when all is settled the pool of the host has no
\* slot taken by a machine that is no longer connected.
NoSlotLost ==
    Settled => \A i \in DOMAIN player_pool[Host] : player_pool[Host][i].connecting

\* "if a player is really lost, the system message from directPlay is received":
\* a registered player that is not marked connecting, and will be deleted with the
\* next system message, is not one whose machine is connected.
LostIsLost ==
    \A n \in Peers(link, Host) :
        Heard(n) \in Ids(reg[Host]) => player_pool[Host][Heard(n)].connecting

\* "notify all players of the new player": the address a client is told belongs
\* to the machine that speaks under the id.
AddressIsPlayer ==
    \A n \in Peers(link, Host) :
        Heard(n) \in Ids(reg[Host]) => player_pool[Host][Heard(n)].machine = n
=============================================================================
