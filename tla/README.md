# Verification of 7kmapgen

7kmapgen is a map generator built from the sources of the strategy game *Seven
Kingdoms: Ancient Adversaries* (7kaa 2.14.4); the repository holds the whole game.
This project models the parts of it that are hardest to test. The first is the multiplayer
core, where several machines each run the whole game and must never differ. The others are
three parts of the game itself whose state is spread over many objects: the people in towns,
firms and units, who are counted in several places at once; the diplomacy between
nations, where what was offered is answered when the relations have changed; and the caravan
trade, where a caravan goes from firm to firm while firms disappear and orders arrive late.

## 1. Inventory

| Component | State | Operations | Hard behaviour |
|---|---|---|---|
| **ErrorControl** (`OERRCTRL.cpp/.h`) | per peer: `dp_id`, send ring with ids 0..17, `ack_flag`, `wait_to_receive`, `recv_flag`, ring of accepted frames | `send`, `receive`, `yield` (FIRST_SEND, RE_SEND, ACKNOW, NEGACK, bad CRC), `re_transmit`, `set_player_lost` | ids wrap; datagrams are lost, repeated, reordered, damaged; a player disappears |
| **Remote** (`OREMOTE*.cpp`) | `send_queue[0]`, `receive_queue[18]`, delay, turn rate | `new_send_queue_msg`, `send_queue_now`, `append_send_to_receive`, `poll_msg`, `process_receive_queue`, `init_send_queue` | orders are executed later, on all machines, in the same frame and order |
| **Sys** (`OSYS.cpp`) | `frame_count`, `remote_send_success_flag`, nations' `next_frame_ready`, `mp_save_flag`, speed | `main_loop`, `is_mp_sync`, `should_next_frame`, `set_speed`, `mp_request_save` | a send fails half-way; players are not ready; players are lost |
| **RemoteMsg** (`OREMOTEM.cpp`) | none | one handler per order | handlers assume the state at execution, not at issue |
| **MultiPlayer** (`multiplayer.cpp`) | ENet peers, pool of `PlayerDesc` | `create_session`, `join_session`, `create_player`, `add_player`, `auth_player`, `delete_player`, `send`, `receive` | peers connect and vanish at any time, ids are reused |
| **Lobby** (`OGAMEMP.cpp`) | registered players, ready flags, colours and races given out | one handler per MPMSG | concurrent joins, requests and disconnections |
| **RemoteQueue, VLenQueue** | byte buffers with a cursor and a reference count | reserve, copy, traverse | growth, shared buffers |
| **Random seed, CRC store** | seed and its lock; checksums of all objects | `lock_seed`, `record_all`, `compare_remote` | the games' only alarm when they differ |
| **Nations, diplomacy, AI** (`ONATIONA/B`, `OTALKRES`, `OTALKMSG`, `OAI_TALK`, `OAI_DIPL`) | relations, treaties, `talk_msg_array`, the computer players' action queues | `send_talk_msg`, `reply_talk_msg`, `process_talk_msg`, `set_relation_status`, `del_nation` | an offer answered after the relation changed or a nation is gone; numbers of messages used again |
| **Towns, firms, units, spies** (`OTOWN*`, `OFIRM*`, `OUNIT*`, `OSPY*`) | four arrays of objects that count each other's people and refer to each other by record number | `recruit`, `process_train`, `assign_worker`, `mobilize_worker`, `change_nation`, `set_place`, `hand_over_to`, ... | the same person counted in two objects; a spy, trainee or overseer whose place changes hands or disappears |
| **Caravans, mines, factories, markets** (`OU_CARA*`, `OF_MINE`, `OF_FACT`, `OF_MARK`) | a caravan's stops, pick-ups, cargo and journey; the stocks of the firms; the goods of a market's slots | `set_stop`, `del_stop`, `set_stop_pick_up`, `update_stop_list`, `pre_process`, `market_unload_goods`, `input_goods`, `input_raw`, ... | a stop's firm is gone, captured or another one; the list shrinks under the destination; goods that do not fit |
| **Movement, combat, paths** | positions, paths | daily processing | a referenced object is gone |
| **World, map generation, mapgen window** | terrain, sites, the seed shown | `generate_map`, clicks | reproducibility from the seed |
| **Files, UI, audio, video, input, build** | - | I/O and drawing | none that a model would show |

How they interact: the main loop of every machine alternates `Remote::poll_msg`,
`Sys::is_mp_sync` and `Sys::process`. `poll_msg` takes what `ErrorControl::receive`
accepted and files it under the frame it is stamped with. `is_mp_sync` closes the own
send queue when it is the player's turn, copies it to the own receive queue, sends it
through `ErrorControl::send`, waits or goes on, and has the orders of the frame executed.
ErrorControl uses the datagrams of MultiPlayer (ENet) and asks it whether a player is
still connected. Nothing runs in parallel within a machine; all concurrency is between
machines and the network.

The game itself is one sequential program on each machine: orders executed by the lockstep,
computer players, and the daily processing call the same functions of towns, firms, units,
spies and nations, in any order over the years. An order is checked when the player clicks
and executed some frames later.

What makes each correct: ErrorControl delivers every message to every connected player
and none twice; Remote and Sys make all machines execute the same orders in each frame,
lose none, and never stop for good; towns, firms, units and spies agree about every person;
relations are mutual and change only as offers and notices say; a caravan keeps to its stops
and visits all of them, and goods neither appear nor vanish on the way.

## 2. Modules

| Module | What it is | Code |
|---|---|---|
| `ReliableMulticast` | what ErrorControl promises: publish, deliver within a window, disconnect | `OERRCTRL.cpp` seen from outside |
| `ErrorControl` | the protocol as coded | `OERRCTRL.cpp`, `OERRCTRL.h` |
| `MCErrorControl` | instances for TLC | |
| `DataLemmas` | arithmetic modulo the number of ids; the operators on sequences, sets and sums that the modules are built from: what they return and keep | |
| `ErrorControlProofs` | theorems about ErrorControl | |
| `Lockstep` | Remote and `is_mp_sync` on every machine, over `ReliableMulticast` | `OREMOTE.cpp`, `OREMOTE2.cpp`, `OSYS.cpp` |
| `MCLockstep` | instances for TLC | |
| `LockstepProofs` | theorems about Lockstep | |
| `Lobby` | joining and the lobby on every machine, over the player pool | `multiplayer.cpp`, `OGAMEMP.cpp` (`mp_join_session`, `mp_select_option`) |
| `MCLobby` | instances for TLC | |
| `LobbyProofs` | theorems about the host in Lobby | |
| `LobbyClientProofs` | theorems about what the clients in Lobby hold | |
| `GameStart` | the broadcast of the set-up and the barrier behind it | `OGAMEMP.cpp` (end of `mp_select_option`) |
| `MCGameStart` | instances for TLC | |
| `GameStartProofs` | theorems about GameStart | |
| `People` | where people are and whom they belong to: towns, firms, units, spies | `OTOWN*.cpp`, `OFIRM*.cpp`, `OUNIT*.cpp`, `OSPY*.cpp`, `ONATIONB.cpp` (`hand_over_to`) |
| `MCPeople` | the village for TLC | |
| `Diplomacy` | relations, messages, replies, orders under way | `OTALKRES.cpp`, `OTALKMSG.cpp`, `ONATIONB.cpp`, `ONATIONA.cpp`, `OAI_TALK.cpp`, `OAI_DIPL.cpp`, `ODYNARRB.cpp` |
| `MCDiplomacy` | three nations for TLC | |
| `DiplomacyProofs` | theorems about Diplomacy | |
| `Caravan` | a caravan's stops and round, its trade, and the stocks of mines, factories and markets | `OU_CARA.cpp`, `OU_CARAS.cpp`, `OU_CARAT.cpp`, `OF_MARK.cpp`, `OF_MINE.cpp`, `OF_FACT.cpp`, `OUNITA.cpp`, `OREMOTEM.cpp` (its orders) |
| `MCCaravan` | two markets, a mine and a factory for TLC | |
| `CaravanProofs` | theorems about Caravan | |

### ErrorControl

One variable per array of the class, indexed by machine (and peer, and slot). Numbers of
messages stand for their contents. An action is one handler: `Send` is `send` to all,
`AcceptData`, `DiscardData`, `ReceiveAck`, `ReceiveNegack`, `ReceiveCorrupt` are the cases
of `yield`, `PlayerLost` is what `yield` does when a peer is no longer connected,
`ReTransmit` is one frame of the scan of `re_transmit`, `TakeReceived` is `receive`.
`AcceptData` contains the whole of the acceptance: the flag, the advance of
`wait_to_receive` over every frame in a row and the clearing of the flag behind each, the
entry in the receive ring, the ACKNOW. A frame there is no room for changes nothing and is
not acknowledged, so it is not an action. Ids are the code's and wrap. The variables
`sent`, `base`, `low` and `got` count without wrap; no guard of the code's part reads them.

The timers of `re_transmit` are abstracted: a frame may time out at any moment. Damage is
an event, not a computed CRC. A message to a single player is not modelled; the game only
broadcasts.

The network (`Transmit`, `CanArrive`, `Lose`) may lose a datagram, deliver it late, twice or
out of order. The set `net` never forgets what it delivered. Two things are assumed:
nothing comes from a player whose connection is gone (the ENet peer is gone), and
no datagram stays under way while its sender moves on by a whole window of messages after
it. The second is an assumption the protocol needs and cannot check, since 18 ids name
18 messages and the header holds nothing more. It says nothing about loss or about the order
within the window.

### Lockstep

A machine is named by the nation it plays. `Sync` is one call of `is_mp_sync` that gets past
the send (with `SendFails` for one that does not): close the queue if it is the player's
turn, copy it to the own receive queue, send it, start the next queue, process the ready
marks, hand the nation of a lost player to the computer or execute the frame and shift the
queues. After a frame `main_loop` saves the game if `mp_save_frame` has come, which is part
of `ProcessFrame`. `PollMsg` is one message in `poll_msg`, `GiveOrder` one order of the player,
`LoseConnection` what ENet reports. Messages travel by `ReliableMulticast`. Orders are
records (who, which, and the frame of a request to save); a queue is its stamp and its orders.

`Timely` is not code: it is the timing a run assumes, two numbers of frames, `Skew` (how far
machines drift apart) and `Latency` (how long a message may take). It guards `ProcessFrame`.
Set to the number of frames it assumes nothing. The runs need it, because the code
does not wait for players that are connected but late (section 5).

### Lobby

Every machine has its pool of players (`player_pool`, indexed by id, as `MultiPlayer` keeps
it), its id, its list of registered players (`reg`: the arrays `regPlayerId`,
`playerReadyFlag` and `playerColor` as one sequence), its ready flag and colour. The host
also has `colorAssigned`. A machine stands for its network address. An action is the
handling of what one call of `MultiPlayer::receive` returns, or a click. `SysMsg` is the scan
for lost players that follows every CONNECT and DISCONNECT event, with all it does: the
deletion from pool and list, the freed colour, the host's notice to the others, the client
that gives up without its host. `NewPlayer` holds the whole registration: the id, the
announcement, the list of players (everything in the pool, as the code has it), a free
colour, the ready flags.

The player of an event is the one to whom the data pointer of its ENet peer points, and only
where that is NULL the one with the address (`Sender`, `multiplayer.cpp:713`). `data[m][n]` is
that pointer, of the peer that is n's at m or was before it became free. A DISCONNECT clears
the mark of the entry (`connecting`) and leaves the pointer; only `delete_player` sets it to
NULL (`Cleared`), and the scan of the lobby calls that for registered players. ENet gives a
connection any free peer as it is, so the next machine to connect may get the pointer that an
earlier one left (`Leftover`, `TakePeer`), and with it that machine's entry: its id, its
address and its marks. Which peers are free depends also on attempts to connect of which the
program never hears, so the model lets ENet take one never used or any left over. That no two
peers are one machine's is part of the model, since between two machines there is one
connection.

ENet is external. A connection is a channel each way, reliable and in order, whose first
element is the CONNECT event. When one end drops it the other gets a DISCONNECT event, at any
time, perhaps before the last messages in the channel. `send` to a machine that has dropped
the connection is lost. A machine that leaves does not come back under the same address (its
port is new).

Left out: races (given out as colours are, but may be shared), chat, the configuration and the
seed (values of the host, broadcast), names, `REFUSE_COLOR` (redraws a button), the same
dialogue for a saved game (`mp_select_load_option`).

### GameStart

From the moment in which the host starts. `game_starting` has switched the packets to
unsequenced, so here the network may lose and reorder, but not repeat. A client that gets
another message than START_GAME while in the lobby returns 0 (`Surprised`). The wait counts
END_SETTING messages; the host forwards each to everyone; after ten seconds without a message
a machine goes on regardless (`GiveUp`). `patient` records who never gave up.

### People

The world is a record of the four object arrays. An operator named after a function of the
code takes the world before the call and returns the one after it (or the set of worlds that
the random choices and the search for free land may lead to), so that a handler is the chain
of calls it is in the code: `MobilizeWorker` calls `ResignWorker` and `CreateWorkerUnit`,
that calls `DecPop`, that may delete the town and the unit it trains. The actions are the
orders, the daily processing and what spies do; each contains the whole of what it changes.

An object has only the fields that tie people together: a town its nation, population,
jobless peasants, count of spies and trainee; a firm its nation, workers (with home and spy)
and overseer; a unit its nation, spy, mode and place, and whether it is trained in a skill;
a spy its true nation, cloak, place and exposure. There is one race. Loyalty, skill and rank
decide who does what; the model lets every decision go either way. `Crowded` says where the
search for free land may fail; `MaxPeople` bounds births. A firm that ends has its own area
only: for each of its people in turn, the overseer first, there is room or there is not, and
whom there is no room for dies (`FirmDeinit`, `Cramped`). An overseer who is to be called out
stays where there is no land (`assign_overseer`). What `mobilize_overseer` does without land, when
`mobilize_firm_spy` calls it, is left out: it deletes the unit, the firm goes on naming it, and the
caller then mobilizes the worker behind the last one.

`Rare` names seven events that the code lets happen and that break the invariants (section
5). With `Rare = {}` they do not happen, and everything else does; the run shows that they are
the only ones in the instance. `SpiesCounted`, `SpyPlaced` and `RolesAgree` thus say nothing of
the late orders and deaths that `Rare` stands for.

### Diplomacy

The world again is a record: who is alive, relation status and trade treaty as each nation
holds them, `talk_msg_array` with its list of free rooms, the action queue of each computer
player. `SendTalkMsg`, `ReplyTalkMsg` and `ProcessAcceptedReply` are the functions of the code
with all the calls they make: an accepted request for war ends a treaty and declares war by
sending two more messages; a rejected offer may anger a computer player into a message of its
own; a notice takes effect as it is sent; an accepted offer deletes the same offer of the
other side. `DelAll` is a loop of deletions: the rooms are given back from the last to the first, and
the message leaves the queue of its receiver if it was not answered.
What a human player does is an order: `PlayerSends` and `DetectTalk` put it on its
way, `ExecuteOrder` is the frame in which it is executed (that all machines agree about it is
the business of `Lockstep`). `PlayerReply` opens an offer from the news.
`misread` is history: a reply was executed for another message than the one that was read (section 5).

Dates are abstracted to what they decide. A message is less than a month old and can be
answered, less than two, less than a year, or due for deletion (`MessageAges`); a cease-fire is
less than five days old or not. `ProcessTalkMsg` is the weekly look at all messages, one after the other from the last (`Weekly`): what the
look at one changes the next one sees. Computer
players may send anything that can be sent, accept or reject, and take offence or not.
`SlowAi` lets a message stay for more than two months in the queue of a computer player. In
the code `process_ai` takes up all messages in the queue every third day (`OAI_MAIN.cpp:267`), so
the run and the theorem have `SlowAi = FALSE`. The new offer, with a tribute, that a computer
player may send as it hears of a rejection (`OAI_DIPL.cpp:773`) is left to `AiSendTalkMsg`, a step of
its own.

A nation that is deleted and used all the same ends the game (`Stop`, `running`): the null
pointer of `nation_array`.

At the start (`StartAssumption`) relations are the same on both sides and allies trade, as `init_relation` and
the saved games have it.

### Caravan

One caravan; the world is again a record, with the firms (status, owner, site), the slots of
the markets, the stocks of mines and factories, and of the caravan its stops with what each
picks up, the destination, `journey_status`, the wait, the cargo and where it is. `PreProcess`
is `pre_process` with its four cases (no stop, one, on the way, inside), and `Frame` is one
frame of the caravan: `PreProcess` and its move. `UpdateStopList` drops the stops that are not
valid any more, moves the others up, drops a stop equal to its neighbour on the round, and finds
the destination in what is left. `EnterFirm` does the trade: `MarketUnload` scans the slots twice as
the code does (goods that have a slot, empty slots; then slots that can be given to other goods),
`MarketLoad` takes what the stop picks up, `FactoryTrade` gives raw material and takes products.
`Execute` is the order of a player, a frame or more after the click in a multiplayer game (`Remote`).
`Refresh` is the update of the list for a caravan that is selected.

The firms' own trade is `ProduceRaw`, `Production`, `InputGoods` and `SellGoods`: mines and
factories hand on over the links that are open. `DelFirm`, `BuildFirm`, `CaptureFirm` and the
treaties are what happens to a firm meanwhile; a deleted number may be given to a market on
another site.

Abstracted: the map is reduced to where the caravan is (round a firm, or on the road). What
`Circumstances` holds is decided anew in each frame: how far it gets, whether the way or the door is blocked, what the
nation can afford, whether an empty slot counts as supplied in the last 30 days. Goods are whole
units; demand, productivity and prices are any amount.

## 3. Runs

| Run | Instance | Checks |
|---|---|---|
| `ec_wrap` | 2 machines, 4 ids, window 2, one accepted message of room; one sends 5 messages | types, `KeptUntilAccepted`, `BoundedReordering`, `AcceptsOnce`, implements `ReliableMulticast` |
| `ec_three` | 3 machines, 1 sender, 1 message, damage, fairness | `EventualDelivery` |
| `ls_every` | 2 players, a turn in every frame, delay 2, window 2, 6 frames; every order asks for a save | types, `SameSaves`, `OwnOrdersExecuted` |
| `ls_game2` | the values of a two-player game: delay 5, turns of 2, 18 slots; window 1, 9 frames, one player may leave, fairness | `SameGame`, `ArrivesInTime`, `Progress` |
| `ls_stamp` | two-player values, machines in step | violation of `OwnOrdersExecuted` |
| `ls_wait` | two-player values, nothing assumed about timing | violation of `WaitsForPeers` |
| `lobby_clicks` | host and 2 clients, 3 colours; the host clicks once, a client twice, the other may cancel or leave, the host may abort | `ColorsExact`, `HostKnows`, `FlagsAgree` |
| `lobby_ids` | host and 3 clients for 3 slots, one with a wrong password, one may leave, a connection between two clients may break | types, `SameIds`, `HostRoster`, `Joined` |
| `start_three` | host and 2 clients, packets are lost and reordered | types, `HostWaitsForAll`, `WaitEnds` |
| `people_village` | 2 nations, room for 2 towns, 3 units, 2 spies; a mine and a camp; towns of 2, firms of 2, births up to 3 people | types, `JobsAddUp`, `SpiesCounted`, `SpyPlaced`, `RolesAgree`, `NationsExist`, `PeopleConserved` |
| `diplomacy_three` | a human and 2 computer nations, at peace or in two camps; 3 messages, an order under way, 2 events of their own accord | types, `TreatiesAgree`, `MessagesAlive`, `QueueRefers`, `NoRepeats`, `TreatyByOffer` |
| `caravan_round` | 2 markets (one a friend's), a mine, a factory; 2 materials and their products, 2 slots, stocks and cargo of 2 units; six starts, fairness | types, `StopsPacked`, `InsideKnowsItsWay`, `GoodsConserved`, `VisitsEveryStop` |

*Bounds.* 4 ids are the smallest ring whose window is more than one frame; 5 messages use
an id a second time, with every order of loss, repetition and disconnection in between. One
place in the receive ring makes the full ring the normal case. `MAX_QUEUE` must be
even: the code's 18 is; with an odd number the sender may run one frame further ahead than
the receiver accepts. The lockstep runs cover more frames than the delay plus two turns,
so that queues sent in the first frames are executed; the queues of the frames before that
are the empty ones `init_receive_queue` makes. `MaxCommand` bounds the orders per player.
The timing of `ls_game2` (at most two frames apart, two frames under way) is nearly all
the values allow: a queue is stamped five to six frames ahead, and with skew and
latency adding up to five frames `SameGame` fails. Its window of one message makes sends
fail again and again; `Progress` holds there with a player that may leave. In `ls_every` each
player may ask twice for a save, the requests come in the same frame or in different ones, and
saves happen within the six frames.

The village starts with two peasants, a camp, a mine and a foreign spy on the way, whom the
search leads into every town, firm and role. Two places in a town and in a firm make the full
town and the full firm, and the last person of a town, normal cases; two towns are the fewest
for a migration, three units and two spies let one be recruited while another is at work and a
second spy be trained. Symmetry is sound: towns, units, spies and nations are only compared
for equality, and new objects are taken from free ones that do not differ. A larger instance (4
people, towns of 3, 4 units; 828,852 states) passes too; it takes too long to be among
the runs.

Three nations are the fewest for an embargo and a request for war; one human and two
computer players give every pair but two humans. Two events suffice for what goes between an
offer and its reply (another offer, a war, a defeat), and replies, reactions and the messages
they send come on top of them. Three rooms for messages let a deleted number be used again.
`Coalition` starts with an alliance, a friendship and a war, which take more events to reach from
peace. In the run a message is not left for two months in a computer's queue (`SlowAi`, section 5).

The six starts of the caravan are one round through mine, factory and market with two units
in the ground; two markets and an event; three stops and two orders; two markets and two events,
enough for a firm to be destroyed and its number given to another; an order and an event; and two
full markets whose goods fit only in part. An event is what happens to a firm or a treaty, a
click of the owner on a firm, a march order or the death of the caravan; production and sales
are not bounded but by the material in the ground. Two units in a stock are the fewest for a
load that fits in part and for `MIN_FIRM_STOCK_QTY` to leave something; two slots for goods that
find the market full. Larger combinations (three stops with an order and
an event, two markets with an order and two events, the round with an event; 404,450 states) pass
too, without the liveness property.

Two clients are the fewest with a connection between clients, three with a
client for a slot that has been freed while another is occupied. The machine with the wrong password
leaves its slot occupied and a pointer to it: the next machine may find no slot, or take over the entry,
be announced with the address of the one that was refused, and be deleted at the next system message. Two clicks let a client change its colour and get ready,
or get ready and back. In `lobby_ids` the connection between two clients may break too, with
both still in the lobby (`MayBreak`).

*Deadlock* is not checked: the budgets of messages, frames and events are used up at the end
of every behaviour, and there the system stops; a lobby stops when the game starts, a village
when everybody is dead, a caravan when it is killed.

*Fairness.* `ErrorControl`: the main loop calls `yield` as long as the game runs, so a frame
that can be retransmitted is, and an accepted message is taken (weak fairness); the network
does not lose every copy of a datagram that is sent again and again (strong fairness of its
handling). `Lockstep`: the main loop calls `poll_msg` and `is_mp_sync` for ever; what was
published arrives, by `EventualDelivery`; a lost connection is noticed on both sides, by
ENet's timeout. `Sync` is strongly fair because the send window is full now and then; every
call of `is_mp_sync` tries again. Nothing is assumed of players.
`Lobby`: every loop calls `receive` for ever, and ENet delivers or reports the loss (weak
fairness of `Receive` for each connection). `GameStart`: who waits keeps calling `receive` and
looking at the clock. `Caravan`: every unit is processed in every frame (weak fairness of `Live`,
written out, since a frame may leave everything as it is); a path is not blocked for ever, nor is a door, whatever
else happens in between (strong fairness of `Arrives` and `Leaves`). Players, firms and events owe nothing.

## 4. Theorems

### ErrorControl

`ErrorControlProofs` proves for any finite set of players, any even `MAX_QUEUE` of at least
4, any receive ring of at least 2 slots and any number of messages:

| Theorem | States |
|---|---|
| `TypeCorrect` | `[]TypeOK`, in particular the receive ring never overflows |
| `Invariance` | the inductive invariant `Inv` |
| `NothingLost` | `[]KeptUntilAccepted` |
| `ReorderingBounded` | `[]BoundedReordering` |
| `NoDuplicates` | `AcceptsOnce` |
| `Implementation` | `ImplementsMulticast`: every step is a step of `ReliableMulticast` or a stutter |

The assumptions are those on the constants in `ErrorControl` and the network's `CanArrive`.

*The argument.* None of the properties is inductive: they speak of messages, the code of
ids. `Inv` adds the link. `SendersOK`: head and tail are `base` and `sent` modulo the ring,
at most `Window` apart, and the slot of each message kept holds it. `ReceiversOK` and
`BoundedReordering`: the flags are the accepted messages beyond `low`, modulo the ring, all
in `low .. low+Window-1`. `AcksOK`: who is marked as having acknowledged has accepted, and
no connected receiver is behind `base`. `NetOK`: what is under way is recent, its id belongs
to its message, and an ACKNOW under way is true. From these, any two numbers the code
compares through their ids are less than the ring apart, and `DataLemmas` says the
comparison of ids is then the comparison of the numbers (`BetweenFrame`, `SpaceFact`,
`WaitingAck`, `WaitingReceive`). Each action then is a short argument on numbers. The
half-ring rule of `send` is what makes it work: with `Window - 1` in its place the step
for `Send` is no longer provable.

### Lockstep

`LockstepProofs` proves for any set of nations, any delay and send rate, any length of the
receive queue, any number of frames and orders, and any window:

| Theorem | States | Under |
|---|---|---|
| `TypeCorrect` | `[]TypeOK`: slot k of the receive queue is always the one for k frames ahead | - |
| `Invariance` | the inductive invariant `IInv` | - |
| `OwnOrders` | `[]OwnOrdersExecuted` | the delay is a multiple of the rate |
| `TimedInvariance` | the timed part of the invariant, `Timed` | `InTime` |
| `GamesAgree` | `[]SameGame` | `InTime` |
| `NoneDiscarded` | `ArrivesInTime`: no queue arrives for a frame that is over, or too far ahead for a slot | `InTime` |
| `SavesAgree` | `[]SameSaves` | `InTime`, `SavesInTime` |

*The assumptions.* `OwnOrders` needs what `ls_stamp` shows the lack of: with a delay that is no
multiple of the rate two queues may bear one stamp. `InTime` is the timing the code relies on and does not
enforce (section 5): there is another player; `Latency > 0`; skew and latency together are
no more than the frames a queue is certainly stamped ahead
(`process_frame_delay` less its remainder modulo the rate); the receive queue
is long enough for a machine that is `Skew` frames ahead; and two queues of a machine under one stamp
cannot overtake each other, because no two have one stamp, or the window is one message, or a message takes
less than a turn. The last was found by the proof: it did not go through without,
and TLC confirms it (the values of `ls_game2` with `Window = 2`, `Skew = 1`, `Latency = 3`: the first two queues
of nation 1 are both stamped 7, the second arrives first, and `SameGame` fails). `SavesInTime` says that the rate is
1, or the delay is no multiple of it: then a request to save, which names the next frame its sender
can be sure of, is executed before that frame. It holds for the game's delay of 5 with all its rates,
1 to 4. `ls_every` and `ls_game2` satisfy `InTime`, and between them both
cases of `SavesInTime` occur.

*The argument.* `IInv` is about one machine at a time and holds however messages travel. `SendTurns`: the queue being filled
bears the stamp of a turn of the machine, between `Ahead` and the delay (rounded up to a turn) after the frame in which it
will be sent; it is closed exactly while a send is to be repeated. `SlotFrames`: what is in a slot is for the frame of
the slot. `EmptyStart`: the first frames have the empty queues. `OwnPresent`, `OwnSlots`: the own queues are in the own slots,
the first one with each stamp being the one that `QueueOf` finds. `LogTurns`: what was sent, a queue a turn,
with growing frames. `OwnExecuted`: the queues of frames that are over were executed.
`Timed` adds the others, for machines whose connections last. `Drift`: they are at most `Skew` apart, and
what was sent more than `Latency` frames ago has arrived, first stamps first. `HeardSlots`: what
arrived is in its slot, and nothing else is. `SameSoFar`: every frame that is over was executed as sent.
The step that matters is `ProcessFrame`: everything stamped with the frame was sent `Ahead` frames ago or earlier, so by `Drift`
it is there, so by `HeardSlots` it is in the slot, once for each player and in the order of the players.
`SavesAhead` says that no request to save under way is for a frame that is over when it is executed, and `SaveTraces` that
`mp_save_frame` is a function of the frame and of what was executed; equal games then save in equal frames.

### GameStart

`GameStartProofs` proves for any finite set of machines:

| Theorem | States |
|---|---|
| `TypeCorrect` | `[]TypeOK`: no machine counts more END_SETTING than there are other players |
| `Invariance` | the inductive invariant |
| `HostIsLast` | `[]HostWaitsForAll` |

*The argument.* The host counts messages and does not look at who sent them. `CountedOnce`: there is a set of clients, as
many as the host has counted, that have left the lobby and have no END_SETTING under way to the host;
every other client has at most one. `HostApart`: nothing the host sends comes back to it (the clients'
echoes, which make `AllWaitForAll` fail for a client, are absent here). When the count is full the set is
all clients.

### Lobby

`LobbyProofs` proves of the host, for any machines and slots of the pool and for any number of colours that is enough for
the players (`HostAssumption`, `ColorAssumption`):

| Theorem | States |
|---|---|
| `HostBooks` | `[]HostInv`: the types of all machines, what may be under way, and the host's pool, connections and list |
| `ColorsAlwaysExact` | `[]ColorsExact`: the colours marked are those of the registered players; no two share a colour, an id or an address |

*The argument.* Colours are marked in one handler, freed in another and swapped in a third, while players come and
go; what keeps them exact is that the list, the pool and the connections never part at the host. `HostLinks`
(`Pointed`): a connection that is up has a peer that points to a slot of the pool, no two peers point to one, and a peer that is free
with a pointer in it points to an entry that is not connecting. An entry has its address to itself; either the peer of that address
points to it, or that machine is gone, the entry is not connecting, and its pointer was left to, and perhaps taken over by, another machine.
So whoever NEW_PLAYER is from has an entry of his own, a DISCONNECT marks the entry of the connection that is gone, and `SysMsg` removes
from the list what it removes from the pool, and closes just the connections that point to it. `HostThere`: the host itself is player 1, in pool and list, until it leaves; so a
loss never empties its list. `HostList`: who is in the list is in the pool and connected, and *authorized* says
just that; so NEW_PLAYER, the only message that enters somebody, enters nobody twice. `Directions`: a client
tells the host only CONNECT, NEW_PLAYER, PLAYER_READY and ACQUIRE_COLOR; the handlers for what only the host
says (a list, a colour, a ready flag of another) are therefore never run there, though they are the same
code. `ColorAssumption` is needed for NEW_PLAYER: there are at least as many colours as players, so one is free.

`LobbyClientProofs` proves of every client, under the same assumptions, whoever cancels, is refused or leaves, and
whatever connections break:

| Theorem | States |
|---|---|
| `LobbyBooks` | `[]LobbyInv`, the inductive invariant: `HostInv`, and `ClientInv(c)` for every client |
| `TypeAlwaysOK` | `[]TypeOK`: also the list of a client never has more entries than there are slots, although PLAYER_ID adds one without looking |
| `IdsAlwaysSame` | `[]SameIds`: an id stands for the same address at a client as at the host, or the notice that it is gone is on its way; the machine the host hears under an id is the one at that address, or the entry is marked as not connecting |
| `HostAlwaysKnows` | `[]HostKnows`: the id, colour and ready flag the host has down for a player are the player's, but for messages on their way |

*The argument.* What client and host know of each other differs by what lies in the two channels between them, so the
invariant reads the channels. `Greeted`, `Fresh`: the client has the connection before the host, and has heard nothing before the host has it.
`Known`: every id that a client holds, or is about to be told, has the address that is in the host's pool, unless the notice that it is gone lies behind;
the id it is given is the one its peer at the host points to.
`Points` (`Aims`): at a client every pointer is to an entry of the pool with the address of its peer, and no two are to one; it is left behind
only where the host's connection is closed, since a client enters everybody else in its list, and the scan deletes them. That is why a client
never takes one machine for another, other than the host.
`Numbered`, `Waiting`: no player is twice in a client's list, and the id that is kept for a client that has none is new to it, in its list and on the way.
`Unready`, `Own`, `Flagged`: a client is ready only with an id, the id is that of its slot, and it speaks for itself only, its flag last.
`Registers`: what the host has down for a client is what the client has, or will be when what is on the way is read.
A step of the host is, for one client, some messages more in its channel, or the end of the connection
(`Untold`, `Met`, `Told`, `Forsaken`). A step of the client takes one message, or says something about itself. A step of a third machine
touches nothing of this (`Apart`). That an id given to a second player means the second machine everywhere is the order
of the channel: the notice is sent before the slot is given again.

### Diplomacy

`DiplomacyProofs` proves for any nations, any number of slots, events and orders, any choice of messages, and any relations at the
start that satisfy `StartAssumption`:

| Theorem | States | Under |
|---|---|---|
| `TypeCorrect` | `[]TypeOK`: in particular the list of empty rooms is that of the slots without a message, each once | - |
| `Invariance` | the inductive invariant `IInv` | - |
| `TreatiesAlwaysAgree` | `[]TreatiesAgree`: relations are the same on both sides; allies trade | allies trade: while no reply was misread |
| `MessagesStayAlive` | `[]MessagesAlive` | - |
| `NeverRepeats` | `[]NoRepeats` | - |
| `QueuesRefer` | `[]QueueRefers` | `~SlowAi`; while no reply was misread |
| `TreatiesByOffer` | `TreatyByOffer`: nobody comes closer but by an offer that is accepted | steps that do not misread a reply |

The conditions are part of the properties (but for `~SlowAi`) and are needed; section 5 has the behaviours that violate
the properties without them.

*The argument.* An action is a chain of calls that send messages, which take effect and delete others, before the
action is over, so the invariant is about the world between any two calls. `Sound` is what every call
keeps, whatever was misread: the types; the rooms; messages with two living nations and a third one just where it is
due; no unanswered offer of a computer player twice; a truce only where there is tension; relations the same on both sides.
`AlliesTrade` and `Queues` hold as long as replies answer what was read. `Queues` says more than `QueueRefers`:
what is in a queue waits for an answer and is less than two months old, since a message counted as rejected
would be deleted without a look in the queue.
`Calm` relates the world before a call to the one after it: it is still sound, allies still trade, the queues still refer, and
no pair of nations is closer than before. Each operator has a lemma that says whether it is calm (deletions, notices, wars,
the anger of a computer player, sending), and chains of calm calls are calm. Only the effect of an offer accepted is not, and there
`ReplyFact` supplies the witness of `TreatyByOffer`: the deletion of the crossed offers spares
answered messages, so the offer accepted is still in its slot when the step is over.
`Room` suffices: a reply sends at most two messages before it deletes any, and the weekly look needs a room for each
slot it still has to do (`WeeklyFact`, by induction on the slots).
Of the players the invariant needs only what they may have read, offers to themselves (`Read`): a reply that is not misread
answers an offer, which is not a notice, to a human, who has no queue.

### Caravan

`CaravanProofs` proves for any firms and links, any number of stops from three on, any materials, slots, capacities and waits, any
number of orders and events, and any start that satisfies `StartAssumption`:

| Theorem | States | Under |
|---|---|---|
| `RoundAlways` | `[]RoundInv`, the inductive invariant | - |
| `StopsAlwaysPacked` | `[]StopsPacked` | - |
| `InsideAlwaysKnows` | `[]InsideKnowsItsWay` | `Remote` |
| `GoodsAlways` | `[]GoodsInv`, `RoundInv` with the types of the other fields | - |
| `TypeAlwaysOK` | `[]TypeOK`: no stock and no cargo is negative or beyond its capacity; a market has at most one slot for each of its goods | - |
| `GoodsAlwaysConserved` | `GoodsConserved`: no step makes goods, and none loses any that are not sold, dropped or gone with a firm | - |

`Remote` is needed: in a game of one player the list of a caravan in a firm is brought up to date, and section 5 has the behaviour.

*The argument for the round.* `RoundInv` says of the world that it has its fields (`Wide`), that the list is in order (`InOrder`) and, if `Remote`, that
the caravan knows its way (`KnowsItsWay`); and of the orders that they name places in the list and firms. A handler is a chain of
calls, so each operator has a lemma that its result `Follows` what it was given: in order, and the way known if it was known. What
makes it true is in `UpdateStopList`. `ValidStops`, `Apart` and `Round` are filters on lists; the lemmas say what is left, in
which order, and that the count the code keeps beside the list (`stop_defined_num`, less one for each stop dropped) is the length of what is left. So whatever
became invalid, the list is packed and no two neighbours are the same, across the end of the list too. For a caravan in a firm nothing
calls `UpdateStopList` until it comes out: orders are ignored (`ExecuteFact`), the refresh is (`RefreshFact`), and what happens to firms
leaves the list alone. When it comes out, the stop to go to is looked up in the list as it is then (`GetNextFact`).
The trade changes goods only (`TradeFact`, `ProductionFact`, `MarketInputFact`).

*The argument for the goods.* `HeldBy` is a sum over slots, markets, mines, factories and the cargo. One operator changes one
store (`PutMarket`, `PutMine`, `PutFactory`, `PutCargo`, in a market `Restocked`), and its lemma says by how much the sum of each
material changes; the sums over finite sets are in `DataLemmas`. A trade with a market is up to three passes over the slots, each a fold:
what one step keeps (`Keeping`: the types, one slot for each of the goods, and what there is of each material in the slots and the
cargo together) the whole pass keeps. The steps need the order of the code: a slot is given to other goods only when its stock is 0 and
only to goods that no slot has (`UnloadInEmptyFact`), so relabelling it changes no sum and no goods get two slots. The
firms' own trade is a fold over their links (`InputFromFact`, `RawFromFact`): what the one gets is what the other gives,
neither more than it has nor more than there is room for, and the product of a factory, which says which goods its stock is, does not change.
`Balanced` says of two worlds that only stores differ and every material is as much as before, `Keeps` of a call of the caravan's that types and
materials are kept, `Shrunk` and `Loses` that there is no more than before. A frame and an order are chains of calls that keep
(`FrameKeeps`, `ExecuteKeeps`; they need the list in order, so `GoodsInv` includes `RoundInv`). Of the firms' steps, those that lose goods are
the sale and three events (`FirmsStepGoods`), and an event is told from trade by `budget`.

### Only model-checked

Liveness (`EventualDelivery`, `Progress`, `Joined`, `WaitEnds`, `VisitsEveryStop`), which needs fairness and ENABLED. Of
`Lobby`, `FlagsAgree` (a ready flag travels on three ways) and `HostRoster`, which also relate the clients to each other. Everything in `People`: its invariants
hold only together (`NationsExist` after a hand-over rests on `SpyPlaced` and `RolesAgree`, the bounds of `TypeOK` on
`JobsAddUp` and `SpiesCounted`), over some thirty actions, and only as long as the arrays have room for one more unit, town or spy.

## 5. Findings

* **Late players are not waited for** (`ls_wait`, `OSYS.cpp:1211`). `is_mp_sync` collects the
  players that are not ready, and then holds the frame only if the one it found has lost its
  connection. A connected player that is late is overrun; its queue is thrown away when it
  arrives (`OREMOTE2.cpp:357`) and the games differ. `SameGame` thus rests on timing.
* **Two queues with one stamp** (`ls_stamp`, `OREMOTE2.cpp:667`). With two players the first
  two queues of nation 1 are both stamped 7. Every machine executes the first and stops at its
  trailer: the orders of the second are dropped everywhere (the games stay the same).

Observations. The following properties are stated in the modules, with the comment of the code
they come from, and do not hold: TLC finds a violation when one is added as an INVARIANT to
the instance named. They are not among the runs.

* `NoOrderForgotten` in `Lockstep` (the values of `ls_game2`, `Window = 2`; `OSYS.cpp:1150`): orders
  given between a failed send and its repetition go behind the closed queue's trailer and are lost.
* `SurvivorsAgree` in `Lockstep` (three players with turns of 3, delay 5, `MaxFrame = 8`, 9 slots,
  window 3, one order each, the third may leave; 25 states; `OSYS.cpp:1217`): one of the two that remain
  has the last queue of the player that left and executes it, the other has not.
* `SameRoster` in `Lobby` (host and two clients that only join; `multiplayer.cpp:745`): an older client
  that connects to a new one before that one has the list of players is disconnected as unknown.
  It removes the new one; the new one then adds it from the list. The lists differ for good, and
  the two are not connected in the game.
* `HostLossNoticed` in `Lobby` (two machines, the host may leave; `OGAMEMP.cpp:2508`): a client that
  loses the host before the list of players has come does not notice.
* `NoSlotLost` in `Lobby` (two machines, a wrong password; `OGAMEMP.cpp:2497`): a machine that was
  refused, or left before it was registered, keeps its slot of the pool until another machine gets the
  ENet peer that points to it.
* `LostIsLost` in `Lobby` (`lobby_ids`, 10 states; `multiplayer.cpp:713`, `:734`): a machine that takes over such a
  peer takes over the entry, and CONNECT does not set `connecting` again. The machine is registered, and deleted and
  disconnected at the next system message, though it is there.
* `AddressIsPlayer` in `Lobby` (`lobby_ids`, 10 states; `OGAMEMP.cpp:2589`): the newcomer that took over the entry is
  announced to all with the address of the machine that is gone; the clients add that address and try to connect to it.
* `BacksOut` in `Lobby` (two machines, `MayCancel`; `OGAMEMP.cpp:1728`): Cancel while joining opens
  the lobby, since `is_player_connecting(1)` is true before there is a connection. The client is
  then never registered.
* `AllWaitForAll` in `GameStart` (`OGAMEMP.cpp:3670`): a client counts the echo of its own
  END_SETTING and begins before another client has the set-up.
* `QuitsOnlyWithoutStart` in `GameStart` (`OGAMEMP.cpp:3441`): END_SETTING overtakes START_GAME, and
  the client quits.
* `EnemiesDontTrade` in `Diplomacy` (`ONATIONB.cpp:1164`, "auto terminate their trade treaty if two
  nations go into a war"): an offer of trade is read, war is declared, and the acceptance is executed.
  `is_valid_to_reply` is asked when the offer is shown, not when the reply is executed.
* `AnsweredOnce` in `Diplomacy` (`OTALKRES.cpp:832`): an offer is opened again and answered differently
  before the first reply is executed (two orders under way), or answered after it was counted as
  rejected; the second reply takes effect too.
* `AnswersWhatWasRead` in `Diplomacy` (`OREMOTEM.cpp:2694`): the message is deleted,
  because its sender is defeated or the same offer crossed it, its number is given to another
  message, and the reply order answers that one, whoever it is for. What such a reply breaks is why `TreatiesAgree`,
  `QueueRefers` and `TreatyByOffer` have their conditions. With only trade offers, four
  slots and four events `QueueRefers` fails without its condition after 8 states: an offer to a player is read and answered and its
  sender defeated; an offer between two computer players takes the number, the reply answers it, and when its sender is
  defeated too it is deleted without a look in the queue. With two nations, trade offers, alliances and ends of
  trade, four slots and five events `TreatiesAgree` fails without its condition after 16 states: the notice that ends a trade treaty takes over
  the number of a trade offer, an alliance is formed, and the reply executes the notice again, unchecked: allies without
  trade.
* `NoFatalError` in `Diplomacy` (`OTALKRES.cpp:519`): an order to send a message, or an accepted embargo,
  names a nation that was deleted after the click. `del_all_nation_msg` runs while the nation is
  still in `nation_array` and so keeps the requests that name it as the third nation, which its
  comment says are deleted.
* `QueueRefers` in `Diplomacy` with `SlowAi = TRUE`: an offer of a computer player to another one that was
  counted as rejected is deleted after a year, and its number stays in the queue of the receiver.
* `InsideKnowsItsWay` in `Caravan` with `Remote = FALSE` (`OUNITA.cpp:655`): in a game of one player the
  list of a selected caravan is brought up to date inside a firm too, contrary to `OU_CARA2.cpp:142`
  ("cannot del stop if the caravan is inside a market place"). When less than two stops are left it
  never comes out.
* `TradesWhereItStands` in `Caravan` (three stops, an order and an event; `OU_CARA.cpp:1241`): the list may change the
  destination of a caravan beside a firm without changing `journey_status`; it then trades with a
  firm it is not next to.
* `DeletesWhatWasClicked` in `Caravan` (`caravan_round`; `OU_CARA.cpp:671`, "stop is deleted before
  receiving this message, thus, ignore"): orders name a stop by its place in the list; when the list
  has moved up, another stop is deleted.
* `PicksUpByType` in `Caravan` (a market and a factory as the two stops, two orders, an event; 7 states; `OU_CARAS.cpp:45`): the product of a
  factory is changed, and the click that turns it off turns the new one off; the bit of the old product stays set beside `NO_PICK_UP`. The assertion
  at `OU_CARAS.cpp:141` would see it, but stands under a misspelt `#ifdef DBEUG`.
* `NeverUsesDeleted` in `Caravan` (three stops, an order and an event; `OU_CARA.cpp:64`): setting one stop to "auto"
  or "none" in a multiplayer game brings the pick-ups of all stops up to date, also of one whose firm
  is gone.

Seen while modelling `Caravan` and not stated as a property: the search for the nearest stop
in `update_stop_list` (`OU_CARA.cpp:874`) assigns the wrong variable and finds the last one (the model
does as the code); in a game of one player `clear_market_goods` uses `raw_id` as an index after setting it to 0
(`OF_MARK.cpp:817`), and `change_production` skips a product (`OF_FACT.cpp:396`).

Each of the events in `Rare` breaks invariants of `People` when it is added to the set in
`people_village`:

* `surrender_spy` (`OTOWN.cpp:807`, `RolesAgree`, `NationsExist`): a town that surrenders changes the
  nation of the unit it trains; the cloak of a spy in training stays.
* `killed_training` (`SpiesCounted`, `SpyPlaced`, `RolesAgree`): a spy is killed while he is trained, or
  while the trainee is the only peasant beside him.
* `stale_home` (`OFIRM.cpp:2854`, `TypeOK`): a worker is moved into a town that is full.
* `stale_migrate` (`OTOWN.cpp:2507`, `SpyPlaced`, `RolesAgree`, `NationsExist`): `move_pop` moves a spy without
  `set_place`, into a town that is another nation's by now.
* `migrate_trainee` (`OTOWN.cpp:2512`, `SpiesCounted`): the only person that `migrate_to` counts as no spy is
  a spy in training.
* `deinit_spy` (`OFIRM.cpp:333`, `SpyPlaced`): a firm is destroyed on land that has no room for all of its
  people; `deinit` deletes the list of workers with those left in it, and a spy among them keeps a record that
  names the firm.
* `bribe_spy` (with three spies; `OFIRMIF3.cpp:289`): the bribed worker is a spy of a third nation, and his
  `spy_recno` is overwritten.

## 6. Plan

1. *(done)* `ReliableMulticast`, `ErrorControl`, proofs; `Lockstep` over the multicast.
2. *(done)* `Lobby` over the player pool; `GameStart`. Left: races, and the dialogue for a saved
   game, which registers players by nation.
3. *(done)* The frame of a save over `Lockstep`. Left: the speed (`MSG_SET_SPEED`, which has no effect on
   what happens in a frame).
4. *(done)* `People`, `Diplomacy`. Left: several races and loyalty, ships and the inn's hired people,
   two humans in `Diplomacy`, tribute and tech.
5. The alarm: the seed lock and the CRC comparison.
6. *(done)* `Caravan`. Left: several caravans, how links between towns and firms are made, the harbour
   and its ships, whose stops are much like a caravan's.
7. Containers: `VLenQueue`/`RemoteQueue` against sequences.
8. Proofs. *(done)* `ErrorControl`, `Lockstep`, `GameStart`, `Lobby` but for `FlagsAgree` and `HostRoster`, `Diplomacy`,
   `Caravan`. Left: the counts of `People`.

## 7. Not modelled

Drawing, sound, input, files and the build; the decisions of the computer players, beyond what
they do with messages; movement, combat and building, whose state is the whole map
and whose rules are tables and heuristics; the map generator, whose result is data. Of
`People`: races, loyalty, ranks and skills, defenders, rebels, builders, ships, links, firms
being built. Of `Caravan`: other caravans, prices and demand, the making of links, the harbour. Of `Diplomacy`: messages that move cash, food or technology, military aid,
reputation and ratings, contact between nations, new nations. `PROJECT.json` lists every
part with its reason, and the hazards no property covers.
