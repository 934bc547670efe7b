------------------------------ MODULE Lockstep ------------------------------
(***************************************************************************)
(* The lockstep of a multiplayer game (Sys::is_mp_sync and class Remote).  *)
(* Every machine runs the whole game.  What a player orders is not done at *)
(* once: it is queued, the queue is broadcast in the frames in which the   *)
(* player has a turn to send, stamped with a later frame, and every        *)
(* machine, the player's own one too, executes it in that frame.           *)
(*                                                                         *)
(* A machine is named by the nation it plays.  Messages travel by          *)
(* ReliableMulticast, which ErrorControl implements; log[p] holds what the *)
(* n-th message of p was.                                                  *)
(***************************************************************************)
EXTENDS Integers, Sequences, SequencesExt

CONSTANTS
    PlayerCount,          \* nations are numbered 1 .. PlayerCount
    process_frame_delay,  \* 5 in a game, FORCE_MAX_FRAME_DELAY
    alternating_send_rate,\* 1 when testing, else the number of players, at most 4
    RECEIVE_QUEUE_BACKUP, \* frames the receive queue looks ahead, 18
    Window,               \* of the multicast
    MaxFrame,             \* bound: the last frame played
    MaxCommand,           \* bound: orders per player
    MayLeave,             \* bound: the players whose connection may be lost
    Savers,               \* bound: the players whose orders are to save the game
    Skew, Latency         \* the timing the run assumes, see Timely

ASSUME PlayerCountAssumption == PlayerCount \in Nat \ {0}
ASSUME RateAssumption ==
    /\ process_frame_delay \in Nat \ {0}
    /\ alternating_send_rate \in Nat \ {0}
    /\ RECEIVE_QUEUE_BACKUP \in Nat
    /\ RECEIVE_QUEUE_BACKUP > process_frame_delay + alternating_send_rate
ASSUME BoundAssumption ==
    /\ {Window, MaxFrame, MaxCommand, Skew, Latency} \subseteq Nat /\ MaxFrame > 0
    /\ MayLeave \subseteq 1 .. PlayerCount /\ Savers \subseteq 1 .. PlayerCount

Nation == 1 .. PlayerCount

VARIABLES
    frame_count,   \* frame_count[p]: the frame p is about to process
    remote,        \* remote[p]: the nations p takes for remote players
    next_frame_ready, \* next_frame_ready[p]: the nations flagged ready
    remote_send_success_flag,
    send_queue,    \* send_queue[p]: the queue being filled (send_queue[0])
    receive_queue, \* receive_queue[p][k]: frame stamp and queues received
    mp_save_frame, \* mp_save_frame[p]: when p saves the game, 0 without a request
    executed,      \* history, executed[p][f]: orders p executed in frame f
    saved,         \* history, saved[p]: the frames before which p saved the game
    issued,        \* history, issued[p]: number of orders given by p
    log,           \* history, log[p]: the queues p sent
    peers, sent, got  \* the multicast

local == <<frame_count, remote, next_frame_ready, remote_send_success_flag,
           send_queue, receive_queue, mp_save_frame, executed, saved>>
multicast == <<peers, sent, got>>
vars == <<local, issued, log, multicast>>

Multicast == INSTANCE ReliableMulticast WITH
    Player <- Nation, Budget <- [p \in Nation |-> MaxFrame]

Slot  == 0 .. RECEIVE_QUEUE_BACKUP - 1
\* An order to save the game in a frame, or another order, with save = 0.
Order == [by : Nation, nr : Nat, save : Nat]
Queue == [nation : Nation, frame : Nat, orders : Seq(Order), at : Nat]

-----------------------------------------------------------------------------
(* Whose turn it is to send (OREMOTE.cpp). *)

has_send_frame(n, f) == (f + n) % alternating_send_rate = 0

next_send_frame(n, f) ==
    LET remainder == (f + n) % alternating_send_rate
    IN  IF remainder = 0 THEN f ELSE f + alternating_send_rate - remainder

\* Mistake: the frame of a save does not take the delay into account.
SaveFrameNow(n, f) == next_send_frame(n, f) + 2

\* save_game in frame f: two frames after the request is executed.
SaveFrame(n, f) == next_send_frame(n, f + process_frame_delay) + 2

\* Mistake: the queue is stamped with the frame it is sent in.
init_send_queue_now(n, f) ==
    [frame |-> next_send_frame(n, f), orders |-> <<>>, closed |-> FALSE]

\* A queue with its header only; closed once NEXT_FRAME and the trailer follow.
init_send_queue(n, f) ==
    [frame |-> next_send_frame(n, f + process_frame_delay), orders |-> <<>>,
     closed |-> FALSE]

\* Empty queues of every nation stand in for the first frames.
init_receive_queue(f) ==
    [k \in Slot |->
        [frame |-> f + k,
         queues |-> IF k < process_frame_delay
                    THEN [n \in Nation |-> [nation |-> n, frame |-> f + k,
                                            orders |-> <<>>, at |-> 0]]
                    ELSE <<>>]]

-----------------------------------------------------------------------------
(* The receive queue (OREMOTE2.cpp). *)

\* A queue goes to the slot of its frame; without such a slot it is discarded.
Enqueue(rq, q) ==
    [k \in Slot |-> IF rq[k].frame = q.frame
                    THEN [rq[k] EXCEPT !.queues = Append(@, q)]
                    ELSE rq[k]]

NationsIn(queues) == {queues[i].nation : i \in DOMAIN queues}

\* Mistake: the last queue of the nation is executed instead of the first.
QueueOfLast(queues, n) ==
    LET found == {i \in DOMAIN queues : queues[i].nation = n}
    IN  IF found = {} THEN <<>>
        ELSE queues[Max(found)].orders

\* process_receive_queue: nation by nation, the orders between the first
\* header of the nation and the trailer that follows it.
QueueOf(queues, n) ==
    LET found == {i \in DOMAIN queues : queues[i].nation = n}
    IN  IF found = {} THEN <<>>
        ELSE queues[Min(found)].orders

Process(queues, players) ==
    FlattenSeq([n \in Nation |-> IF n \in players THEN QueueOf(queues, n) ELSE <<>>])

\* mp_request_save: while there is a request, others are ignored.
SaveRequested(p, orders) ==
    LET requests == {i \in DOMAIN orders : orders[i].save # 0}
    IN  IF mp_save_frame[p] # 0 \/ requests = {} THEN mp_save_frame[p]
        ELSE orders[Min(requests)].save

\* Mistake: the slot freed at the end keeps its old frame.
ShiftStale(rq) ==
    [k \in Slot |->
        IF k < RECEIVE_QUEUE_BACKUP - 1 THEN rq[k + 1]
        ELSE [frame |-> rq[k].frame, queues |-> <<>>]]

\* ... and then the queues move up one slot.
Shift(rq) ==
    [k \in Slot |->
        IF k < RECEIVE_QUEUE_BACKUP - 1 THEN rq[k + 1]
        ELSE [frame |-> rq[k].frame + 1, queues |-> <<>>]]

-----------------------------------------------------------------------------
(* The timing a run may assume of machines and network, in frames: no      *)
(* machine gets Skew frames ahead of a connected one, and what was sent in *)
(* a frame has arrived everywhere before the sender is Latency frames      *)
(* further.  Bounds as large as MaxFrame assume nothing.                   *)
Timely(p) ==
    \A q \in peers[p] :
        /\ frame_count[p] < frame_count[q] + Skew
        /\ \A n \in 0 .. sent[p] - 1 :
            log[p][n + 1].at + Latency <= frame_count[p] => n \in got[q][p]

-----------------------------------------------------------------------------
(* Actions *)

\* The player gives an order: new_send_queue_msg.  Behind the trailer of a
\* queue that could not be sent yet nobody looks for it.
GiveOrder(p) ==
    /\ issued[p] < MaxCommand
    /\ issued' = [issued EXCEPT ![p] = @ + 1]
    /\ LET save == IF p \in Savers THEN SaveFrame(p, frame_count[p]) ELSE 0
       IN  send_queue' = IF send_queue[p].closed THEN send_queue
                         ELSE [send_queue EXCEPT ![p].orders =
                                  Append(@, [by |-> p, nr |-> issued[p], save |-> save])]
    /\ UNCHANGED <<frame_count, remote, next_frame_ready, remote_send_success_flag,
                   receive_queue, mp_save_frame, executed, saved, log, multicast>>

\* poll_msg: message n of q arrives.
PollMsg(p, q, n) ==
    /\ Multicast!Deliver(p, q, n)
    /\ receive_queue' = [receive_queue EXCEPT ![p] = Enqueue(@, log[q][n + 1])]
    /\ UNCHANGED <<frame_count, remote, next_frame_ready, remote_send_success_flag,
                   send_queue, mp_save_frame, executed, saved, issued, log>>

\* The connection to q is gone: ErrorControl::is_player_valid turns false.
LoseConnection(p, q) ==
    /\ p \in MayLeave \/ q \in MayLeave
    /\ Multicast!Disconnect(p, q)
    /\ UNCHANGED <<local, issued, log>>

\* is_mp_sync: it is p's turn to send and the queue of this turn is not closed.
Closes(p) ==
    /\ remote_send_success_flag[p]
    /\ has_send_frame(p, frame_count[p])
    /\ p \notin next_frame_ready[p]

\* The queue as it is sent: orders, NEXT_FRAME, trailer.
OwnQueue(p) ==
    [nation |-> p, frame |-> send_queue[p].frame, orders |-> send_queue[p].orders,
     at |-> frame_count[p]]

\* Mistake: a machine executes the orders of the others only.
ReceivedWithoutOwn(p) == receive_queue[p]

\* append_send_to_receive
Received(p) ==
    IF Closes(p) THEN Enqueue(receive_queue[p], OwnQueue(p)) ELSE receive_queue[p]

Transmits(p) == Closes(p) \/ ~remote_send_success_flag[p]

\* send_queue_now fails, the window being full, and the frame is not processed.
SendFails(p) ==
    /\ frame_count[p] < MaxFrame
    /\ Transmits(p)
    /\ peers[p] # {}
    /\ sent[p] >= Window
    /\ remote_send_success_flag' = [remote_send_success_flag EXCEPT ![p] = FALSE]
    /\ send_queue' = [send_queue EXCEPT ![p].closed = TRUE]
    /\ receive_queue' = [receive_queue EXCEPT ![p] = Received(p)]
    /\ UNCHANGED <<frame_count, remote, next_frame_ready, mp_save_frame, executed, saved,
                   issued, log, multicast>>

\* send_queue_now succeeds, and the next queue is begun; alone, p sends nothing.
SendQueue(p) ==
    /\ remote_send_success_flag' = [remote_send_success_flag EXCEPT ![p] = TRUE]
    /\ send_queue' = [send_queue EXCEPT ![p] = init_send_queue(p, frame_count[p] + 1)]
    /\ IF peers[p] = {}
       THEN UNCHANGED <<log, multicast>>
       ELSE /\ Multicast!Publish(p)
            /\ log' = [log EXCEPT ![p] = Append(@, OwnQueue(p))]

\* process_specific_msg(MSG_NEXT_FRAME)
Ready(p) == next_frame_ready[p] \cup NationsIn(Received(p)[0].queues)

Unready(p) == {n \in remote[p] \ Ready(p) : has_send_frame(n, frame_count[p])}

\* The remote player found missing first, from the highest recno down.
FirstUnready(p, n) == n \in Unready(p) /\ \A m \in Unready(p) : m <= n

\* Mistake: the lost player stays a remote one.
TakeOverKeep(p) ==
    /\ \E n \in Unready(p) : FirstUnready(p, n) /\ n \notin peers[p]
    /\ next_frame_ready' = [next_frame_ready EXCEPT ![p] = Ready(p)]
    /\ receive_queue' = [receive_queue EXCEPT ![p] = Received(p)]
    /\ UNCHANGED <<frame_count, remote, mp_save_frame, executed, saved>>

\* The first missing player is a lost one: the computer takes its nation over.
TakeOver(p) ==
    /\ \E n \in Unready(p) :
        /\ FirstUnready(p, n)
        /\ n \notin peers[p]
        /\ remote' = [remote EXCEPT ![p] = @ \ {n}]
    /\ next_frame_ready' = [next_frame_ready EXCEPT ![p] = Ready(p)]
    /\ receive_queue' = [receive_queue EXCEPT ![p] = Received(p)]
    /\ UNCHANGED <<frame_count, mp_save_frame, executed, saved>>

\* Otherwise the frame is processed; then main_loop looks whether it is time to
\* save the game.
ProcessFrame(p) ==
    /\ \A n \in Unready(p) : FirstUnready(p, n) => n \in peers[p]
    /\ Timely(p)
    /\ next_frame_ready' = [next_frame_ready EXCEPT ![p] = {}]
    /\ LET orders == Process(Received(p)[0].queues, remote[p] \cup {p})
           due == SaveRequested(p, orders) = frame_count[p] + 1
       IN  /\ executed' = [executed EXCEPT ![p][frame_count[p]] = orders]
           /\ mp_save_frame' = [mp_save_frame EXCEPT ![p] =
                                   IF due THEN 0 ELSE SaveRequested(p, orders)]
           /\ saved' = IF due THEN [saved EXCEPT ![p] = @ \cup {frame_count[p] + 1}]
                       ELSE saved
    /\ receive_queue' = [receive_queue EXCEPT ![p] = Shift(Received(p))]
    /\ frame_count' = [frame_count EXCEPT ![p] = @ + 1]
    /\ UNCHANGED remote

Sync(p) ==
    /\ frame_count[p] < MaxFrame
    /\ IF Transmits(p) THEN SendQueue(p)
       ELSE UNCHANGED <<remote_send_success_flag, send_queue, log, multicast>>
    /\ TakeOver(p) \/ ProcessFrame(p)
    /\ UNCHANGED issued

-----------------------------------------------------------------------------
Init ==
    /\ frame_count = [p \in Nation |-> 1]
    /\ remote = [p \in Nation |-> Nation \ {p}]
    /\ next_frame_ready = [p \in Nation |-> {}]
    /\ remote_send_success_flag = [p \in Nation |-> TRUE]
    /\ send_queue = [p \in Nation |-> init_send_queue(p, 1)]
    /\ receive_queue = [p \in Nation |-> init_receive_queue(1)]
    /\ mp_save_frame = [p \in Nation |-> 0]
    /\ executed = [p \in Nation |-> [f \in 1 .. MaxFrame |-> <<>>]]
    /\ saved = [p \in Nation |-> {}]
    /\ issued = [p \in Nation |-> 0]
    /\ log = [p \in Nation |-> <<>>]
    /\ Multicast!Init

Next ==
    \/ \E p \in Nation : GiveOrder(p) \/ SendFails(p) \/ Sync(p)
    \/ \E p, q \in Nation :
        LoseConnection(p, q) \/ \E n \in 0 .. sent[q] - 1 : PollMsg(p, q, n)

Spec == Init /\ [][Next]_vars

(* The main loop keeps calling poll_msg and is_mp_sync on every machine,    *)
(* what was published arrives, and the other side of a lost connection      *)
(* notices it (ENet times out); a blocked send is tried again and again.    *)
Fairness ==
    /\ \A p \in Nation : SF_vars(Sync(p))
    /\ \A p, q \in Nation :
        /\ \A n \in 0 .. MaxFrame : WF_vars(n < sent[q] /\ PollMsg(p, q, n))
        /\ WF_vars(p \notin peers[q] /\ LoseConnection(p, q))

FairSpec == Spec /\ Fairness

-----------------------------------------------------------------------------
(* Properties *)

TypeOK ==
    /\ frame_count \in [Nation -> 1 .. MaxFrame]
    /\ remote \in [Nation -> SUBSET Nation]
    /\ next_frame_ready \in [Nation -> SUBSET Nation]
    /\ remote_send_success_flag \in [Nation -> BOOLEAN]
    /\ \A p \in Nation :
        /\ send_queue[p].frame \in Nat /\ send_queue[p].closed \in BOOLEAN
        /\ \A i \in DOMAIN send_queue[p].orders : send_queue[p].orders[i] \in Order
        /\ \A k \in Slot : receive_queue[p][k].frame = frame_count[p] + k
        /\ \A i \in DOMAIN log[p] : log[p][i].frame \in Nat /\ log[p][i].nation = p
    /\ mp_save_frame \in [Nation -> Nat] /\ saved \in [Nation -> SUBSET (1 .. MaxFrame)]
    /\ issued \in [Nation -> 0 .. MaxCommand]

\* What nation n has ordered for frame f: the first queue it sent under that stamp.
Sent(n, f) ==
    LET stamped == {i \in DOMAIN log[n] : log[n][i].frame = f}
    IN  IF stamped = {} THEN <<>> ELSE log[n][Min(stamped)].orders

\* No connection from or to p is lost.
Together(p) == \A q \in Nation \ {p} : q \in peers[p] /\ p \in peers[q]

(* Agreement.  In each frame every machine executes exactly the orders the  *)
(* players sent for that frame, nation by nation, so all games stay the     *)
(* same.  It rests on timing, not on is_mp_sync: see WaitsForPeers.         *)
SameGame ==
    \A p \in Nation : Together(p) => \A f \in 1 .. frame_count[p] - 1 :
        executed[p][f] = FlattenSeq([n \in Nation |-> Sent(n, f)])

(* A saved game is continued by all or by none: all machines save it in the *)
(* same frames, whoever asked and however many.  And a request is executed  *)
(* before its frame comes, or mp_save_frame would stay set for ever and no  *)
(* game be saved any more (save_game, mp_request_save, main_loop).          *)
SameSaves ==
    /\ \A p, q \in Nation : Together(p) /\ Together(q) /\ frame_count[p] <= frame_count[q] =>
          saved[p] = {f \in saved[q] : f <= frame_count[p]}
    /\ \A p \in Nation : mp_save_frame[p] # 0 => mp_save_frame[p] > frame_count[p]

(* Nothing the player sends is dropped at home: once the frame stamped on a *)
(* queue is over, the machine that sent it has executed all its orders.     *)
OwnOrdersExecuted ==
    \A p \in Nation : \A i \in DOMAIN log[p] :
        log[p][i].frame < frame_count[p] =>
            \A j \in DOMAIN log[p][i].orders :
                \E k \in DOMAIN executed[p][log[p][i].frame] :
                    executed[p][log[p][i].frame][k] = log[p][i].orders[j]

(* "The connection was lost with a remote player, let the ai take over":    *)
(* those that remain still play the same game.  They do not, when only one  *)
(* of them has received the last queue of the player that is gone.          *)
SurvivorsAgree ==
    \A p, q \in Nation : p \in peers[q] /\ q \in peers[p] =>
        \A f \in 1 .. MaxFrame :
            f < frame_count[p] /\ f < frame_count[q] => executed[p][f] = executed[q][f]

(* An order given is executed, sent or still to be sent: none is left       *)
(* behind the trailer of a queue that waits to be sent again.               *)
NoOrderForgotten ==
    \A p \in Nation : \A nr \in 0 .. issued[p] - 1 :
        \/ \E i \in DOMAIN send_queue[p].orders : send_queue[p].orders[i].nr = nr
        \/ \E i \in DOMAIN log[p] : \E j \in DOMAIN log[p][i].orders :
                log[p][i].orders[j].nr = nr

(* poll_msg never throws a queue away because its frame lies beyond the     *)
(* receive queue, nor because it is over: RECEIVE_QUEUE_BACKUP slots are    *)
(* enough for how far machines drift apart.                                 *)
ArrivesInTime ==
    [][\A p, q \in Nation : Together(p) => \A n \in got'[p][q] \ got[p][q] :
         \E k \in Slot : receive_queue[p][k].frame = log[q][n + 1].frame]_vars

(* "When all players are ready to proceed to the next frame": a machine     *)
(* processes a frame only with the queue of every connected player whose    *)
(* turn it was.                                                             *)
WaitsForPeers ==
    [][\A p \in Nation : frame_count'[p] # frame_count[p] =>
         \A n \in peers[p] : has_send_frame(n, frame_count[p]) =>
             n \in NationsIn(receive_queue[p][0].queues)]_vars

(* No machine stays in a frame for ever, whoever leaves and however often   *)
(* the send window is full.                                                 *)
Progress == \A p \in Nation : <>(frame_count[p] = MaxFrame)

=============================================================================
