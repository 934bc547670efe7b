---------------------------- MODULE ErrorControl ----------------------------
(***************************************************************************)
(* The error-control layer of a multiplayer game (OERRCTRL.cpp): every     *)
(* machine broadcasts numbered frames to its peers over unsequenced UDP,   *)
(* keeps each frame until every peer has acknowledged it, and accepts the  *)
(* frames of a peer at most once, in any order inside a window.            *)
(*                                                                         *)
(* Frame ids are the code's: 0 .. MAX_QUEUE-1, reused.  The history        *)
(* variables sent, base, low and got count the same things without wrap.   *)
(* The code never reads them; the properties and the one assumption about  *)
(* the network, CanArrive, do.                                             *)
(***************************************************************************)
EXTENDS Integers, Sequences, FiniteSets

CONSTANTS
    Player,         \* the machines (ecPlayerId)
    MAX_QUEUE,      \* frame ids, 18 in OERRCTRL.h
    MAX_RECV_QUEUE, \* slots of the receive ring, 72 in OERRCTRL.h
    Budget,         \* bound: how many messages each machine ever sends
    Noisy           \* bound: the machines that may receive damaged datagrams

ASSUME PlayerAssumption == IsFiniteSet(Player)
(* An even queue of at least two halves: with an odd one the sender may run *)
(* one frame further ahead than the receiver accepts.                       *)
ASSUME QueueAssumption == MAX_QUEUE \in Nat /\ MAX_QUEUE >= 4 /\ MAX_QUEUE % 2 = 0
ASSUME RecvQueueAssumption == MAX_RECV_QUEUE \in Nat /\ MAX_RECV_QUEUE >= 2
ASSUME BudgetAssumption == Budget \in [Player -> Nat]

VARIABLES
    peers,           \* peers[p]: the players whose dp_id is set at p
    send_head, send_tail,  \* frame ids: oldest kept, next to use
    send_queue,      \* send_queue[p][f]: the message kept in slot f
    ack_flag,        \* ack_flag[p][f]: the players that acknowledged frame f
    wait_to_receive, \* wait_to_receive[p][q]: first frame of q that p lacks
    recv_flag,       \* recv_flag[p][q]: the frames of q marked received
    receive_queue,   \* receive_queue[p]: accepted, not yet taken by Remote
    net,             \* datagrams that may still arrive
    sent, base, low, got  \* history: see below

\* sent[p]: messages handed to send; base[p]: how many of them p has released;
\* low[p][q]: wait_to_receive[p][q] without wrap;
\* got[p][q]: the messages of q that p accepted.
sender  == <<send_head, send_tail, send_queue, ack_flag, sent, base>>
receiver == <<wait_to_receive, recv_flag, receive_queue, low, got>>
vars == <<peers, sender, receiver, net>>

Window  == MAX_QUEUE \div 2
FrameId == 0 .. MAX_QUEUE - 1

Packet ==
    [type : {"data", "ack"}, from : Player, to : Player, frame : FrameId, msg : Nat]
    \cup [type : {"negack"}, from : Player, to : Player, frame : FrameId]

-----------------------------------------------------------------------------
(* Ring arithmetic (OERRCTRL.h). *)

\* Mistake: the wrap comes one frame late.
next_frame_id_late(f) == IF f > MAX_QUEUE - 1 THEN 0 ELSE f + 1

next_frame_id(f) == IF f >= MAX_QUEUE - 1 THEN 0 ELSE f + 1

is_between(lo, t, hi) ==
    IF lo <= hi THEN lo <= t /\ t < hi ELSE lo <= t \/ t < hi

\* The frame i places after f.
Ahead(f, i) == (f + i) % MAX_QUEUE

\* Mistake: forgets that the ring keeps one slot empty.
send_queue_space_full(p) ==
    IF send_tail[p] >= send_head[p]
    THEN MAX_QUEUE - (send_tail[p] - send_head[p])
    ELSE send_head[p] - send_tail[p]

\* send_queue_space: free slots of the send ring, which keeps one empty.
send_queue_space(p) ==
    IF send_tail[p] >= send_head[p]
    THEN MAX_QUEUE - 1 - (send_tail[p] - send_head[p])
    ELSE send_head[p] - send_tail[p] - 1

Outstanding(p) == MAX_QUEUE - 1 - send_queue_space(p)

is_waiting_ack(p, f) == is_between(send_head[p], f, send_tail[p])

\* Mistake: frames already marked received are accepted again.
is_waiting_receive_again(p, q, f) ==
    is_between(wait_to_receive[p][q], f, Ahead(wait_to_receive[p][q], Window))

is_waiting_receive(p, q, f) ==
    /\ is_between(wait_to_receive[p][q], f, Ahead(wait_to_receive[p][q], Window))
    /\ f \notin recv_flag[p][q]

is_recv_full(p) == Len(receive_queue[p]) >= MAX_RECV_QUEUE - 1

are_all_acked(live, acks) == live \subseteq acks

-----------------------------------------------------------------------------
(* The network, modelled from how MultiPlayer.send and receive use it: a    *)
(* datagram may be lost, arrive late, twice or out of order.  CanArrive is  *)
(* what the protocol takes on trust: nothing comes from a player whose      *)
(* connection is gone, and no datagram outlives a full window, since a      *)
(* frame id names only the last MAX_QUEUE messages.                         *)

CanArrive(pkt) ==
    /\ pkt.from \in peers[pkt.to]
    /\ pkt.type = "data" => low[pkt.to][pkt.from] <= pkt.msg + Window
    /\ pkt.type = "ack"  => base[pkt.to] <= pkt.msg + Window

Transmit(pkts) == net' = {pkt \in net \cup pkts : CanArrive(pkt)'}

Data(p, q, f) ==
    [type |-> "data", from |-> p, to |-> q, frame |-> f, msg |-> send_queue[p][f]]

Datagram(type, p, q, m) ==
    [type |-> type, from |-> p, to |-> q, frame |-> m % MAX_QUEUE, msg |-> m]

Lose(pkt) ==
    /\ pkt \in net
    /\ net' = net \ {pkt}
    /\ UNCHANGED <<peers, sender, receiver>>

-----------------------------------------------------------------------------
(* clear_acked_frame: release frames from the head while every connected   *)
(* player has acknowledged them; n of them are released.                   *)
clear_acked_frame(p, live, acks) ==
    \E n \in 0 .. Outstanding(p) :
        /\ \A i \in 0 .. n - 1 : are_all_acked(live, acks[Ahead(send_head[p], i)])
        /\ n = Outstanding(p) \/ ~are_all_acked(live, acks[Ahead(send_head[p], n)])
        /\ send_head' = [send_head EXCEPT ![p] = Ahead(@, n)]
        /\ base' = [base EXCEPT ![p] = @ + n]

-----------------------------------------------------------------------------
(* Actions *)

\* send(0, ...): a broadcast, accepted while at least half the ring is free.
Send(p) ==
    LET f == send_tail[p] IN
    /\ sent[p] < Budget[p]
    /\ peers[p] # {}
    /\ send_queue_space(p) >= Window
    /\ send_queue' = [send_queue EXCEPT ![p][f] = sent[p]]
    /\ ack_flag' = [ack_flag EXCEPT ![p][f] = {}]
    /\ send_tail' = [send_tail EXCEPT ![p] = next_frame_id(@)]
    /\ sent' = [sent EXCEPT ![p] = @ + 1]
    /\ UNCHANGED <<peers, send_head, base, receiver>>
    /\ Transmit({[type |-> "data", from |-> p, to |-> q, frame |-> f,
                  msg |-> sent[p]] : q \in peers[p]})

\* Mistake: the flags behind wait_to_receive are not cleared.
MarkReceivedKeepFlags(p, q, f) ==
    LET w     == wait_to_receive[p][q]
        flags == recv_flag[p][q] \cup {f}
    IN  /\ recv_flag' = [recv_flag EXCEPT ![p][q] = flags]
        /\ IF f # w
           THEN UNCHANGED <<wait_to_receive, low>>
           ELSE \E n \in 1 .. Window :
                  /\ \A i \in 0 .. n - 1 : Ahead(w, i) \in flags
                  /\ n = Window \/ Ahead(w, n) \notin flags
                  /\ wait_to_receive' = [wait_to_receive EXCEPT ![p][q] = Ahead(w, n)]
                  /\ low' = [low EXCEPT ![p][q] = @ + n]

\* set_recv_flag, then, when the frame awaited has come, move wait_to_receive
\* past the n frames marked in a row, each step clearing the flag behind it.
MarkReceived(p, q, f) ==
    LET w     == wait_to_receive[p][q]
        flags == recv_flag[p][q] \cup {f}
    IN  IF f # w
        THEN /\ recv_flag' = [recv_flag EXCEPT ![p][q] = flags]
             /\ UNCHANGED <<wait_to_receive, low>>
        ELSE \E n \in 1 .. Window :
                /\ \A i \in 0 .. n - 1 : Ahead(w, i) \in flags
                /\ Ahead(w, n) \notin flags
                /\ recv_flag' = [recv_flag EXCEPT ![p][q] =
                       flags \ {Ahead(w, MAX_QUEUE - 1 + i) : i \in 0 .. n - 1}]
                /\ wait_to_receive' = [wait_to_receive EXCEPT ![p][q] = Ahead(w, n)]
                /\ low' = [low EXCEPT ![p][q] = @ + n]

Reply(pkt, type) ==
    [type |-> type, from |-> pkt.to, to |-> pkt.from, frame |-> pkt.frame, msg |-> pkt.msg]

\* FIRST_SEND or RE_SEND, awaited, and there is room for it.
AcceptData(pkt) ==
    LET p == pkt.to
        q == pkt.from
    IN  /\ pkt.type = "data"
        /\ is_waiting_receive(p, q, pkt.frame)
        /\ ~is_recv_full(p)
        /\ MarkReceived(p, q, pkt.frame)
        /\ receive_queue' = [receive_queue EXCEPT ![p] = Append(@, [from |-> q, msg |-> pkt.msg])]
        /\ got' = [got EXCEPT ![p][q] = @ \cup {pkt.msg}]
        /\ UNCHANGED <<peers, sender>>
        /\ Transmit({Reply(pkt, "ack")})

\* Mistake: a frame there is no room for is acknowledged all the same.
DiscardDataFull(pkt) ==
    /\ pkt.type = "data"
    /\ ~is_waiting_receive(pkt.to, pkt.from, pkt.frame) \/ is_recv_full(pkt.to)
    /\ UNCHANGED <<peers, sender, receiver>>
    /\ Transmit({Reply(pkt, "ack")})

\* A frame not awaited is discarded, but acknowledged so that it stops coming.
DiscardData(pkt) ==
    /\ pkt.type = "data"
    /\ ~is_waiting_receive(pkt.to, pkt.from, pkt.frame)
    /\ UNCHANGED <<peers, sender, receiver>>
    /\ Transmit({Reply(pkt, "ack")})

\* ACKNOW
ReceiveAck(pkt) ==
    LET p    == pkt.to
        acks == [ack_flag[p] EXCEPT ![pkt.frame] = @ \cup {pkt.from}]
    IN  /\ pkt.type = "ack"
        /\ is_waiting_ack(p, pkt.frame)
        /\ ack_flag' = [ack_flag EXCEPT ![p] = acks]
        /\ clear_acked_frame(p, peers[p], acks)
        /\ UNCHANGED <<peers, send_tail, send_queue, sent, receiver>>
        /\ Transmit({})

\* NEGACK: the frame the peer awaits is sent to it again.
ReceiveNegack(pkt) ==
    /\ pkt.type = "negack"
    /\ is_waiting_ack(pkt.to, pkt.frame)
    /\ UNCHANGED <<peers, sender, receiver>>
    /\ Transmit({Data(pkt.to, pkt.from, pkt.frame)})

\* A long datagram with a bad CRC: ask its sender for the frame awaited.
ReceiveCorrupt(pkt) ==
    LET p == pkt.to
        q == pkt.from
    IN  /\ pkt.type = "data" /\ p \in Noisy
        /\ UNCHANGED <<peers, sender, receiver>>
        /\ Transmit({[type |-> "negack", from |-> p, to |-> q,
                      frame |-> wait_to_receive[p][q]]})

\* Mistake: the scan starts behind the oldest frame.
ReTransmitSkipHead(p, f) ==
    /\ is_waiting_ack(p, f)
    /\ f # send_head[p]
    /\ ~are_all_acked(peers[p], ack_flag[p][f])
    /\ UNCHANGED <<peers, sender, receiver>>
    /\ Transmit({Data(p, q, f) : q \in peers[p] \ ack_flag[p][f]})

\* re_transmit, frame f having timed out: once more to whoever has not
\* acknowledged it.
ReTransmit(p, f) ==
    /\ is_waiting_ack(p, f)
    /\ ~are_all_acked(peers[p], ack_flag[p][f])
    /\ UNCHANGED <<peers, sender, receiver>>
    /\ Transmit({Data(p, q, f) : q \in peers[p] \ ack_flag[p][f]})

\* yield finds that q is no longer connected: set_player_lost.
PlayerLost(p, q) ==
    /\ q \in peers[p]
    /\ peers' = [peers EXCEPT ![p] = @ \ {q}]
    /\ clear_acked_frame(p, peers[p] \ {q}, ack_flag[p])
    /\ UNCHANGED <<send_tail, send_queue, ack_flag, sent, receiver>>
    /\ Transmit({})

\* receive and de_recv_queue: Remote takes the oldest accepted message.
TakeReceived(p) ==
    /\ receive_queue[p] # <<>>
    /\ receive_queue' = [receive_queue EXCEPT ![p] = Tail(@)]
    /\ UNCHANGED <<peers, sender, wait_to_receive, recv_flag, low, got, net>>

-----------------------------------------------------------------------------
\* init, then set_dp_id for every other player.
Init ==
    /\ peers = [p \in Player |-> Player \ {p}]
    /\ send_head = [p \in Player |-> 0]
    /\ send_tail = [p \in Player |-> 0]
    /\ send_queue = [p \in Player |-> [f \in FrameId |-> 0]]
    /\ ack_flag = [p \in Player |-> [f \in FrameId |-> {}]]
    /\ wait_to_receive = [p \in Player |-> [q \in Player |-> 0]]
    /\ recv_flag = [p \in Player |-> [q \in Player |-> {}]]
    /\ receive_queue = [p \in Player |-> <<>>]
    /\ net = {}
    /\ sent = [p \in Player |-> 0]
    /\ base = [p \in Player |-> 0]
    /\ low = [p \in Player |-> [q \in Player |-> 0]]
    /\ got = [p \in Player |-> [q \in Player |-> {}]]

Handle(pkt) ==
    /\ pkt \in net
    /\ \/ AcceptData(pkt)
       \/ DiscardData(pkt)
       \/ ReceiveAck(pkt)
       \/ ReceiveNegack(pkt)

Next ==
    \/ \E p \in Player : Send(p) \/ TakeReceived(p)
    \/ \E p \in Player, f \in FrameId : ReTransmit(p, f)
    \/ \E p, q \in Player : PlayerLost(p, q)
    \/ \E pkt \in net : Handle(pkt) \/ ReceiveCorrupt(pkt) \/ Lose(pkt)

Spec == Init /\ [][Next]_vars

(* What makes delivery happen.  Each machine calls yield over and over, so  *)
(* a frame that stays unacknowledged is retransmitted, an accepted message  *)
(* is taken, and the network, which may lose any datagram, does not lose    *)
(* every copy of one that is sent again and again.                          *)
Fairness ==
    /\ \A p \in Player : WF_vars(TakeReceived(p))
    /\ \A p \in Player, f \in FrameId : WF_vars(ReTransmit(p, f))
    /\ \A p, q \in Player : \A m \in 0 .. Budget[p] - 1 :
        /\ SF_vars(Handle(Datagram("data", p, q, m)))
        /\ SF_vars(Handle(Datagram("ack", q, p, m)))

FairSpec == Spec /\ Fairness

-----------------------------------------------------------------------------
(* Properties *)

TypeOK ==
    /\ peers \in [Player -> SUBSET Player]
    /\ send_head \in [Player -> FrameId]
    /\ send_tail \in [Player -> FrameId]
    /\ send_queue \in [Player -> [FrameId -> Nat]]
    /\ ack_flag \in [Player -> [FrameId -> SUBSET Player]]
    /\ wait_to_receive \in [Player -> [Player -> FrameId]]
    /\ recv_flag \in [Player -> [Player -> SUBSET FrameId]]
    /\ receive_queue \in [Player -> Seq([from : Player, msg : Nat])]
    /\ \A p \in Player : Len(receive_queue[p]) < MAX_RECV_QUEUE
    /\ net \subseteq Packet
    /\ sent \in [Player -> Nat]
    /\ base \in [Player -> Nat]
    /\ low \in [Player -> [Player -> Nat]]
    /\ got \in [Player -> [Player -> SUBSET Nat]]

(* A message that a connected peer has not accepted is still in its slot of *)
(* the send ring, between head and tail and not marked acknowledged by that *)
(* peer, so re_transmit can still send it: a frame is never released, its   *)
(* slot never reused, and an acknowledgement never counted for the wrong    *)
(* message while a player lacks it.                                         *)
KeptUntilAccepted ==
    \A p \in Player : \A q \in peers[p] : \A n \in 0 .. sent[p] - 1 :
        n \notin got[q][p] =>
            LET f == n % MAX_QUEUE IN
            /\ is_waiting_ack(p, f)
            /\ send_queue[p][f] = n
            /\ q \notin ack_flag[p][f]

(* What a machine accepts of a peer is a prefix of what the peer sent plus  *)
(* some of the next Window messages: a late frame is overtaken by fewer     *)
(* than MAX_QUEUE/2 others.  Remote sizes its queues by this bound.         *)
BoundedReordering ==
    \A p, q \in Player :
        /\ 0 .. low[p][q] - 1 \subseteq got[p][q]
        /\ got[p][q] \subseteq 0 .. low[p][q] + Window - 1
        /\ low[p][q] \notin got[p][q]
        /\ low[p][q] % MAX_QUEUE = wait_to_receive[p][q]

(* en_recv_queue is never given a message that the machine had accepted     *)
(* before, however often it is retransmitted or duplicated.                 *)
AcceptsOnce ==
    [][\A p \in Player :
         Len(receive_queue'[p]) > Len(receive_queue[p]) =>
             LET m == receive_queue'[p][Len(receive_queue'[p])]
             IN  m.msg \notin got[p][m.from]]_vars

(* Every message reaches every player that stays connected to its sender.   *)
EventualDelivery ==
    \A p, q \in Player : \A n \in 0 .. Budget[p] - 1 :
        (p # q /\ n < sent[p]) ~>
            (n \in got[q][p] \/ q \notin peers[p] \/ p \notin peers[q])

(* The layer is a reliable multicast: seen through peers, sent and got, it  *)
(* does nothing else than publish, deliver and disconnect.                  *)
Multicast == INSTANCE ReliableMulticast
ImplementsMulticast == Multicast!Spec

=============================================================================
