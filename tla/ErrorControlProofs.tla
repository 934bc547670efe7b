------------------------- MODULE ErrorControlProofs -------------------------
(***************************************************************************)
(* Proofs about ErrorControl, for any set of players, any even MAX_QUEUE   *)
(* and any receive ring: its types, and that no frame is released, taken   *)
(* for another or accepted twice although the frame ids wrap.              *)
(*                                                                         *)
(* The argument: the code's frame ids are the numbers base, sent and low   *)
(* modulo MAX_QUEUE = 2 * Window.  At most Window messages are kept at the *)
(* sender, and base <= low at every connected receiver, so any two numbers *)
(* the code ever compares are less than MAX_QUEUE apart, and the ring      *)
(* comparisons agree with the comparisons of the numbers.                  *)
(***************************************************************************)
EXTENDS ErrorControl, DataLemmas

-----------------------------------------------------------------------------
(* The ring operators on remainders. *)

(* The id space is two windows, so any two ids the code compares are distinct. *)
LEMMA WindowFact ==
    /\ Window \in Nat /\ Window >= 2
    /\ MAX_QUEUE \in Nat \ {0} /\ MAX_QUEUE = 2 * Window
BY QueueAssumption DEF Window

(* A message number modulo MAX_QUEUE is a frame id. *)
LEMMA FrameFact == ASSUME NEW a \in Nat PROVE (a % MAX_QUEUE) \in FrameId
BY DivMod, WindowFact DEF FrameId

(* Two messages less than MAX_QUEUE apart never share a frame id. *)
LEMMA SameFrame ==
    ASSUME NEW a \in Nat, NEW b \in Nat,
           a < b + MAX_QUEUE, b < a + MAX_QUEUE, a % MAX_QUEUE = b % MAX_QUEUE
    PROVE  a = b
BY SameRemainder, WindowFact

(* Going ahead i places on the ring is adding i to the number. *)
LEMMA AheadFrame ==
    ASSUME NEW a \in Nat, NEW i \in Nat
    PROVE  Ahead(a % MAX_QUEUE, i) = (a + i) % MAX_QUEUE
BY ModAdd, WindowFact DEF Ahead

(* Distance for the frame ids. *)
LEMMA FrameDistance ==
    ASSUME NEW a \in Nat, NEW b \in Nat, a <= b, b < a + MAX_QUEUE
    PROVE  \/ /\ (b % MAX_QUEUE) = (a % MAX_QUEUE) + (b - a)
              /\ (a % MAX_QUEUE) + (b - a) < MAX_QUEUE
           \/ /\ (b % MAX_QUEUE) = (a % MAX_QUEUE) + (b - a) - MAX_QUEUE
              /\ (a % MAX_QUEUE) + (b - a) >= MAX_QUEUE
BY Distance, WindowFact

(* next_frame_id counts modulo MAX_QUEUE. *)
LEMMA NextFrame ==
    ASSUME NEW a \in Nat
    PROVE  next_frame_id(a % MAX_QUEUE) = (a + 1) % MAX_QUEUE
<1>1. MAX_QUEUE \in Nat /\ MAX_QUEUE >= 4
  BY QueueAssumption
<1>2. (a % MAX_QUEUE) \in 0 .. MAX_QUEUE - 1
  BY FrameFact DEF FrameId
<1> DEFINE b == a + 1
<1>3. b \in Nat /\ a <= b /\ b < a + MAX_QUEUE /\ b - a = 1
  BY <1>1
<1> HIDE DEF b
<1>4. \/ /\ (b % MAX_QUEUE) = (a % MAX_QUEUE) + (b - a)
         /\ (a % MAX_QUEUE) + (b - a) < MAX_QUEUE
      \/ /\ (b % MAX_QUEUE) = (a % MAX_QUEUE) + (b - a) - MAX_QUEUE
         /\ (a % MAX_QUEUE) + (b - a) >= MAX_QUEUE
  BY <1>3, FrameDistance
<1>5. next_frame_id(a % MAX_QUEUE) = b % MAX_QUEUE
  BY <1>1, <1>2, <1>3, <1>4 DEF next_frame_id
<1> QED BY <1>5 DEF b

(* is_between on frame ids compares the numbers behind them. *)
LEMMA BetweenFrame ==
    ASSUME NEW lo \in Nat, NEW x \in Nat, NEW hi \in Nat,
           lo <= hi, hi < lo + MAX_QUEUE,
           x < lo + MAX_QUEUE, lo < x + MAX_QUEUE, hi <= x + MAX_QUEUE
    PROVE  is_between(lo % MAX_QUEUE, x % MAX_QUEUE, hi % MAX_QUEUE)
               <=> lo <= x /\ x < hi
<1> DEFINE l == lo % MAX_QUEUE
           y == x % MAX_QUEUE
           h == hi % MAX_QUEUE
<1>1. MAX_QUEUE \in Nat /\ l \in 0 .. MAX_QUEUE - 1 /\ y \in 0 .. MAX_QUEUE - 1
         /\ h \in 0 .. MAX_QUEUE - 1
  BY FrameFact, QueueAssumption DEF FrameId
<1>2. \/ h = l + (hi - lo) /\ l + (hi - lo) < MAX_QUEUE
      \/ h = l + (hi - lo) - MAX_QUEUE /\ l + (hi - lo) >= MAX_QUEUE
  BY FrameDistance
<1>3. CASE lo <= x
  <2>1. \/ y = l + (x - lo) /\ l + (x - lo) < MAX_QUEUE
        \/ y = l + (x - lo) - MAX_QUEUE /\ l + (x - lo) >= MAX_QUEUE
    BY <1>3, FrameDistance
  <2> HIDE DEF l, y, h
  <2>2. is_between(l, y, h) <=> lo <= x /\ x < hi
    BY <1>1, <1>2, <1>3, <2>1 DEF is_between
  <2> QED BY <2>2 DEF l, y, h
<1>4. CASE x < lo
  <2>1. \/ l = y + (lo - x) /\ y + (lo - x) < MAX_QUEUE
        \/ l = y + (lo - x) - MAX_QUEUE /\ y + (lo - x) >= MAX_QUEUE
    BY <1>4, FrameDistance
  <2> HIDE DEF l, y, h
  <2>2. is_between(l, y, h) <=> lo <= x /\ x < hi
    BY <1>1, <1>2, <1>4, <2>1 DEF is_between
  <2> QED BY <2>2 DEF l, y, h
<1> QED BY <1>3, <1>4

(* A frame between two others is the frame of a number between theirs. *)
LEMMA FrameBetween ==
    ASSUME NEW lo \in Nat, NEW hi \in Nat, NEW f \in FrameId,
           lo <= hi, hi < lo + MAX_QUEUE,
           is_between(lo % MAX_QUEUE, f, hi % MAX_QUEUE)
    PROVE  \E n \in lo .. hi - 1 : n % MAX_QUEUE = f
<1> DEFINE l == lo % MAX_QUEUE
           h == hi % MAX_QUEUE
           n == IF l <= f THEN lo + (f - l) ELSE lo + (f - l) + MAX_QUEUE
           y == n % MAX_QUEUE
<1>1. MAX_QUEUE \in Nat /\ l \in 0 .. MAX_QUEUE - 1 /\ h \in 0 .. MAX_QUEUE - 1
         /\ f \in 0 .. MAX_QUEUE - 1
  BY FrameFact, QueueAssumption DEF FrameId
<1>2. \/ h = l + (hi - lo) /\ l + (hi - lo) < MAX_QUEUE
      \/ h = l + (hi - lo) - MAX_QUEUE /\ l + (hi - lo) >= MAX_QUEUE
  BY FrameDistance
<1> HIDE DEF l, h
<1>3. n \in Nat /\ lo <= n /\ n < lo + MAX_QUEUE
  BY <1>1
<1>4. n < hi
  BY <1>1, <1>2 DEF is_between, l, h
<1> HIDE DEF n
<1>5. y \in 0 .. MAX_QUEUE - 1
  BY <1>3, FrameFact DEF FrameId
<1>6. \/ /\ (n % MAX_QUEUE) = (lo % MAX_QUEUE) + (n - lo)
         /\ (lo % MAX_QUEUE) + (n - lo) < MAX_QUEUE
      \/ /\ (n % MAX_QUEUE) = (lo % MAX_QUEUE) + (n - lo) - MAX_QUEUE
         /\ (lo % MAX_QUEUE) + (n - lo) >= MAX_QUEUE
  BY <1>3, FrameDistance
<1>7. \/ y = l + (n - lo) /\ l + (n - lo) < MAX_QUEUE
      \/ y = l + (n - lo) - MAX_QUEUE /\ l + (n - lo) >= MAX_QUEUE
  BY <1>6 DEF l
<1> HIDE DEF y
<1>8. y = f
  BY <1>1, <1>3, <1>5, <1>7 DEF n
<1> QED BY <1>3, <1>4, <1>8 DEF y

-----------------------------------------------------------------------------
(* Types *)

(* Ahead stays on the ring. *)
LEMMA AheadType == ASSUME NEW f \in FrameId, NEW i \in Nat PROVE Ahead(f, i) \in FrameId
<1>1. f + i \in Nat
  BY WindowFact DEF FrameId
<1> QED BY <1>1, FrameFact DEF Ahead

(* next_frame_id stays on the ring. *)
LEMMA NextType == ASSUME NEW f \in FrameId PROVE next_frame_id(f) \in FrameId
BY WindowFact DEF FrameId, next_frame_id

(* The number of frames clear_acked_frame releases is a number. *)
LEMMA ClearType ==
    ASSUME TypeOK, NEW p \in Player, NEW live, NEW acks, clear_acked_frame(p, live, acks)
    PROVE  send_head' \in [Player -> FrameId] /\ base' \in [Player -> Nat]
<1>1. PICK n \in 0 .. Outstanding(p) :
          /\ send_head' = [send_head EXCEPT ![p] = Ahead(@, n)]
          /\ base' = [base EXCEPT ![p] = @ + n]
  BY DEF clear_acked_frame
<1>2. n \in Nat
  BY WindowFact DEF Outstanding, send_queue_space, TypeOK, FrameId
<1>3. Ahead(send_head[p], n) \in FrameId
  BY <1>2, AheadType DEF TypeOK
<1> QED BY <1>1, <1>2, <1>3 DEF TypeOK

(* set_recv_flag and the advance of wait_to_receive keep their types. *)
LEMMA MarkType ==
    ASSUME TypeOK, NEW p \in Player, NEW q \in Player, NEW f \in FrameId,
           MarkReceived(p, q, f)
    PROVE  /\ recv_flag' \in [Player -> [Player -> SUBSET FrameId]]
           /\ wait_to_receive' \in [Player -> [Player -> FrameId]]
           /\ low' \in [Player -> [Player -> Nat]]
<1> DEFINE w == wait_to_receive[p][q]
           flags == recv_flag[p][q] \cup {f}
<1>1. w \in FrameId /\ flags \in SUBSET FrameId
  BY DEF TypeOK
<1>2. CASE f # w
  <2>1. /\ recv_flag' = [recv_flag EXCEPT ![p][q] = flags]
        /\ UNCHANGED <<wait_to_receive, low>>
    BY <1>2, Zenon DEF MarkReceived
  <2> HIDE DEF w, flags
  <2> QED BY <1>1, <2>1 DEF TypeOK
<1>3. CASE f = w
  <2>1. PICK n \in 1 .. Window :
            /\ recv_flag' = [recv_flag EXCEPT ![p][q] =
                   flags \ {Ahead(w, MAX_QUEUE - 1 + i) : i \in 0 .. n - 1}]
            /\ wait_to_receive' = [wait_to_receive EXCEPT ![p][q] = Ahead(w, n)]
            /\ low' = [low EXCEPT ![p][q] = @ + n]
    BY <1>3, Zenon DEF MarkReceived
  <2>2. n \in Nat /\ Ahead(w, n) \in FrameId
    BY <1>1, AheadType, WindowFact
  <2> DEFINE left == flags \ {Ahead(w, MAX_QUEUE - 1 + i) : i \in 0 .. n - 1}
  <2>3. left \in SUBSET FrameId /\ recv_flag' = [recv_flag EXCEPT ![p][q] = left]
    BY <1>1, <2>1
  <2> HIDE DEF w, flags, left
  <2>4. recv_flag' \in [Player -> [Player -> SUBSET FrameId]]
    BY <2>3 DEF TypeOK
  <2>5. wait_to_receive' \in [Player -> [Player -> FrameId]]
    BY <2>1, <2>2 DEF TypeOK
  <2>6. low' \in [Player -> [Player -> Nat]]
    <3> DEFINE new == low[p][q] + n
    <3>1. low' = [low EXCEPT ![p][q] = new]
      BY <2>1
    <3>2. low[p][q] \in Nat
      BY DEF TypeOK
    <3>3. new \in Nat
      BY <2>2, <3>2
    <3> HIDE DEF new
    <3> QED BY <3>1, <3>3 DEF TypeOK
  <2> QED BY <2>4, <2>5, <2>6
<1> QED BY <1>2, <1>3

(* init sets up well-typed state. *)
LEMMA InitType == Init => TypeOK
BY WindowFact, RecvQueueAssumption DEF Init, TypeOK, FrameId

(* send keeps the types. *)
LEMMA SendType == ASSUME TypeOK, NEW p \in Player, Send(p) PROVE TypeOK'
<1> DEFINE f == send_tail[p]
<1>1. f \in FrameId /\ sent[p] \in Nat
  BY DEF TypeOK
<1>2. send_queue' \in [Player -> [FrameId -> Nat]]
  BY <1>1 DEF Send, TypeOK
<1>3. ack_flag' \in [Player -> [FrameId -> SUBSET Player]]
  <2>1. PICK none \in SUBSET Player : none = {}
    OBVIOUS
  <2>2. ack_flag' = [ack_flag EXCEPT ![p][f] = none]
    BY <2>1 DEF Send
  <2> HIDE DEF f
  <2> QED BY <1>1, <2>2 DEF TypeOK
<1>4. send_tail' \in [Player -> FrameId]
  BY <1>1, NextType DEF Send, TypeOK
<1>5. sent' \in [Player -> Nat]
  <2>1. sent' = [sent EXCEPT ![p] = @ + 1]
    BY DEF Send
  <2> QED BY <1>1, <2>1 DEF TypeOK
<1>6. net' \subseteq Packet
  <2> DEFINE new == {[type |-> "data", from |-> p, to |-> q, frame |-> f,
                      msg |-> sent[p]] : q \in peers[p]}
  <2>1. new \subseteq Packet
    BY <1>1 DEF TypeOK, Packet
  <2>2. net' \subseteq net \cup new
    BY DEF Send, Transmit
  <2> QED BY <2>1, <2>2 DEF TypeOK
<1> QED BY <1>2, <1>3, <1>4, <1>5, <1>6 DEF Send, TypeOK, receiver

(* The fields of a datagram. *)
LEMMA PacketType ==
    ASSUME NEW pkt \in Packet
    PROVE  /\ pkt.from \in Player /\ pkt.to \in Player /\ pkt.frame \in FrameId
           /\ pkt.type \in {"data", "ack"} => pkt.msg \in Nat
BY DEF Packet

(* The reply to a data datagram is a datagram. *)
LEMMA ReplyType ==
    ASSUME NEW pkt \in Packet, pkt.type = "data" PROVE Reply(pkt, "ack") \in Packet
BY PacketType DEF Reply, Packet

(* What re_transmit sends is a datagram. *)
LEMMA DataType ==
    ASSUME TypeOK, NEW p \in Player, NEW q \in Player, NEW f \in FrameId
    PROVE  Data(p, q, f) \in Packet
<1>1. send_queue[p][f] \in Nat
  BY DEF TypeOK
<1> QED BY <1>1 DEF Data, Packet

(* Sending datagrams keeps the network well typed. *)
LEMMA TransmitType ==
    ASSUME TypeOK, NEW pkts \in SUBSET Packet, Transmit(pkts) PROVE net' \subseteq Packet
BY DEF TypeOK, Transmit

(* Accepting a frame keeps the types, and never overfills the receive ring. *)
LEMMA AcceptType ==
    ASSUME TypeOK, NEW pkt \in net, AcceptData(pkt) PROVE TypeOK'
<1> DEFINE p == pkt.to
           q == pkt.from
           m == pkt.msg
<1>1. pkt \in Packet /\ pkt.type = "data"
  BY DEF TypeOK, AcceptData
<1>2. p \in Player /\ q \in Player /\ pkt.frame \in FrameId /\ m \in Nat
  BY <1>1, PacketType
<1>3. MarkReceived(p, q, pkt.frame)
  BY DEF AcceptData
<1>4. net' \subseteq Packet
  BY <1>1, ReplyType, TransmitType DEF AcceptData
<1>5. /\ receive_queue' \in [Player -> Seq([from : Player, msg : Nat])]
      /\ \A r \in Player : Len(receive_queue'[r]) < MAX_RECV_QUEUE
  <2> DEFINE entry == [from |-> q, msg |-> m]
             new == Append(receive_queue[p], entry)
  <2>1. receive_queue' = [receive_queue EXCEPT ![p] = new] /\ ~is_recv_full(p)
    BY DEF AcceptData
  <2>2. entry \in [from : Player, msg : Nat]
    BY <1>2
  <2>3. receive_queue \in [Player -> Seq([from : Player, msg : Nat])]
    BY DEF TypeOK
  <2>4. receive_queue[p] \in Seq([from : Player, msg : Nat])
    BY <1>2, <2>3
  <2>5. new \in Seq([from : Player, msg : Nat]) /\ Len(new) = Len(receive_queue[p]) + 1
    BY <2>2, <2>4
  <2>6. Len(new) < MAX_RECV_QUEUE
    BY <2>1, <2>4, <2>5, RecvQueueAssumption DEF is_recv_full
  <2>7. \A r \in Player : Len(receive_queue[r]) < MAX_RECV_QUEUE
    BY DEF TypeOK
  <2> HIDE DEF new, p
  <2> QED BY <1>2, <2>1, <2>3, <2>5, <2>6, <2>7
<1>6. got' \in [Player -> [Player -> SUBSET Nat]]
  <2> DEFINE new == got[p][q] \cup {m}
  <2>1. got' = [got EXCEPT ![p][q] = new]
    BY DEF AcceptData
  <2>2. got \in [Player -> [Player -> SUBSET Nat]]
    BY DEF TypeOK
  <2>3. new \in SUBSET Nat
    BY <1>2, <2>2
  <2> HIDE DEF new, p, q
  <2> QED BY <1>2, <2>1, <2>2, <2>3
<1>7. /\ recv_flag' \in [Player -> [Player -> SUBSET FrameId]]
      /\ wait_to_receive' \in [Player -> [Player -> FrameId]]
      /\ low' \in [Player -> [Player -> Nat]]
  BY <1>2, <1>3, MarkType
<1>8. UNCHANGED <<peers, send_head, send_tail, send_queue, ack_flag, sent, base>>
  BY DEF AcceptData, sender
<1> QED BY <1>4, <1>5, <1>6, <1>7, <1>8 DEF TypeOK

(* An ACKNOW keeps the types. *)
LEMMA AckType ==
    ASSUME TypeOK, NEW pkt \in net, ReceiveAck(pkt) PROVE TypeOK'
<1> DEFINE p == pkt.to
           acks == [ack_flag[p] EXCEPT ![pkt.frame] = @ \cup {pkt.from}]
<1>1. pkt \in Packet
  BY DEF TypeOK
<1>2. p \in Player /\ pkt.frame \in FrameId /\ pkt.from \in Player
  BY <1>1, PacketType
<1>3. clear_acked_frame(p, peers[p], acks) /\ ack_flag' = [ack_flag EXCEPT ![p] = acks]
  BY DEF ReceiveAck
<1>4. send_head' \in [Player -> FrameId] /\ base' \in [Player -> Nat]
  BY <1>2, <1>3, ClearType
<1>5. ack_flag' \in [Player -> [FrameId -> SUBSET Player]]
  <2>1. ack_flag \in [Player -> [FrameId -> SUBSET Player]]
    BY DEF TypeOK
  <2>2. acks \in [FrameId -> SUBSET Player]
    BY <1>2, <2>1
  <2> HIDE DEF acks, p
  <2> QED BY <1>2, <1>3, <2>1, <2>2
<1>6. net' \subseteq Packet
  BY TransmitType DEF ReceiveAck
<1> QED BY <1>4, <1>5, <1>6 DEF ReceiveAck, TypeOK, receiver

(* set_player_lost keeps the types. *)
LEMMA PlayerLostType ==
    ASSUME TypeOK, NEW p \in Player, NEW q \in Player, PlayerLost(p, q) PROVE TypeOK'
<1>1. send_head' \in [Player -> FrameId] /\ base' \in [Player -> Nat]
  BY ClearType DEF PlayerLost
<1>2. peers' \in [Player -> SUBSET Player]
  BY DEF PlayerLost, TypeOK
<1>3. net' \subseteq Packet
  BY TransmitType DEF PlayerLost
<1> QED BY <1>1, <1>2, <1>3 DEF PlayerLost, TypeOK, receiver

(* de_recv_queue keeps the types. *)
LEMMA TakeType == ASSUME TypeOK, NEW p \in Player, TakeReceived(p) PROVE TypeOK'
<1> DEFINE new == Tail(receive_queue[p])
<1>1. /\ receive_queue \in [Player -> Seq([from : Player, msg : Nat])]
      /\ \A r \in Player : Len(receive_queue[r]) < MAX_RECV_QUEUE
  BY DEF TypeOK
<1>2. /\ receive_queue[p] \in Seq([from : Player, msg : Nat])
      /\ receive_queue[p] # <<>>
      /\ receive_queue' = [receive_queue EXCEPT ![p] = new]
  BY <1>1 DEF TakeReceived
<1>3. /\ new \in Seq([from : Player, msg : Nat])
      /\ Len(new) = Len(receive_queue[p]) - 1
  BY <1>2
<1>4. Len(new) < MAX_RECV_QUEUE
  BY <1>1, <1>2, <1>3, RecvQueueAssumption
<1> HIDE DEF new
<1>5. /\ receive_queue' \in [Player -> Seq([from : Player, msg : Nat])]
      /\ \A r \in Player : Len(receive_queue'[r]) < MAX_RECV_QUEUE
  BY <1>1, <1>2, <1>3, <1>4
<1> QED BY <1>5 DEF TakeReceived, TypeOK, sender

(* The other actions change net only. *)
LEMMA NetOnlyType ==
    ASSUME TypeOK, net' \subseteq Packet, UNCHANGED <<peers, sender, receiver>>
    PROVE  TypeOK'
BY DEF TypeOK, sender, receiver

(* Every step keeps the types. *)
LEMMA TypeStep == TypeOK /\ [Next]_vars => TypeOK'
<1> SUFFICES ASSUME TypeOK, [Next]_vars PROVE TypeOK'
  OBVIOUS
<1>1. CASE UNCHANGED vars
  BY <1>1 DEF vars, sender, receiver, TypeOK
<1>2. CASE \E p \in Player : Send(p) \/ TakeReceived(p)
  BY <1>2, SendType, TakeType
<1>3. ASSUME NEW p \in Player, NEW f \in FrameId, ReTransmit(p, f) PROVE TypeOK'
  <2> DEFINE new == {Data(p, q, f) : q \in peers[p] \ ack_flag[p][f]}
  <2>1. peers[p] \in SUBSET Player
    BY DEF TypeOK
  <2>2. new \in SUBSET Packet
    BY <2>1, DataType
  <2>3. Transmit(new) /\ UNCHANGED <<peers, sender, receiver>>
    BY <1>3 DEF ReTransmit
  <2> QED BY <2>2, <2>3, TransmitType, NetOnlyType
<1>4. ASSUME NEW p \in Player, NEW q \in Player, PlayerLost(p, q) PROVE TypeOK'
  BY <1>4, PlayerLostType
<1>5. ASSUME NEW pkt \in net, Handle(pkt) PROVE TypeOK'
  <2>1. pkt \in Packet
    BY DEF TypeOK
  <2>2. CASE AcceptData(pkt)
    BY <2>2, AcceptType
  <2>3. CASE DiscardData(pkt)
    BY <2>1, <2>3, ReplyType, TransmitType, NetOnlyType DEF DiscardData
  <2>4. CASE ReceiveAck(pkt)
    BY <2>4, AckType
  <2>5. CASE ReceiveNegack(pkt)
    BY <2>1, <2>5, PacketType, DataType, TransmitType, NetOnlyType DEF ReceiveNegack
  <2> QED BY <1>5, <2>2, <2>3, <2>4, <2>5 DEF Handle
<1>6. ASSUME NEW pkt \in net, ReceiveCorrupt(pkt) PROVE TypeOK'
  <2> DEFINE ask == [type |-> "negack", from |-> pkt.to, to |-> pkt.from,
                     frame |-> wait_to_receive[pkt.to][pkt.from]]
  <2>1. pkt.from \in Player /\ pkt.to \in Player
    BY PacketType DEF TypeOK
  <2>2. wait_to_receive[pkt.to][pkt.from] \in FrameId
    BY <2>1 DEF TypeOK
  <2>3. ask \in Packet
    BY <2>1, <2>2 DEF Packet
  <2>4. Transmit({ask}) /\ UNCHANGED <<peers, sender, receiver>>
    BY <1>6 DEF ReceiveCorrupt
  <2> QED BY <2>3, <2>4, TransmitType, NetOnlyType
<1>7. ASSUME NEW pkt \in net, Lose(pkt) PROVE TypeOK'
  BY <1>7, NetOnlyType DEF Lose, TypeOK
<1> QED BY <1>1, <1>2, <1>3, <1>4, <1>5, <1>6, <1>7 DEF Next

(* Every variable keeps its type; in particular the receive ring, which     *)
(* keeps one slot empty, never overflows, whatever arrives.                 *)
THEOREM TypeCorrect == Spec => []TypeOK
BY InitType, TypeStep, PTL DEF Spec

-----------------------------------------------------------------------------
(* The inductive invariant *)

(* The send ring holds the messages base .. sent-1, each in the slot of its *)
(* number, and there are never more than Window of them.                    *)
SendersOK ==
    \A p \in Player :
        /\ base[p] <= sent[p] /\ sent[p] <= base[p] + Window
        /\ send_head[p] = base[p] % MAX_QUEUE
        /\ send_tail[p] = sent[p] % MAX_QUEUE
        /\ \A n \in base[p] .. sent[p] - 1 : send_queue[p][n % MAX_QUEUE] = n

(* The flags of the MAX_QUEUE-1 frames from wait_to_receive on tell what was *)
(* accepted; the one behind it may still be set and means nothing.           *)
ReceiversOK ==
    \A p, q \in Player :
        /\ got[p][q] \subseteq 0 .. sent[q] - 1
        /\ \A n \in low[p][q] .. low[p][q] + MAX_QUEUE - 2 :
            (n % MAX_QUEUE) \in recv_flag[p][q] <=> n \in got[p][q]

(* An acknowledgement counted for a message still kept is truly one of that *)
(* message, and nothing is released that a connected peer lacks.            *)
AcksOK ==
    \A p \in Player : \A q \in peers[p] :
        /\ base[p] <= low[q][p]
        /\ \A n \in base[p] .. sent[p] - 1 :
            q \in ack_flag[p][n % MAX_QUEUE] => n \in got[q][p]

(* Every datagram in flight is recent enough for its frame id to name its   *)
(* message to the machine it goes to.                                       *)
DataOK(pkt) ==
    pkt.type = "data" =>
        /\ pkt.frame = pkt.msg % MAX_QUEUE
        /\ pkt.msg < sent[pkt.from]
        /\ pkt.msg < low[pkt.to][pkt.from] + Window

AckOK(pkt) ==
    pkt.type = "ack" =>
        /\ pkt.frame = pkt.msg % MAX_QUEUE
        /\ pkt.msg \in got[pkt.from][pkt.to]

NetOK == \A pkt \in net : CanArrive(pkt) /\ DataOK(pkt) /\ AckOK(pkt)

Inv == TypeOK /\ SendersOK /\ ReceiversOK /\ BoundedReordering /\ AcksOK /\ NetOK

-----------------------------------------------------------------------------
(* What the guards mean under the invariant. *)

(* The history counters are numbers. *)
LEMMA Counters ==
    ASSUME TypeOK, NEW p \in Player, NEW q \in Player
    PROVE  /\ base[p] \in Nat /\ sent[p] \in Nat /\ low[p][q] \in Nat
           /\ got[p][q] \in SUBSET Nat
BY DEF TypeOK

(* send_queue_space counts the slots not in use. *)
LEMMA SpaceFact ==
    ASSUME TypeOK, SendersOK, NEW p \in Player
    PROVE  /\ send_queue_space(p) = MAX_QUEUE - 1 - (sent[p] - base[p])
           /\ Outstanding(p) = sent[p] - base[p]
<1> DEFINE h == base[p] % MAX_QUEUE
           t == sent[p] % MAX_QUEUE
<1>1. base[p] \in Nat /\ sent[p] \in Nat
  BY Counters
<1>2. base[p] <= sent[p] /\ sent[p] < base[p] + MAX_QUEUE
  BY <1>1, WindowFact DEF SendersOK
<1>3. send_head[p] = h /\ send_tail[p] = t
  BY DEF SendersOK
<1>4. h \in 0 .. MAX_QUEUE - 1 /\ t \in 0 .. MAX_QUEUE - 1
  BY <1>1, FrameFact DEF FrameId
<1>5. \/ t = h + (sent[p] - base[p]) /\ h + (sent[p] - base[p]) < MAX_QUEUE
      \/ t = h + (sent[p] - base[p]) - MAX_QUEUE /\ h + (sent[p] - base[p]) >= MAX_QUEUE
  BY <1>1, <1>2, FrameDistance
<1> HIDE DEF h, t
<1>6. send_queue_space(p) = MAX_QUEUE - 1 - (sent[p] - base[p])
  BY <1>1, <1>2, <1>3, <1>4, <1>5, WindowFact DEF send_queue_space
<1>7. Outstanding(p) = sent[p] - base[p]
  BY <1>1, <1>6, WindowFact DEF Outstanding
<1> QED BY <1>6, <1>7

(* is_waiting_ack, of a frame whose message is not too old. *)
LEMMA WaitingAck ==
    ASSUME TypeOK, SendersOK, NEW p \in Player, NEW m \in Nat,
           base[p] <= m + Window, m < sent[p]
    PROVE  is_waiting_ack(p, m % MAX_QUEUE) <=> base[p] <= m
<1>1. base[p] \in Nat /\ sent[p] \in Nat
  BY Counters
<1>2. base[p] <= sent[p] /\ sent[p] <= base[p] + Window
  BY DEF SendersOK
<1>3. /\ sent[p] < base[p] + MAX_QUEUE /\ m < base[p] + MAX_QUEUE
      /\ base[p] < m + MAX_QUEUE /\ sent[p] <= m + MAX_QUEUE
  BY <1>1, <1>2, WindowFact
<1>4. is_between(base[p] % MAX_QUEUE, m % MAX_QUEUE, sent[p] % MAX_QUEUE)
          <=> base[p] <= m /\ m < sent[p]
  BY <1>1, <1>2, <1>3, BetweenFrame
<1>5. send_head[p] = base[p] % MAX_QUEUE /\ send_tail[p] = sent[p] % MAX_QUEUE
  BY DEF SendersOK
<1> QED BY <1>4, <1>5 DEF is_waiting_ack

(* A frame that waits for acknowledgements holds a message still kept. *)
LEMMA KeptFact ==
    ASSUME TypeOK, SendersOK, NEW p \in Player, NEW f \in FrameId, is_waiting_ack(p, f)
    PROVE  \E n \in base[p] .. sent[p] - 1 : n % MAX_QUEUE = f /\ send_queue[p][f] = n
<1>1. base[p] \in Nat /\ sent[p] \in Nat
  BY Counters
<1>2. base[p] <= sent[p] /\ sent[p] < base[p] + MAX_QUEUE
  BY <1>1, WindowFact DEF SendersOK
<1>3. is_between(base[p] % MAX_QUEUE, f, sent[p] % MAX_QUEUE)
  BY DEF SendersOK, is_waiting_ack
<1>4. PICK n \in base[p] .. sent[p] - 1 : n % MAX_QUEUE = f
  BY <1>1, <1>2, <1>3, FrameBetween
<1>5. send_queue[p][n % MAX_QUEUE] = n
  BY <1>4 DEF SendersOK
<1> QED BY <1>4, <1>5

(* is_waiting_receive, of a datagram in flight, compares message numbers. *)
LEMMA WaitingReceive ==
    ASSUME TypeOK, ReceiversOK, BoundedReordering, NEW p \in Player, NEW q \in Player,
           NEW m \in Nat, low[p][q] <= m + Window, m < low[p][q] + Window
    PROVE  is_waiting_receive(p, q, m % MAX_QUEUE)
               <=> low[p][q] <= m /\ m \notin got[p][q]
<1> DEFINE l == low[p][q]
<1>1. l \in Nat /\ l + Window \in Nat
  BY Counters, WindowFact
<1>2. wait_to_receive[p][q] = l % MAX_QUEUE
  BY DEF BoundedReordering
<1>3. Ahead(l % MAX_QUEUE, Window) = (l + Window) % MAX_QUEUE
  BY <1>1, WindowFact, AheadFrame
<1>4. is_between(l % MAX_QUEUE, m % MAX_QUEUE, (l + Window) % MAX_QUEUE)
          <=> l <= m /\ m < l + Window
  <2> DEFINE h == l + Window
  <2>1. /\ l <= h /\ h < l + MAX_QUEUE /\ m < l + MAX_QUEUE
        /\ l < m + MAX_QUEUE /\ h <= m + MAX_QUEUE /\ h \in Nat
    BY <1>1, WindowFact
  <2> HIDE DEF l, h
  <2>2. is_between(l % MAX_QUEUE, m % MAX_QUEUE, h % MAX_QUEUE) <=> l <= m /\ m < h
    BY <1>1, <2>1, BetweenFrame
  <2> QED BY <2>2 DEF h
<1>5. l <= m => m \in l .. l + MAX_QUEUE - 2
  BY <1>1, WindowFact
<1>6. l <= m => ((m % MAX_QUEUE) \in recv_flag[p][q] <=> m \in got[p][q])
  BY <1>5 DEF ReceiversOK
<1> QED BY <1>2, <1>3, <1>4, <1>6 DEF is_waiting_receive

-----------------------------------------------------------------------------
(* The steps *)

(* What was in flight stays recent while the counters only grow and the     *)
(* network drops what has become too old.                                   *)
LEMMA NetStep ==
    ASSUME TypeOK, TypeOK', NetOK, NEW pkts, Transmit(pkts),
           \A pkt \in pkts : DataOK(pkt)' /\ AckOK(pkt)',
           \A p, q \in Player : /\ sent[p] <= sent'[p]
                                /\ low[p][q] <= low'[p][q]
                                /\ got[p][q] \subseteq got'[p][q]
    PROVE  NetOK'
<1> SUFFICES ASSUME NEW pkt \in net'
             PROVE  CanArrive(pkt)' /\ DataOK(pkt)' /\ AckOK(pkt)'
  BY DEF NetOK
<1>1. CanArrive(pkt)' /\ pkt \in net \cup pkts
  BY DEF Transmit
<1>2. CASE pkt \in net
  <2>1. pkt \in Packet /\ DataOK(pkt) /\ AckOK(pkt)
    BY <1>2 DEF TypeOK, NetOK
  <2>2. pkt.from \in Player /\ pkt.to \in Player
    BY <2>1, PacketType
  <2>3. /\ sent[pkt.from] \in Nat /\ sent'[pkt.from] \in Nat
        /\ low[pkt.to][pkt.from] \in Nat /\ low'[pkt.to][pkt.from] \in Nat
    <3>1. /\ sent \in [Player -> Nat] /\ sent' \in [Player -> Nat]
          /\ low \in [Player -> [Player -> Nat]] /\ low' \in [Player -> [Player -> Nat]]
      BY DEF TypeOK
    <3> QED BY <2>2, <3>1
  <2>4. DataOK(pkt)'
    BY <2>1, <2>2, <2>3, WindowFact, PacketType DEF DataOK
  <2>5. AckOK(pkt)'
    BY <2>1, <2>2 DEF AckOK
  <2> QED BY <1>1, <2>4, <2>5
<1>3. CASE pkt \in pkts
  BY <1>1, <1>3
<1> QED BY <1>1, <1>2, <1>3

(* Nothing but net changes. *)
LEMMA NetOnlyStep ==
    ASSUME Inv, TypeOK', NEW pkts, Transmit(pkts), UNCHANGED <<peers, sender, receiver>>,
           \A pkt \in pkts : DataOK(pkt) /\ AckOK(pkt)
    PROVE  Inv'
<1>1. SendersOK' /\ ReceiversOK' /\ BoundedReordering' /\ AcksOK'
  BY DEF Inv, sender, receiver, SendersOK, ReceiversOK, BoundedReordering, AcksOK
<1>2. \A p, q \in Player : /\ sent[p] <= sent'[p]
                           /\ low[p][q] <= low'[p][q]
                           /\ got[p][q] \subseteq got'[p][q]
  BY Counters DEF sender, receiver, Inv
<1>3. \A pkt \in pkts : DataOK(pkt)' /\ AckOK(pkt)'
  BY DEF sender, receiver, DataOK, AckOK
<1>4. NetOK'
  BY <1>2, <1>3, NetStep DEF Inv
<1> QED BY <1>1, <1>4 DEF Inv

(* A message sent again is one of those kept, so it is still recent for     *)
(* every connected receiver.                                                *)
LEMMA ResendFact ==
    ASSUME Inv, NEW p \in Player, NEW q \in peers[p], NEW f \in FrameId,
           is_waiting_ack(p, f)
    PROVE  DataOK(Data(p, q, f)) /\ AckOK(Data(p, q, f))
<1>1. q \in Player
  BY DEF Inv, TypeOK
<1>2. PICK n \in base[p] .. sent[p] - 1 : n % MAX_QUEUE = f /\ send_queue[p][f] = n
  BY KeptFact DEF Inv
<1>3. base[p] \in Nat /\ sent[p] \in Nat /\ low[q][p] \in Nat
  BY <1>1, Counters DEF Inv
<1>4. sent[p] <= base[p] + Window /\ base[p] <= low[q][p]
  BY DEF Inv, SendersOK, AcksOK
<1>5. n < sent[p] /\ n < low[q][p] + Window
  BY <1>2, <1>3, <1>4, WindowFact
<1> QED BY <1>2, <1>5 DEF Data, DataOK, AckOK

(* clear_acked_frame only releases what every player left has accepted. *)
LEMMA ClearFact ==
    ASSUME Inv, NEW p \in Player, NEW live \in SUBSET peers[p], NEW acks,
           \A q \in live : \A n \in base[p] .. sent[p] - 1 :
               q \in acks[n % MAX_QUEUE] => n \in got[q][p],
           clear_acked_frame(p, live, acks)
    PROVE  \E k \in 0 .. sent[p] - base[p] :
               /\ send_head' = [send_head EXCEPT ![p] = (base[p] + k) % MAX_QUEUE]
               /\ base' = [base EXCEPT ![p] = base[p] + k]
               /\ \A q \in live : base[p] + k <= low[q][p]
<1>1. /\ base[p] \in Nat /\ sent[p] \in Nat /\ base[p] <= sent[p]
      /\ send_head[p] = base[p] % MAX_QUEUE
      /\ Outstanding(p) = sent[p] - base[p]
  BY Counters, SpaceFact DEF Inv, SendersOK
<1>2. PICK k \in 0 .. Outstanding(p) :
          /\ \A i \in 0 .. k - 1 : are_all_acked(live, acks[Ahead(send_head[p], i)])
          /\ send_head' = [send_head EXCEPT ![p] = Ahead(@, k)]
          /\ base' = [base EXCEPT ![p] = @ + k]
  BY DEF clear_acked_frame
<1>3. k \in Nat /\ k <= sent[p] - base[p]
  BY <1>1, <1>2
<1>4. Ahead(send_head[p], k) = (base[p] + k) % MAX_QUEUE
  BY <1>1, <1>3, AheadFrame
<1>5. ASSUME NEW q \in live PROVE base[p] + k <= low[q][p]
  <2>1. q \in peers[p] /\ q \in Player
    BY <1>5 DEF Inv, TypeOK
  <2>2. low[q][p] \in Nat /\ base[p] <= low[q][p] /\ low[q][p] \notin got[q][p]
    BY <2>1, Counters DEF Inv, AcksOK, BoundedReordering
  <2>3. SUFFICES ASSUME low[q][p] < base[p] + k PROVE FALSE
    BY <1>1, <1>3, <2>2
  <2> DEFINE i == low[q][p] - base[p]
  <2>4. i \in 0 .. k - 1 /\ i \in Nat /\ base[p] + i = low[q][p]
           /\ low[q][p] \in base[p] .. sent[p] - 1
    BY <1>1, <1>3, <2>2, <2>3
  <2> HIDE DEF i
  <2>5. Ahead(send_head[p], i) = low[q][p] % MAX_QUEUE
    BY <1>1, <2>4, AheadFrame
  <2>6. q \in acks[low[q][p] % MAX_QUEUE]
    BY <1>2, <2>4, <2>5 DEF are_all_acked
  <2> QED BY <2>2, <2>4, <2>6
<1> QED BY <1>1, <1>2, <1>3, <1>4, <1>5

(* send keeps the invariant: the new frame takes a slot nobody awaits any more. *)
LEMMA SendStep == ASSUME Inv, TypeOK', NEW p \in Player, Send(p) PROVE Inv'
<1> DEFINE f == sent[p] % MAX_QUEUE
           new == {[type |-> "data", from |-> p, to |-> q, frame |-> send_tail[p],
                    msg |-> sent[p]] : q \in peers[p]}
<1>1. base[p] \in Nat /\ sent[p] \in Nat /\ f \in FrameId /\ send_tail[p] = f
  BY Counters, FrameFact DEF Inv, SendersOK
<1>2. base[p] <= sent[p] /\ sent[p] < base[p] + Window
  <2>1. send_queue_space(p) >= Window /\ base[p] <= sent[p]
    BY DEF Send, Inv, SendersOK
  <2>2. send_queue_space(p) = MAX_QUEUE - 1 - (sent[p] - base[p])
    BY SpaceFact DEF Inv
  <2> QED BY <1>1, <2>1, <2>2, WindowFact
<1>3. \A n \in base[p] .. sent[p] - 1 : n % MAX_QUEUE # f /\ (n % MAX_QUEUE) \in FrameId
  <2> SUFFICES ASSUME NEW n \in base[p] .. sent[p] - 1
               PROVE  n % MAX_QUEUE # f /\ (n % MAX_QUEUE) \in FrameId
    OBVIOUS
  <2>1. n \in Nat /\ n < sent[p] /\ n < sent[p] + MAX_QUEUE /\ sent[p] < n + MAX_QUEUE
    BY <1>1, <1>2, WindowFact
  <2> QED BY <1>1, <2>1, SameFrame, FrameFact
<1>4. /\ send_queue' = [send_queue EXCEPT ![p][f] = sent[p]]
      /\ ack_flag' = [ack_flag EXCEPT ![p][f] = {}]
      /\ send_tail' = [send_tail EXCEPT ![p] = next_frame_id(f)]
      /\ sent' = [sent EXCEPT ![p] = sent[p] + 1]
      /\ UNCHANGED <<peers, send_head, base, receiver>>
      /\ Transmit(new)
  BY <1>1 DEF Send
<1>5. /\ send_queue \in [Player -> [FrameId -> Nat]] /\ sent \in [Player -> Nat]
      /\ ack_flag \in [Player -> [FrameId -> SUBSET Player]]
      /\ send_tail \in [Player -> FrameId]
  BY DEF Inv, TypeOK
<1>6. next_frame_id(f) = (sent[p] + 1) % MAX_QUEUE
  BY <1>1, NextFrame
<1> HIDE DEF f, new
<1>7. SendersOK'
  <2> SUFFICES ASSUME NEW r \in Player
               PROVE  /\ base[r] <= sent'[r] /\ sent'[r] <= base[r] + Window
                      /\ send_head[r] = base[r] % MAX_QUEUE
                      /\ send_tail'[r] = sent'[r] % MAX_QUEUE
                      /\ \A n \in base[r] .. sent'[r] - 1 :
                             send_queue'[r][n % MAX_QUEUE] = n
    BY <1>4 DEF SendersOK
  <2>1. /\ base[r] <= sent[r] /\ sent[r] <= base[r] + Window
        /\ send_head[r] = base[r] % MAX_QUEUE
        /\ send_tail[r] = sent[r] % MAX_QUEUE
        /\ \A n \in base[r] .. sent[r] - 1 : send_queue[r][n % MAX_QUEUE] = n
    BY DEF Inv, SendersOK
  <2>2. CASE r # p
    BY <1>4, <1>5, <2>1, <2>2
  <2>3. CASE r = p
    <3>1. sent'[p] = sent[p] + 1 /\ send_tail'[p] = (sent[p] + 1) % MAX_QUEUE
      BY <1>4, <1>5, <1>6
    <3>2. ASSUME NEW n \in base[p] .. sent[p] PROVE send_queue'[p][n % MAX_QUEUE] = n
      <4>1. CASE n = sent[p]
        BY <1>1, <1>4, <1>5, <4>1 DEF f
      <4>2. CASE n # sent[p]
        <5>1. n \in base[p] .. sent[p] - 1
          BY <1>1, <4>2
        <5> QED BY <1>3, <1>4, <1>5, <2>1, <2>3, <5>1
      <4> QED BY <4>1, <4>2
    <3>3. sent[p] + 1 <= base[p] + Window /\ base[p] <= sent[p] + 1
             /\ sent[p] + 1 - 1 = sent[p]
      BY <1>1, <1>2, WindowFact
    <3>4. base[p] .. sent'[p] - 1 = base[p] .. sent[p]
      BY <1>1, <3>1
    <3>5. sent'[p] <= base[p] + Window /\ base[p] <= sent'[p]
      BY <3>1, <3>3
    <3> QED BY <2>1, <2>3, <3>1, <3>2, <3>4, <3>5
  <2> QED BY <2>2, <2>3
<1>8. \A r \in Player : sent[r] \in Nat /\ sent'[r] \in Nat /\ sent[r] <= sent'[r]
  BY <1>4, <1>5
<1>9. ReceiversOK'
  <2> SUFFICES ASSUME NEW r \in Player, NEW q \in Player
               PROVE  /\ got[r][q] \subseteq 0 .. sent'[q] - 1
                      /\ \A n \in low[r][q] .. low[r][q] + MAX_QUEUE - 2 :
                          (n % MAX_QUEUE) \in recv_flag[r][q] <=> n \in got[r][q]
    BY <1>4 DEF ReceiversOK, receiver
  <2>1. got[r][q] \subseteq 0 .. sent[q] - 1
    BY DEF Inv, ReceiversOK
  <2>2. 0 .. sent[q] - 1 \subseteq 0 .. sent'[q] - 1
    BY <1>8
  <2> QED BY <2>1, <2>2 DEF Inv, ReceiversOK
<1>10. BoundedReordering'
  BY <1>4 DEF receiver, Inv, BoundedReordering
<1>11. AcksOK'
  <2> SUFFICES ASSUME NEW r \in Player, NEW q \in peers[r]
               PROVE  /\ base[r] <= low[q][r]
                      /\ \A n \in base[r] .. sent'[r] - 1 :
                          q \in ack_flag'[r][n % MAX_QUEUE] => n \in got[q][r]
    BY <1>4 DEF AcksOK, receiver
  <2>1. /\ base[r] <= low[q][r]
        /\ \A n \in base[r] .. sent[r] - 1 :
            q \in ack_flag[r][n % MAX_QUEUE] => n \in got[q][r]
    BY DEF Inv, AcksOK
  <2>2. CASE r # p
    BY <1>4, <1>5, <2>1, <2>2
  <2>3. CASE r = p
    <3>1. sent'[p] - 1 = sent[p]
      BY <1>1, <1>4, <1>5
    <3>2. ASSUME NEW n \in base[p] .. sent[p], q \in ack_flag'[p][n % MAX_QUEUE]
          PROVE  n \in got[q][p]
      <4>1. CASE n = sent[p]
        BY <1>1, <1>4, <1>5, <3>2, <4>1 DEF f
      <4>2. CASE n # sent[p]
        <5>1. n \in base[p] .. sent[p] - 1
          BY <1>1, <4>2
        <5>2. ack_flag'[p][n % MAX_QUEUE] = ack_flag[p][n % MAX_QUEUE]
          BY <1>1, <1>3, <1>4, <1>5, <5>1
        <5> QED BY <2>1, <2>3, <3>2, <5>1, <5>2
      <4> QED BY <4>1, <4>2
    <3> QED BY <2>1, <2>3, <3>1, <3>2
  <2> QED BY <2>2, <2>3
<1>12. NetOK'
  <2>1. ASSUME NEW pkt \in new PROVE DataOK(pkt)' /\ AckOK(pkt)'
    <3>1. PICK q \in peers[p] :
              pkt = [type |-> "data", from |-> p, to |-> q,
                     frame |-> send_tail[p], msg |-> sent[p]]
      BY DEF new
    <3>2. q \in Player /\ base[p] <= low[q][p]
      BY DEF Inv, TypeOK, AcksOK
    <3>3. low[q][p] \in Nat /\ sent[p] < low[q][p] + Window
      BY <1>1, <1>2, <3>2, Counters, WindowFact DEF Inv
    <3>4. sent[p] < sent'[p] /\ low' = low
      BY <1>1, <1>4, <1>5 DEF receiver
    <3>5. /\ pkt.type = "data" /\ pkt.from = p /\ pkt.to = q
          /\ pkt.frame = f /\ pkt.msg = sent[p]
      BY <1>1, <3>1
    <3> QED BY <3>3, <3>4, <3>5 DEF DataOK, AckOK, f
  <2>2. \A r, q \in Player : /\ sent[r] <= sent'[r]
                             /\ low[r][q] <= low'[r][q]
                             /\ got[r][q] \subseteq got'[r][q]
    BY <1>4, <1>8, Counters DEF receiver, Inv
  <2> QED BY <1>4, <2>1, <2>2, NetStep DEF Inv
<1> QED BY <1>7, <1>9, <1>10, <1>11, <1>12 DEF Inv

(* Marking a frame received keeps the flags and the counters in step, for   *)
(* the one sender it concerns.                                              *)
LEMMA MarkFact ==
    ASSUME Inv, NEW p \in Player, NEW q \in Player, NEW m \in Nat,
           low[p][q] <= m, m < low[p][q] + Window, m \notin got[p][q],
           MarkReceived(p, q, m % MAX_QUEUE)
    PROVE  \E l, w, fl :
               /\ l \in Nat
               /\ low' = [low EXCEPT ![p][q] = l]
               /\ wait_to_receive' = [wait_to_receive EXCEPT ![p][q] = w]
               /\ recv_flag' = [recv_flag EXCEPT ![p][q] = fl]
               /\ w = l % MAX_QUEUE /\ low[p][q] <= l
               /\ 0 .. l - 1 \subseteq got[p][q] \cup {m}
               /\ got[p][q] \cup {m} \subseteq 0 .. l + Window - 1
               /\ l \notin got[p][q] \cup {m}
               /\ \A k \in l .. l + MAX_QUEUE - 2 :
                    (k % MAX_QUEUE) \in fl <=> k \in got[p][q] \cup {m}
<1> DEFINE l0 == low[p][q]
           g == got[p][q]
           f == m % MAX_QUEUE
           w0 == wait_to_receive[p][q]
           flags == recv_flag[p][q] \cup {f}
<1>1. /\ l0 \in Nat /\ g \in SUBSET Nat /\ w0 = l0 % MAX_QUEUE
      /\ 0 .. l0 - 1 \subseteq g /\ g \subseteq 0 .. l0 + Window - 1 /\ l0 \notin g
      /\ l0 <= m /\ m < l0 + Window /\ m \notin g
  BY Counters DEF Inv, BoundedReordering
<1>2. \A k \in l0 .. l0 + MAX_QUEUE - 2 : (k % MAX_QUEUE) \in flags <=> k \in g \cup {m}
  <2> SUFFICES ASSUME NEW k \in l0 .. l0 + MAX_QUEUE - 2
               PROVE  (k % MAX_QUEUE) \in flags <=> k \in g \cup {m}
    OBVIOUS
  <2>1. k \in Nat /\ k < m + MAX_QUEUE /\ m < k + MAX_QUEUE
    BY <1>1, WindowFact
  <2>2. k % MAX_QUEUE = m % MAX_QUEUE => k = m
    BY <2>1, SameFrame
  <2>3. (k % MAX_QUEUE) \in recv_flag[p][q] <=> k \in g
    BY DEF Inv, ReceiversOK
  <2> QED BY <2>2, <2>3
<1>3. CASE m # l0
  <2>1. f # w0
    <3>1. m < l0 + MAX_QUEUE /\ l0 < m + MAX_QUEUE
      BY <1>1, WindowFact
    <3> QED BY <1>1, <1>3, <3>1, SameFrame
  <2>2. /\ recv_flag' = [recv_flag EXCEPT ![p][q] = flags]
        /\ UNCHANGED <<wait_to_receive, low>>
    BY <2>1, Zenon DEF MarkReceived
  <2>3. /\ low' = [low EXCEPT ![p][q] = l0]
        /\ wait_to_receive' = [wait_to_receive EXCEPT ![p][q] = w0]
    <3>1. low \in [Player -> [Player -> Nat]]
             /\ wait_to_receive \in [Player -> [Player -> FrameId]]
      BY DEF Inv, TypeOK
    <3> QED BY <2>2, <3>1
  <2>4. m \in 0 .. l0 + Window - 1
    BY <1>1, WindowFact
  <2>5. g \cup {m} \subseteq 0 .. l0 + Window - 1 /\ l0 \notin g \cup {m}
           /\ 0 .. l0 - 1 \subseteq g \cup {m}
    BY <1>1, <1>3, <2>4
  <2> HIDE DEF flags, f, l0, w0, g
  <2>6. l0 <= l0
    BY <1>1
  <2>7. /\ low' = [low EXCEPT ![p][q] = l0]
        /\ wait_to_receive' = [wait_to_receive EXCEPT ![p][q] = w0]
        /\ recv_flag' = [recv_flag EXCEPT ![p][q] = flags]
        /\ w0 = l0 % MAX_QUEUE /\ l0 <= l0
        /\ 0 .. l0 - 1 \subseteq g \cup {m}
        /\ g \cup {m} \subseteq 0 .. l0 + Window - 1
        /\ l0 \notin g \cup {m}
        /\ \A k \in l0 .. l0 + MAX_QUEUE - 2 :
              (k % MAX_QUEUE) \in flags <=> k \in g \cup {m}
    BY <1>1, <1>2, <2>2, <2>3, <2>5, <2>6, Zenon
  <2> QED BY <1>1, <2>7, Zenon DEF l0, g
<1>4. CASE m = l0
  <2>1. f = w0
    BY <1>1, <1>4
  <2>2. PICK n \in 1 .. Window :
            /\ \A i \in 0 .. n - 1 : Ahead(w0, i) \in flags
            /\ Ahead(w0, n) \notin flags
            /\ recv_flag' = [recv_flag EXCEPT ![p][q] =
                   flags \ {Ahead(w0, MAX_QUEUE - 1 + i) : i \in 0 .. n - 1}]
            /\ wait_to_receive' = [wait_to_receive EXCEPT ![p][q] = Ahead(w0, n)]
            /\ low' = [low EXCEPT ![p][q] = @ + n]
    BY <2>1, Zenon DEF MarkReceived
  <2> DEFINE l == l0 + n
             w == Ahead(w0, n)
             gone == {Ahead(w0, MAX_QUEUE - 1 + i) : i \in 0 .. n - 1}
             fl == flags \ gone
  <2>3. n \in Nat /\ 1 <= n /\ n <= Window /\ l \in Nat /\ l0 <= l
    BY <1>1, WindowFact
  <2>4. w = l % MAX_QUEUE
    BY <1>1, <2>3, AheadFrame
  <2>5. \A i \in 0 .. n - 1 : l0 + i \in g \cup {m}
    <3> SUFFICES ASSUME NEW i \in 0 .. n - 1 PROVE l0 + i \in g \cup {m}
      OBVIOUS
    <3>1. i \in Nat /\ l0 + i \in l0 .. l0 + MAX_QUEUE - 2
      BY <1>1, <2>3, WindowFact
    <3>2. (l0 + i) % MAX_QUEUE \in flags
      BY <1>1, <2>2, <3>1, AheadFrame
    <3> QED BY <1>2, <3>1, <3>2
  <2>6. l \notin g \cup {m}
    <3>1. l \in l0 .. l0 + MAX_QUEUE - 2
      BY <1>1, <2>3, WindowFact
    <3>2. (l % MAX_QUEUE) \notin flags
      BY <2>2, <2>4
    <3> QED BY <1>2, <3>1, <3>2
  <2>7. 0 .. l - 1 \subseteq g \cup {m}
    <3> SUFFICES ASSUME NEW j \in 0 .. l - 1 PROVE j \in g \cup {m}
      OBVIOUS
    <3>1. CASE j < l0
      <4>1. j \in 0 .. l0 - 1
        BY <1>1, <3>1
      <4> QED BY <1>1, <4>1
    <3>2. CASE j >= l0
      <4> DEFINE i == j - l0
      <4>1. i \in 0 .. n - 1 /\ l0 + i = j
        BY <1>1, <2>3, <3>2
      <4> HIDE DEF i
      <4> QED BY <2>5, <4>1
    <3> QED BY <1>1, <3>1, <3>2
  <2>8. g \cup {m} \subseteq 0 .. l + Window - 1
    <3>1. m \in 0 .. l + Window - 1
      BY <1>1, <2>3, WindowFact
    <3>2. 0 .. l0 + Window - 1 \subseteq 0 .. l + Window - 1
      BY <1>1, <2>3, WindowFact
    <3> QED BY <1>1, <3>1, <3>2
  <2>9. \A k \in l .. l + MAX_QUEUE - 2 :
           (k % MAX_QUEUE) \in fl <=> k \in g \cup {m}
    <3> SUFFICES ASSUME NEW k \in l .. l + MAX_QUEUE - 2
                 PROVE  (k % MAX_QUEUE) \in fl <=> k \in g \cup {m}
      OBVIOUS
    <3>1. k \in Nat /\ l0 < k
      BY <1>1, <2>3, WindowFact
    <3>2. CASE k <= l0 + MAX_QUEUE - 2
      <4>1. (k % MAX_QUEUE) \in flags <=> k \in g \cup {m}
        BY <1>1, <1>2, <3>1, <3>2, WindowFact
      <4>2. ASSUME NEW i \in 0 .. n - 1 PROVE k % MAX_QUEUE # Ahead(w0, MAX_QUEUE - 1 + i)
        <5> DEFINE j == l0 + (MAX_QUEUE - 1 + i)
        <5>1. MAX_QUEUE - 1 + i \in Nat /\ j \in Nat /\ k < j /\ j < k + MAX_QUEUE
                 /\ k < j + MAX_QUEUE
          BY <1>1, <2>3, <3>2, WindowFact
        <5>2. Ahead(w0, MAX_QUEUE - 1 + i) = j % MAX_QUEUE
          BY <1>1, <5>1, AheadFrame
        <5> HIDE DEF j
        <5> QED BY <3>1, <5>1, <5>2, SameFrame
      <4> QED BY <4>1, <4>2
    <3>3. CASE k > l0 + MAX_QUEUE - 2
      <4> DEFINE i == k - l0 - (MAX_QUEUE - 1)
      <4>1. i \in 0 .. n - 1 /\ MAX_QUEUE - 1 + i \in Nat /\ l0 + (MAX_QUEUE - 1 + i) = k
        BY <1>1, <2>3, <3>1, <3>3, WindowFact
      <4> HIDE DEF i
      <4>2. Ahead(w0, MAX_QUEUE - 1 + i) = k % MAX_QUEUE
        BY <1>1, <4>1, AheadFrame
      <4>3. (k % MAX_QUEUE) \notin fl
        BY <4>1, <4>2
      <4>4. k \notin 0 .. l0 + Window - 1 /\ k # m
        BY <1>1, <3>1, <3>3, WindowFact
      <4> QED BY <1>1, <4>3, <4>4
    <3> QED BY <1>1, <2>3, <3>1, <3>2, <3>3, WindowFact
  <2>10. low' = [low EXCEPT ![p][q] = l]
    BY <2>2
  <2>11. /\ wait_to_receive' = [wait_to_receive EXCEPT ![p][q] = w]
         /\ recv_flag' = [recv_flag EXCEPT ![p][q] = fl]
    BY <2>2
  <2> HIDE DEF l, w, fl, flags, g, l0, w0
  <2> QED BY <2>3, <2>4, <2>6, <2>7, <2>8, <2>9, <2>10, <2>11, Zenon DEF l0, g
<1> QED BY <1>3, <1>4

(* What accepting a datagram means: its message is new. *)
LEMMA AcceptFact ==
    ASSUME Inv, NEW pkt \in net, pkt.type = "data"
    PROVE  /\ pkt \in Packet /\ pkt.to \in Player /\ pkt.from \in peers[pkt.to]
           /\ pkt.from \in Player /\ pkt.msg \in Nat /\ pkt.msg < sent[pkt.from]
           /\ pkt.frame = pkt.msg % MAX_QUEUE
           /\ pkt.msg < low[pkt.to][pkt.from] + Window
           /\ is_waiting_receive(pkt.to, pkt.from, pkt.frame) =>
                  /\ low[pkt.to][pkt.from] <= pkt.msg
                  /\ pkt.msg \notin got[pkt.to][pkt.from]
           /\ ~is_waiting_receive(pkt.to, pkt.from, pkt.frame) =>
                  pkt.msg \in got[pkt.to][pkt.from]
<1> DEFINE p == pkt.to
           q == pkt.from
           m == pkt.msg
<1>1. pkt \in Packet /\ p \in Player /\ q \in Player /\ m \in Nat
  BY PacketType DEF Inv, TypeOK
<1>2. /\ q \in peers[p] /\ low[p][q] <= m + Window
      /\ pkt.frame = m % MAX_QUEUE /\ m < sent[q] /\ m < low[p][q] + Window
  BY DEF Inv, NetOK, CanArrive, DataOK
<1>3. is_waiting_receive(p, q, pkt.frame) <=> low[p][q] <= m /\ m \notin got[p][q]
  BY <1>1, <1>2, WaitingReceive DEF Inv
<1>4. m < low[p][q] => m \in got[p][q]
  <2>1. low[p][q] \in Nat /\ 0 .. low[p][q] - 1 \subseteq got[p][q]
    BY <1>1, Counters DEF Inv, BoundedReordering
  <2> QED BY <1>1, <2>1
<1>5. low[p][q] \in Nat
  BY <1>1, Counters DEF Inv
<1> QED BY <1>1, <1>2, <1>3, <1>4, <1>5

(* Accepting a frame keeps the invariant: the window moves past it. *)
LEMMA AcceptStep == ASSUME Inv, TypeOK', NEW pkt \in net, AcceptData(pkt) PROVE Inv'
<1> DEFINE p == pkt.to
           q == pkt.from
           m == pkt.msg
           g == got[p][q] \cup {m}
<1>1. /\ pkt \in Packet /\ p \in Player /\ q \in Player /\ m \in Nat
      /\ pkt.frame = m % MAX_QUEUE /\ m < sent[q]
      /\ low[p][q] <= m /\ m < low[p][q] + Window /\ m \notin got[p][q]
  BY AcceptFact DEF AcceptData
<1>2. /\ MarkReceived(p, q, m % MAX_QUEUE)
      /\ got' = [got EXCEPT ![p][q] = g]
      /\ UNCHANGED <<peers, send_head, send_tail, send_queue, ack_flag, sent, base>>
      /\ Transmit({Reply(pkt, "ack")})
  BY <1>1 DEF AcceptData, sender
<1>3. PICK l, w, fl :
          /\ l \in Nat
          /\ low' = [low EXCEPT ![p][q] = l]
          /\ wait_to_receive' = [wait_to_receive EXCEPT ![p][q] = w]
          /\ recv_flag' = [recv_flag EXCEPT ![p][q] = fl]
          /\ w = l % MAX_QUEUE /\ low[p][q] <= l
          /\ 0 .. l - 1 \subseteq g
          /\ g \subseteq 0 .. l + Window - 1
          /\ l \notin g
          /\ \A k \in l .. l + MAX_QUEUE - 2 : (k % MAX_QUEUE) \in fl <=> k \in g
  <2> HIDE DEF p, q, m
  <2> QED BY <1>1, <1>2, MarkFact
<1>4. /\ low \in [Player -> [Player -> Nat]] /\ got \in [Player -> [Player -> SUBSET Nat]]
      /\ wait_to_receive \in [Player -> [Player -> FrameId]]
      /\ recv_flag \in [Player -> [Player -> SUBSET FrameId]]
      /\ sent \in [Player -> Nat] /\ base \in [Player -> Nat]
      /\ peers \in [Player -> SUBSET Player]
  BY DEF Inv, TypeOK
<1> HIDE DEF p, q, m, g
<1>5. /\ low'[p][q] = l /\ got'[p][q] = g /\ wait_to_receive'[p][q] = w
      /\ recv_flag'[p][q] = fl
  BY <1>1, <1>2, <1>3, <1>4
<1>6. \A r, s \in Player : r # p \/ s # q =>
          /\ low'[r][s] = low[r][s] /\ got'[r][s] = got[r][s]
          /\ wait_to_receive'[r][s] = wait_to_receive[r][s]
          /\ recv_flag'[r][s] = recv_flag[r][s]
  BY <1>1, <1>2, <1>3, <1>4
<1>7. SendersOK'
  BY <1>2 DEF Inv, SendersOK
<1>8. ReceiversOK'
  <2> SUFFICES ASSUME NEW r \in Player, NEW s \in Player
               PROVE  /\ got'[r][s] \subseteq 0 .. sent[s] - 1
                      /\ \A n \in low'[r][s] .. low'[r][s] + MAX_QUEUE - 2 :
                          (n % MAX_QUEUE) \in recv_flag'[r][s] <=> n \in got'[r][s]
    BY <1>2 DEF ReceiversOK
  <2>1. /\ got[r][s] \subseteq 0 .. sent[s] - 1
        /\ \A n \in low[r][s] .. low[r][s] + MAX_QUEUE - 2 :
            (n % MAX_QUEUE) \in recv_flag[r][s] <=> n \in got[r][s]
    BY DEF Inv, ReceiversOK
  <2>2. CASE r = p /\ s = q
    <3>1. m \in 0 .. sent[q] - 1
      BY <1>1, <1>4
    <3>2. g \subseteq 0 .. sent[q] - 1
      BY <2>1, <2>2, <3>1 DEF g
    <3> QED BY <1>3, <1>5, <2>2, <3>2
  <2>3. CASE r # p \/ s # q
    BY <1>6, <2>1, <2>3
  <2> QED BY <2>2, <2>3
<1>9. BoundedReordering'
  <2> SUFFICES ASSUME NEW r \in Player, NEW s \in Player
               PROVE  /\ 0 .. low'[r][s] - 1 \subseteq got'[r][s]
                      /\ got'[r][s] \subseteq 0 .. low'[r][s] + Window - 1
                      /\ low'[r][s] \notin got'[r][s]
                      /\ low'[r][s] % MAX_QUEUE = wait_to_receive'[r][s]
    BY DEF BoundedReordering
  <2>1. CASE r = p /\ s = q
    BY <1>3, <1>5, <2>1
  <2>2. CASE r # p \/ s # q
    <3>1. /\ 0 .. low[r][s] - 1 \subseteq got[r][s]
          /\ got[r][s] \subseteq 0 .. low[r][s] + Window - 1
          /\ low[r][s] \notin got[r][s]
          /\ low[r][s] % MAX_QUEUE = wait_to_receive[r][s]
      BY DEF Inv, BoundedReordering
    <3> QED BY <1>6, <2>2, <3>1
  <2> QED BY <2>1, <2>2
<1>10. \A r, s \in Player : /\ sent[r] <= sent'[r]
                            /\ low[r][s] <= low'[r][s]
                            /\ got[r][s] \subseteq got'[r][s]
  <2> SUFFICES ASSUME NEW r \in Player, NEW s \in Player
               PROVE  /\ sent[r] <= sent'[r]
                      /\ low[r][s] <= low'[r][s]
                      /\ got[r][s] \subseteq got'[r][s]
    OBVIOUS
  <2>1. sent[r] \in Nat /\ low[r][s] \in Nat
    BY <1>4
  <2>2. CASE r = p /\ s = q
    BY <1>2, <1>3, <1>5, <2>1, <2>2 DEF g
  <2>3. CASE r # p \/ s # q
    BY <1>2, <1>6, <2>1, <2>3
  <2> QED BY <2>2, <2>3
<1>11. AcksOK'
  <2> SUFFICES ASSUME NEW r \in Player, NEW s \in peers[r]
               PROVE  /\ base[r] <= low'[s][r]
                      /\ \A n \in base[r] .. sent[r] - 1 :
                          s \in ack_flag[r][n % MAX_QUEUE] => n \in got'[s][r]
    BY <1>2 DEF AcksOK
  <2>1. /\ base[r] <= low[s][r]
        /\ \A n \in base[r] .. sent[r] - 1 :
            s \in ack_flag[r][n % MAX_QUEUE] => n \in got[s][r]
    BY DEF Inv, AcksOK
  <2>2. s \in Player
    BY <1>4
  <2>3. low[s][r] <= low'[s][r] /\ got[s][r] \subseteq got'[s][r]
    BY <1>10, <2>2
  <2>4. base[r] \in Nat /\ low[s][r] \in Nat
    BY <1>4, <2>2
  <2>5. low'[s][r] \in Nat
    <3>1. low' \in [Player -> [Player -> Nat]]
      BY DEF TypeOK
    <3> QED BY <2>2, <3>1
  <2> QED BY <2>1, <2>3, <2>4, <2>5
<1>12. NetOK'
  <2>1. /\ Reply(pkt, "ack").type = "ack" /\ Reply(pkt, "ack").frame = m % MAX_QUEUE
        /\ Reply(pkt, "ack").msg = m /\ Reply(pkt, "ack").from = p
        /\ Reply(pkt, "ack").to = q
    BY <1>1 DEF Reply, p, q, m
  <2>2. m \in got'[p][q]
    BY <1>5 DEF g
  <2>3. ASSUME NEW r, r = Reply(pkt, "ack") PROVE DataOK(r)' /\ AckOK(r)'
    BY <2>1, <2>2, <2>3 DEF DataOK, AckOK
  <2>4. \A r \in {Reply(pkt, "ack")} : DataOK(r)' /\ AckOK(r)'
    BY <2>3
  <2> QED BY <1>2, <1>10, <2>4, NetStep DEF Inv
<1> QED BY <1>7, <1>8, <1>9, <1>11, <1>12 DEF Inv

(* A frame not awaited has been accepted before, so its acknowledgement is  *)
(* true.                                                                    *)
LEMMA DiscardStep == ASSUME Inv, TypeOK', NEW pkt \in net, DiscardData(pkt) PROVE Inv'
<1>1. /\ pkt.msg \in got[pkt.to][pkt.from] /\ pkt.frame = pkt.msg % MAX_QUEUE
  BY AcceptFact DEF DiscardData
<1>2. DataOK(Reply(pkt, "ack")) /\ AckOK(Reply(pkt, "ack"))
  BY <1>1 DEF Reply, DataOK, AckOK
<1>3. /\ Transmit({Reply(pkt, "ack")})
      /\ UNCHANGED <<peers, sender, receiver>>
  BY DEF DiscardData
<1>4. \A r \in {Reply(pkt, "ack")} : DataOK(r) /\ AckOK(r)
  BY <1>2
<1> QED BY <1>3, <1>4, NetOnlyStep

(* Releasing frames, after an acknowledgement or for a lost player. *)
LEMMA ReleaseStep ==
    ASSUME Inv, TypeOK', NEW p \in Player, NEW acks,
           peers'[p] \subseteq peers[p],
           \A r \in Player \ {p} : peers'[r] = peers[r] /\ ack_flag'[r] = ack_flag[r],
           ack_flag'[p] = acks,
           \A q \in peers'[p] : \A n \in base[p] .. sent[p] - 1 :
               q \in acks[n % MAX_QUEUE] => n \in got[q][p],
           clear_acked_frame(p, peers'[p], acks),
           UNCHANGED <<send_tail, send_queue, sent, receiver>>,
           Transmit({})
    PROVE  Inv'
<1>1. PICK k \in 0 .. sent[p] - base[p] :
          /\ send_head' = [send_head EXCEPT ![p] = (base[p] + k) % MAX_QUEUE]
          /\ base' = [base EXCEPT ![p] = base[p] + k]
          /\ \A q \in peers'[p] : base[p] + k <= low[q][p]
  <2> DEFINE live == peers'[p]
  <2>1. live \in SUBSET peers[p]
    OBVIOUS
  <2> HIDE DEF live
  <2>2. \A q \in live : \A n \in base[p] .. sent[p] - 1 :
            q \in acks[n % MAX_QUEUE] => n \in got[q][p]
    BY DEF live
  <2>3. clear_acked_frame(p, live, acks)
    BY DEF live
  <2>4. \E k \in 0 .. sent[p] - base[p] :
          /\ send_head' = [send_head EXCEPT ![p] = (base[p] + k) % MAX_QUEUE]
          /\ base' = [base EXCEPT ![p] = base[p] + k]
          /\ \A q \in live : base[p] + k <= low[q][p]
    BY <2>1, <2>2, <2>3, ClearFact
  <2> QED BY <2>4 DEF live
<1>2. /\ base \in [Player -> Nat] /\ sent \in [Player -> Nat]
      /\ send_head \in [Player -> FrameId]
      /\ UNCHANGED <<send_tail, send_queue, sent, wait_to_receive, recv_flag, low, got>>
  BY DEF Inv, TypeOK, receiver
<1>3. /\ k \in Nat /\ base[p] + k <= sent[p]
      /\ base'[p] = base[p] + k /\ send_head'[p] = base'[p] % MAX_QUEUE
      /\ \A r \in Player \ {p} : base'[r] = base[r] /\ send_head'[r] = send_head[r]
  BY <1>1, <1>2
<1>4. SendersOK'
  <2> SUFFICES ASSUME NEW r \in Player
               PROVE  /\ base'[r] <= sent[r] /\ sent[r] <= base'[r] + Window
                      /\ send_head'[r] = base'[r] % MAX_QUEUE
                      /\ send_tail[r] = sent[r] % MAX_QUEUE
                      /\ \A n \in base'[r] .. sent[r] - 1 :
                             send_queue[r][n % MAX_QUEUE] = n
    BY <1>2 DEF SendersOK
  <2>1. /\ base[r] <= sent[r] /\ sent[r] <= base[r] + Window
        /\ send_head[r] = base[r] % MAX_QUEUE
        /\ send_tail[r] = sent[r] % MAX_QUEUE
        /\ \A n \in base[r] .. sent[r] - 1 : send_queue[r][n % MAX_QUEUE] = n
    BY DEF Inv, SendersOK
  <2>2. CASE r # p
    BY <1>3, <2>1, <2>2
  <2>3. CASE r = p
    <3>1. base'[p] .. sent[p] - 1 \subseteq base[p] .. sent[p] - 1
      BY <1>2, <1>3
    <3>2. sent[p] <= base'[p] + Window
      BY <1>2, <1>3, <2>1, <2>3, WindowFact
    <3> QED BY <1>3, <2>1, <2>3, <3>1, <3>2
  <2> QED BY <2>2, <2>3
<1>5. ReceiversOK' /\ BoundedReordering'
  BY <1>2 DEF Inv, ReceiversOK, BoundedReordering
<1>6. AcksOK'
  <2> SUFFICES ASSUME NEW r \in Player, NEW q \in peers'[r]
               PROVE  /\ base'[r] <= low[q][r]
                      /\ \A n \in base'[r] .. sent[r] - 1 :
                          q \in ack_flag'[r][n % MAX_QUEUE] => n \in got[q][r]
    BY <1>2 DEF AcksOK
  <2>1. CASE r # p
    <3>1. q \in peers[r] /\ base'[r] = base[r] /\ ack_flag'[r] = ack_flag[r]
      BY <1>3, <2>1
    <3> QED BY <3>1 DEF Inv, AcksOK
  <2>2. CASE r = p
    <3>1. base'[p] .. sent[p] - 1 \subseteq base[p] .. sent[p] - 1
      BY <1>2, <1>3
    <3> QED BY <1>1, <1>3, <2>2, <3>1
  <2> QED BY <2>1, <2>2
<1>7. NetOK'
  <2>1. \A r, q \in Player : /\ sent[r] <= sent'[r]
                             /\ low[r][q] <= low'[r][q]
                             /\ got[r][q] \subseteq got'[r][q]
    BY <1>2, Counters DEF Inv
  <2> QED BY <2>1, NetStep DEF Inv
<1> QED BY <1>4, <1>5, <1>6, <1>7 DEF Inv

(* An acknowledgement that is counted is one of the message in its slot,    *)
(* not of an earlier one that had the same frame id.                        *)
LEMMA AckStep == ASSUME Inv, TypeOK', NEW pkt \in net, ReceiveAck(pkt) PROVE Inv'
<1> DEFINE p == pkt.to
           q == pkt.from
           m == pkt.msg
           acks == [ack_flag[p] EXCEPT ![pkt.frame] = @ \cup {q}]
<1>1. /\ pkt \in Packet /\ p \in Player /\ q \in Player /\ m \in Nat
      /\ pkt.frame \in FrameId
  BY PacketType DEF Inv, TypeOK, ReceiveAck
<1>2. /\ base[p] <= m + Window /\ pkt.frame = m % MAX_QUEUE /\ m \in got[q][p]
  BY DEF Inv, NetOK, CanArrive, AckOK, ReceiveAck
<1>3. /\ base[p] \in Nat /\ sent[p] \in Nat /\ sent[p] <= base[p] + Window
      /\ got[q][p] \subseteq 0 .. sent[p] - 1
  BY <1>1, Counters DEF Inv, SendersOK, ReceiversOK
<1>4. ASSUME NEW n \in base[p] .. sent[p] - 1, n % MAX_QUEUE = pkt.frame PROVE n = m
  <2>1. m < sent[p]
    BY <1>1, <1>2, <1>3
  <2>2. n \in Nat /\ n < m + MAX_QUEUE /\ m < n + MAX_QUEUE
    BY <1>1, <1>2, <1>3, <2>1, WindowFact
  <2> QED BY <1>1, <1>2, <1>4, <2>2, SameFrame
<1>5. /\ ack_flag' = [ack_flag EXCEPT ![p] = acks]
      /\ clear_acked_frame(p, peers[p], acks)
      /\ UNCHANGED <<peers, send_tail, send_queue, sent, receiver>>
      /\ Transmit({})
  BY DEF ReceiveAck
<1>6. /\ ack_flag \in [Player -> [FrameId -> SUBSET Player]]
  BY DEF Inv, TypeOK
<1>7. ASSUME NEW r \in peers[p], NEW n \in base[p] .. sent[p] - 1, r \in acks[n % MAX_QUEUE]
      PROVE  n \in got[r][p]
  <2>1. r \in ack_flag[p][n % MAX_QUEUE] => n \in got[r][p]
    BY <1>1 DEF Inv, AcksOK
  <2>2. (n % MAX_QUEUE) \in FrameId
    BY <1>3, FrameFact
  <2>3. CASE n % MAX_QUEUE = pkt.frame
    <3>1. acks[n % MAX_QUEUE] = ack_flag[p][n % MAX_QUEUE] \cup {q}
      BY <1>1, <1>6, <2>2, <2>3
    <3> QED BY <1>2, <1>4, <1>7, <2>1, <2>3, <3>1
  <2>4. CASE n % MAX_QUEUE # pkt.frame
    <3>1. acks[n % MAX_QUEUE] = ack_flag[p][n % MAX_QUEUE]
      BY <1>1, <1>6, <2>2, <2>4
    <3> QED BY <1>7, <2>1, <3>1
  <2> QED BY <2>3, <2>4
<1> HIDE DEF p, q, m, acks
<1>8. ack_flag'[p] = acks /\ \A r \in Player \ {p} : ack_flag'[r] = ack_flag[r]
  BY <1>1, <1>5, <1>6
<1> QED BY <1>1, <1>5, <1>7, <1>8, ReleaseStep

(* Losing a player keeps the invariant, although it may release frames. *)
LEMMA PlayerLostStep ==
    ASSUME Inv, TypeOK', NEW p \in Player, NEW q \in Player, PlayerLost(p, q) PROVE Inv'
<1>1. peers \in [Player -> SUBSET Player]
  BY DEF Inv, TypeOK
<1>2. /\ peers'[p] = peers[p] \ {q}
      /\ \A r \in Player \ {p} : peers'[r] = peers[r]
      /\ clear_acked_frame(p, peers[p] \ {q}, ack_flag[p])
      /\ UNCHANGED <<send_tail, send_queue, ack_flag, sent, receiver>>
      /\ Transmit({})
  BY <1>1 DEF PlayerLost
<1>3. \A r \in peers'[p] : \A n \in base[p] .. sent[p] - 1 :
          r \in ack_flag[p][n % MAX_QUEUE] => n \in got[r][p]
  BY <1>2 DEF Inv, AcksOK
<1>4. clear_acked_frame(p, peers'[p], ack_flag[p])
  BY <1>2
<1> DEFINE acks == ack_flag[p]
<1>5. ack_flag'[p] = acks
  BY <1>2
<1>6. /\ \A r \in peers'[p] : \A n \in base[p] .. sent[p] - 1 :
            r \in acks[n % MAX_QUEUE] => n \in got[r][p]
      /\ clear_acked_frame(p, peers'[p], acks)
  BY <1>3, <1>4
<1> HIDE DEF acks
<1> QED BY <1>2, <1>5, <1>6, ReleaseStep

(* Taking an accepted message away touches nothing the invariant speaks of. *)
LEMMA TakeStep == ASSUME Inv, TypeOK', NEW p \in Player, TakeReceived(p) PROVE Inv'
<1>1. UNCHANGED <<peers, send_head, send_tail, send_queue, ack_flag, sent, base,
                  wait_to_receive, recv_flag, low, got, net>>
  BY DEF TakeReceived, sender
<1>2. SendersOK' /\ ReceiversOK' /\ BoundedReordering' /\ AcksOK'
  BY <1>1 DEF Inv, SendersOK, ReceiversOK, BoundedReordering, AcksOK
<1>3. NetOK'
  BY <1>1 DEF Inv, NetOK, CanArrive, DataOK, AckOK
<1> QED BY <1>2, <1>3 DEF Inv

(* The layer starts with every counter at zero, which the invariant allows. *)
LEMMA InitInv == Init => Inv
<1> SUFFICES ASSUME Init PROVE Inv
  OBVIOUS
<1>1. TypeOK
  BY InitType
<1>2. 0 % MAX_QUEUE = 0
  BY WindowFact
<1>3. SendersOK
  BY <1>2, WindowFact DEF Init, SendersOK
<1>4. ReceiversOK
  <2> SUFFICES ASSUME NEW n \in 0 .. MAX_QUEUE - 2,
                      NEW p \in Player, NEW q \in Player
               PROVE  (n % MAX_QUEUE) \in recv_flag[p][q] <=> n \in got[p][q]
    BY WindowFact DEF Init, ReceiversOK
  <2> QED BY DEF Init
<1>5. BoundedReordering
  BY <1>2, WindowFact DEF Init, BoundedReordering
<1>6. AcksOK
  BY DEF Init, AcksOK
<1>7. NetOK
  BY DEF Init, NetOK
<1> QED BY <1>1, <1>3, <1>4, <1>5, <1>6, <1>7 DEF Inv

(* Every step keeps the invariant. *)
LEMMA InvStep == Inv /\ [Next]_vars => Inv'
<1> SUFFICES ASSUME Inv, [Next]_vars PROVE Inv'
  OBVIOUS
<1>1. TypeOK'
  BY TypeStep DEF Inv
<1>2. CASE UNCHANGED vars
  <2>1. UNCHANGED <<peers, send_head, send_tail, send_queue, ack_flag, sent, base,
                    wait_to_receive, recv_flag, low, got, net>>
    BY <1>2 DEF vars, sender, receiver
  <2>2. SendersOK' /\ ReceiversOK' /\ BoundedReordering' /\ AcksOK'
    BY <2>1 DEF Inv, SendersOK, ReceiversOK, BoundedReordering, AcksOK
  <2>3. NetOK'
    BY <2>1 DEF Inv, NetOK, CanArrive, DataOK, AckOK
  <2> QED BY <1>1, <2>2, <2>3 DEF Inv
<1>3. ASSUME NEW p \in Player, Send(p) \/ TakeReceived(p) PROVE Inv'
  BY <1>1, <1>3, SendStep, TakeStep
<1>4. ASSUME NEW p \in Player, NEW f \in FrameId, ReTransmit(p, f) PROVE Inv'
  <2> DEFINE new == {Data(p, q, f) : q \in peers[p] \ ack_flag[p][f]}
  <2>1. is_waiting_ack(p, f) /\ Transmit(new) /\ UNCHANGED <<peers, sender, receiver>>
    BY <1>4 DEF ReTransmit
  <2>2. \A pkt \in new : DataOK(pkt) /\ AckOK(pkt)
    BY <2>1, ResendFact
  <2> QED BY <1>1, <2>1, <2>2, NetOnlyStep
<1>5. ASSUME NEW p \in Player, NEW q \in Player, PlayerLost(p, q) PROVE Inv'
  BY <1>1, <1>5, PlayerLostStep
<1>6. ASSUME NEW pkt \in net, Handle(pkt) PROVE Inv'
  <2>1. CASE AcceptData(pkt)
    BY <1>1, <2>1, AcceptStep
  <2>2. CASE DiscardData(pkt)
    BY <1>1, <2>2, DiscardStep
  <2>3. CASE ReceiveAck(pkt)
    BY <1>1, <2>3, AckStep
  <2>4. CASE ReceiveNegack(pkt)
    <3> DEFINE again == Data(pkt.to, pkt.from, pkt.frame)
    <3>1. pkt.to \in Player /\ pkt.frame \in FrameId /\ pkt.from \in peers[pkt.to]
      BY PacketType DEF Inv, TypeOK, NetOK, CanArrive
    <3>2. /\ is_waiting_ack(pkt.to, pkt.frame) /\ Transmit({again})
          /\ UNCHANGED <<peers, sender, receiver>>
      BY <2>4 DEF ReceiveNegack
    <3>3. \A r \in {again} : DataOK(r) /\ AckOK(r)
      BY <3>1, <3>2, ResendFact
    <3> QED BY <1>1, <3>2, <3>3, NetOnlyStep
  <2> QED BY <1>6, <2>1, <2>2, <2>3, <2>4 DEF Handle
<1>7. ASSUME NEW pkt \in net, ReceiveCorrupt(pkt) PROVE Inv'
  <2> DEFINE ask == [type |-> "negack", from |-> pkt.to, to |-> pkt.from,
                     frame |-> wait_to_receive[pkt.to][pkt.from]]
  <2>1. Transmit({ask}) /\ UNCHANGED <<peers, sender, receiver>>
    BY <1>7 DEF ReceiveCorrupt
  <2>2. \A r \in {ask} : DataOK(r) /\ AckOK(r)
    BY DEF DataOK, AckOK
  <2> QED BY <1>1, <2>1, <2>2, NetOnlyStep
<1>8. ASSUME NEW pkt \in net, Lose(pkt) PROVE Inv'
  <2>1. net' \subseteq net /\ UNCHANGED <<peers, sender, receiver>>
    BY <1>8 DEF Lose
  <2>2. UNCHANGED <<peers, send_head, send_tail, send_queue, ack_flag, sent, base,
                    wait_to_receive, recv_flag, low, got>>
    BY <2>1 DEF sender, receiver
  <2>3. SendersOK' /\ ReceiversOK' /\ BoundedReordering' /\ AcksOK'
    BY <2>2 DEF Inv, SendersOK, ReceiversOK, BoundedReordering, AcksOK
  <2>4. NetOK'
    BY <2>1, <2>2 DEF Inv, NetOK, CanArrive, DataOK, AckOK
  <2> QED BY <1>1, <2>3, <2>4 DEF Inv
<1> QED BY <1>2, <1>3, <1>4, <1>5, <1>6, <1>7, <1>8 DEF Next

(* The inductive invariant holds in every reachable state. *)
THEOREM Invariance == Spec => []Inv
BY InitInv, InvStep, PTL DEF Spec

-----------------------------------------------------------------------------
(* What follows *)

(* A frame that a connected player lacks stays in the send ring, unchanged  *)
(* and unacknowledged by that player, until it has it.                      *)
THEOREM NothingLost == Spec => []KeptUntilAccepted
<1>1. Inv => KeptUntilAccepted
  <2> SUFFICES ASSUME Inv, NEW p \in Player, NEW q \in peers[p],
                      NEW n \in 0 .. sent[p] - 1, n \notin got[q][p]
               PROVE  /\ is_waiting_ack(p, n % MAX_QUEUE)
                      /\ send_queue[p][n % MAX_QUEUE] = n
                      /\ q \notin ack_flag[p][n % MAX_QUEUE]
    BY DEF KeptUntilAccepted
  <2>1. q \in Player
    BY DEF Inv, TypeOK
  <2>2. /\ base[p] \in Nat /\ sent[p] \in Nat /\ low[q][p] \in Nat
        /\ base[p] <= low[q][p] /\ 0 .. low[q][p] - 1 \subseteq got[q][p]
    BY <2>1, Counters DEF Inv, AcksOK, BoundedReordering
  <2>3. n \in Nat /\ n < sent[p] /\ base[p] <= n
    BY <2>2
  <2>4. n \in base[p] .. sent[p] - 1
    BY <2>2, <2>3
  <2>5. base[p] <= n + Window
    BY <2>2, <2>3, WindowFact
  <2>6. is_waiting_ack(p, n % MAX_QUEUE)
    BY <2>3, <2>5, WaitingAck DEF Inv
  <2> QED BY <2>4, <2>6 DEF Inv, SendersOK, AcksOK
<1> QED BY <1>1, Invariance, PTL

(* A receiver holds a prefix of what was sent to it and some of the next    *)
(* Window messages, and wait_to_receive is the end of that prefix.          *)
THEOREM ReorderingBounded == Spec => []BoundedReordering
<1>1. Inv => BoundedReordering
  BY DEF Inv
<1> QED BY <1>1, Invariance, PTL

(* A message is queued for Remote at most once, however often it arrives.   *)
THEOREM NoDuplicates == Spec => AcceptsOnce
<1> DEFINE Once == \A p \in Player :
               Len(receive_queue'[p]) > Len(receive_queue[p]) =>
                   LET m == receive_queue'[p][Len(receive_queue'[p])]
                   IN  m.msg \notin got[p][m.from]
<1>1. Inv /\ [Next]_vars => [Once]_vars
  <2> SUFFICES ASSUME Inv, Next, NEW p \in Player,
                      Len(receive_queue'[p]) > Len(receive_queue[p])
               PROVE  LET m == receive_queue'[p][Len(receive_queue'[p])]
                      IN  m.msg \notin got[p][m.from]
    OBVIOUS
  <2>1. /\ receive_queue \in [Player -> Seq([from : Player, msg : Nat])]
        /\ receive_queue[p] \in Seq([from : Player, msg : Nat])
    BY DEF Inv, TypeOK
  <2>2. receive_queue'[p] # receive_queue[p]
    BY <2>1
  <2>3. ASSUME NEW r \in Player, TakeReceived(r) PROVE FALSE
    <3>1. /\ receive_queue[r] \in Seq([from : Player, msg : Nat])
          /\ receive_queue[r] # <<>>
          /\ receive_queue' = [receive_queue EXCEPT ![r] = Tail(receive_queue[r])]
      BY <2>1, <2>3 DEF TakeReceived
    <3>2. r = p /\ receive_queue'[p] = Tail(receive_queue[p])
      BY <2>1, <2>2, <3>1
    <3> QED BY <2>1, <3>1, <3>2
  <2>4. PICK pkt \in net : AcceptData(pkt)
    <3>1. receive_queue' # receive_queue
      BY <2>2
    <3> QED BY <2>3, <3>1 DEF Next, Handle, Send, ReTransmit, PlayerLost, DiscardData,
                ReceiveAck, ReceiveNegack, ReceiveCorrupt, Lose, receiver
  <2> DEFINE entry == [from |-> pkt.from, msg |-> pkt.msg]
  <2>5. /\ pkt.to \in Player /\ pkt.from \in Player /\ pkt.msg \in Nat
        /\ pkt.msg \notin got[pkt.to][pkt.from]
        /\ receive_queue' = [receive_queue EXCEPT ![pkt.to] = Append(receive_queue[pkt.to], entry)]
    BY <2>4, AcceptFact DEF AcceptData
  <2>6. pkt.to = p /\ receive_queue'[p] = Append(receive_queue[p], entry)
    BY <2>1, <2>2, <2>5
  <2>7. entry \in [from : Player, msg : Nat]
    BY <2>5
  <2>8. receive_queue'[p][Len(receive_queue'[p])] = entry
    BY <2>1, <2>6, <2>7
  <2> QED BY <2>5, <2>6, <2>8
<1> QED BY <1>1, Invariance, PTL DEF Spec, AcceptsOnce

(* ErrorControl implements ReliableMulticast: each of its steps publishes a *)
(* message, delivers one within the window, disconnects a player or changes *)
(* nothing the abstract specification can see.                              *)
THEOREM Implementation == Spec => ImplementsMulticast
<1>1. Init => Multicast!Init
  BY DEF Init, Multicast!Init
<1>2. Inv /\ [Next]_vars => [Multicast!Next]_(Multicast!vars)
  <2> SUFFICES ASSUME Inv, [Next]_vars
               PROVE  Multicast!Next \/ UNCHANGED <<peers, sent, got>>
    BY DEF Multicast!vars
  <2>1. CASE UNCHANGED vars
    BY <2>1 DEF vars, sender, receiver
  <2>2. ASSUME NEW p \in Player, Send(p) PROVE Multicast!Publish(p)
    <3>1. /\ base[p] \in Nat /\ sent[p] \in Nat
          /\ send_queue_space(p) = MAX_QUEUE - 1 - (sent[p] - base[p])
          /\ send_queue_space(p) >= Window
      BY <2>2, Counters, SpaceFact DEF Inv, Send
    <3>2. sent[p] < base[p] + Window
      BY <3>1, WindowFact
    <3>3. ASSUME NEW q \in peers[p] PROVE 0 .. sent[p] - Window \subseteq got[q][p]
      <4>1. q \in Player
        BY DEF Inv, TypeOK
      <4>2. /\ low[q][p] \in Nat /\ base[p] <= low[q][p]
            /\ 0 .. low[q][p] - 1 \subseteq got[q][p]
        BY <4>1, Counters DEF Inv, AcksOK, BoundedReordering
      <4>3. 0 .. sent[p] - Window \subseteq 0 .. low[q][p] - 1
        BY <3>1, <3>2, <4>2, WindowFact
      <4> QED BY <4>2, <4>3
    <3> QED BY <2>2, <3>3 DEF Send, Multicast!Publish, receiver
  <2>3. ASSUME NEW p \in Player, NEW q \in Player, PlayerLost(p, q)
        PROVE  Multicast!Disconnect(p, q)
    BY <2>3 DEF PlayerLost, Multicast!Disconnect, receiver
  <2>4. ASSUME NEW pkt \in net, AcceptData(pkt)
        PROVE  /\ pkt.to \in Player /\ pkt.from \in Player
               /\ pkt.msg \in 0 .. sent[pkt.from] - 1
               /\ Multicast!Deliver(pkt.to, pkt.from, pkt.msg)
    <3> DEFINE p == pkt.to
               q == pkt.from
               m == pkt.msg
    <3>1. /\ p \in Player /\ q \in peers[p] /\ q \in Player /\ m \in Nat /\ m < sent[q]
          /\ m < low[p][q] + Window /\ m \notin got[p][q]
      BY <2>4, AcceptFact DEF AcceptData
    <3>2. /\ low[p][q] \in Nat /\ sent[q] \in Nat /\ 0 .. low[p][q] - 1 \subseteq got[p][q]
      BY <3>1, Counters DEF Inv, BoundedReordering
    <3>3. m \in 0 .. sent[q] - 1
      BY <3>1, <3>2
    <3>4. 0 .. m - Window \subseteq 0 .. low[p][q] - 1
      BY <3>1, <3>2, WindowFact
    <3>5. 0 .. m - Window \subseteq got[p][q]
      BY <3>2, <3>4
    <3> QED BY <2>4, <3>1, <3>3, <3>5 DEF AcceptData, Multicast!Deliver, sender
  <2>5. ASSUME NEW pkt \in net, Handle(pkt)
        PROVE  Multicast!Next \/ UNCHANGED <<peers, sent, got>>
    <3>1. CASE AcceptData(pkt)
      BY <2>4, <3>1 DEF Multicast!Next
    <3>2. CASE ~AcceptData(pkt)
      BY <2>5, <3>2 DEF Handle, DiscardData, ReceiveAck, ReceiveNegack, sender, receiver
    <3> QED BY <3>1, <3>2
  <2>6. CASE \E p \in Player : Send(p) \/ TakeReceived(p)
    BY <2>2, <2>6 DEF TakeReceived, sender, Multicast!Next
  <2>7. CASE \E p \in Player, f \in FrameId : ReTransmit(p, f)
    BY <2>7 DEF ReTransmit, sender, receiver
  <2>8. CASE \E p, q \in Player : PlayerLost(p, q)
    BY <2>3, <2>8 DEF Multicast!Next
  <2>9. CASE \E pkt \in net : Handle(pkt) \/ ReceiveCorrupt(pkt) \/ Lose(pkt)
    BY <2>5, <2>9 DEF ReceiveCorrupt, Lose, sender, receiver
  <2> QED BY <2>1, <2>6, <2>7, <2>8, <2>9 DEF Next
<1> QED BY <1>1, <1>2, Invariance, PTL DEF Spec, ImplementsMulticast, Multicast!Spec

=============================================================================
