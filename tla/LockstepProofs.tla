--------------------------- MODULE LockstepProofs ---------------------------
(***************************************************************************)
(* Proofs about Lockstep, for any number of players and any parameters.    *)
(***************************************************************************)
EXTENDS Lockstep, DataLemmas

\* How many frames ahead of the frame it is sent in a queue is stamped, at least.
Ahead == process_frame_delay - (process_frame_delay % alternating_send_rate)

-----------------------------------------------------------------------------
(* Turns *)

\* The frames of a turn are those that are a multiple of the rate apart.
LEMMA TurnMultiple ==
    ASSUME NEW n \in Nation, NEW f \in Nat
    PROVE  has_send_frame(n, f) <=> \E q \in Nat : f + n = alternating_send_rate * q
<1> DEFINE R == alternating_send_rate
<1>1. R \in Nat \ {0} /\ f + n \in Nat
  BY RateAssumption DEF Nation
<1>2. f + n = R * ((f + n) \div R) + ((f + n) % R) /\ (f + n) \div R \in Nat
  BY <1>1, DivMod
<1>3. ASSUME (f + n) % R = 0 PROVE \E q \in Nat : f + n = R * q
  <2> DEFINE q == (f + n) \div R
  <2>1. f + n = R * q + 0 /\ q \in Nat
    BY <1>2, <1>3
  <2> HIDE DEF q
  <2>2. f + n = R * q
    BY <1>1, <2>1
  <2> QED BY <2>1, <2>2
<1>4. ASSUME NEW q \in Nat, f + n = R * q PROVE (f + n) % R = 0
  <2>1. (R * q + 0) % R = 0
    BY <1>1, ModUnique
  <2> QED BY <1>1, <1>4, <2>1
<1> QED BY <1>3, <1>4 DEF has_send_frame

\* Two different ones are a rate apart at least.
LEMMA TurnsApart ==
    ASSUME NEW n \in Nation, NEW f \in Nat, NEW g \in Nat,
           has_send_frame(n, f), has_send_frame(n, g), f < g
    PROVE  f + alternating_send_rate <= g
<1> DEFINE R == alternating_send_rate
<1>1. R \in Nat \ {0} /\ n \in Nat
  BY RateAssumption DEF Nation
<1>2. (f + n) % R = 0 /\ (g + n) % R = 0
  BY DEF has_send_frame
<1> HIDE DEF R
<1>3. ASSUME g < f + R PROVE FALSE
  <2>1. f + n = g + n
    <3>1. /\ f + n \in Nat /\ g + n \in Nat
          /\ f + n < (g + n) + R /\ g + n < (f + n) + R
          /\ (f + n) % R = (g + n) % R
      BY <1>1, <1>2, <1>3
    <3> QED BY <1>1, <3>1, SameRemainder
  <2> QED BY <1>1, <2>1
<1> QED BY <1>1, <1>3 DEF R

\* next_send_frame is the next turn.
LEMMA NextTurn ==
    ASSUME NEW n \in Nation, NEW f \in Nat
    PROVE  /\ next_send_frame(n, f) \in Nat
           /\ has_send_frame(n, next_send_frame(n, f))
           /\ f <= next_send_frame(n, f) /\ next_send_frame(n, f) < f + alternating_send_rate
           /\ has_send_frame(n, f) => next_send_frame(n, f) = f
<1> DEFINE R == alternating_send_rate
           r == (f + n) % R
           q == (f + n) \div R
<1>1. R \in Nat \ {0} /\ f + n \in Nat /\ n \in Nat
  BY RateAssumption DEF Nation
<1>2. f + n = R * q + r /\ q \in Nat /\ r \in 0 .. R - 1
  BY <1>1, DivMod
<1>3. next_send_frame(n, f) = IF r = 0 THEN f ELSE f + R - r
  BY DEF next_send_frame
<1>4. has_send_frame(n, f) <=> r = 0
  BY DEF has_send_frame
<1> HIDE DEF q, r
<1>5. R * (q + 1) = R * q + R
  BY <1>1, <1>2
<1>6. CASE r # 0
  <2>1. (f + R - r) + n = R * (q + 1) /\ q + 1 \in Nat /\ f + R - r \in Nat
    BY <1>1, <1>2, <1>5
  <2>2. has_send_frame(n, f + R - r)
    BY <2>1, TurnMultiple
  <2> QED BY <1>1, <1>2, <1>3, <1>4, <1>6, <2>1, <2>2
<1>7. CASE r = 0
  BY <1>1, <1>3, <1>4, <1>7
<1> QED BY <1>6, <1>7

\* There is none in between.
LEMMA NextTurnLeast ==
    ASSUME NEW n \in Nation, NEW f \in Nat, NEW g \in Nat, has_send_frame(n, g), f <= g
    PROVE  next_send_frame(n, f) <= g
<1>1. /\ next_send_frame(n, f) \in Nat /\ alternating_send_rate \in Nat
      /\ has_send_frame(n, next_send_frame(n, f))
      /\ next_send_frame(n, f) < f + alternating_send_rate
  BY NextTurn, RateAssumption
<1>2. ASSUME g < next_send_frame(n, f) PROVE FALSE
  <2>1. g + alternating_send_rate <= next_send_frame(n, f)
    BY <1>1, <1>2, TurnsApart
  <2> QED BY <1>1, <2>1
<1> QED BY <1>1, <1>2

LEMMA NextTurnMonotone ==
    ASSUME NEW n \in Nation, NEW f \in Nat, NEW g \in Nat, f <= g
    PROVE  next_send_frame(n, f) <= next_send_frame(n, g)
<1>1. /\ next_send_frame(n, g) \in Nat /\ g <= next_send_frame(n, g)
      /\ has_send_frame(n, next_send_frame(n, g))
  BY NextTurn
<1> QED BY <1>1, NextTurnLeast

\* What is ahead is a multiple of the rate, and nearly the delay.
LEMMA AheadFact ==
    /\ Ahead \in Nat /\ Ahead <= process_frame_delay
    /\ process_frame_delay < Ahead + alternating_send_rate
    /\ process_frame_delay % alternating_send_rate = 0 => Ahead = process_frame_delay
    /\ \E k \in Nat : Ahead = alternating_send_rate * k
<1> DEFINE R == alternating_send_rate
           D == process_frame_delay
<1>1. R \in Nat \ {0} /\ D \in Nat
  BY RateAssumption
<1>2. D = R * (D \div R) + (D % R) /\ D \div R \in Nat /\ D % R \in 0 .. R - 1
  BY <1>1, DivMod
<1> DEFINE d == D % R
           k == D \div R
<1> HIDE DEF d, k
<1>3. Ahead = D - d
  BY DEF Ahead, d
<1>4. D = R * k + d /\ k \in Nat /\ d \in 0 .. R - 1
  BY <1>2 DEF d, k
<1>5. R * k \in Nat
  BY <1>1, <1>4
<1>6. Ahead = R * k
  BY <1>3, <1>4, <1>5, <1>1
<1>7. Ahead \in Nat /\ Ahead <= D /\ D < Ahead + R
  BY <1>1, <1>3, <1>4, <1>5, <1>6
<1>8. d = 0 => Ahead = D
  BY <1>1, <1>3, <1>4
<1> QED BY <1>4, <1>6, <1>7, <1>8 DEF d

LEMMA TurnShift ==
    ASSUME NEW n \in Nation, NEW f \in Nat
    PROVE  /\ has_send_frame(n, f + Ahead) <=> has_send_frame(n, f)
           /\ has_send_frame(n, f + alternating_send_rate) <=> has_send_frame(n, f)
<1> DEFINE R == alternating_send_rate
<1>1. R \in Nat \ {0} /\ n \in Nat
  BY RateAssumption DEF Nation
<1>2. ASSUME NEW k \in Nat PROVE has_send_frame(n, f + R * k) <=> has_send_frame(n, f)
  <2>1. R * k \in Nat /\ f + R * k \in Nat
    BY <1>1
  <2>2. ASSUME NEW q \in Nat, f + n = R * q PROVE (f + R * k) + n = R * (q + k) /\ q + k \in Nat
    BY <1>1, <2>1, <2>2
  <2>3. ASSUME NEW q \in Nat, (f + R * k) + n = R * q PROVE f + n = R * (q - k) /\ q - k \in Nat
    <3>1. R * (q - k) = f + n
      BY <1>1, <2>1, <2>3
    <3>2. R * (q - k) >= 0
      BY <1>1, <3>1
    <3>3. q >= k
      BY <1>1, <3>2
    <3> QED BY <3>1, <3>3
  <2> QED BY <2>1, <2>2, <2>3, TurnMultiple
<1>3. R * 1 = R
  BY <1>1
<1> QED BY <1>2, <1>3, AheadFact

\* The frame stamped on a queue lies ahead of the next turn ...
LEMMA NextAhead ==
    ASSUME NEW n \in Nation, NEW f \in Nat
    PROVE  next_send_frame(n, f) + Ahead <= next_send_frame(n, f + process_frame_delay)
<1> DEFINE g == next_send_frame(n, f + process_frame_delay)
<1>1. process_frame_delay \in Nat /\ Ahead \in Nat /\ Ahead <= process_frame_delay
  BY RateAssumption, AheadFact
<1>2. g \in Nat /\ has_send_frame(n, g) /\ f + process_frame_delay <= g
  BY <1>1, NextTurn
<1> HIDE DEF g
<1>3. g - Ahead \in Nat /\ f <= g - Ahead /\ (g - Ahead) + Ahead = g
  BY <1>1, <1>2
<1>4. has_send_frame(n, g - Ahead)
  BY <1>2, <1>3, TurnShift
<1>5. next_send_frame(n, f) \in Nat /\ next_send_frame(n, f) <= g - Ahead
  BY <1>3, <1>4, NextTurn, NextTurnLeast
<1> QED BY <1>1, <1>2, <1>5 DEF g

\* ... and less than a turn further.
LEMMA NextBehind ==
    ASSUME NEW n \in Nation, NEW f \in Nat, has_send_frame(n, f)
    PROVE  /\ next_send_frame(n, f + 1 + process_frame_delay) <= f + Ahead + alternating_send_rate
           /\ next_send_frame(n, f + process_frame_delay) <= f + Ahead + alternating_send_rate
           /\ process_frame_delay % alternating_send_rate = 0
              => next_send_frame(n, f + process_frame_delay) = f + Ahead
<1> DEFINE R == alternating_send_rate
           D == process_frame_delay
<1>1. R \in Nat \ {0} /\ D \in Nat /\ Ahead \in Nat /\ D < Ahead + R
  BY RateAssumption, AheadFact
<1>2. f + Ahead \in Nat /\ has_send_frame(n, f + Ahead) /\ has_send_frame(n, f + Ahead + R)
  BY <1>1, TurnShift
<1>3. f + 1 + D \in Nat /\ f + D \in Nat /\ f + Ahead + R \in Nat
      /\ f + 1 + D <= f + Ahead + R /\ f + D <= f + Ahead + R
  BY <1>1
<1> HIDE DEF R, D
<1>4. next_send_frame(n, f + 1 + D) <= f + Ahead + R
      /\ next_send_frame(n, f + D) <= f + Ahead + R
  BY <1>2, <1>3, NextTurnLeast
<1>5. D % R = 0 => Ahead = D
  BY AheadFact DEF D, R
<1>6. D % R = 0 => next_send_frame(n, f + D) = f + Ahead
  BY <1>2, <1>3, <1>5, NextTurn
<1> QED BY <1>4, <1>6 DEF D, R

-----------------------------------------------------------------------------
(* Types *)

SlotType == [frame : Nat, queues : Seq(Queue)]
SendType == [frame : Nat, orders : Seq(Order), closed : BOOLEAN]

\* TypeOK says of the queues what the runs can tell; here is the rest of it.
Types ==
    /\ frame_count \in [Nation -> 1 .. MaxFrame]
    /\ remote \in [Nation -> SUBSET Nation]
    /\ next_frame_ready \in [Nation -> SUBSET Nation]
    /\ remote_send_success_flag \in [Nation -> BOOLEAN]
    /\ send_queue \in [Nation -> SendType]
    /\ receive_queue \in [Nation -> [Slot -> SlotType]]
    /\ \A p \in Nation, k \in Slot : receive_queue[p][k].frame = frame_count[p] + k
    /\ mp_save_frame \in [Nation -> Nat]
    /\ executed \in [Nation -> [1 .. MaxFrame -> Seq(Order)]]
    /\ saved \in [Nation -> SUBSET (1 .. MaxFrame)]
    /\ issued \in [Nation -> 0 .. MaxCommand]
    /\ log \in [Nation -> Seq(Queue)]
    /\ \A p \in Nation : \A i \in DOMAIN log[p] : log[p][i].nation = p

\* The multicast carries what is in the logs, and nobody is his own peer.
Carried ==
    /\ peers \in [Nation -> SUBSET Nation] /\ \A p \in Nation : p \notin peers[p]
    /\ sent \in [Nation -> Nat] /\ \A p \in Nation : Len(log[p]) = sent[p]
    /\ got \in [Nation -> [Nation -> SUBSET Nat]]
    /\ \A p, q \in Nation : got[p][q] \subseteq 0 .. sent[q] - 1
    /\ \A p \in Nation : p \notin remote[p]

\* The numbers that constants are.
LEMMA ConstantFact ==
    /\ process_frame_delay \in Nat \ {0} /\ alternating_send_rate \in Nat \ {0}
    /\ RECEIVE_QUEUE_BACKUP \in Nat \ {0}
    /\ process_frame_delay + alternating_send_rate < RECEIVE_QUEUE_BACKUP
    /\ MaxFrame \in Nat \ {0} /\ MaxCommand \in Nat /\ PlayerCount \in Nat \ {0}
    /\ Window \in Nat /\ Skew \in Nat /\ Latency \in Nat
    /\ 0 \in Slot /\ \A n \in Nation : n \in Nat
BY PlayerCountAssumption, RateAssumption, BoundAssumption DEF Slot, Nation

\* The first slot with a stamp gets the queue, the others stay.
LEMMA EnqueueFact ==
    ASSUME NEW rq \in [Slot -> SlotType], NEW q \in Queue
    PROVE  /\ Enqueue(rq, q) \in [Slot -> SlotType]
           /\ \A k \in Slot : /\ Enqueue(rq, q)[k].frame = rq[k].frame
                              /\ rq[k].frame = q.frame =>
                                    Enqueue(rq, q)[k].queues = Append(rq[k].queues, q)
                              /\ rq[k].frame # q.frame =>
                                    Enqueue(rq, q)[k].queues = rq[k].queues
<1>1. \A k \in Slot : rq[k].queues \in Seq(Queue) /\ rq[k] \in SlotType
  BY DEF SlotType
<1>2. \A k \in Slot : Append(rq[k].queues, q) \in Seq(Queue)
  BY <1>1, AppendProperties
<1> DEFINE new == [k \in Slot |-> [rq[k] EXCEPT !.queues = Append(@, q)]]
<1>3. \A k \in Slot : /\ new[k] \in SlotType
                      /\ new[k].frame = rq[k].frame /\ new[k].queues = Append(rq[k].queues, q)
  BY <1>1, <1>2 DEF SlotType
<1>4. Enqueue(rq, q) = [k \in Slot |-> IF rq[k].frame = q.frame THEN new[k] ELSE rq[k]]
  BY DEF Enqueue
<1> HIDE DEF new
<1> QED BY <1>1, <1>3, <1>4

LEMMA OwnQueueType ==
    ASSUME Types, NEW p \in Nation
    PROVE  /\ OwnQueue(p) \in Queue /\ OwnQueue(p).nation = p
           /\ OwnQueue(p).frame = send_queue[p].frame
           /\ OwnQueue(p).orders = send_queue[p].orders /\ OwnQueue(p).at = frame_count[p]
<1>1. send_queue[p] \in SendType /\ frame_count[p] \in Nat
  BY ConstantFact DEF Types
<1> QED BY <1>1 DEF OwnQueue, Queue, SendType

LEMMA ReceivedFact ==
    ASSUME Types, NEW p \in Nation
    PROVE  /\ Received(p) \in [Slot -> SlotType]
           /\ \A k \in Slot : Received(p)[k].frame = frame_count[p] + k
<1>1. receive_queue[p] \in [Slot -> SlotType]
  BY DEF Types
<1>2. Received(p) \in [Slot -> SlotType]
      /\ \A k \in Slot : Received(p)[k].frame = receive_queue[p][k].frame
  <2>1. CASE Closes(p)
    BY <1>1, <2>1, OwnQueueType, EnqueueFact DEF Received
  <2>2. CASE ~Closes(p)
    BY <1>1, <2>2 DEF Received
  <2> QED BY <2>1, <2>2
<1> QED BY <1>2 DEF Types

\* The slots move up by one.
LEMMA ShiftFact ==
    ASSUME NEW rq \in [Slot -> SlotType], NEW f \in Nat,
           \A k \in Slot : rq[k].frame = f + k
    PROVE  /\ Shift(rq) \in [Slot -> SlotType]
           /\ \A k \in Slot : Shift(rq)[k].frame = f + 1 + k
           /\ \A k \in Slot : k + 1 \in Slot => Shift(rq)[k].queues = rq[k + 1].queues
           /\ \A k \in Slot : k + 1 \notin Slot => Shift(rq)[k].queues = << >>
<1>1. \A k \in Slot : /\ k \in Nat
                      /\ k < RECEIVE_QUEUE_BACKUP - 1 <=> k + 1 \in Slot
  BY ConstantFact DEF Slot
<1>2. \A k \in Slot : /\ Shift(rq)[k] = IF k + 1 \in Slot THEN rq[k + 1]
                                       ELSE [frame |-> rq[k].frame + 1, queues |-> << >>]
  BY <1>1 DEF Shift
<1>3. \A k \in Slot : Shift(rq)[k] \in SlotType /\ Shift(rq)[k].frame = f + 1 + k
  <2> SUFFICES ASSUME NEW k \in Slot
               PROVE  Shift(rq)[k] \in SlotType /\ Shift(rq)[k].frame = f + 1 + k
    OBVIOUS
  <2>1. CASE k + 1 \in Slot
    <3>1. Shift(rq)[k] = rq[k + 1] /\ rq[k + 1] \in SlotType /\ rq[k + 1].frame = f + (k + 1)
      BY <1>2, <2>1
    <3> QED BY <1>1, <3>1
  <2>2. CASE k + 1 \notin Slot
    <3>1. Shift(rq)[k] = [frame |-> f + k + 1, queues |-> << >>]
      BY <1>2, <2>2
    <3>2. f + k + 1 \in Nat /\ << >> \in Seq(Queue)
      BY <1>1, EmptySeq
    <3>3. f + k + 1 = f + 1 + k
      BY <1>1
    <3>4. Shift(rq)[k] \in SlotType
      BY <3>1, <3>2 DEF SlotType
    <3>5. Shift(rq)[k].frame = f + k + 1
      BY <3>1
    <3> QED BY <3>3, <3>4, <3>5
  <2> QED BY <2>1, <2>2
<1>4. Shift(rq) \in [Slot -> SlotType]
  BY <1>3 DEF Shift
<1> QED BY <1>2, <1>3, <1>4

\* The first queue of a nation stays the first when another one comes behind.
LEMMA QueueOfFact ==
    ASSUME NEW queues \in Seq(Queue), NEW n
    PROVE  /\ QueueOf(queues, n) \in Seq(Order)
           /\ n \notin NationsIn(queues) => QueueOf(queues, n) = << >>
<1> DEFINE found == {i \in DOMAIN queues : queues[i].nation = n}
<1>1. DOMAIN queues = 1 .. Len(queues) /\ Len(queues) \in Nat
      /\ \A i \in DOMAIN queues : queues[i] \in Queue
  BY LenProperties, ElementOfSeq
<1>2. QueueOf(queues, n) = IF found = {} THEN << >> ELSE queues[Min(found)].orders
  BY DEF QueueOf
<1>3. found \in SUBSET Nat /\ found \subseteq DOMAIN queues
  BY <1>1
<1>4. n \notin NationsIn(queues) => found = {}
  BY DEF NationsIn
<1> HIDE DEF found
<1>5. CASE found = {}
  BY <1>2, <1>5, EmptySeq
<1>6. CASE found # {}
  <2>1. Min(found) \in DOMAIN queues
    BY <1>3, <1>6, MinIsLeast
  <2>2. queues[Min(found)].orders \in Seq(Order)
    BY <1>1, <2>1 DEF Queue
  <2> QED BY <1>2, <1>4, <1>6, <2>2
<1> QED BY <1>5, <1>6

LEMMA AppendQueue ==
    ASSUME NEW queues \in Seq(Queue), NEW q \in Queue
    PROVE  /\ NationsIn(Append(queues, q)) = NationsIn(queues) \cup {q.nation}
           /\ \A n : QueueOf(Append(queues, q), n) =
                        IF n \in NationsIn(queues) THEN QueueOf(queues, n)
                        ELSE IF q.nation = n THEN q.orders ELSE << >>
<1> DEFINE more == Append(queues, q)
           len == Len(queues)
<1>1. /\ DOMAIN queues = 1 .. len /\ len \in Nat
      /\ more \in Seq(Queue) /\ DOMAIN more = 1 .. len + 1
      /\ \A i \in 1 .. len : more[i] = queues[i]
      /\ more[len + 1] = q
  BY LenProperties, AppendProperties
<1> HIDE DEF more, len
<1>2. /\ \A i \in 1 .. len : i \in 1 .. len + 1 /\ i <= len + 1
      /\ len + 1 \in 1 .. len + 1 /\ len + 1 \notin 1 .. len
      /\ \A i \in 1 .. len + 1 : i \in 1 .. len \/ i = len + 1
      /\ 1 .. len + 1 \subseteq Nat
  BY <1>1
<1>3. NationsIn(more) = NationsIn(queues) \cup {q.nation}
  <2>1. \A n : n \in NationsIn(more) <=> n \in NationsIn(queues) \/ n = q.nation
    BY <1>1, <1>2 DEF NationsIn
  <2> QED BY <2>1
<1>4. ASSUME NEW n
      PROVE  QueueOf(more, n) = IF n \in NationsIn(queues) THEN QueueOf(queues, n)
                                ELSE IF q.nation = n THEN q.orders ELSE << >>
  <2> DEFINE old == {i \in DOMAIN queues : queues[i].nation = n}
             found == {i \in DOMAIN more : more[i].nation = n}
  <2>1. /\ QueueOf(queues, n) = IF old = {} THEN << >> ELSE queues[Min(old)].orders
        /\ QueueOf(more, n) = IF found = {} THEN << >> ELSE more[Min(found)].orders
    BY DEF QueueOf
  <2>2. found = old \cup (IF q.nation = n THEN {len + 1} ELSE {})
    BY <1>1, <1>2
  <2>3. old \in SUBSET Nat /\ found \in SUBSET Nat /\ old \subseteq 1 .. len
    BY <1>1, <1>2
  <2>4. n \in NationsIn(queues) <=> old # {}
    BY DEF NationsIn
  <2> HIDE DEF old, found
  <2>5. CASE old # {}
    <3>1. Min(old) \in old /\ \A i \in old : Min(old) <= i
      BY <2>3, <2>5, MinIsLeast
    <3>2. Min(old) \in found /\ \A i \in found : Min(old) <= i
      BY <1>2, <2>2, <2>3, <3>1
    <3>3. Min(found) = Min(old)
      BY <2>3, <3>2, MinUnique
    <3>4. more[Min(old)] = queues[Min(old)]
      BY <1>1, <2>3, <3>1
    <3> QED BY <2>1, <2>4, <2>5, <3>2, <3>3, <3>4
  <2>6. CASE old = {} /\ q.nation = n
    <3>1. len + 1 \in found /\ \A i \in found : len + 1 <= i
      BY <1>1, <2>2, <2>6
    <3>2. Min(found) = len + 1
      BY <2>3, <3>1, MinUnique
    <3> QED BY <1>1, <2>1, <2>4, <2>6, <3>1, <3>2
  <2>7. CASE old = {} /\ q.nation # n
    BY <2>1, <2>2, <2>4, <2>7
  <2> QED BY <2>5, <2>6, <2>7
<1> QED BY <1>3, <1>4 DEF more

\* What a frame consists of.
LEMMA ProcessFact ==
    ASSUME NEW queues \in Seq(Queue), NEW players
    PROVE  /\ Process(queues, players) \in Seq(Order)
           /\ \A n \in Nation \cap players : \A j \in DOMAIN QueueOf(queues, n) :
                \E k \in DOMAIN Process(queues, players) :
                    Process(queues, players)[k] = QueueOf(queues, n)[j]
           /\ \A k \in DOMAIN Process(queues, players) : \E n \in Nation :
                \E j \in DOMAIN QueueOf(queues, n) :
                    Process(queues, players)[k] = QueueOf(queues, n)[j]
<1> DEFINE part == [n \in Nation |-> IF n \in players THEN QueueOf(queues, n) ELSE << >>]
<1>1. \A n \in Nation : /\ part[n] \in Seq(Order)
                        /\ n \in players => part[n] = QueueOf(queues, n)
                        /\ n \notin players => part[n] = << >>
  BY QueueOfFact, EmptySeq
<1>2. part \in Seq(Seq(Order)) /\ Len(part) = PlayerCount /\ DOMAIN part = Nation
  <2>1. part \in [1 .. PlayerCount -> Seq(Order)] /\ DOMAIN part = Nation
    BY <1>1 DEF Nation
  <2> HIDE DEF part
  <2>2. part \in Seq(Seq(Order))
    BY <2>1, ConstantFact, SeqDef
  <2> QED BY <2>1, <2>2, LenProperties, ConstantFact DEF Nation
<1>3. Process(queues, players) = FlattenSeq(part)
  BY DEF Process
<1> HIDE DEF part
<1>4. FlattenSeq(part) \in Seq(Order) /\ SameElements(part, PlayerCount, FlattenSeq(part))
  BY <1>2, FlattenProperties
<1>5. ASSUME NEW n \in Nation \cap players, NEW j \in DOMAIN QueueOf(queues, n)
      PROVE  \E k \in DOMAIN Process(queues, players) :
                 Process(queues, players)[k] = QueueOf(queues, n)[j]
  BY <1>1, <1>3, <1>4 DEF SameElements, Nation
<1>6. ASSUME NEW k \in DOMAIN Process(queues, players)
      PROVE  \E n \in Nation : \E j \in DOMAIN QueueOf(queues, n) :
                 Process(queues, players)[k] = QueueOf(queues, n)[j]
  <2>1. PICK n \in 1 .. PlayerCount : \E j \in DOMAIN part[n] :
            FlattenSeq(part)[k] = part[n][j]
    BY <1>3, <1>4 DEF SameElements
  <2>2. n \in Nation
    BY DEF Nation
  <2>3. n \in players
    BY <1>1, <2>1, <2>2
  <2> QED BY <1>1, <1>3, <2>1, <2>2, <2>3
<1> QED BY <1>3, <1>4, <1>5, <1>6

-----------------------------------------------------------------------------
(* The inductive invariant *)

\* p has used its turn in the frame it is in.
TurnTaken(p) == p \in next_frame_ready[p] /\ has_send_frame(p, frame_count[p])

\* The frame from which on p has to send the queue that it is filling.
NextFrame(p) == IF TurnTaken(p) THEN frame_count[p] + 1 ELSE frame_count[p]

\* The stamp of the queue being filled is a frame of p's turn, about
\* process_frame_delay ahead of the one in which it will be sent; a queue is
\* closed while it waits to be sent again, in a frame of p's turn.
SendTurns ==
    \A p \in Nation :
        /\ has_send_frame(p, send_queue[p].frame)
        /\ send_queue[p].frame > process_frame_delay
        /\ next_send_frame(p, NextFrame(p)) + Ahead <= send_queue[p].frame
        /\ send_queue[p].frame <= next_send_frame(p, NextFrame(p) + process_frame_delay)
        /\ send_queue[p].closed = ~remote_send_success_flag[p]
        /\ ~remote_send_success_flag[p] =>
              has_send_frame(p, frame_count[p]) /\ p \notin next_frame_ready[p]

\* A queue in a slot is for the frame of the slot.
SlotFrames ==
    \A p \in Nation, k \in Slot : \A i \in DOMAIN receive_queue[p][k].queues :
        receive_queue[p][k].queues[i].frame = frame_count[p] + k

\* The first frames have a queue of everyone, without orders.
EmptyStart ==
    \A p, n \in Nation, k \in Slot : frame_count[p] + k <= process_frame_delay =>
        /\ n \in NationsIn(receive_queue[p][k].queues)
        /\ QueueOf(receive_queue[p][k].queues, n) = << >>

\* For each of its turns up to the stamp of the queue it fills, p has a queue of its own.
OwnPresent ==
    \A p \in Nation, k \in Slot :
        LET f == frame_count[p] + k
        IN  /\ has_send_frame(p, f)
            /\ \/ f < send_queue[p].frame
               \/ f = send_queue[p].frame /\ ~remote_send_success_flag[p]
            => p \in NationsIn(receive_queue[p][k].queues)

\* What p has sent: a queue a turn, stamped ahead.
LogTurns ==
    \A p \in Nation : \A i \in DOMAIN log[p] :
        /\ has_send_frame(p, log[p][i].at) /\ has_send_frame(p, log[p][i].frame)
        /\ log[p][i].frame > process_frame_delay
        /\ log[p][i].at + Ahead <= log[p][i].frame
        /\ log[p][i].frame <= next_send_frame(p, log[p][i].at + process_frame_delay)
        /\ log[p][i].at < NextFrame(p)
        /\ \A j \in DOMAIN log[p] : i < j => log[p][i].at < log[p][j].at

\* The i-th queue of n is the first with its stamp: the one that is executed.
First(n, i) ==
    /\ i \in DOMAIN log[n]
    /\ \A j \in DOMAIN log[n] : j < i => log[n][j].frame # log[n][i].frame

\* The machine's own queues are in its slots.
OwnSlots ==
    \A p \in Nation, k \in Slot :
        LET queues == receive_queue[p][k].queues
            f == frame_count[p] + k
        IN  /\ \A i \in DOMAIN log[p] : First(p, i) /\ log[p][i].frame = f =>
                  p \in NationsIn(queues) /\ QueueOf(queues, p) = log[p][i].orders
            /\ peers[p] # {} /\ f > process_frame_delay /\ p \in NationsIn(queues) =>
                  \/ \E i \in DOMAIN log[p] : log[p][i].frame = f
                  \/ ~remote_send_success_flag[p] /\ send_queue[p].frame = f
            /\ /\ ~remote_send_success_flag[p] /\ send_queue[p].frame = f
               /\ \A i \in DOMAIN log[p] : log[p][i].frame # f
               => QueueOf(queues, p) = send_queue[p].orders

\* The orders of p's own queues were executed, first ones with their stamp only.
OwnExecuted ==
    \A p \in Nation : \A i \in DOMAIN log[p] :
        First(p, i) /\ log[p][i].frame < frame_count[p] =>
            \A j \in DOMAIN log[p][i].orders : \E k \in DOMAIN executed[p][log[p][i].frame] :
                executed[p][log[p][i].frame][k] = log[p][i].orders[j]

\* Executed in frame f, none of the orders asks for a save in a frame that is over.
Early(orders, f) == \A j \in DOMAIN orders : orders[j].save = 0 \/ orders[j].save > f

\* No request to save comes after the frame it is for.
SavesAhead ==
    /\ \A p \in Nation : Early(send_queue[p].orders, send_queue[p].frame)
    /\ \A p \in Nation : \A i \in DOMAIN log[p] : Early(log[p][i].orders, log[p][i].frame)
    /\ \A p \in Nation, k \in Slot : \A i \in DOMAIN receive_queue[p][k].queues :
        Early(receive_queue[p][k].queues[i].orders, frame_count[p] + k)
    /\ \A p \in Nation : mp_save_frame[p] # 0 => mp_save_frame[p] > frame_count[p]

\* The delay under which a request to save the game is executed before its frame.
SavesInTime ==
    \/ alternating_send_rate = 1
    \/ process_frame_delay % alternating_send_rate # 0

\* What SaveRequested makes of a request m that is there already.
Request(m, orders) ==
    LET requests == {i \in DOMAIN orders : orders[i].save # 0}
    IN  IF m # 0 \/ requests = {} THEN m ELSE orders[Min(requests)].save

\* h tells how mp_save_frame went from frame to frame.
TraceOf(p, h) ==
    /\ h \in [1 .. MaxFrame -> Nat]
    /\ h[1] = 0 /\ h[frame_count[p]] = mp_save_frame[p]
    /\ \A f \in 1 .. frame_count[p] - 1 :
        h[f + 1] = IF Request(h[f], executed[p][f]) = f + 1 THEN 0
                   ELSE Request(h[f], executed[p][f])
    /\ \A f \in 2 .. frame_count[p] :
        f \in saved[p] <=> Request(h[f - 1], executed[p][f - 1]) = f
    /\ saved[p] \subseteq 2 .. frame_count[p]

SaveTraces == \A p \in Nation : \E h : TraceOf(p, h)

\* The timing under which the games stay the same: a queue is stamped further
\* ahead than machines drift apart and messages take, the receive queue has
\* room for those of a machine ahead, and two queues of a machine under one
\* stamp do not overtake each other.
InTime ==
    /\ PlayerCount > 1
    /\ Latency > 0 /\ Skew + Latency <= Ahead
    /\ Skew + process_frame_delay + alternating_send_rate <= RECEIVE_QUEUE_BACKUP
    /\ \/ process_frame_delay % alternating_send_rate = 0
       \/ Window <= 1
       \/ Latency < alternating_send_rate

\* How far connected machines and their messages can be apart.
Near(p, n) ==
    /\ frame_count[p] <= frame_count[n] + Skew
    /\ frame_count[n] <= frame_count[p] + Skew

Arrived(p, n) ==
    \A i \in DOMAIN log[n] : log[n][i].at + Latency < frame_count[n] => i - 1 \in got[p][n]

InOrder(p, n) ==
    \A i, j \in DOMAIN log[n] :
        j < i /\ log[n][j].frame = log[n][i].frame /\ i - 1 \in got[p][n] => j - 1 \in got[p][n]

Drift ==
    \A p \in Nation : Together(p) =>
        /\ remote[p] = Nation \ {p}
        /\ \A n \in Nation \ {p} : Near(p, n) /\ Arrived(p, n) /\ InOrder(p, n)

\* The queues p has received are in its slots.
HeardSlots ==
    \A p \in Nation : Together(p) => \A n \in Nation \ {p}, k \in Slot :
        LET queues == receive_queue[p][k].queues
            f == frame_count[p] + k
        IN  /\ \A i \in DOMAIN log[n] : First(n, i) /\ log[n][i].frame = f /\ i - 1 \in got[p][n] =>
                  n \in NationsIn(queues) /\ QueueOf(queues, n) = log[n][i].orders
            /\ f > process_frame_delay /\ n \in NationsIn(queues) =>
                  \E i \in DOMAIN log[n] : log[n][i].frame = f /\ i - 1 \in got[p][n]

-----------------------------------------------------------------------------
(* Preservation of the types *)

LEMMA InitQueueType ==
    ASSUME NEW n \in Nation, NEW f \in Nat
    PROVE  /\ init_send_queue(n, f) \in SendType
           /\ init_send_queue(n, f).frame = next_send_frame(n, f + process_frame_delay)
           /\ init_send_queue(n, f).orders = << >> /\ ~init_send_queue(n, f).closed
<1>1. next_send_frame(n, f + process_frame_delay) \in Nat
  BY NextTurn, ConstantFact
<1> QED BY <1>1, EmptySeq DEF init_send_queue, SendType

LEMMA InitSlotType ==
    ASSUME NEW k \in Slot
    PROVE  /\ init_receive_queue(1)[k] \in SlotType
           /\ init_receive_queue(1)[k].frame = 1 + k
           /\ init_receive_queue(1)[k].queues =
                IF k < process_frame_delay
                THEN [n \in Nation |-> [nation |-> n, frame |-> 1 + k, orders |-> << >>, at |-> 0]]
                ELSE << >>
<1> DEFINE full == [n \in Nation |-> [nation |-> n, frame |-> 1 + k, orders |-> << >>, at |-> 0]]
<1>1. k \in Nat /\ 1 + k \in Nat
  BY DEF Slot
<1>2. full \in [1 .. PlayerCount -> Queue]
  BY <1>1, EmptySeq DEF Queue, Nation
<1>3. init_receive_queue(1)[k] =
        [frame |-> 1 + k, queues |-> IF k < process_frame_delay THEN full ELSE << >>]
  BY DEF init_receive_queue
<1> HIDE DEF full
<1>4. full \in Seq(Queue)
  BY <1>2, ConstantFact, SeqDef
<1>5. init_receive_queue(1)[k] \in SlotType
  <2> DEFINE queues == IF k < process_frame_delay THEN full ELSE << >>
  <2>1. queues \in Seq(Queue)
    BY <1>4, EmptySeq
  <2>2. init_receive_queue(1)[k] = [frame |-> 1 + k, queues |-> queues]
    BY <1>3
  <2> HIDE DEF queues
  <2> QED BY <1>1, <2>1, <2>2 DEF SlotType
<1> QED BY <1>3, <1>5 DEF full

LEMMA InitTypes == Init => Types /\ Carried
<1> SUFFICES ASSUME Init PROVE Types /\ Carried
  OBVIOUS
<1>1. send_queue \in [Nation -> SendType]
  BY InitQueueType DEF Init
<1>2. /\ receive_queue \in [Nation -> [Slot -> SlotType]]
      /\ \A p \in Nation, k \in Slot : receive_queue[p][k].frame = 1 + k
  BY InitSlotType DEF Init, init_receive_queue
<1>3. executed \in [Nation -> [1 .. MaxFrame -> Seq(Order)]]
  BY EmptySeq DEF Init
<1>4. log \in [Nation -> Seq(Queue)] /\ \A p \in Nation : log[p] = << >> /\ Len(log[p]) = 0
  BY EmptySeq DEF Init
<1>5. Types
  BY <1>1, <1>2, <1>3, <1>4, ConstantFact DEF Init, Types
<1>6. Carried
  BY <1>4 DEF Init, Multicast!Init, Carried
<1> QED BY <1>5, <1>6

\* A queue sent is logged at the end; alone, nothing is.
LEMMA SendQueueFact ==
    ASSUME Types, Carried, NEW p \in Nation, SendQueue(p)
    PROVE  /\ remote_send_success_flag' = [remote_send_success_flag EXCEPT ![p] = TRUE]
           /\ send_queue' = [send_queue EXCEPT ![p] = init_send_queue(p, frame_count[p] + 1)]
           /\ send_queue' \in [Nation -> SendType]
           /\ peers' = peers /\ got' = got
           /\ log' \in [Nation -> Seq(Queue)] /\ sent' \in [Nation -> Nat]
           /\ \A q \in Nation : q # p => log'[q] = log[q] /\ sent'[q] = sent[q]
           /\ peers[p] = {} => log' = log /\ sent' = sent
           /\ peers[p] # {} => /\ log'[p] = Append(log[p], OwnQueue(p))
                               /\ sent'[p] = sent[p] + 1
<1>1. init_send_queue(p, frame_count[p] + 1) \in SendType
  <2>1. frame_count[p] + 1 \in Nat
    BY ConstantFact DEF Types
  <2> QED BY <2>1, InitQueueType
<1>2. send_queue' \in [Nation -> SendType]
  BY <1>1 DEF Types, SendQueue
<1>3. CASE peers[p] = {}
  BY <1>2, <1>3 DEF SendQueue, multicast, Types, Carried
<1>4. CASE peers[p] # {}
  <2>1. Append(log[p], OwnQueue(p)) \in Seq(Queue)
    BY OwnQueueType, AppendProperties DEF Types
  <2>2. log' = [log EXCEPT ![p] = Append(log[p], OwnQueue(p))] /\ Multicast!Publish(p)
    BY <1>4 DEF SendQueue
  <2>3. sent' = [sent EXCEPT ![p] = sent[p] + 1] /\ peers' = peers /\ got' = got
    BY <2>2 DEF Multicast!Publish
  <2>4. /\ log' \in [Nation -> Seq(Queue)] /\ log'[p] = Append(log[p], OwnQueue(p))
        /\ \A q \in Nation : q # p => log'[q] = log[q]
    BY <2>1, <2>2 DEF Types
  <2>5. /\ sent' \in [Nation -> Nat] /\ sent'[p] = sent[p] + 1
        /\ \A q \in Nation : q # p => sent'[q] = sent[q]
    BY <2>3 DEF Carried
  <2> QED BY <1>2, <1>4, <2>3, <2>4, <2>5 DEF SendQueue
<1> QED BY <1>3, <1>4

\* What a sync does to the frame, the slots and the history.
LEMMA ProceedFact ==
    ASSUME Types, NEW p \in Nation, frame_count[p] < MaxFrame, TakeOver(p) \/ ProcessFrame(p)
    PROVE  /\ remote' \in [Nation -> SUBSET Nation] /\ remote'[p] \subseteq remote[p]
           /\ next_frame_ready' \in [Nation -> SUBSET Nation]
           /\ frame_count' \in [Nation -> 1 .. MaxFrame]
           /\ receive_queue' \in [Nation -> [Slot -> SlotType]]
           /\ \A k \in Slot : receive_queue'[p][k].frame = frame_count'[p] + k
           /\ mp_save_frame' \in [Nation -> Nat]
           /\ executed' \in [Nation -> [1 .. MaxFrame -> Seq(Order)]]
           /\ saved' \in [Nation -> SUBSET (1 .. MaxFrame)]
           /\ \A q \in Nation : q # p =>
                /\ remote'[q] = remote[q] /\ next_frame_ready'[q] = next_frame_ready[q]
                /\ frame_count'[q] = frame_count[q] /\ receive_queue'[q] = receive_queue[q]
                /\ mp_save_frame'[q] = mp_save_frame[q] /\ executed'[q] = executed[q]
                /\ saved'[q] = saved[q]
<1>1. /\ Received(p) \in [Slot -> SlotType]
      /\ \A k \in Slot : Received(p)[k].frame = frame_count[p] + k
  BY ReceivedFact
<1>2. Received(p)[0].queues \in Seq(Queue)
  BY <1>1, ConstantFact DEF SlotType
<1>3. Ready(p) \subseteq Nation
  <2>1. NationsIn(Received(p)[0].queues) \subseteq Nation
    <3> DEFINE queues == Received(p)[0].queues
    <3> HIDE DEF queues
    <3>1. \A i \in DOMAIN queues : queues[i] \in Queue
      BY <1>2, SeqFact DEF queues
    <3>2. NationsIn(queues) \subseteq Nation
      BY <3>1 DEF NationsIn, Queue
    <3> QED BY <3>2 DEF queues
  <2> QED BY <2>1 DEF Ready, Types
<1>4. frame_count[p] \in Nat /\ frame_count[p] + 1 \in 1 .. MaxFrame
      /\ frame_count[p] \in 1 .. MaxFrame
  BY ConstantFact DEF Types
<1>5. CASE TakeOver(p)
  <2>1. PICK n : remote' = [remote EXCEPT ![p] = @ \ {n}]
    BY <1>5 DEF TakeOver
  <2>2. /\ next_frame_ready' = [next_frame_ready EXCEPT ![p] = Ready(p)]
        /\ receive_queue' = [receive_queue EXCEPT ![p] = Received(p)]
        /\ UNCHANGED <<frame_count, mp_save_frame, executed, saved>>
    BY <1>5 DEF TakeOver
  <2> QED BY <1>1, <1>3, <2>1, <2>2 DEF Types
<1>6. CASE ProcessFrame(p)
  <2> DEFINE orders == Process(Received(p)[0].queues, remote[p] \cup {p})
             request == SaveRequested(p, orders)
             due == request = frame_count[p] + 1
  <2>1. orders \in Seq(Order)
    BY <1>2, ProcessFact
  <2>2. /\ next_frame_ready' = [next_frame_ready EXCEPT ![p] = {}]
        /\ executed' = [executed EXCEPT ![p][frame_count[p]] = orders]
        /\ mp_save_frame' = [mp_save_frame EXCEPT ![p] = IF due THEN 0 ELSE request]
        /\ saved' = IF due THEN [saved EXCEPT ![p] = @ \cup {frame_count[p] + 1}] ELSE saved
        /\ receive_queue' = [receive_queue EXCEPT ![p] = Shift(Received(p))]
        /\ frame_count' = [frame_count EXCEPT ![p] = @ + 1]
        /\ remote' = remote
    BY <1>6 DEF ProcessFrame
  <2>3. request \in Nat
    <3> DEFINE requests == {i \in DOMAIN orders : orders[i].save # 0}
    <3>1. request = IF mp_save_frame[p] # 0 \/ requests = {} THEN mp_save_frame[p]
                    ELSE orders[Min(requests)].save
      BY DEF SaveRequested
    <3>2. requests \in SUBSET Nat /\ \A i \in requests : orders[i].save \in Nat
      <4> HIDE DEF orders
      <4>1. DOMAIN orders \in SUBSET Nat /\ \A i \in DOMAIN orders : orders[i] \in Order
        BY <2>1, SeqFact
      <4> QED BY <4>1 DEF Order
    <3> HIDE DEF requests, request, orders
    <3>3. mp_save_frame[p] \in Nat
      BY DEF Types
    <3> QED BY <3>1, <3>2, <3>3, MinIsLeast
  <2> HIDE DEF orders, request
  <2>4. /\ Shift(Received(p)) \in [Slot -> SlotType]
        /\ \A k \in Slot : Shift(Received(p))[k].frame = frame_count[p] + 1 + k
    BY <1>1, <1>4, ShiftFact
  <2>5. /\ frame_count' \in [Nation -> 1 .. MaxFrame] /\ frame_count'[p] = frame_count[p] + 1
        /\ \A q \in Nation : q # p => frame_count'[q] = frame_count[q]
    BY <1>4, <2>2 DEF Types
  <2>6. /\ receive_queue' \in [Nation -> [Slot -> SlotType]]
        /\ receive_queue'[p] = Shift(Received(p))
        /\ \A q \in Nation : q # p => receive_queue'[q] = receive_queue[q]
    BY <2>2, <2>4 DEF Types
  <2>7. /\ mp_save_frame' \in [Nation -> Nat]
        /\ \A q \in Nation : q # p => mp_save_frame'[q] = mp_save_frame[q]
    BY <2>2, <2>3 DEF Types
  <2>8. /\ executed' \in [Nation -> [1 .. MaxFrame -> Seq(Order)]]
        /\ \A q \in Nation : q # p => executed'[q] = executed[q]
    BY <1>4, <2>1, <2>2 DEF Types
  <2>9. /\ saved' \in [Nation -> SUBSET (1 .. MaxFrame)]
        /\ \A q \in Nation : q # p => saved'[q] = saved[q]
    BY <1>4, <2>2 DEF Types
  <2>10. /\ next_frame_ready' \in [Nation -> SUBSET Nation]
         /\ \A q \in Nation : q # p => next_frame_ready'[q] = next_frame_ready[q]
    BY <2>2 DEF Types
  <2>11. \A k \in Slot : receive_queue'[p][k].frame = frame_count'[p] + k
    BY <2>4, <2>5, <2>6
  <2> QED BY <2>2, <2>5, <2>6, <2>7, <2>8, <2>9, <2>10, <2>11 DEF Types
<1> QED BY <1>5, <1>6

\* What the arrival of a message does.
LEMMA PollFact ==
    ASSUME Types, Carried, NEW p \in Nation, NEW q \in Nation, NEW n \in 0 .. sent[q] - 1,
           PollMsg(p, q, n)
    PROVE  /\ q # p /\ q \in peers[p]
           /\ n \notin got[p][q] /\ 0 .. n - Window \subseteq got[p][q]
           /\ n + 1 \in DOMAIN log[q] /\ log[q][n + 1] \in Queue /\ log[q][n + 1].nation = q
           /\ got' \in [Nation -> [Nation -> SUBSET Nat]]
           /\ got'[p][q] = got[p][q] \cup {n}
           /\ \A k, l \in Nation : k # p \/ l # q => got'[k][l] = got[k][l]
           /\ receive_queue' \in [Nation -> [Slot -> SlotType]]
           /\ receive_queue'[p] = Enqueue(receive_queue[p], log[q][n + 1])
           /\ \A k \in Nation : k # p => receive_queue'[k] = receive_queue[k]
           /\ UNCHANGED <<peers, sent, frame_count, remote, next_frame_ready, issued, log,
                   remote_send_success_flag, send_queue, mp_save_frame, executed, saved>>
<1>1. /\ q \in peers[p] /\ n \notin got[p][q] /\ 0 .. n - Window \subseteq got[p][q]
      /\ got' = [got EXCEPT ![p][q] = @ \cup {n}] /\ peers' = peers /\ sent' = sent
  BY DEF PollMsg, Multicast!Deliver
<1>2. n + 1 \in DOMAIN log[q] /\ log[q][n + 1] \in Queue
  <2>1. Len(log[q]) = sent[q] /\ sent[q] \in Nat /\ log[q] \in Seq(Queue)
    BY DEF Types, Carried
  <2>2. n + 1 \in 1 .. Len(log[q])
    BY <2>1
  <2> QED BY <2>1, <2>2, SeqFact
<1>3. Enqueue(receive_queue[p], log[q][n + 1]) \in [Slot -> SlotType]
  BY <1>2, EnqueueFact DEF Types
<1>4. got' \in [Nation -> [Nation -> SUBSET Nat]] /\ got'[p][q] = got[p][q] \cup {n}
      /\ \A k, l \in Nation : k # p \/ l # q => got'[k][l] = got[k][l]
  <2> DEFINE more == got[p][q] \cup {n}
  <2>1. more \in SUBSET Nat
    BY DEF Carried
  <2>2. got' = [got EXCEPT ![p][q] = more]
    BY <1>1
  <2> HIDE DEF more
  <2>3. got' \in [Nation -> [Nation -> SUBSET Nat]] /\ got'[p][q] = more
        /\ \A k, l \in Nation : k # p \/ l # q => got'[k][l] = got[k][l]
    BY <2>1, <2>2 DEF Carried
  <2> QED BY <2>3 DEF more
<1>5. receive_queue' = [receive_queue EXCEPT ![p] = Enqueue(@, log[q][n + 1])]
      /\ UNCHANGED <<frame_count, remote, next_frame_ready, issued, log,
              remote_send_success_flag, send_queue, mp_save_frame, executed, saved>>
  BY DEF PollMsg
<1>6. receive_queue' \in [Nation -> [Slot -> SlotType]]
      /\ receive_queue'[p] = Enqueue(receive_queue[p], log[q][n + 1])
      /\ \A k \in Nation : k # p => receive_queue'[k] = receive_queue[k]
  BY <1>3, <1>5 DEF Types
<1>7. q # p
  BY <1>1 DEF Carried
<1> QED BY <1>1, <1>2, <1>4, <1>5, <1>6, <1>7 DEF Types

\* What a sync does to the queue being filled, the log and the multicast.
LEMMA SyncFact ==
    ASSUME Types, Carried, NEW p \in Nation, Sync(p)
    PROVE  /\ remote_send_success_flag' \in [Nation -> BOOLEAN] /\ remote_send_success_flag'[p]
           /\ send_queue' \in [Nation -> SendType]
           /\ log' \in [Nation -> Seq(Queue)] /\ sent' \in [Nation -> Nat]
           /\ peers' = peers /\ got' = got /\ issued' = issued
           /\ \A q \in Nation : q # p =>
                /\ remote_send_success_flag'[q] = remote_send_success_flag[q]
                /\ send_queue'[q] = send_queue[q]
                /\ log'[q] = log[q] /\ sent'[q] = sent[q]
           /\ Transmits(p) => send_queue'[p] = init_send_queue(p, frame_count[p] + 1)
           /\ ~Transmits(p) => send_queue'[p] = send_queue[p]
           /\ ~Transmits(p) \/ peers[p] = {} => log'[p] = log[p] /\ sent'[p] = sent[p]
           /\ Transmits(p) /\ peers[p] # {} =>
                log'[p] = Append(log[p], OwnQueue(p)) /\ sent'[p] = sent[p] + 1
           /\ frame_count[p] < MaxFrame /\ (TakeOver(p) \/ ProcessFrame(p))
<1>1. CASE Transmits(p)
  <2>1. SendQueue(p) /\ (TakeOver(p) \/ ProcessFrame(p)) /\ frame_count[p] < MaxFrame
        /\ issued' = issued
    BY <1>1 DEF Sync
  <2>2. /\ remote_send_success_flag' \in [Nation -> BOOLEAN] /\ remote_send_success_flag'[p]
        /\ \A q \in Nation : q # p =>
                remote_send_success_flag'[q] = remote_send_success_flag[q]
    <3>1. remote_send_success_flag' = [remote_send_success_flag EXCEPT ![p] = TRUE]
      BY <2>1 DEF SendQueue
    <3> QED BY <3>1 DEF Types
  <2>3. send_queue'[p] = init_send_queue(p, frame_count[p] + 1)
        /\ \A q \in Nation : q # p => send_queue'[q] = send_queue[q]
    BY <2>1, SendQueueFact DEF Types
  <2> QED BY <1>1, <2>1, <2>2, <2>3, SendQueueFact
<1>2. CASE ~Transmits(p)
  <2>1. /\ UNCHANGED <<remote_send_success_flag, send_queue, log, multicast>>
        /\ TakeOver(p) \/ ProcessFrame(p)
        /\ frame_count[p] < MaxFrame /\ issued' = issued
    BY <1>2 DEF Sync
  <2>2. remote_send_success_flag[p]
    BY <1>2 DEF Transmits
  <2> QED BY <1>2, <2>1, <2>2 DEF multicast, Types, Carried
<1> QED BY <1>1, <1>2

\* What a failed send does.
LEMMA SendFailsFact ==
    ASSUME Types, NEW p \in Nation, SendFails(p)
    PROVE  /\ frame_count[p] < MaxFrame /\ Transmits(p) /\ peers[p] # {}
           /\ remote_send_success_flag' \in [Nation -> BOOLEAN] /\ ~remote_send_success_flag'[p]
           /\ send_queue' \in [Nation -> SendType] /\ send_queue'[p].closed
           /\ send_queue'[p].frame = send_queue[p].frame
           /\ send_queue'[p].orders = send_queue[p].orders
           /\ receive_queue' \in [Nation -> [Slot -> SlotType]]
           /\ receive_queue'[p] = Received(p)
           /\ \A q \in Nation : q # p =>
                /\ remote_send_success_flag'[q] = remote_send_success_flag[q]
                /\ send_queue'[q] = send_queue[q] /\ receive_queue'[q] = receive_queue[q]
           /\ UNCHANGED <<frame_count, remote, next_frame_ready, mp_save_frame, executed, saved,
                   issued, log, peers, sent, got>>
<1>1. send_queue[p] \in SendType /\ Received(p) \in [Slot -> SlotType]
  BY ReceivedFact DEF Types
<1>2. /\ send_queue' = [send_queue EXCEPT ![p].closed = TRUE]
      /\ receive_queue' = [receive_queue EXCEPT ![p] = Received(p)]
      /\ remote_send_success_flag' = [remote_send_success_flag EXCEPT ![p] = FALSE]
  BY DEF SendFails
<1>3. /\ send_queue' \in [Nation -> SendType] /\ send_queue'[p].closed
      /\ send_queue'[p].frame = send_queue[p].frame
      /\ send_queue'[p].orders = send_queue[p].orders
      /\ \A q \in Nation : q # p => send_queue'[q] = send_queue[q]
  BY <1>1, <1>2 DEF Types, SendType
<1> QED BY <1>1, <1>2, <1>3 DEF SendFails, Types, multicast

\* What an order does.
LEMMA GiveOrderFact ==
    ASSUME Types, NEW p \in Nation, GiveOrder(p)
    PROVE  /\ issued' \in [Nation -> 0 .. MaxCommand]
           /\ send_queue' \in [Nation -> SendType]
           /\ send_queue'[p].frame = send_queue[p].frame
           /\ send_queue'[p].closed = send_queue[p].closed
           /\ \/ send_queue'[p].orders = send_queue[p].orders
              \/ /\ ~send_queue[p].closed
                 /\ \E o \in Order :
                      /\ o.save \in {0, SaveFrame(p, frame_count[p])}
                      /\ send_queue'[p].orders = Append(send_queue[p].orders, o)
           /\ \A q \in Nation : q # p => send_queue'[q] = send_queue[q]
           /\ UNCHANGED <<frame_count, remote, next_frame_ready, remote_send_success_flag,
                   receive_queue, mp_save_frame, executed, saved, log, peers, sent, got>>
<1> DEFINE save == IF p \in Savers THEN SaveFrame(p, frame_count[p]) ELSE 0
           o == [by |-> p, nr |-> issued[p], save |-> save]
<1>1. save \in Nat /\ save \in {0, SaveFrame(p, frame_count[p])}
  <2>1. frame_count[p] + process_frame_delay \in Nat
    BY ConstantFact DEF Types
  <2>2. SaveFrame(p, frame_count[p]) \in Nat
    BY <2>1, NextTurn DEF SaveFrame
  <2> QED BY <2>2
<1>2. issued[p] \in 0 .. MaxCommand /\ issued[p] + 1 \in 0 .. MaxCommand
  BY ConstantFact DEF GiveOrder, Types
<1>3. /\ send_queue' = IF send_queue[p].closed THEN send_queue
                       ELSE [send_queue EXCEPT ![p].orders = Append(@, o)]
      /\ issued' = [issued EXCEPT ![p] = @ + 1]
      /\ UNCHANGED <<frame_count, remote, next_frame_ready, remote_send_success_flag,
              receive_queue, mp_save_frame, executed, saved, log, peers, sent, got>>
  BY DEF GiveOrder, multicast
<1> HIDE DEF save
<1>4. o \in Order /\ o.save = save
  BY <1>1, <1>2 DEF Order
<1> HIDE DEF o
<1>5. send_queue[p] \in SendType /\ Append(send_queue[p].orders, o) \in Seq(Order)
  BY <1>4, AppendProperties DEF Types, SendType
<1>6. CASE send_queue[p].closed
  BY <1>2, <1>3, <1>6 DEF Types
<1>7. CASE ~send_queue[p].closed
  <2>1. /\ send_queue' \in [Nation -> SendType]
        /\ send_queue'[p].frame = send_queue[p].frame
        /\ send_queue'[p].closed = send_queue[p].closed
        /\ send_queue'[p].orders = Append(send_queue[p].orders, o)
        /\ \A q \in Nation : q # p => send_queue'[q] = send_queue[q]
    BY <1>3, <1>5, <1>7 DEF Types, SendType
  <2> QED BY <1>1, <1>2, <1>3, <1>4, <1>7, <2>1 DEF Types
<1> QED BY <1>6, <1>7

\* The types after each action.
LEMMA StepTypes ==
    ASSUME Types, Carried, Next PROVE Types' /\ Carried'
<1>a. /\ log \in [Nation -> Seq(Queue)] /\ \A q \in Nation : \A i \in DOMAIN log[q] : log[q][i].nation = q
      /\ \A q \in Nation : Len(log[q]) = sent[q] /\ sent[q] \in Nat
  BY DEF Types, Carried
<1>1. ASSUME NEW p \in Nation, GiveOrder(p) PROVE Types' /\ Carried'
  <2>1. Types'
    <3>1. /\ send_queue' \in [Nation -> SendType] /\ issued' \in [Nation -> 0 .. MaxCommand]
          /\ UNCHANGED <<frame_count, remote, next_frame_ready, remote_send_success_flag,
                         receive_queue, mp_save_frame, executed, saved, log>>
      BY <1>1, GiveOrderFact
    <3> QED BY <3>1 DEF Types
  <2>2. Carried'
    BY <1>1, GiveOrderFact DEF Carried
  <2> QED BY <2>1, <2>2
<1>2. ASSUME NEW p \in Nation, SendFails(p) PROVE Types' /\ Carried'
  <2>1. Types'
    <3>1. /\ receive_queue' \in [Nation -> [Slot -> SlotType]]
          /\ receive_queue'[p] = Received(p)
          /\ \A q \in Nation : q # p => receive_queue'[q] = receive_queue[q]
          /\ UNCHANGED <<frame_count, remote, next_frame_ready, mp_save_frame, executed, saved,
                  issued, log>>
          /\ remote_send_success_flag' \in [Nation -> BOOLEAN]
          /\ send_queue' \in [Nation -> SendType]
      BY <1>2, SendFailsFact
    <3>2. \A k \in Slot : Received(p)[k].frame = frame_count[p] + k
      BY ReceivedFact
    <3>3. \A q \in Nation, k \in Slot : receive_queue'[q][k].frame = frame_count[q] + k
      BY <3>1, <3>2 DEF Types
    <3> QED BY <3>1, <3>3 DEF Types
  <2>2. Carried'
    BY <1>2, SendFailsFact DEF Carried
  <2> QED BY <2>1, <2>2
<1>3. ASSUME NEW p \in Nation, Sync(p) PROVE Types' /\ Carried'
  <2>1. frame_count[p] < MaxFrame /\ (TakeOver(p) \/ ProcessFrame(p))
    BY <1>3, SyncFact
  <2>2. \A q \in Nation : /\ Len(log'[q]) = sent'[q] /\ sent[q] <= sent'[q]
                          /\ \A i \in DOMAIN log'[q] : log'[q][i].nation = q
    <3> SUFFICES ASSUME NEW q \in Nation
                 PROVE  /\ Len(log'[q]) = sent'[q] /\ sent[q] <= sent'[q]
                        /\ \A i \in DOMAIN log'[q] : log'[q][i].nation = q
      OBVIOUS
    <3>1. CASE log'[q] = log[q] /\ sent'[q] = sent[q]
      BY <1>a, <3>1
    <3>2. CASE q = p /\ log'[p] = Append(log[p], OwnQueue(p)) /\ sent'[p] = sent[p] + 1
      <4>1. /\ Len(log'[p]) = Len(log[p]) + 1 /\ log'[p] \in Seq(Queue)
            /\ \A i \in 1 .. Len(log[p]) : log'[p][i] = log[p][i]
            /\ log'[p][Len(log[p]) + 1] = OwnQueue(p)
        <5>1. log[p] \in Seq(Queue) /\ OwnQueue(p) \in Queue
          BY <1>a, OwnQueueType
        <5> QED BY <3>2, <5>1, AppendProperties
      <4>2. DOMAIN log'[p] = 1 .. Len(log[p]) + 1 /\ DOMAIN log[p] = 1 .. Len(log[p])
            /\ Len(log[p]) \in Nat
        <5>1. DOMAIN log'[p] = 1 .. Len(log'[p])
          BY <4>1, SeqFact
        <5>2. DOMAIN log[p] = 1 .. Len(log[p]) /\ Len(log[p]) \in Nat
          BY <1>a, SeqFact
        <5> QED BY <4>1, <5>1, <5>2
      <4>3. \A i \in DOMAIN log'[p] : i \in DOMAIN log[p] \/ i = Len(log[p]) + 1
        BY <4>2
      <4> QED BY <1>a, <3>2, <4>1, <4>2, <4>3, OwnQueueType
    <3> QED BY <1>3, <3>1, <3>2, SyncFact
  <2>3. Types'
    <3>1. ASSUME NEW q \in Nation, NEW k \in Slot
          PROVE  receive_queue'[q][k].frame = frame_count'[q] + k
      <4>1. CASE q = p
        <5>1. \A l \in Slot : receive_queue'[p][l].frame = frame_count'[p] + l
          BY <2>1, ProceedFact
        <5> QED BY <4>1, <5>1
      <4>2. CASE q # p
        <5>1. frame_count'[q] = frame_count[q] /\ receive_queue'[q] = receive_queue[q]
          BY <2>1, <4>2, ProceedFact
        <5>2. receive_queue[q][k].frame = frame_count[q] + k
          BY DEF Types
        <5> QED BY <5>1, <5>2
      <4> QED BY <4>1, <4>2
    <3>2. \A q \in Nation : \A i \in DOMAIN log'[q] : log'[q][i].nation = q
      BY <2>2
    <3>3. /\ remote' \in [Nation -> SUBSET Nation]
          /\ next_frame_ready' \in [Nation -> SUBSET Nation]
          /\ frame_count' \in [Nation -> 1 .. MaxFrame]
          /\ receive_queue' \in [Nation -> [Slot -> SlotType]]
          /\ mp_save_frame' \in [Nation -> Nat]
          /\ executed' \in [Nation -> [1 .. MaxFrame -> Seq(Order)]]
          /\ saved' \in [Nation -> SUBSET (1 .. MaxFrame)]
      BY <2>1, ProceedFact
    <3>4. /\ remote_send_success_flag' \in [Nation -> BOOLEAN]
          /\ send_queue' \in [Nation -> SendType]
          /\ log' \in [Nation -> Seq(Queue)]
          /\ issued' \in [Nation -> 0 .. MaxCommand]
      BY <1>3, SyncFact DEF Types
    <3> QED BY <3>1, <3>2, <3>3, <3>4 DEF Types
  <2>4. Carried'
    <3>1. \A q \in Nation : q \notin remote'[q]
      BY <2>1, ProceedFact DEF Carried
    <3>2. \A k, q \in Nation : got[k][q] \subseteq 0 .. sent'[q] - 1
      <4> SUFFICES ASSUME NEW k \in Nation, NEW q \in Nation, NEW i \in got[k][q]
                   PROVE  i \in 0 .. sent'[q] - 1
        OBVIOUS
      <4>1. i \in 0 .. sent[q] - 1 /\ sent[q] <= sent'[q] /\ sent'[q] \in Nat
        BY <1>3, <2>2, SyncFact DEF Carried
      <4> QED BY <1>a, <4>1
    <3> QED BY <1>3, <2>2, <3>1, <3>2, SyncFact DEF Carried
  <2> QED BY <2>3, <2>4
<1>4. ASSUME NEW p \in Nation, NEW q \in Nation, LoseConnection(p, q) PROVE Types' /\ Carried'
  <2>1. /\ peers' = [peers EXCEPT ![p] = @ \ {q}]
        /\ UNCHANGED <<local, issued, log, sent, got>>
    BY <1>4 DEF LoseConnection, Multicast!Disconnect
  <2>2. Types'
    BY <2>1 DEF Types, local
  <2>3. Carried'
    BY <2>1 DEF Carried, local
  <2> QED BY <2>2, <2>3
<1>5. ASSUME NEW p \in Nation, NEW q \in Nation, NEW n \in 0 .. sent[q] - 1, PollMsg(p, q, n)
      PROVE  Types' /\ Carried'
  <2>a. /\ n + 1 \in DOMAIN log[q] /\ log[q][n + 1] \in Queue
        /\ receive_queue' \in [Nation -> [Slot -> SlotType]]
        /\ receive_queue'[p] = Enqueue(receive_queue[p], log[q][n + 1])
        /\ \A k \in Nation : k # p => receive_queue'[k] = receive_queue[k]
        /\ UNCHANGED <<frame_count, remote, next_frame_ready, issued, log,
                remote_send_success_flag, send_queue, mp_save_frame, executed, saved>>
    BY <1>5, PollFact
  <2>1. \A l \in Nation, k \in Slot : receive_queue'[l][k].frame = frame_count[l] + k
    <3>1. receive_queue[p] \in [Slot -> SlotType]
      BY DEF Types
    <3>2. \A k \in Slot : receive_queue'[p][k].frame = receive_queue[p][k].frame
      <4>1. log[q][n + 1] \in Queue
        BY <2>a
      <4>2. \A k \in Slot :
               Enqueue(receive_queue[p], log[q][n + 1])[k].frame = receive_queue[p][k].frame
        BY <3>1, <4>1, EnqueueFact
      <4>3. receive_queue'[p] = Enqueue(receive_queue[p], log[q][n + 1])
        BY <2>a
      <4> QED BY <4>2, <4>3
    <3>3. \A l \in Nation, k \in Slot : receive_queue[l][k].frame = frame_count[l] + k
      BY DEF Types
    <3>4. ASSUME NEW l \in Nation PROVE l = p \/ receive_queue'[l] = receive_queue[l]
      BY <2>a
    <3>5. \A l \in Nation, k \in Slot : receive_queue'[l][k].frame = receive_queue[l][k].frame
      BY <3>2, <3>4
    <3> QED BY <3>3, <3>5
  <2>2. Types'
    BY <2>a, <2>1 DEF Types
  <2>3. Carried'
    <3>1. /\ got' \in [Nation -> [Nation -> SUBSET Nat]]
          /\ got'[p][q] = got[p][q] \cup {n}
          /\ \A k, l \in Nation : k # p \/ l # q => got'[k][l] = got[k][l]
          /\ UNCHANGED <<peers, sent, remote, log>>
      BY <1>5, PollFact
    <3>2. \A k, l \in Nation : got'[k][l] \subseteq 0 .. sent[l] - 1
      <4> SUFFICES ASSUME NEW k \in Nation, NEW l \in Nation
                   PROVE  got'[k][l] \subseteq 0 .. sent[l] - 1
        OBVIOUS
      <4>1. got[k][l] \subseteq 0 .. sent[l] - 1
        BY DEF Carried
      <4>2. CASE k = p /\ l = q
        <5>1. got'[k][l] = got[k][l] \cup {n} /\ n \in 0 .. sent[l] - 1
          BY <3>1, <4>2
        <5> QED BY <4>1, <5>1
      <4>3. CASE ~(k = p /\ l = q)
        <5>1. got'[k][l] = got[k][l]
          BY <3>1, <4>3
        <5> QED BY <4>1, <5>1
      <4> QED BY <4>2, <4>3
    <3> QED BY <3>1, <3>2 DEF Carried
  <2> QED BY <2>2, <2>3
<1> QED BY <1>1, <1>2, <1>3, <1>4, <1>5 DEF Next

-----------------------------------------------------------------------------
(* The queue being filled *)

\* A frame that is not p's turn has the same next turn as the one after it.
LEMMA NotATurn ==
    ASSUME NEW n \in Nation, NEW f \in Nat, ~has_send_frame(n, f)
    PROVE  next_send_frame(n, f) = next_send_frame(n, f + 1)
<1>1. /\ next_send_frame(n, f) \in Nat /\ has_send_frame(n, next_send_frame(n, f))
      /\ f <= next_send_frame(n, f)
  BY NextTurn
<1>2. f + 1 <= next_send_frame(n, f)
  <2>1. next_send_frame(n, f) # f
    BY <1>1
  <2> QED BY <1>1, <2>1
<1>3. next_send_frame(n, f + 1) <= next_send_frame(n, f)
  BY <1>1, <1>2, NextTurnLeast
<1>4. next_send_frame(n, f) <= next_send_frame(n, f + 1)
  BY NextTurnMonotone
<1> QED BY <1>1, <1>3, <1>4, NextTurn

\* The stamp is that of a slot, for a machine that may send now or later.
LEMMA StampFact ==
    ASSUME Types, SendTurns, NEW p \in Nation
    PROVE  /\ frame_count[p] \in Nat /\ send_queue[p].frame \in Nat
           /\ NextFrame(p) \in Nat /\ frame_count[p] <= NextFrame(p)
           /\ NextFrame(p) <= frame_count[p] + 1
           /\ NextFrame(p) + Ahead <= send_queue[p].frame
           /\ send_queue[p].frame - frame_count[p] \in Slot
           /\ send_queue[p].frame < NextFrame(p) + process_frame_delay + alternating_send_rate
           /\ Transmits(p) => /\ has_send_frame(p, frame_count[p])
                              /\ p \notin next_frame_ready[p]
                              /\ NextFrame(p) = frame_count[p]
<1> DEFINE c == frame_count[p]
           s == send_queue[p].frame
           g == next_send_frame(p, NextFrame(p))
           h == next_send_frame(p, NextFrame(p) + process_frame_delay)
<1>1. c \in Nat /\ s \in Nat /\ NextFrame(p) \in {c, c + 1}
  BY ConstantFact DEF Types, SendType, NextFrame
<1>2. NextFrame(p) \in Nat /\ NextFrame(p) + process_frame_delay \in Nat
  BY <1>1, ConstantFact
<1>3. g \in Nat /\ NextFrame(p) <= g /\ h \in Nat
      /\ h < NextFrame(p) + process_frame_delay + alternating_send_rate
  BY <1>2, NextTurn
<1>4. g + Ahead <= s /\ s <= h
  BY DEF SendTurns
<1>5. Transmits(p) => has_send_frame(p, c) /\ p \notin next_frame_ready[p]
  BY DEF Transmits, Closes, SendTurns
<1>6. Transmits(p) => NextFrame(p) = c
  BY <1>5 DEF NextFrame, TurnTaken
<1> HIDE DEF c, s, g, h
<1>7. /\ c <= NextFrame(p) /\ NextFrame(p) <= c + 1 /\ NextFrame(p) + Ahead <= s
      /\ s < NextFrame(p) + process_frame_delay + alternating_send_rate
  BY <1>1, <1>2, <1>3, <1>4, AheadFact, ConstantFact
<1>8. s - c \in Slot
  BY <1>1, <1>7, AheadFact, ConstantFact DEF Slot
<1> QED BY <1>1, <1>2, <1>5, <1>6, <1>7, <1>8 DEF c, s

\* What Received holds.
LEMMA ReceivedSlots ==
    ASSUME Types, NEW p \in Nation, NEW k \in Slot
    PROVE  LET old == receive_queue[p][k].queues
               new == Received(p)[k].queues
               here == Closes(p) /\ send_queue[p].frame = frame_count[p] + k
           IN  /\ old \in Seq(Queue) /\ new \in Seq(Queue)
               /\ here => new = Append(old, OwnQueue(p))
               /\ ~here => new = old
               /\ NationsIn(new) = NationsIn(old) \cup (IF here THEN {p} ELSE {})
               /\ \A n : n # p => QueueOf(new, n) = QueueOf(old, n)
               /\ p \in NationsIn(old) => QueueOf(new, p) = QueueOf(old, p)
               /\ p \notin NationsIn(old) /\ here => QueueOf(new, p) = send_queue[p].orders
<1> DEFINE old == receive_queue[p][k].queues
           new == Received(p)[k].queues
           here == Closes(p) /\ send_queue[p].frame = frame_count[p] + k
<1>1. receive_queue[p] \in [Slot -> SlotType] /\ receive_queue[p][k].frame = frame_count[p] + k
      /\ OwnQueue(p) \in Queue /\ OwnQueue(p).nation = p
      /\ OwnQueue(p).frame = send_queue[p].frame /\ OwnQueue(p).orders = send_queue[p].orders
  BY OwnQueueType DEF Types
<1>2. old \in Seq(Queue)
  BY <1>1 DEF SlotType
<1>3. here => new = Append(old, OwnQueue(p))
  BY <1>1, EnqueueFact DEF Received
<1>4. ~here => new = old
  BY <1>1, EnqueueFact DEF Received
<1> HIDE DEF old, new, here
<1>5. CASE here
  <2>1. /\ NationsIn(new) = NationsIn(old) \cup {p}
        /\ \A n : QueueOf(new, n) = IF n \in NationsIn(old) THEN QueueOf(old, n)
                                    ELSE IF p = n THEN send_queue[p].orders ELSE << >>
    <3> DEFINE q == OwnQueue(p)
    <3>1. q \in Queue /\ q.nation = p /\ q.orders = send_queue[p].orders /\ new = Append(old, q)
      BY <1>1, <1>3, <1>5
    <3> HIDE DEF q
    <3>2. /\ NationsIn(Append(old, q)) = NationsIn(old) \cup {q.nation}
          /\ \A n : QueueOf(Append(old, q), n) =
                        IF n \in NationsIn(old) THEN QueueOf(old, n)
                        ELSE IF q.nation = n THEN q.orders ELSE << >>
      BY <1>2, <3>1, AppendQueue
    <3> QED BY <3>1, <3>2
  <2>2. new \in Seq(Queue)
    BY <1>1, <1>2, <1>3, <1>5, AppendProperties
  <2>3. \A n : n \notin NationsIn(old) => QueueOf(old, n) = << >>
    BY <1>2, QueueOfFact
  <2> QED BY <1>2, <1>3, <1>5, <2>1, <2>2, <2>3 DEF old, new, here
<1>6. CASE ~here
  BY <1>2, <1>4, <1>6 DEF old, new, here
<1> QED BY <1>5, <1>6

\* p has a queue of its own for its turns.
LEMMA OwnReady ==
    ASSUME Types, Carried, SendTurns, OwnPresent, NEW p \in Nation, Sync(p)
    PROVE  /\ \A k \in Slot : /\ has_send_frame(p, frame_count[p] + k)
                              /\ frame_count[p] + k < send_queue'[p].frame
                              => p \in NationsIn(Received(p)[k].queues)
           /\ has_send_frame(p, frame_count[p]) => p \in Ready(p)
<1> DEFINE c == frame_count[p]
           s == send_queue[p].frame
           t == send_queue'[p].frame
           R == alternating_send_rate
<1>1. /\ c \in Nat /\ s \in Nat /\ NextFrame(p) \in Nat /\ NextFrame(p) + Ahead <= s
      /\ Transmits(p) => has_send_frame(p, c) /\ p \notin next_frame_ready[p] /\ NextFrame(p) = c
  BY StampFact
<1>2. Transmits(p) => /\ t \in Nat /\ t <= c + Ahead + R /\ c + 1 + process_frame_delay <= t
  <2> SUFFICES ASSUME Transmits(p) PROVE t \in Nat /\ t <= c + Ahead + R /\ c + 1 + process_frame_delay <= t
    OBVIOUS
  <2>1. t = next_send_frame(p, c + 1 + process_frame_delay)
    BY <1>1, SyncFact, InitQueueType
  <2>2. c + 1 + process_frame_delay \in Nat
    BY <1>1, ConstantFact
  <2> QED BY <1>1, <2>1, <2>2, NextBehind, NextTurn
<1>3. ~Transmits(p) => t = s
  BY SyncFact
<1>4. has_send_frame(p, s)
  BY DEF SendTurns
<1>5. ASSUME NEW k \in Slot, has_send_frame(p, c + k), c + k < t
      PROVE  p \in NationsIn(Received(p)[k].queues)
  <2>1. NationsIn(receive_queue[p][k].queues) \subseteq NationsIn(Received(p)[k].queues)
    BY ReceivedSlots
  <2>2. CASE c + k < s
    BY <1>5, <2>1, <2>2 DEF OwnPresent
  <2>3. CASE c + k = s
    <3>1. Transmits(p)
      BY <1>1, <1>3, <1>5, <2>3
    <3>2. CASE ~remote_send_success_flag[p]
      BY <1>5, <2>1, <2>3, <3>2 DEF OwnPresent
    <3>3. CASE Closes(p)
      BY <2>3, <3>3, ReceivedSlots
    <3> QED BY <3>1, <3>2, <3>3 DEF Transmits
  <2>4. CASE s < c + k
    <3>1. Transmits(p)
      BY <1>1, <1>3, <1>5, <2>4 DEF Slot
    <3>2. c + k \in Nat
      BY <1>1 DEF Slot
    <3>3. s + R <= c + k
      BY <1>1, <1>4, <1>5, <2>4, <3>2, TurnsApart
    <3> HIDE DEF c, s, t, R
    <3>4. FALSE
      BY <1>1, <1>2, <1>5, <3>1, <3>2, <3>3, AheadFact, ConstantFact DEF R
    <3> QED BY <3>4
  <2> QED BY <1>1, <2>2, <2>3, <2>4 DEF Slot
<1>6. ASSUME has_send_frame(p, c) PROVE p \in Ready(p)
  <2>1. CASE p \in next_frame_ready[p]
    BY <2>1 DEF Ready
  <2>2. CASE p \notin next_frame_ready[p]
    <3>1. Transmits(p)
      BY <1>6, <2>2 DEF Transmits, Closes
    <3>2. 0 \in Slot /\ c + 0 = c /\ c < t
      <4> HIDE DEF c, t
      <4> QED BY <1>1, <1>2, <3>1, ConstantFact
    <3>3. p \in NationsIn(Received(p)[0].queues)
      BY <1>5, <1>6, <3>2
    <3> QED BY <3>3 DEF Ready
  <2> QED BY <2>1, <2>2
<1> QED BY <1>5, <1>6

\* What SendTurns says of one machine.
Turns(p) ==
    /\ has_send_frame(p, send_queue[p].frame)
    /\ send_queue[p].frame > process_frame_delay
    /\ next_send_frame(p, NextFrame(p)) + Ahead <= send_queue[p].frame
    /\ send_queue[p].frame <= next_send_frame(p, NextFrame(p) + process_frame_delay)
    /\ send_queue[p].closed = ~remote_send_success_flag[p]
    /\ ~remote_send_success_flag[p] =>
          has_send_frame(p, frame_count[p]) /\ p \notin next_frame_ready[p]

\* How a sync moves the frame.
LEMMA FrameFact ==
    ASSUME Types, NEW p \in Nation, Sync(p)
    PROVE  \/ /\ TakeOver(p) /\ frame_count'[p] = frame_count[p]
              /\ next_frame_ready'[p] = Ready(p) /\ receive_queue'[p] = Received(p)
              /\ executed'[p] = executed[p] /\ mp_save_frame'[p] = mp_save_frame[p]
              /\ saved'[p] = saved[p]
           \/ /\ ProcessFrame(p) /\ frame_count'[p] = frame_count[p] + 1
              /\ next_frame_ready'[p] = {} /\ receive_queue'[p] = Shift(Received(p))
              /\ remote' = remote
<1>1. CASE TakeOver(p)
  <2>1. /\ next_frame_ready' = [next_frame_ready EXCEPT ![p] = Ready(p)]
        /\ receive_queue' = [receive_queue EXCEPT ![p] = Received(p)]
        /\ UNCHANGED <<frame_count, mp_save_frame, executed, saved>>
    BY <1>1 DEF TakeOver
  <2> QED BY <1>1, <2>1 DEF Types
<1>2. CASE ProcessFrame(p)
  <2>1. /\ next_frame_ready' = [next_frame_ready EXCEPT ![p] = {}]
        /\ receive_queue' = [receive_queue EXCEPT ![p] = Shift(Received(p))]
        /\ frame_count' = [frame_count EXCEPT ![p] = @ + 1]
        /\ remote' = remote
    BY <1>2 DEF ProcessFrame
  <2> QED BY <1>2, <2>1 DEF Types
<1> QED BY <1>1, <1>2 DEF Sync

\* The turns of the machine that makes a sync.
LEMMA SyncTurns ==
    ASSUME Types, Carried, SendTurns, OwnPresent, NEW p \in Nation, Sync(p)
    PROVE  Turns(p)'
<1> DEFINE c == frame_count[p]
           s == send_queue[p].frame
           D == process_frame_delay
<1>1. /\ c \in Nat /\ s \in Nat /\ NextFrame(p) \in Nat
      /\ Transmits(p) => has_send_frame(p, c) /\ p \notin next_frame_ready[p] /\ NextFrame(p) = c
  BY StampFact
<1>2. /\ has_send_frame(p, s) /\ s > D
      /\ next_send_frame(p, NextFrame(p)) + Ahead <= s
      /\ s <= next_send_frame(p, NextFrame(p) + D)
      /\ send_queue[p].closed = ~remote_send_success_flag[p]
  BY DEF SendTurns
<1>3. has_send_frame(p, c) => p \in Ready(p)
  BY OwnReady
<1>4. NextFrame(p)' = IF has_send_frame(p, c) THEN c + 1 ELSE frame_count'[p]
  <2>1. CASE frame_count'[p] = c /\ next_frame_ready'[p] = Ready(p)
    BY <1>3, <2>1 DEF NextFrame, TurnTaken
  <2>2. CASE frame_count'[p] = c + 1 /\ next_frame_ready'[p] = {}
    BY <2>2 DEF NextFrame, TurnTaken
  <2> QED BY <2>1, <2>2, FrameFact
<1>5. frame_count'[p] \in {c, c + 1} /\ remote_send_success_flag'[p]
  BY FrameFact, SyncFact
<1>6. CASE Transmits(p)
  <2>1. /\ send_queue'[p].frame = next_send_frame(p, (c + 1) + D) /\ ~send_queue'[p].closed
    BY <1>1, <1>6, SyncFact, InitQueueType
  <2>2. NextFrame(p)' = c + 1
    BY <1>1, <1>4, <1>6
  <2>3. c + 1 \in Nat /\ (c + 1) + D \in Nat
    BY <1>1, ConstantFact
  <2> HIDE DEF c, s, D
  <2>4. next_send_frame(p, c + 1) + Ahead <= next_send_frame(p, (c + 1) + D)
    BY <2>3, NextAhead DEF D
  <2>5. /\ has_send_frame(p, next_send_frame(p, (c + 1) + D))
        /\ next_send_frame(p, (c + 1) + D) \in Nat
        /\ (c + 1) + D <= next_send_frame(p, (c + 1) + D)
    BY <2>3, NextTurn
  <2>6. next_send_frame(p, (c + 1) + D) > D
    BY <1>1, <2>3, <2>5, ConstantFact DEF D
  <2>7. send_queue'[p].closed = ~remote_send_success_flag'[p]
    BY <1>5, <2>1, SyncFact DEF SendType
  <2>8. /\ send_queue'[p].frame = next_send_frame(p, NextFrame(p)' + process_frame_delay)
        /\ next_send_frame(p, NextFrame(p)') + Ahead <= send_queue'[p].frame
        /\ send_queue'[p].frame > process_frame_delay
        /\ send_queue'[p].frame \in Nat
        /\ has_send_frame(p, send_queue'[p].frame)
    BY <2>1, <2>2, <2>4, <2>5, <2>6 DEF D
  <2>9. send_queue'[p].frame <= next_send_frame(p, NextFrame(p)' + process_frame_delay)
    BY <2>8
  <2> QED BY <1>5, <2>7, <2>8, <2>9 DEF Turns
<1>7. CASE ~Transmits(p)
  <2>1. send_queue'[p] = send_queue[p] /\ remote_send_success_flag[p]
    BY <1>7, SyncFact DEF Transmits
  <2>2. CASE has_send_frame(p, c)
    <3>1. NextFrame(p) = c + 1
      BY <1>7, <2>1, <2>2 DEF NextFrame, TurnTaken, Transmits, Closes
    <3>2. NextFrame(p)' = NextFrame(p)
      BY <1>4, <2>2, <3>1
    <3> QED BY <1>2, <1>5, <2>1, <3>2 DEF Turns
  <2>3. CASE ~has_send_frame(p, c)
    <3>1. NextFrame(p) = c /\ NextFrame(p)' = frame_count'[p]
      BY <1>4, <2>3 DEF NextFrame, TurnTaken
    <3>2. next_send_frame(p, c) = next_send_frame(p, c + 1)
      BY <1>1, <2>3, NotATurn
    <3>3. /\ next_send_frame(p, c + D) <= next_send_frame(p, (c + 1) + D)
          /\ next_send_frame(p, c + D) \in Nat /\ next_send_frame(p, (c + 1) + D) \in Nat
      <4>1. c + D \in Nat /\ (c + 1) + D \in Nat /\ c + D <= (c + 1) + D
        BY <1>1, ConstantFact
      <4> QED BY <4>1, NextTurnMonotone, NextTurn
    <3>4. /\ next_send_frame(p, NextFrame(p)') + Ahead <= s
          /\ s <= next_send_frame(p, NextFrame(p)' + D)
      <4>1. CASE frame_count'[p] = c
        BY <1>2, <3>1, <4>1
      <4>2. CASE frame_count'[p] = c + 1
        <5>1. NextFrame(p)' = c + 1 /\ NextFrame(p) = c
          BY <3>1, <4>2
        <5> HIDE DEF c, s, D
        <5> QED BY <1>1, <1>2, <3>2, <3>3, <5>1
      <4> QED BY <1>5, <4>1, <4>2
    <3> QED BY <1>2, <1>5, <2>1, <3>4 DEF Turns
  <2> QED BY <2>2, <2>3
<1> QED BY <1>6, <1>7

LEMMA StepSendTurns ==
    ASSUME Types, Carried, SendTurns, OwnPresent, Next PROVE SendTurns'
<1>1. ASSUME NEW p \in Nation,
             \A q \in Nation : q # p =>
                /\ send_queue'[q] = send_queue[q] /\ frame_count'[q] = frame_count[q]
                /\ next_frame_ready'[q] = next_frame_ready[q]
                /\ remote_send_success_flag'[q] = remote_send_success_flag[q],
             Turns(p)'
      PROVE  SendTurns'
  <2> SUFFICES ASSUME NEW q \in Nation PROVE Turns(q)'
    BY DEF SendTurns, Turns
  <2>1. Turns(q)
    BY DEF SendTurns, Turns
  <2>2. CASE q # p
    <3>1. NextFrame(q)' = NextFrame(q)
      BY <1>1, <2>2 DEF NextFrame, TurnTaken
    <3> QED BY <1>1, <2>1, <2>2, <3>1 DEF Turns
  <2> QED BY <1>1, <2>2
<1>2. ASSUME NEW p \in Nation PROVE Turns(p)
  BY DEF SendTurns, Turns
<1>3. ASSUME NEW p \in Nation, GiveOrder(p) PROVE SendTurns'
  <2>1. /\ send_queue'[p].frame = send_queue[p].frame
        /\ send_queue'[p].closed = send_queue[p].closed
        /\ \A q \in Nation : q # p => send_queue'[q] = send_queue[q]
        /\ UNCHANGED <<frame_count, next_frame_ready, remote_send_success_flag>>
    BY <1>3, GiveOrderFact
  <2>2. NextFrame(p)' = NextFrame(p)
    BY <2>1 DEF NextFrame, TurnTaken
  <2>3. Turns(p)'
    BY <1>2, <2>1, <2>2 DEF Turns
  <2> QED BY <1>1, <2>1, <2>3
<1>4. ASSUME NEW p \in Nation, SendFails(p) PROVE SendTurns'
  <2>1. /\ send_queue'[p].frame = send_queue[p].frame
        /\ send_queue'[p].closed /\ ~remote_send_success_flag'[p] /\ Transmits(p)
        /\ \A q \in Nation : q # p =>
                /\ send_queue'[q] = send_queue[q]
                /\ remote_send_success_flag'[q] = remote_send_success_flag[q]
        /\ UNCHANGED <<frame_count, next_frame_ready>>
    BY <1>4, SendFailsFact
  <2>2. NextFrame(p)' = NextFrame(p)
    BY <2>1 DEF NextFrame, TurnTaken
  <2>3. has_send_frame(p, frame_count[p]) /\ p \notin next_frame_ready[p]
    BY <2>1, StampFact
  <2>4. send_queue'[p].closed = ~remote_send_success_flag'[p]
    BY <1>4, <2>1, SendFailsFact DEF SendType
  <2>5. Turns(p)'
    BY <1>2, <2>1, <2>2, <2>3, <2>4 DEF Turns
  <2> QED BY <1>1, <2>1, <2>5
<1>5. ASSUME NEW p \in Nation, Sync(p) PROVE SendTurns'
  <2>1. Turns(p)'
    BY <1>5, SyncTurns
  <2>2. \A q \in Nation : q # p =>
            /\ send_queue'[q] = send_queue[q]
            /\ remote_send_success_flag'[q] = remote_send_success_flag[q]
    BY <1>5, SyncFact
  <2>3. \A q \in Nation : q # p =>
            /\ frame_count'[q] = frame_count[q]
            /\ next_frame_ready'[q] = next_frame_ready[q]
    BY <1>5, SyncFact, ProceedFact
  <2> QED BY <1>1, <2>1, <2>2, <2>3
<1>6. ASSUME UNCHANGED <<send_queue, frame_count, next_frame_ready, remote_send_success_flag>>
      PROVE  SendTurns'
  <2>1. \A q \in Nation : NextFrame(q)' = NextFrame(q)
    BY <1>6 DEF NextFrame, TurnTaken
  <2> QED BY <1>6, <2>1 DEF SendTurns
<1>7. ASSUME NEW p \in Nation, NEW q \in Nation, LoseConnection(p, q) PROVE SendTurns'
  BY <1>6, <1>7 DEF LoseConnection, local
<1>8. ASSUME NEW p \in Nation, NEW q \in Nation, NEW n \in 0 .. sent[q] - 1, PollMsg(p, q, n)
      PROVE  SendTurns'
  BY <1>6, <1>8 DEF PollMsg
<1> QED BY <1>3, <1>4, <1>5, <1>7, <1>8 DEF Next

-----------------------------------------------------------------------------
(* Preservation of what the slots hold *)

\* A slot after a step: a new one at the end, or an old one with one queue more
\* at most, its own closed by the machine or a message arriving.
SlotKept(p, k, l) ==
    /\ frame_count[p] + l = frame_count'[p] + k
    /\ Sync(p) \/ SendFails(p) => receive_queue'[p][k].queues = Received(p)[l].queues
    /\ ~(Sync(p) \/ SendFails(p)) => k = l
    /\ \/ receive_queue'[p][k].queues = receive_queue[p][l].queues
       \/ \E q \in Queue :
            /\ q.frame = frame_count[p] + l
            /\ receive_queue'[p][k].queues = Append(receive_queue[p][l].queues, q)
            /\ \/ (Sync(p) \/ SendFails(p)) /\ Closes(p) /\ q = OwnQueue(p)
               \/ \E m \in Nation \ {p} : \E i \in DOMAIN log[m] : q = log[m][i]

SlotFresh(p, k) ==
    /\ Sync(p) /\ frame_count'[p] = frame_count[p] + 1 /\ k + 1 \notin Slot
    /\ receive_queue'[p][k].queues = << >>

LEMMA SlotStep ==
    ASSUME Types, Carried, Next, NEW p \in Nation, NEW k \in Slot
    PROVE  SlotFresh(p, k) \/ \E l \in Slot : SlotKept(p, k, l)
<1>1. ASSUME NEW l \in Slot
      PROVE  \/ Received(p)[l].queues = receive_queue[p][l].queues
             \/ \E q \in Queue : /\ q.frame = frame_count[p] + l
                                 /\ Received(p)[l].queues = Append(receive_queue[p][l].queues, q)
                                 /\ Closes(p) /\ q = OwnQueue(p)
  BY ReceivedSlots, OwnQueueType
<1>2. frame_count[p] \in Nat /\ k \in Nat
  BY ConstantFact DEF Types, Slot
<1>3. CASE Sync(p)
  <2>1. CASE frame_count'[p] = frame_count[p] /\ receive_queue'[p] = Received(p)
    <3>1. SlotKept(p, k, k)
      BY <1>1, <1>3, <2>1 DEF SlotKept
    <3> QED BY <3>1
  <2>2. CASE frame_count'[p] = frame_count[p] + 1 /\ receive_queue'[p] = Shift(Received(p))
    <3>1. /\ k + 1 \in Slot => receive_queue'[p][k].queues = Received(p)[k + 1].queues
          /\ k + 1 \notin Slot => receive_queue'[p][k].queues = << >>
      <4> DEFINE rq == Received(p)
      <4>1. rq \in [Slot -> SlotType] /\ \A j \in Slot : rq[j].frame = frame_count[p] + j
            /\ receive_queue'[p] = Shift(rq)
        BY <2>2, ReceivedFact
      <4> HIDE DEF rq
      <4>2. /\ k + 1 \in Slot => Shift(rq)[k].queues = rq[k + 1].queues
            /\ k + 1 \notin Slot => Shift(rq)[k].queues = << >>
        BY <1>2, <4>1, ShiftFact
      <4> QED BY <4>1, <4>2 DEF rq
    <3>2. CASE k + 1 \in Slot
      <4>1. frame_count[p] + (k + 1) = frame_count'[p] + k
        BY <1>2, <2>2
      <4>2. SlotKept(p, k, k + 1)
        BY <1>1, <1>3, <3>1, <3>2, <4>1 DEF SlotKept
      <4> QED BY <3>2, <4>2
    <3>3. CASE k + 1 \notin Slot
      BY <1>3, <2>2, <3>1, <3>3 DEF SlotFresh
    <3> QED BY <3>2, <3>3
  <2> QED BY <1>3, <2>1, <2>2, FrameFact
<1>4. CASE SendFails(p)
  <2>1. receive_queue'[p] = Received(p) /\ frame_count' = frame_count
    BY <1>4, SendFailsFact
  <2>2. SlotKept(p, k, k)
    BY <1>1, <1>4, <2>1 DEF SlotKept
  <2> QED BY <2>2
<1>5. ASSUME ~Sync(p), ~SendFails(p), frame_count'[p] = frame_count[p],
             receive_queue'[p] = receive_queue[p]
      PROVE  SlotKept(p, k, k)
  BY <1>5 DEF SlotKept
<1>6. ASSUME NEW q \in Nation, GiveOrder(q), ~Sync(p), ~SendFails(p) PROVE SlotKept(p, k, k)
  BY <1>5, <1>6, GiveOrderFact
<1>7. ASSUME NEW q \in Nation, SendFails(q), ~Sync(p), ~SendFails(p) PROVE SlotKept(p, k, k)
  <2>1. q # p /\ receive_queue'[p] = receive_queue[p] /\ frame_count' = frame_count
    BY <1>7, SendFailsFact
  <2> QED BY <1>5, <1>7, <2>1
<1>8. ASSUME NEW q \in Nation, Sync(q), ~Sync(p), ~SendFails(p) PROVE SlotKept(p, k, k)
  <2>1. q # p /\ frame_count[q] < MaxFrame /\ (TakeOver(q) \/ ProcessFrame(q))
    BY <1>8, SyncFact
  <2>2. receive_queue'[p] = receive_queue[p] /\ frame_count'[p] = frame_count[p]
    BY <2>1, ProceedFact
  <2> QED BY <1>5, <1>8, <2>2
<1>9. ASSUME NEW q \in Nation, NEW m \in Nation, LoseConnection(q, m), ~Sync(p), ~SendFails(p)
      PROVE  SlotKept(p, k, k)
  BY <1>5, <1>9 DEF LoseConnection, local
<1>10. ASSUME NEW q \in Nation, NEW m \in Nation, NEW n \in 0 .. sent[m] - 1, PollMsg(q, m, n),
              ~Sync(p), ~SendFails(p)
       PROVE  SlotKept(p, k, k)
  <2>a. /\ m # q /\ n + 1 \in DOMAIN log[m] /\ log[m][n + 1] \in Queue
        /\ receive_queue'[q] = Enqueue(receive_queue[q], log[m][n + 1])
        /\ \A l \in Nation : l # q => receive_queue'[l] = receive_queue[l]
        /\ frame_count' = frame_count
    BY <1>10, PollFact
  <2>1. CASE q # p
    BY <1>5, <1>10, <2>1, <2>a
  <2>2. CASE q = p
    <3>1. /\ log[m][n + 1].frame = frame_count[p] + k =>
                receive_queue'[p][k].queues = Append(receive_queue[p][k].queues, log[m][n + 1])
          /\ log[m][n + 1].frame # frame_count[p] + k =>
                receive_queue'[p][k].queues = receive_queue[p][k].queues
      <4> DEFINE msg == log[m][n + 1]
                 rq == receive_queue[p]
      <4>1. rq \in [Slot -> SlotType] /\ rq[k].frame = frame_count[p] + k /\ msg \in Queue
            /\ receive_queue'[p] = Enqueue(rq, msg)
        BY <2>2, <2>a DEF Types
      <4> HIDE DEF msg, rq
      <4>2. /\ rq[k].frame = msg.frame =>
                  receive_queue'[p][k].queues = Append(rq[k].queues, msg)
            /\ rq[k].frame # msg.frame => receive_queue'[p][k].queues = rq[k].queues
        BY <4>1, EnqueueFact
      <4> QED BY <4>1, <4>2 DEF msg, rq
    <3>2. /\ log[m][n + 1] \in Queue /\ m \in Nation \ {p} /\ n + 1 \in DOMAIN log[m]
      BY <2>2, <2>a
    <3> QED BY <1>10, <2>a, <3>1, <3>2 DEF SlotKept
  <2> QED BY <2>1, <2>2
<1>11. CASE ~Sync(p) /\ ~SendFails(p)
  BY <1>6, <1>7, <1>8, <1>9, <1>10, <1>11 DEF Next
<1> QED BY <1>3, <1>4, <1>11

LEMMA StepSlotFrames ==
    ASSUME Types, Carried, SlotFrames, Next PROVE SlotFrames'
<1> SUFFICES ASSUME NEW p \in Nation, NEW k \in Slot
             PROVE  \A i \in DOMAIN receive_queue'[p][k].queues :
                        receive_queue'[p][k].queues[i].frame = frame_count'[p] + k
  BY DEF SlotFrames
<1>1. CASE SlotFresh(p, k)
  <2>1. DOMAIN receive_queue'[p][k].queues = {}
    BY <1>1, EmptySeq DEF SlotFresh
  <2> QED BY <2>1
<1>2. ASSUME NEW l \in Slot, SlotKept(p, k, l)
      PROVE  \A i \in DOMAIN receive_queue'[p][k].queues :
                receive_queue'[p][k].queues[i].frame = frame_count'[p] + k
  <2> DEFINE old == receive_queue[p][l].queues
             new == receive_queue'[p][k].queues
             f == frame_count'[p] + k
  <2>1. old \in Seq(Queue) /\ \A i \in DOMAIN old : old[i].frame = f
    <3>1. receive_queue[p][l] \in SlotType
      BY DEF Types
    <3> QED BY <1>2, <3>1 DEF SlotType, SlotFrames, SlotKept
  <2>2. \/ new = old
        \/ \E q \in Queue : q.frame = f /\ new = Append(old, q)
    BY <1>2 DEF SlotKept
  <2> HIDE DEF old, new, f
  <2>3. ASSUME NEW q \in Queue, q.frame = f, new = Append(old, q)
        PROVE  \A i \in DOMAIN new : new[i].frame = f
    <3>1. /\ Len(old) \in Nat /\ DOMAIN old = 1 .. Len(old)
          /\ DOMAIN new = 1 .. Len(old) + 1 /\ new[Len(old) + 1] = q
          /\ \A i \in 1 .. Len(old) : new[i] = old[i]
      BY <2>1, <2>3, AppendProperties, LenProperties
    <3>2. \A i \in 1 .. Len(old) + 1 : i \in 1 .. Len(old) \/ i = Len(old) + 1
      BY <3>1
    <3> QED BY <2>1, <2>3, <3>1, <3>2
  <2>4. \A i \in DOMAIN new : new[i].frame = f
    BY <2>1, <2>2, <2>3
  <2> QED BY <2>4 DEF new, f
<1> QED BY <1>1, <1>2, SlotStep

\* What a queue more changes in a slot.
LEMMA KeptFact ==
    ASSUME Types, NEW p \in Nation, NEW k \in Slot, NEW l \in Slot, SlotKept(p, k, l)
    PROVE  LET old == receive_queue[p][l].queues
               new == receive_queue'[p][k].queues
           IN  /\ NationsIn(old) \subseteq NationsIn(new)
               /\ \A n \in NationsIn(old) : QueueOf(new, n) = QueueOf(old, n)
<1> DEFINE old == receive_queue[p][l].queues
           new == receive_queue'[p][k].queues
<1>1. old \in Seq(Queue)
  BY DEF Types, SlotType
<1>2. new = old \/ \E q \in Queue : new = Append(old, q)
  BY DEF SlotKept
<1> HIDE DEF old, new
<1>3. ASSUME NEW q \in Queue, new = Append(old, q)
      PROVE  /\ NationsIn(old) \subseteq NationsIn(new)
             /\ \A n \in NationsIn(old) : QueueOf(new, n) = QueueOf(old, n)
  <2>1. /\ NationsIn(Append(old, q)) = NationsIn(old) \cup {q.nation}
        /\ \A n : QueueOf(Append(old, q), n) =
                        IF n \in NationsIn(old) THEN QueueOf(old, n)
                        ELSE IF q.nation = n THEN q.orders ELSE << >>
    BY <1>1, AppendQueue
  <2> QED BY <1>3, <2>1
<1>4. /\ NationsIn(old) \subseteq NationsIn(new)
      /\ \A n \in NationsIn(old) : QueueOf(new, n) = QueueOf(old, n)
  BY <1>2, <1>3
<1> QED BY <1>4 DEF old, new

LEMMA StepEmptyStart ==
    ASSUME Types, Carried, EmptyStart, Next PROVE EmptyStart'
<1> SUFFICES ASSUME NEW p \in Nation, NEW n \in Nation, NEW k \in Slot,
                    frame_count'[p] + k <= process_frame_delay
             PROVE  /\ n \in NationsIn(receive_queue'[p][k].queues)
                    /\ QueueOf(receive_queue'[p][k].queues, n) = << >>
  BY DEF EmptyStart
<1>1. CASE SlotFresh(p, k)
  <2>1. frame_count[p] \in Nat /\ k \in Nat /\ frame_count'[p] = frame_count[p] + 1
        /\ k + 1 >= RECEIVE_QUEUE_BACKUP
    BY <1>1, ConstantFact DEF SlotFresh, Slot, Types
  <2> QED BY <2>1, ConstantFact
<1>2. ASSUME NEW l \in Slot, SlotKept(p, k, l)
      PROVE  /\ n \in NationsIn(receive_queue'[p][k].queues)
             /\ QueueOf(receive_queue'[p][k].queues, n) = << >>
  <2>1. frame_count[p] + l <= process_frame_delay
    BY <1>2 DEF SlotKept
  <2>2. /\ n \in NationsIn(receive_queue[p][l].queues)
        /\ QueueOf(receive_queue[p][l].queues, n) = << >>
    BY <2>1 DEF EmptyStart
  <2> QED BY <1>2, <2>2, KeptFact
<1> QED BY <1>1, <1>2, SlotStep

\* What the others do leaves the queue that p fills alone; what p orders, too,
\* once the queue is closed.
LEMMA SendStep ==
    ASSUME Types, Carried, SendTurns, Next, NEW p \in Nation, ~Sync(p), ~SendFails(p)
    PROVE  /\ send_queue'[p].frame = send_queue[p].frame
           /\ remote_send_success_flag'[p] = remote_send_success_flag[p]
           /\ ~remote_send_success_flag[p] => send_queue'[p].orders = send_queue[p].orders
<1> DEFINE Kept == /\ send_queue'[p].frame = send_queue[p].frame
                   /\ remote_send_success_flag'[p] = remote_send_success_flag[p]
                   /\ ~remote_send_success_flag[p] =>
                        send_queue'[p].orders = send_queue[p].orders
<1>1. ASSUME NEW q \in Nation, GiveOrder(q) PROVE Kept
  <2>1. send_queue[p].closed = ~remote_send_success_flag[p]
    BY DEF SendTurns
  <2>2. CASE q = p
    <3>1. /\ send_queue'[p].frame = send_queue[p].frame
          /\ remote_send_success_flag' = remote_send_success_flag
          /\ ~send_queue[p].closed \/ send_queue'[p].orders = send_queue[p].orders
      BY <1>1, <2>2, GiveOrderFact
    <3> QED BY <2>1, <3>1
  <2>3. CASE q # p
    BY <1>1, <2>3, GiveOrderFact
  <2> QED BY <2>2, <2>3
<1>2. ASSUME NEW q \in Nation, q # p, SendFails(q) PROVE Kept
  BY <1>2, SendFailsFact
<1>3. ASSUME NEW q \in Nation, q # p, Sync(q) PROVE Kept
  BY <1>3, SyncFact
<1>4. ASSUME NEW q \in Nation, NEW m \in Nation,
             LoseConnection(q, m) \/ \E n \in 0 .. sent[m] - 1 : PollMsg(q, m, n)
      PROVE  Kept
  BY <1>4 DEF LoseConnection, PollMsg, local
<1> QED BY <1>1, <1>2, <1>3, <1>4 DEF Next

\* Connections are only lost.
LEMMA PeersStep ==
    ASSUME Types, Carried, Next, NEW p \in Nation
    PROVE  peers'[p] \subseteq peers[p] /\ (Sync(p) \/ SendFails(p) => peers'[p] = peers[p])
<1>1. ASSUME NEW q \in Nation, GiveOrder(q) \/ SendFails(q) \/ Sync(q) PROVE peers' = peers
  BY <1>1, GiveOrderFact, SendFailsFact, SyncFact
<1>2. ASSUME NEW q \in Nation, NEW m \in Nation, NEW n \in 0 .. sent[m] - 1, PollMsg(q, m, n)
      PROVE  peers' = peers
  BY <1>2, PollFact
<1>3. ASSUME NEW q \in Nation, NEW m \in Nation, LoseConnection(q, m)
      PROVE  peers'[p] \subseteq peers[p]
  <2>1. peers' = [peers EXCEPT ![q] = @ \ {m}]
    BY <1>3 DEF LoseConnection, Multicast!Disconnect
  <2> QED BY <2>1 DEF Carried
<1> QED BY <1>1, <1>2, <1>3 DEF Next

\* The queue being filled is always for a frame that p has a slot for.
LEMMA StampBelow ==
    ASSUME Types, Carried, SendTurns, NEW p \in Nation, Sync(p)
    PROVE  send_queue'[p].frame \in Nat
           /\ send_queue'[p].frame < frame_count[p] + RECEIVE_QUEUE_BACKUP
<1> DEFINE c == frame_count[p]
           s == send_queue[p].frame
           t == send_queue'[p].frame
<1>1. /\ c \in Nat /\ s \in Nat /\ s - c \in Slot
      /\ Transmits(p) => has_send_frame(p, c)
  BY StampFact
<1>2. CASE Transmits(p)
  <2>1. t = next_send_frame(p, c + 1 + process_frame_delay)
    BY <1>1, <1>2, SyncFact, InitQueueType
  <2>2. c + 1 + process_frame_delay \in Nat /\ has_send_frame(p, c)
    BY <1>1, <1>2, ConstantFact
  <2>3. t \in Nat /\ t <= c + Ahead + alternating_send_rate
    BY <1>1, <2>1, <2>2, NextBehind, NextTurn
  <2> HIDE DEF c, t
  <2>4. t < c + RECEIVE_QUEUE_BACKUP
    BY <1>1, <2>3, AheadFact, ConstantFact
  <2> QED BY <2>3, <2>4 DEF c, t
<1>3. CASE ~Transmits(p)
  <2>1. t = s
    BY <1>3, SyncFact
  <2>2. s < c + RECEIVE_QUEUE_BACKUP
    BY <1>1, ConstantFact DEF Slot
  <2> QED BY <1>1, <2>1, <2>2
<1> QED BY <1>2, <1>3

LEMMA StepOwnPresent ==
    ASSUME Types, Carried, SendTurns, OwnPresent, Next PROVE OwnPresent'
<1> SUFFICES ASSUME NEW p \in Nation, NEW k \in Slot,
                    has_send_frame(p, frame_count'[p] + k),
                    \/ frame_count'[p] + k < send_queue'[p].frame
                    \/ /\ frame_count'[p] + k = send_queue'[p].frame
                       /\ ~remote_send_success_flag'[p]
             PROVE  p \in NationsIn(receive_queue'[p][k].queues)
  BY DEF OwnPresent
<1>1. frame_count[p] \in Nat /\ k \in Nat
  BY ConstantFact DEF Types, Slot
<1>2. CASE SlotFresh(p, k)
  <2>1. Sync(p) /\ frame_count'[p] = frame_count[p] + 1 /\ k + 1 \notin Slot
    BY <1>2 DEF SlotFresh
  <2>2. /\ send_queue'[p].frame \in Nat /\ remote_send_success_flag'[p]
        /\ send_queue'[p].frame < frame_count[p] + RECEIVE_QUEUE_BACKUP
    BY <2>1, StampBelow, SyncFact
  <2> QED BY <1>1, <2>1, <2>2, ConstantFact DEF Slot
<1>3. ASSUME NEW l \in Slot, SlotKept(p, k, l)
      PROVE  p \in NationsIn(receive_queue'[p][k].queues)
  <2> DEFINE f == frame_count[p] + l
  <2>1. /\ f = frame_count'[p] + k
        /\ NationsIn(receive_queue[p][l].queues) \subseteq NationsIn(receive_queue'[p][k].queues)
    BY <1>3, KeptFact DEF SlotKept
  <2>2. CASE Sync(p)
    <3>1. f < send_queue'[p].frame
      BY <2>1, <2>2, SyncFact
    <3>2. p \in NationsIn(Received(p)[l].queues)
      BY <2>1, <2>2, <3>1, OwnReady
    <3> QED BY <1>3, <2>2, <3>2 DEF SlotKept
  <2>3. CASE SendFails(p)
    <3>1. /\ send_queue'[p].frame = send_queue[p].frame
          /\ Transmits(p)
          /\ receive_queue'[p][k].queues = Received(p)[l].queues
      BY <1>3, <2>3, SendFailsFact DEF SlotKept
    <3>2. CASE f = send_queue[p].frame /\ Closes(p)
      BY <3>1, <3>2, ReceivedSlots
    <3>3. CASE f < send_queue[p].frame \/ ~remote_send_success_flag[p]
      BY <2>1, <3>1, <3>3 DEF OwnPresent
    <3> QED BY <2>1, <3>1, <3>2, <3>3 DEF Transmits
  <2>4. CASE ~Sync(p) /\ ~SendFails(p)
    <3>1. /\ send_queue'[p].frame = send_queue[p].frame
          /\ remote_send_success_flag'[p] = remote_send_success_flag[p]
      BY <2>4, SendStep
    <3> QED BY <2>1, <3>1 DEF OwnPresent
  <2> QED BY <2>2, <2>3, <2>4
<1> QED BY <1>2, <1>3, SlotStep

-----------------------------------------------------------------------------
(* Preservation of what the log holds *)

\* The log grows when a machine that has a peer sends.
LEMMA LogStep ==
    ASSUME Types, Carried, Next, NEW n \in Nation
    PROVE  \/ log'[n] = log[n]
           \/ /\ Sync(n) /\ Transmits(n) /\ peers[n] # {}
              /\ log'[n] = Append(log[n], OwnQueue(n))
<1>1. ASSUME NEW q \in Nation, GiveOrder(q) PROVE log'[n] = log[n]
  BY <1>1, GiveOrderFact
<1>2. ASSUME NEW q \in Nation, SendFails(q) PROVE log'[n] = log[n]
  BY <1>2, SendFailsFact
<1>3. ASSUME NEW q \in Nation, Sync(q)
      PROVE  \/ log'[n] = log[n]
             \/ /\ q = n /\ Transmits(n) /\ peers[n] # {}
                /\ log'[n] = Append(log[n], OwnQueue(n))
  BY <1>3, SyncFact
<1>4. ASSUME NEW q \in Nation, NEW m \in Nation,
             LoseConnection(q, m) \/ \E i \in 0 .. sent[m] - 1 : PollMsg(q, m, i)
      PROVE  log'[n] = log[n]
  BY <1>4 DEF LoseConnection, PollMsg
<1> QED BY <1>1, <1>2, <1>3, <1>4 DEF Next

\* The frame counter of a machine changes in its own sync only.
LEMMA CountStep ==
    ASSUME Types, Carried, Next, NEW p \in Nation
    PROVE  \/ Sync(p)
           \/ /\ frame_count'[p] = frame_count[p]
              /\ next_frame_ready'[p] = next_frame_ready[p] /\ remote'[p] = remote[p]
              /\ executed'[p] = executed[p] /\ mp_save_frame'[p] = mp_save_frame[p]
              /\ saved'[p] = saved[p]
<1>1. ASSUME NEW q \in Nation, GiveOrder(q) \/ SendFails(q)
      PROVE  UNCHANGED <<frame_count, next_frame_ready, remote, executed, mp_save_frame, saved>>
  BY <1>1, GiveOrderFact, SendFailsFact
<1>2. ASSUME NEW q \in Nation, Sync(q), q # p
      PROVE  /\ frame_count'[p] = frame_count[p]
             /\ next_frame_ready'[p] = next_frame_ready[p] /\ remote'[p] = remote[p]
             /\ executed'[p] = executed[p] /\ mp_save_frame'[p] = mp_save_frame[p]
             /\ saved'[p] = saved[p]
  <2>1. frame_count[q] < MaxFrame /\ (TakeOver(q) \/ ProcessFrame(q))
    BY <1>2, SyncFact
  <2> QED BY <1>2, <2>1, ProceedFact
<1>3. ASSUME NEW q \in Nation, NEW m \in Nation,
             LoseConnection(q, m) \/ \E i \in 0 .. sent[m] - 1 : PollMsg(q, m, i)
      PROVE  UNCHANGED <<frame_count, next_frame_ready, remote, executed, mp_save_frame, saved>>
  BY <1>3 DEF LoseConnection, PollMsg, local
<1> QED BY <1>1, <1>2, <1>3 DEF Next

LEMMA NextFrameStep ==
    ASSUME Types, Carried, SendTurns, OwnPresent, Next, NEW p \in Nation
    PROVE  /\ NextFrame(p) \in Nat /\ NextFrame(p)' \in Nat /\ NextFrame(p) <= NextFrame(p)'
           /\ Sync(p) /\ Transmits(p) =>
                NextFrame(p) = frame_count[p] /\ NextFrame(p)' = frame_count[p] + 1
<1> DEFINE c == frame_count[p]
<1>1. /\ c \in Nat /\ NextFrame(p) \in {c, c + 1}
      /\ Transmits(p) => has_send_frame(p, c) /\ NextFrame(p) = c
  BY StampFact DEF NextFrame
<1>2. CASE Sync(p)
  <2>1. has_send_frame(p, c) => p \in Ready(p)
    BY <1>2, OwnReady
  <2>2. NextFrame(p)' = IF has_send_frame(p, c) THEN c + 1 ELSE frame_count'[p]
    <3>1. CASE frame_count'[p] = c /\ next_frame_ready'[p] = Ready(p)
      BY <2>1, <3>1 DEF NextFrame, TurnTaken
    <3>2. CASE frame_count'[p] = c + 1 /\ next_frame_ready'[p] = {}
      BY <3>2 DEF NextFrame, TurnTaken
    <3> QED BY <1>2, <3>1, <3>2, FrameFact
  <2>3. frame_count'[p] \in {c, c + 1}
    BY <1>2, FrameFact
  <2>4. ~has_send_frame(p, c) => NextFrame(p) = c
    BY DEF NextFrame, TurnTaken
  <2> HIDE DEF c
  <2> QED BY <1>1, <2>2, <2>3, <2>4 DEF c
<1>3. CASE ~Sync(p)
  <2>1. NextFrame(p)' = NextFrame(p)
    BY <1>3, CountStep DEF NextFrame, TurnTaken
  <2> QED BY <1>1, <1>3, <2>1
<1> QED BY <1>2, <1>3

\* A turn of p that has been taken.
Logged(p, q) ==
    /\ has_send_frame(p, q.at) /\ has_send_frame(p, q.frame)
    /\ q.frame > process_frame_delay
    /\ q.at + Ahead <= q.frame
    /\ q.frame <= next_send_frame(p, q.at + process_frame_delay)

LEMMA StepLogTurns ==
    ASSUME Types, Carried, SendTurns, OwnPresent, LogTurns, Next PROVE LogTurns'
<1> SUFFICES ASSUME NEW p \in Nation
             PROVE  \A i \in DOMAIN log'[p] :
                        /\ Logged(p, log'[p][i])
                        /\ log'[p][i].at < NextFrame(p)'
                        /\ \A j \in DOMAIN log'[p] : i < j => log'[p][i].at < log'[p][j].at
  BY DEF LogTurns, Logged
<1>1. /\ NextFrame(p) \in Nat /\ NextFrame(p)' \in Nat /\ NextFrame(p) <= NextFrame(p)'
      /\ Sync(p) /\ Transmits(p) =>
            NextFrame(p) = frame_count[p] /\ NextFrame(p)' = frame_count[p] + 1
  BY NextFrameStep
<1>2. \A i \in DOMAIN log[p] :
        /\ Logged(p, log[p][i])
        /\ log[p][i].at < NextFrame(p) /\ log[p][i].at \in Nat
        /\ \A j \in DOMAIN log[p] : i < j => log[p][i].at < log[p][j].at
  <2>1. log[p] \in Seq(Queue)
    BY DEF Types
  <2>2. \A i \in DOMAIN log[p] : log[p][i] \in Queue
    BY <2>1, SeqFact
  <2> QED BY <2>2 DEF LogTurns, Logged, Queue
<1>3. CASE log'[p] = log[p]
  BY <1>1, <1>2, <1>3
<1>4. CASE /\ Sync(p) /\ Transmits(p) /\ peers[p] # {}
           /\ log'[p] = Append(log[p], OwnQueue(p))
  <2> DEFINE q == OwnQueue(p)
             len == Len(log[p])
             more == log'[p]
  <2>1. /\ q \in Queue /\ q.at = frame_count[p] /\ q.frame = send_queue[p].frame
        /\ log[p] \in Seq(Queue) /\ more = Append(log[p], q)
    BY <1>4, OwnQueueType DEF Types
  <2>2. Logged(p, q)
    <3>1. /\ frame_count[p] \in Nat /\ NextFrame(p) = frame_count[p]
          /\ has_send_frame(p, frame_count[p])
      BY <1>1, <1>4, StampFact
    <3>2. next_send_frame(p, frame_count[p]) = frame_count[p]
      BY <3>1, NextTurn
    <3> QED BY <2>1, <3>1, <3>2 DEF SendTurns, Logged
  <2>3. q.at = NextFrame(p) /\ q.at < NextFrame(p)'
    BY <1>1, <1>4, <2>1
  <2> HIDE DEF q, len, more
  <2>4. /\ DOMAIN more = DOMAIN log[p] \cup {len + 1}
        /\ len + 1 \in Nat /\ len + 1 \notin DOMAIN log[p] /\ more[len + 1] = q
        /\ \A i \in DOMAIN log[p] : i \in Nat /\ i < len + 1 /\ more[i] = log[p][i]
    BY <2>1, AppendFact DEF len
  <2>5. ASSUME NEW i \in DOMAIN more
        PROVE  /\ Logged(p, more[i])
               /\ more[i].at < NextFrame(p)'
               /\ \A j \in DOMAIN more : i < j => more[i].at < more[j].at
    <3>1. CASE i \in DOMAIN log[p]
      <4>1. Logged(p, more[i])
        BY <1>2, <2>4, <3>1
      <4>2. more[i].at < NextFrame(p) /\ more[i].at \in Nat
        BY <1>2, <2>4, <3>1
      <4>3. ASSUME NEW j \in DOMAIN more, i < j PROVE more[i].at < more[j].at
        <5>1. CASE j \in DOMAIN log[p]
          BY <1>2, <2>4, <3>1, <4>3, <5>1
        <5>2. CASE j = len + 1
          BY <2>3, <2>4, <4>2, <5>2
        <5> QED BY <2>4, <5>1, <5>2
      <4> QED BY <1>1, <4>1, <4>2, <4>3
    <3>2. CASE i = len + 1
      <4>1. \A j \in DOMAIN more : ~(i < j)
        BY <2>4, <3>2
      <4> QED BY <2>2, <2>3, <2>4, <3>2, <4>1
    <3> QED BY <2>4, <3>1, <3>2
  <2> QED BY <2>5 DEF more
<1> QED BY <1>3, <1>4, LogStep

-----------------------------------------------------------------------------
(* A machine executes what it sends *)

\* What a sync adds to the log is the first with its stamp when no other bears it.
LEMMA LogGrows ==
    ASSUME Types, Carried, Next, NEW n \in Nation
    PROVE  /\ \A i \in DOMAIN log[n] :
                /\ i \in DOMAIN log'[n] /\ log'[n][i] = log[n][i] /\ i \in Nat \ {0}
                /\ First(n, i)' <=> First(n, i)
           /\ \A i \in DOMAIN log'[n] : i \notin DOMAIN log[n] =>
                /\ Sync(n) /\ Transmits(n) /\ peers[n] # {}
                /\ i = Len(log[n]) + 1
                /\ log'[n][i] = OwnQueue(n)
                /\ First(n, i)' <=>
                      \A j \in DOMAIN log[n] : log[n][j].frame # send_queue[n].frame
           /\ Sync(n) /\ Transmits(n) /\ peers[n] # {} =>
                \E i \in DOMAIN log'[n] : log'[n][i].frame = send_queue[n].frame
<1>1. log[n] \in Seq(Queue) /\ OwnQueue(n) \in Queue
      /\ OwnQueue(n).frame = send_queue[n].frame
  BY OwnQueueType DEF Types
<1>2. DOMAIN log[n] \in SUBSET Nat /\ \A i \in DOMAIN log[n] : i \in Nat \ {0}
  BY <1>1, AppendFact
<1>3. \A i : First(n, i)' <=> /\ i \in DOMAIN log'[n]
                              /\ \A j \in DOMAIN log'[n] :
                                    j < i => log'[n][j].frame # log'[n][i].frame
  BY DEF First
<1>4. CASE Sync(n) /\ Transmits(n) /\ peers[n] # {}
  <2> DEFINE len == Len(log[n])
             more == log'[n]
             old == log[n]
  <2>1. more = Append(old, OwnQueue(n))
    BY <1>4, SyncFact
  <2> HIDE DEF len, more, old
  <2>2. /\ DOMAIN more = DOMAIN old \cup {len + 1}
        /\ len + 1 \in Nat \ {0} /\ len + 1 \notin DOMAIN old /\ more[len + 1] = OwnQueue(n)
        /\ \A i \in DOMAIN old : i \in Nat \ {0} /\ i < len + 1 /\ more[i] = old[i]
    BY <1>1, <2>1, AppendFact DEF len, old
  <2>3. ASSUME NEW i \in DOMAIN old PROVE First(n, i)' <=> First(n, i)
    <3>1. \A j \in DOMAIN more : j < i <=> j \in DOMAIN old /\ j < i
      BY <2>2
    <3>2. First(n, i)' <=> \A j \in DOMAIN old : j < i => old[j].frame # old[i].frame
      BY <1>3, <2>2, <3>1 DEF more
    <3> QED BY <3>2 DEF First, old
  <2>4. ASSUME NEW i, i = len + 1
        PROVE  First(n, i)' <=> \A j \in DOMAIN old : old[j].frame # send_queue[n].frame
    <3>1. \A j \in DOMAIN more : j < i <=> j \in DOMAIN old
      BY <2>2, <2>4
    <3>2. more[i].frame = send_queue[n].frame /\ i \in DOMAIN more
      BY <1>1, <2>2, <2>4
    <3>3. First(n, i)' <=> \A j \in DOMAIN more : j < i => more[j].frame # more[i].frame
      BY <1>3, <3>2 DEF more
    <3>4. \A j \in DOMAIN old : j \in DOMAIN more /\ more[j] = old[j]
      BY <2>2
    <3> QED BY <3>1, <3>2, <3>3, <3>4
  <2>5. ASSUME NEW i \in DOMAIN more, i \notin DOMAIN old
        PROVE  /\ i = len + 1 /\ more[i] = OwnQueue(n)
               /\ First(n, i)' <=> \A j \in DOMAIN old : old[j].frame # send_queue[n].frame
    <3>1. i = len + 1
      BY <2>2, <2>5
    <3> QED BY <2>2, <2>4, <3>1
  <2>6. \E i \in DOMAIN more : more[i].frame = send_queue[n].frame
    BY <1>1, <2>2
  <2> QED BY <1>4, <2>2, <2>3, <2>5, <2>6 DEF old, more, len
<1>5. CASE ~(Sync(n) /\ Transmits(n) /\ peers[n] # {})
  <2>1. log'[n] = log[n]
    BY <1>5, LogStep
  <2> QED BY <1>2, <1>3, <1>5, <2>1 DEF First
<1> QED BY <1>4, <1>5

\* The queues p has sent when a sync or a failed send is over, in its slots.
LEMMA OwnReceived ==
    ASSUME Types, Carried, SendTurns, OwnPresent, OwnSlots, Next, NEW p \in Nation,
           Sync(p) \/ SendFails(p), NEW l \in Slot
    PROVE  LET queues == Received(p)[l].queues
               f == frame_count[p] + l
           IN  /\ \A i \in DOMAIN log'[p] : First(p, i)' /\ log'[p][i].frame = f =>
                     p \in NationsIn(queues) /\ QueueOf(queues, p) = log'[p][i].orders
               /\ peers[p] # {} /\ f > process_frame_delay /\ p \in NationsIn(queues) =>
                     \/ \E i \in DOMAIN log'[p] : log'[p][i].frame = f
                     \/ SendFails(p) /\ send_queue[p].frame = f
               /\ /\ SendFails(p) /\ send_queue[p].frame = f
                  /\ \A i \in DOMAIN log[p] : log[p][i].frame # f
                  => QueueOf(queues, p) = send_queue[p].orders
<1> DEFINE queues == Received(p)[l].queues
           old == receive_queue[p][l].queues
           f == frame_count[p] + l
           s == send_queue[p].frame
           pending == ~remote_send_success_flag[p] /\ s = f
           fresh == \A i \in DOMAIN log[p] : log[p][i].frame # f
<1>1. /\ NationsIn(queues) = NationsIn(old) \cup (IF Closes(p) /\ s = f THEN {p} ELSE {})
      /\ p \in NationsIn(old) => QueueOf(queues, p) = QueueOf(old, p)
      /\ p \notin NationsIn(old) /\ Closes(p) /\ s = f => QueueOf(queues, p) = send_queue[p].orders
  BY ReceivedSlots
<1>2. /\ \A i \in DOMAIN log[p] : First(p, i) /\ log[p][i].frame = f =>
            p \in NationsIn(old) /\ QueueOf(old, p) = log[p][i].orders
      /\ peers[p] # {} /\ f > process_frame_delay /\ p \in NationsIn(old) =>
            (\E i \in DOMAIN log[p] : log[p][i].frame = f) \/ pending
      /\ pending /\ fresh => QueueOf(old, p) = send_queue[p].orders
  BY DEF OwnSlots
<1>3. /\ has_send_frame(p, s) /\ s > process_frame_delay
      /\ OwnQueue(p).orders = send_queue[p].orders /\ OwnQueue(p).frame = s
  BY OwnQueueType DEF SendTurns
<1>4. pending => p \in NationsIn(old)
  BY <1>3 DEF OwnPresent
<1>5. Transmits(p) /\ s = f => pending \/ Closes(p)
  BY DEF Transmits
<1>6. Transmits(p) /\ s = f /\ fresh /\ peers[p] # {} =>
        p \in NationsIn(queues) /\ QueueOf(queues, p) = send_queue[p].orders
  <2>1. ASSUME pending, fresh
        PROVE  p \in NationsIn(queues) /\ QueueOf(queues, p) = send_queue[p].orders
    BY <1>1, <1>2, <1>4, <2>1
  <2>2. ASSUME Closes(p), s = f, fresh, peers[p] # {}
        PROVE  p \in NationsIn(queues) /\ QueueOf(queues, p) = send_queue[p].orders
    <3>1. p \notin NationsIn(old)
      <4>1. ~pending
        BY <2>2 DEF Closes
      <4> QED BY <1>2, <1>3, <2>2, <4>1
    <3> QED BY <1>1, <2>2, <3>1
  <2> QED BY <1>5, <2>1, <2>2
<1>7. /\ \A i \in DOMAIN log[p] :
           /\ i \in DOMAIN log'[p] /\ log'[p][i] = log[p][i]
           /\ First(p, i)' <=> First(p, i)
      /\ \A i \in DOMAIN log'[p] : i \notin DOMAIN log[p] =>
           /\ Sync(p) /\ Transmits(p) /\ peers[p] # {}
           /\ log'[p][i] = OwnQueue(p)
           /\ First(p, i)' <=> \A j \in DOMAIN log[p] : log[p][j].frame # s
      /\ Sync(p) /\ Transmits(p) /\ peers[p] # {} =>
           \E i \in DOMAIN log'[p] : log'[p][i].frame = s
  BY LogGrows
<1>8. SendFails(p) => Transmits(p) /\ peers[p] # {}
  BY SendFailsFact
<1> HIDE DEF queues, old, f, s, pending
<1>9. ASSUME NEW i \in DOMAIN log'[p], First(p, i)', log'[p][i].frame = f
      PROVE  p \in NationsIn(queues) /\ QueueOf(queues, p) = log'[p][i].orders
  <2>1. CASE i \in DOMAIN log[p]
    BY <1>1, <1>2, <1>7, <1>9, <2>1
  <2>2. CASE i \notin DOMAIN log[p]
    <3>1. /\ Transmits(p) /\ peers[p] # {} /\ log'[p][i] = OwnQueue(p)
          /\ \A j \in DOMAIN log[p] : log[p][j].frame # s
      BY <1>7, <1>9, <2>2
    <3>2. s = f /\ log'[p][i].orders = send_queue[p].orders
      BY <1>3, <1>9, <3>1
    <3> QED BY <1>6, <3>1, <3>2
  <2> QED BY <2>1, <2>2
<1>10. ASSUME peers[p] # {}, f > process_frame_delay, p \in NationsIn(queues)
       PROVE  \/ \E i \in DOMAIN log'[p] : log'[p][i].frame = f
              \/ SendFails(p) /\ s = f
  <2>1. CASE \E i \in DOMAIN log[p] : log[p][i].frame = f
    BY <1>7, <2>1
  <2>2. CASE pending \/ (Closes(p) /\ s = f)
    <3>1. Transmits(p) /\ s = f
      BY <2>2 DEF Transmits, pending
    <3> QED BY <1>7, <1>10, <3>1
  <2> QED BY <1>1, <1>2, <1>10, <2>1, <2>2
<1>11. SendFails(p) /\ s = f /\ fresh => QueueOf(queues, p) = send_queue[p].orders
  BY <1>6, <1>8
<1> QED BY <1>9, <1>10, <1>11 DEF queues, f, s

LEMMA StepOwnSlots ==
    ASSUME Types, Carried, SendTurns, OwnPresent, LogTurns, OwnSlots, Next PROVE OwnSlots'
<1> DEFINE Held(p, queues, f) ==
        /\ \A i \in DOMAIN log'[p] : First(p, i)' /\ log'[p][i].frame = f =>
              p \in NationsIn(queues) /\ QueueOf(queues, p) = log'[p][i].orders
        /\ peers'[p] # {} /\ f > process_frame_delay /\ p \in NationsIn(queues) =>
              \/ \E i \in DOMAIN log'[p] : log'[p][i].frame = f
              \/ ~remote_send_success_flag'[p] /\ send_queue'[p].frame = f
        /\ /\ ~remote_send_success_flag'[p] /\ send_queue'[p].frame = f
           /\ \A i \in DOMAIN log'[p] : log'[p][i].frame # f
           => QueueOf(queues, p) = send_queue'[p].orders
<1> SUFFICES ASSUME NEW p \in Nation, NEW k \in Slot
             PROVE  Held(p, receive_queue'[p][k].queues, frame_count'[p] + k)
  BY DEF OwnSlots
<1>1. frame_count[p] \in Nat /\ k \in Nat
  BY ConstantFact DEF Types, Slot
<1>2. CASE SlotFresh(p, k)
  <2>1. /\ Sync(p) /\ frame_count'[p] = frame_count[p] + 1 /\ k + 1 \notin Slot
        /\ receive_queue'[p][k].queues = << >>
    BY <1>2 DEF SlotFresh
  <2>2. remote_send_success_flag'[p]
    BY <2>1, SyncFact
  <2>3. NationsIn(<< >>) = {}
    BY EmptySeq DEF NationsIn
  <2>4. ASSUME NEW i \in DOMAIN log'[p] PROVE log'[p][i].frame # frame_count'[p] + k
    <3>1. frame_count'[p] + k >= frame_count[p] + RECEIVE_QUEUE_BACKUP
      BY <1>1, <2>1, ConstantFact DEF Slot
    <3>2. log'[p][i].frame \in Nat /\ log'[p][i].frame < frame_count[p] + RECEIVE_QUEUE_BACKUP
      <4>1. CASE i \in DOMAIN log[p]
        <5>a. log[p] \in Seq(Queue)
          BY DEF Types
        <5>b. log[p][i] \in Queue
          BY <4>1, <5>a, SeqFact
        <5>1. /\ log'[p][i] = log[p][i] /\ log[p][i].at \in Nat /\ log[p][i].frame \in Nat
          BY <4>1, <5>b, LogGrows DEF Queue
        <5>2. /\ log[p][i].at < NextFrame(p) /\ NextFrame(p) <= frame_count[p] + 1
              /\ NextFrame(p) \in Nat
              /\ log[p][i].frame <= next_send_frame(p, log[p][i].at + process_frame_delay)
          BY <4>1, StampFact DEF LogTurns
        <5>3. log[p][i].at + process_frame_delay \in Nat
          BY <5>1, ConstantFact
        <5>4. /\ next_send_frame(p, log[p][i].at + process_frame_delay) \in Nat
              /\ next_send_frame(p, log[p][i].at + process_frame_delay)
                    < log[p][i].at + process_frame_delay + alternating_send_rate
          BY <5>3, NextTurn
        <5> QED BY <1>1, <5>1, <5>2, <5>4, ConstantFact
      <4>2. CASE i \notin DOMAIN log[p]
        <5>1. log'[p][i].frame = send_queue[p].frame
          BY <4>2, LogGrows, OwnQueueType
        <5>2. send_queue[p].frame \in Nat /\ send_queue[p].frame - frame_count[p] \in Slot
          BY StampFact
        <5> QED BY <1>1, <5>1, <5>2, ConstantFact DEF Slot
      <4> QED BY <4>1, <4>2
    <3> QED BY <1>1, <2>1, <3>1, <3>2, ConstantFact
  <2> QED BY <2>1, <2>2, <2>3, <2>4
<1>3. ASSUME NEW l \in Slot, SlotKept(p, k, l), Sync(p) \/ SendFails(p)
      PROVE  Held(p, receive_queue'[p][k].queues, frame_count'[p] + k)
  <2> DEFINE queues == Received(p)[l].queues
             f == frame_count[p] + l
  <2>1. receive_queue'[p][k].queues = queues /\ frame_count'[p] + k = f /\ peers'[p] = peers[p]
    BY <1>3, PeersStep DEF SlotKept
  <2>2. /\ \A i \in DOMAIN log'[p] : First(p, i)' /\ log'[p][i].frame = f =>
              p \in NationsIn(queues) /\ QueueOf(queues, p) = log'[p][i].orders
        /\ peers[p] # {} /\ f > process_frame_delay /\ p \in NationsIn(queues) =>
              \/ \E i \in DOMAIN log'[p] : log'[p][i].frame = f
              \/ SendFails(p) /\ send_queue[p].frame = f
        /\ /\ SendFails(p) /\ send_queue[p].frame = f
           /\ \A i \in DOMAIN log[p] : log[p][i].frame # f
           => QueueOf(queues, p) = send_queue[p].orders
    BY <1>3, OwnReceived
  <2>3. SendFails(p) => /\ ~remote_send_success_flag'[p] /\ log' = log
                        /\ send_queue'[p].frame = send_queue[p].frame
                        /\ send_queue'[p].orders = send_queue[p].orders
    BY SendFailsFact
  <2>4. Sync(p) => remote_send_success_flag'[p]
    BY SyncFact
  <2> HIDE DEF queues, f
  <2>5. Held(p, queues, f)
    BY <1>3, <2>1, <2>2, <2>3, <2>4
  <2> QED BY <2>1, <2>5
<1>4. ASSUME NEW l \in Slot, SlotKept(p, k, l), ~Sync(p), ~SendFails(p)
      PROVE  Held(p, receive_queue'[p][k].queues, frame_count'[p] + k)
  <2> DEFINE queues == receive_queue'[p][k].queues
             old == receive_queue[p][k].queues
             f == frame_count[p] + k
  <2>1. /\ l = k /\ frame_count'[p] + k = f
        /\ \/ queues = old
           \/ \E q \in Queue : /\ queues = Append(old, q)
                               /\ \E m \in Nation \ {p} : \E i \in DOMAIN log[m] : q = log[m][i]
    BY <1>4 DEF SlotKept
  <2>2. log'[p] = log[p] /\ (peers'[p] # {} => peers[p] # {})
    BY <1>4, LogStep, PeersStep
  <2>3. /\ send_queue'[p].frame = send_queue[p].frame
        /\ remote_send_success_flag'[p] = remote_send_success_flag[p]
        /\ ~remote_send_success_flag[p] => send_queue'[p].orders = send_queue[p].orders
    BY <1>4, SendStep
  <2>4. old \in Seq(Queue) /\ \A m \in Nation : \A i \in DOMAIN log[m] : log[m][i].nation = m
    BY DEF Types, SlotType
  <2>5. (p \in NationsIn(queues) <=> p \in NationsIn(old)) /\ QueueOf(queues, p) = QueueOf(old, p)
    <3> HIDE DEF queues, old
    <3>1. ASSUME NEW q \in Queue, queues = Append(old, q), q.nation # p
          PROVE  /\ p \in NationsIn(queues) <=> p \in NationsIn(old)
                 /\ QueueOf(queues, p) = QueueOf(old, p)
      BY <2>4, <3>1, AppendQueue, QueueOfFact
    <3> QED BY <2>1, <2>4, <3>1
  <2>6. \A i \in DOMAIN log[p] : First(p, i)' <=> First(p, i)
    BY LogGrows
  <2>7. /\ \A i \in DOMAIN log[p] : First(p, i) /\ log[p][i].frame = f =>
              p \in NationsIn(old) /\ QueueOf(old, p) = log[p][i].orders
        /\ peers[p] # {} /\ f > process_frame_delay /\ p \in NationsIn(old) =>
              \/ \E i \in DOMAIN log[p] : log[p][i].frame = f
              \/ ~remote_send_success_flag[p] /\ send_queue[p].frame = f
        /\ /\ ~remote_send_success_flag[p] /\ send_queue[p].frame = f
           /\ \A i \in DOMAIN log[p] : log[p][i].frame # f
           => QueueOf(old, p) = send_queue[p].orders
    BY DEF OwnSlots
  <2> HIDE DEF queues, old, f
  <2>8. Held(p, queues, f)
    BY <2>2, <2>3, <2>5, <2>6, <2>7
  <2> QED BY <2>1, <2>8 DEF queues
<1> HIDE DEF Held
<1> QED BY <1>2, <1>3, <1>4, SlotStep

\* What processing a frame executes.
LEMMA ExecutedFact ==
    ASSUME Types, NEW p \in Nation, frame_count[p] < MaxFrame, ProcessFrame(p)
    PROVE  LET c == frame_count[p]
               queues == Received(p)[0].queues
           IN  /\ queues \in Seq(Queue)
               /\ executed'[p][c] = Process(queues, remote[p] \cup {p})
               /\ \A f \in 1 .. MaxFrame : f # c => executed'[p][f] = executed[p][f]
<1> DEFINE c == frame_count[p]
           queues == Received(p)[0].queues
           orders == Process(queues, remote[p] \cup {p})
<1>1. queues \in Seq(Queue)
  BY ReceivedFact, ConstantFact DEF SlotType
<1>2. orders \in Seq(Order)
  BY <1>1, ProcessFact
<1>3. executed' = [executed EXCEPT ![p][c] = orders]
  BY DEF ProcessFrame
<1>4. c \in 1 .. MaxFrame
  BY DEF Types
<1> HIDE DEF c, queues, orders
<1>5. executed'[p] = [executed[p] EXCEPT ![c] = orders]
  BY <1>3 DEF Types
<1>6. executed'[p][c] = orders /\ \A f \in 1 .. MaxFrame : f # c => executed'[p][f] = executed[p][f]
  BY <1>4, <1>5 DEF Types
<1> QED BY <1>1, <1>6 DEF c, queues, orders

LEMMA StepOwnExecuted ==
    ASSUME Types, Carried, SendTurns, OwnPresent, LogTurns, OwnSlots, OwnExecuted, Next
    PROVE  OwnExecuted'
<1> DEFINE Done(p, i) ==
        \A j \in DOMAIN log'[p][i].orders : \E k \in DOMAIN executed'[p][log'[p][i].frame] :
            executed'[p][log'[p][i].frame][k] = log'[p][i].orders[j]
<1> SUFFICES ASSUME NEW p \in Nation, NEW i \in DOMAIN log'[p], First(p, i)',
                    log'[p][i].frame < frame_count'[p]
             PROVE  Done(p, i)
  BY DEF OwnExecuted
<1>1. frame_count[p] \in Nat /\ frame_count[p] \in 1 .. MaxFrame
  BY ConstantFact DEF Types
<1>2. /\ \A q \in DOMAIN log[p] : /\ log[p][q].at \in Nat /\ log[p][q].frame \in Nat
                                  /\ log[p][q].frame > 0
      /\ send_queue[p].frame \in Nat
  <2>1. log[p] \in Seq(Queue) /\ send_queue[p] \in SendType
    BY DEF Types
  <2>2. ASSUME NEW q \in DOMAIN log[p]
        PROVE  log[p][q].at \in Nat /\ log[p][q].frame \in Nat /\ log[p][q].frame > 0
    <3>1. log[p][q] \in Queue
      BY <2>1, SeqFact
    <3>2. log[p][q].frame > process_frame_delay
      BY DEF LogTurns
    <3> QED BY <3>1, <3>2, ConstantFact DEF Queue
  <2> QED BY <2>1, <2>2 DEF SendType
<1>3. CASE i \in DOMAIN log[p] /\ log[p][i].frame < frame_count[p]
  <2>1. /\ First(p, i) /\ log'[p][i] = log[p][i]
    BY <1>3, LogGrows
  <2>2. executed'[p][log[p][i].frame] = executed[p][log[p][i].frame]
    <3>1. CASE Sync(p)
      <4>1. CASE executed'[p] = executed[p]
        BY <4>1
      <4>2. CASE ProcessFrame(p)
        <5>1. /\ frame_count[p] < MaxFrame
              /\ log[p][i].frame # frame_count[p] /\ log[p][i].frame \in 1 .. MaxFrame
          <6>1. frame_count[p] < MaxFrame
            BY <3>1, SyncFact
          <6>2. log[p][i].frame \in Nat /\ log[p][i].frame > 0
            BY <1>2, <1>3
          <6> QED BY <1>1, <1>3, <6>1, <6>2, ConstantFact
        <5> QED BY <4>2, <5>1, ExecutedFact
      <4> QED BY <3>1, <4>1, <4>2, FrameFact
    <3> QED BY <3>1, CountStep
  <2> QED BY <1>3, <2>1, <2>2 DEF OwnExecuted
<1>4. CASE ~(i \in DOMAIN log[p] /\ log[p][i].frame < frame_count[p])
  <2>1. /\ log'[p][i].frame \in Nat /\ log'[p][i].frame >= frame_count[p]
    <3>1. CASE i \in DOMAIN log[p]
      BY <1>1, <1>2, <1>4, <3>1, LogGrows
    <3>2. CASE i \notin DOMAIN log[p]
      <4>1. log'[p][i].frame = send_queue[p].frame
        BY <3>2, LogGrows, OwnQueueType
      <4>2. send_queue[p].frame - frame_count[p] \in Slot
        BY StampFact
      <4> QED BY <1>1, <1>2, <4>1, <4>2 DEF Slot
    <3> QED BY <3>1, <3>2
  <2>2. Sync(p) /\ frame_count'[p] # frame_count[p]
    BY <1>1, <2>1, CountStep
  <2>3. /\ frame_count[p] < MaxFrame /\ ProcessFrame(p)
        /\ frame_count'[p] = frame_count[p] + 1
    BY <2>2, SyncFact, FrameFact
  <2>4. log'[p][i].frame = frame_count[p] + 0 /\ 0 \in Slot
    BY <1>1, <2>1, <2>3, ConstantFact
  <2> DEFINE queues == Received(p)[0].queues
             c == frame_count[p]
  <2>5. QueueOf(queues, p) = log'[p][i].orders
    <3>1. \A l \in Slot : log'[p][i].frame = frame_count[p] + l =>
             QueueOf(Received(p)[l].queues, p) = log'[p][i].orders
      BY <2>2, OwnReceived
    <3> QED BY <2>4, <3>1
  <2>6. /\ queues \in Seq(Queue) /\ executed'[p][c] = Process(queues, remote[p] \cup {p})
    BY <2>3, ExecutedFact
  <2>7. c = log'[p][i].frame
    BY <1>1, <2>4
  <2> HIDE DEF queues, c
  <2>8. \A j \in DOMAIN QueueOf(queues, p) :
            \E k \in DOMAIN Process(queues, remote[p] \cup {p}) :
                Process(queues, remote[p] \cup {p})[k] = QueueOf(queues, p)[j]
    BY <2>6, ProcessFact
  <2> QED BY <2>5, <2>6, <2>7, <2>8
<1> QED BY <1>3, <1>4

-----------------------------------------------------------------------------
(* The first theorems *)

\* All that does not depend on timing.
IInv == /\ Types /\ Carried /\ SendTurns /\ SlotFrames /\ EmptyStart /\ OwnPresent
        /\ LogTurns /\ OwnSlots /\ OwnExecuted

LEMMA InitSlots ==
    ASSUME Init
    PROVE  SlotFrames /\ EmptyStart /\ OwnPresent /\ OwnSlots
<1> DEFINE Full(k) ==
        [n \in Nation |-> [nation |-> n, frame |-> 1 + k, orders |-> << >>, at |-> 0]]
<1>1. ASSUME NEW p \in Nation, NEW k \in Slot
      PROVE  /\ frame_count[p] = 1 /\ k \in Nat /\ log[p] = << >> /\ remote_send_success_flag[p]
             /\ receive_queue[p][k].queues =
                    IF k < process_frame_delay THEN Full(k) ELSE << >>
             /\ send_queue[p].frame = next_send_frame(p, 1 + process_frame_delay)
             /\ process_frame_delay \in Nat
  <2>1. receive_queue[p] = init_receive_queue(1)
    BY DEF Init
  <2>2. receive_queue[p][k].queues = IF k < process_frame_delay THEN Full(k) ELSE << >>
    BY <2>1, InitSlotType
  <2> HIDE DEF Full
  <2>3. /\ frame_count[p] = 1 /\ log[p] = << >> /\ remote_send_success_flag[p]
        /\ send_queue[p].frame = next_send_frame(p, 1 + process_frame_delay)
    BY DEF Init, init_send_queue
  <2>4. k \in Nat /\ process_frame_delay \in Nat
    BY ConstantFact DEF Slot
  <2> QED BY <2>2, <2>3, <2>4
<1>2. DOMAIN << >> = {} /\ NationsIn(<< >>) = {}
  BY EmptySeq DEF NationsIn
<1>3. ASSUME NEW k \in Slot, NEW n \in Nation, NEW queues, queues = Full(k)
      PROVE  /\ n \in NationsIn(queues) /\ QueueOf(queues, n) = << >>
             /\ \A i \in DOMAIN queues : queues[i].frame = 1 + k
  <2>1. {i \in DOMAIN queues : queues[i].nation = n} = {n}
    BY <1>3
  <2>2. {n} \in SUBSET Nat /\ \A i \in {n} : n <= i
    BY ConstantFact
  <2>3. Min({n}) = n
    BY <2>2, MinUnique
  <2>4. QueueOf(queues, n) = queues[n].orders
    BY <2>1, <2>3 DEF QueueOf
  <2> QED BY <1>3, <2>1, <2>4 DEF NationsIn
<1>a. ASSUME NEW k \in Slot, NEW i \in DOMAIN Full(k) PROVE Full(k)[i].frame = 1 + k
  OBVIOUS
<1> HIDE DEF Full
<1>4. SlotFrames
  <2> SUFFICES ASSUME NEW p \in Nation, NEW k \in Slot
               PROVE  \A i \in DOMAIN receive_queue[p][k].queues :
                        receive_queue[p][k].queues[i].frame = frame_count[p] + k
    BY DEF SlotFrames
  <2>1. CASE k < process_frame_delay
    <3>1. receive_queue[p][k].queues = Full(k) /\ frame_count[p] = 1
      BY <1>1, <2>1
    <3> QED BY <1>a, <3>1
  <2>2. CASE ~(k < process_frame_delay)
    BY <1>1, <1>2, <2>2
  <2> QED BY <2>1, <2>2
<1>5. EmptyStart
  <2> SUFFICES ASSUME NEW p \in Nation, NEW n \in Nation, NEW k \in Slot,
                      frame_count[p] + k <= process_frame_delay
               PROVE  /\ n \in NationsIn(receive_queue[p][k].queues)
                      /\ QueueOf(receive_queue[p][k].queues, n) = << >>
    BY DEF EmptyStart
  <2>1. frame_count[p] = 1 /\ k \in Nat /\ process_frame_delay \in Nat
    BY <1>1
  <2>2. k < process_frame_delay
    BY <2>1
  <2>3. receive_queue[p][k].queues = Full(k)
    BY <1>1, <2>2
  <2> QED BY <1>3, <2>3
<1>6. OwnPresent
  <2> SUFFICES ASSUME NEW p \in Nation, NEW k \in Slot,
                      has_send_frame(p, frame_count[p] + k),
                      \/ frame_count[p] + k < send_queue[p].frame
                      \/ frame_count[p] + k = send_queue[p].frame /\ ~remote_send_success_flag[p]
               PROVE  p \in NationsIn(receive_queue[p][k].queues)
    BY DEF OwnPresent
  <2>a. k \in Nat /\ process_frame_delay \in Nat
    BY <1>1
  <2>1. 1 + k \in Nat /\ 1 + process_frame_delay \in Nat
    BY <2>a
  <2>2. has_send_frame(p, 1 + k) /\ 1 + k < next_send_frame(p, 1 + process_frame_delay)
    BY <1>1
  <2>3. next_send_frame(p, 1 + process_frame_delay) \in Nat
    BY <2>1, NextTurn
  <2>4. ~(1 + process_frame_delay <= 1 + k)
    BY <2>1, <2>2, <2>3, NextTurnLeast
  <2>5. k < process_frame_delay
    BY <2>a, <2>4
  <2>6. receive_queue[p][k].queues = Full(k)
    BY <1>1, <2>5
  <2> QED BY <1>3, <2>6
<1>7. OwnSlots
  <2> SUFFICES ASSUME NEW p \in Nation, NEW k \in Slot
               PROVE  frame_count[p] + k > process_frame_delay =>
                        p \notin NationsIn(receive_queue[p][k].queues)
    BY <1>1, <1>2 DEF OwnSlots
  <2>1. frame_count[p] = 1 /\ k \in Nat /\ process_frame_delay \in Nat
    BY <1>1
  <2>2. frame_count[p] + k > process_frame_delay => ~(k < process_frame_delay)
    BY <2>1
  <2>3. ~(k < process_frame_delay) => receive_queue[p][k].queues = << >>
    BY <1>1
  <2> QED BY <1>2, <2>2, <2>3
<1> QED BY <1>4, <1>5, <1>6, <1>7

LEMMA InitTurns ==
    ASSUME Init
    PROVE  SendTurns /\ LogTurns /\ OwnExecuted
<1>1. \A p \in Nation :
        /\ frame_count[p] = 1 /\ log[p] = << >> /\ remote_send_success_flag[p]
        /\ next_frame_ready[p] = {}
        /\ send_queue[p].frame = next_send_frame(p, 1 + process_frame_delay)
        /\ send_queue[p].closed = FALSE
        /\ remote_send_success_flag[p] = TRUE
  BY DEF Init, init_send_queue
<1>2. DOMAIN << >> = {}
  BY EmptySeq
<1>3. LogTurns /\ OwnExecuted
  BY <1>1, <1>2 DEF LogTurns, OwnExecuted
<1>4. ASSUME NEW p \in Nation PROVE Turns(p)
  <2>1. NextFrame(p) = 1
    BY <1>1 DEF NextFrame, TurnTaken
  <2>2. 1 + process_frame_delay \in Nat /\ 1 \in Nat
    BY ConstantFact
  <2> DEFINE s == next_send_frame(p, 1 + process_frame_delay)
  <2>3. /\ has_send_frame(p, s) /\ s \in Nat /\ 1 + process_frame_delay <= s
        /\ next_send_frame(p, 1) + Ahead <= s
    BY <2>2, NextTurn, NextAhead
  <2>4. s > process_frame_delay
    <3> HIDE DEF s
    <3> QED BY <2>3, ConstantFact
  <2>5. s <= s
    <3> HIDE DEF s
    <3> QED BY <2>3
  <2>6. send_queue[p].closed = ~remote_send_success_flag[p]
    BY <1>1
  <2> QED BY <1>1, <2>1, <2>3, <2>4, <2>5, <2>6 DEF Turns
<1> QED BY <1>3, <1>4 DEF SendTurns, Turns

LEMMA InitInvariant == Init => IInv
BY InitTypes, InitSlots, InitTurns DEF IInv

LEMMA StepInvariant == IInv /\ [Next]_vars => IInv'
<1> SUFFICES ASSUME IInv, [Next]_vars PROVE IInv'
  OBVIOUS
<1> USE DEF IInv
<1>1. CASE Next
  <2>1. Types' /\ Carried'
    BY <1>1, StepTypes
  <2>2. SendTurns' /\ SlotFrames' /\ EmptyStart' /\ OwnPresent'
    BY <1>1, StepSendTurns, StepSlotFrames, StepEmptyStart, StepOwnPresent
  <2>3. LogTurns' /\ OwnSlots' /\ OwnExecuted'
    BY <1>1, StepLogTurns, StepOwnSlots, StepOwnExecuted
  <2> QED BY <2>1, <2>2, <2>3
<1>2. CASE UNCHANGED vars
  <2>1. /\ UNCHANGED <<frame_count, remote, next_frame_ready, remote_send_success_flag,
                        send_queue, receive_queue, mp_save_frame, executed, saved>>
        /\ UNCHANGED <<issued, log, peers, sent, got>>
    BY <1>2 DEF vars, local, multicast
  <2>2. Types' /\ Carried'
    BY <2>1 DEF Types, Carried
  <2>3. \A p \in Nation : NextFrame(p)' = NextFrame(p)
    BY <2>1 DEF NextFrame, TurnTaken
  <2>4. SendTurns' /\ LogTurns'
    BY <2>1, <2>3 DEF SendTurns, LogTurns
  <2>5. \A p, i : First(p, i)' <=> First(p, i)
    BY <2>1 DEF First
  <2>6. OwnSlots' /\ OwnExecuted'
    BY <2>1, <2>5 DEF OwnSlots, OwnExecuted
  <2>7. SlotFrames' /\ EmptyStart' /\ OwnPresent'
    BY <2>1 DEF SlotFrames, EmptyStart, OwnPresent
  <2> QED BY <2>2, <2>4, <2>6, <2>7
<1> QED BY <1>1, <1>2

(* Invariance.  A machine's turns, stamps, slots and log keep the relation  *)
(* that the proofs below rest on, however messages travel.                  *)
THEOREM Invariance == Spec => []IInv
BY InitInvariant, StepInvariant, PTL DEF Spec

(* Types.  Every variable keeps its type, and slot k of the receive queue   *)
(* is always the one for k frames ahead.                                    *)
THEOREM TypeCorrect == Spec => []TypeOK
<1>1. IInv => TypeOK
  <2> SUFFICES ASSUME Types PROVE TypeOK
    BY DEF IInv
  <2>1. ASSUME NEW p \in Nation
        PROVE  /\ send_queue[p].frame \in Nat /\ send_queue[p].closed \in BOOLEAN
               /\ \A i \in DOMAIN send_queue[p].orders : send_queue[p].orders[i] \in Order
    <3>1. send_queue[p].frame \in Nat /\ send_queue[p].closed \in BOOLEAN
          /\ send_queue[p].orders \in Seq(Order)
      BY DEF Types, SendType
    <3> QED BY <3>1, SeqFact
  <2>2. ASSUME NEW p \in Nation, NEW i \in DOMAIN log[p]
        PROVE  log[p][i].frame \in Nat
    <3>1. log[p] \in Seq(Queue)
      BY DEF Types
    <3>2. log[p][i] \in Queue
      BY <3>1, SeqFact
    <3> QED BY <3>2 DEF Queue
  <2> QED BY <2>1, <2>2 DEF Types, TypeOK
<1> QED BY <1>1, Invariance, PTL

\* When the delay is a multiple of the rate, each queue has a stamp of its own.
LEMMA StampsDiffer ==
    ASSUME IInv, process_frame_delay % alternating_send_rate = 0,
           NEW p \in Nation, NEW i \in DOMAIN log[p]
    PROVE  First(p, i)
<1>1. log[p] \in Seq(Queue) /\ LogTurns
  BY DEF IInv, Types
<1>2. ASSUME NEW j \in DOMAIN log[p]
      PROVE  /\ log[p][j].frame \in Nat /\ log[p][j].at \in Nat
             /\ log[p][j].frame = log[p][j].at + Ahead
  <2>1. log[p][j] \in Queue
    BY <1>1, SeqFact
  <2>2. log[p][j].frame \in Nat /\ log[p][j].at \in Nat /\ has_send_frame(p, log[p][j].at)
        /\ log[p][j].at + Ahead <= log[p][j].frame
        /\ log[p][j].frame <= next_send_frame(p, log[p][j].at + process_frame_delay)
    BY <1>1, <2>1 DEF LogTurns, Queue
  <2>3. next_send_frame(p, log[p][j].at + process_frame_delay) = log[p][j].at + Ahead
    BY <2>2, NextBehind
  <2> QED BY <2>2, <2>3, AheadFact
<1>3. ASSUME NEW j \in DOMAIN log[p], j < i PROVE log[p][j].frame # log[p][i].frame
  <2>1. log[p][j].at < log[p][i].at
    BY <1>1, <1>3 DEF LogTurns
  <2> QED BY <1>2, <2>1, AheadFact
<1> QED BY <1>3 DEF First

(* Nothing is lost at home.  If the delay is a multiple of the rate, all    *)
(* orders a machine sends are executed by that machine itself.  (Otherwise  *)
(* the second queue may bear the stamp of the first, see run ls_stamp.)     *)
THEOREM OwnOrders ==
    ASSUME process_frame_delay % alternating_send_rate = 0
    PROVE  Spec => []OwnOrdersExecuted
<1>1. IInv => OwnOrdersExecuted
  BY StampsDiffer DEF IInv, OwnExecuted, OwnOrdersExecuted
<1> QED BY <1>1, Invariance, PTL

-----------------------------------------------------------------------------
(* Timing *)

LEMMA TogetherStep ==
    ASSUME Types, Carried, Next, NEW p \in Nation, Together(p)'
    PROVE  Together(p)
<1> SUFFICES ASSUME NEW q \in Nation \ {p} PROVE q \in peers[p] /\ p \in peers[q]
  BY DEF Together
<1>1. q \in peers'[p] /\ p \in peers'[q]
  BY DEF Together
<1> QED BY <1>1, PeersStep

\* What has been taken in stays so; more of it comes by poll_msg.
LEMMA GotStep ==
    ASSUME Types, Carried, Next, NEW p \in Nation, NEW n \in Nation
    PROVE  \/ got'[p][n] = got[p][n]
           \/ \E m \in 0 .. sent[n] - 1 : PollMsg(p, n, m) /\ got'[p][n] = got[p][n] \cup {m}
<1>1. ASSUME NEW q \in Nation, GiveOrder(q) \/ SendFails(q) \/ Sync(q) PROVE got' = got
  BY <1>1, GiveOrderFact, SendFailsFact, SyncFact
<1>2. ASSUME NEW q \in Nation, NEW l \in Nation, NEW m \in 0 .. sent[l] - 1, PollMsg(q, l, m)
      PROVE  \/ got'[p][n] = got[p][n]
             \/ PollMsg(p, n, m) /\ got'[p][n] = got[p][n] \cup {m} /\ m \in 0 .. sent[n] - 1
  <2>1. /\ got'[q][l] = got[q][l] \cup {m}
        /\ \A i, j \in Nation : i # q \/ j # l => got'[i][j] = got[i][j]
    BY <1>2, PollFact
  <2> QED BY <1>2, <2>1
<1>3. ASSUME NEW q \in Nation, NEW m \in Nation, LoseConnection(q, m) PROVE got' = got
  BY <1>3 DEF LoseConnection, Multicast!Disconnect
<1> QED BY <1>1, <1>2, <1>3 DEF Next

\* A machine goes on to the next frame in time only.
LEMMA CountFact ==
    ASSUME Types, Carried, Next, NEW p \in Nation
    PROVE  /\ frame_count[p] \in Nat /\ frame_count'[p] \in {frame_count[p], frame_count[p] + 1}
           /\ frame_count'[p] # frame_count[p] => Sync(p) /\ ProcessFrame(p) /\ Timely(p)
<1>1. frame_count[p] \in Nat
  BY ConstantFact DEF Types
<1>2. CASE Sync(p)
  <2>1. ProcessFrame(p) => Timely(p)
    BY DEF ProcessFrame
  <2> QED BY <1>1, <1>2, <2>1, FrameFact
<1> QED BY <1>1, <1>2, CountStep

\* What the log says in numbers.
LEMMA LogFact ==
    ASSUME Types, Carried, SendTurns, LogTurns, NEW n \in Nation, NEW i \in DOMAIN log[n]
    PROVE  /\ log[n][i].at \in Nat /\ log[n][i].frame \in Nat /\ i \in Nat \ {0}
           /\ i - 1 \in 0 .. sent[n] - 1
           /\ log[n][i].at <= frame_count[n]
           /\ log[n][i].at + Ahead <= log[n][i].frame
           /\ log[n][i].frame < frame_count[n] + process_frame_delay + alternating_send_rate
           /\ log[n][i].frame > process_frame_delay
<1>1. log[n] \in Seq(Queue) /\ Len(log[n]) = sent[n] /\ sent[n] \in Nat
  BY DEF Types, Carried
<1>2. log[n][i] \in Queue /\ i \in 1 .. sent[n]
  BY <1>1, SeqFact
<1>3. log[n][i].at \in Nat /\ log[n][i].frame \in Nat
  BY <1>2 DEF Queue
<1>4. /\ frame_count[n] \in Nat /\ NextFrame(n) \in Nat /\ NextFrame(n) <= frame_count[n] + 1
  BY StampFact DEF Types
<1>5. /\ log[n][i].at + Ahead <= log[n][i].frame
      /\ log[n][i].frame <= next_send_frame(n, log[n][i].at + process_frame_delay)
      /\ log[n][i].at < NextFrame(n) /\ log[n][i].frame > process_frame_delay
  BY DEF LogTurns
<1>6. log[n][i].at + process_frame_delay \in Nat
  BY <1>3, ConstantFact
<1>7. /\ next_send_frame(n, log[n][i].at + process_frame_delay) \in Nat
      /\ next_send_frame(n, log[n][i].at + process_frame_delay)
            < log[n][i].at + process_frame_delay + alternating_send_rate
  BY <1>6, NextTurn
<1>8. i \in Nat \ {0} /\ i - 1 \in 0 .. sent[n] - 1
  BY <1>1, <1>2
<1>9. log[n][i].at <= frame_count[n]
  BY <1>3, <1>4, <1>5
<1> QED BY <1>3, <1>4, <1>5, <1>7, <1>8, <1>9, ConstantFact

LEMMA StepNear ==
    ASSUME Types, Carried, Next, NEW p \in Nation, NEW n \in Nation \ {p}, Together(p), Near(p, n)
    PROVE  Near(p, n)'
<1>1. /\ frame_count[p] \in Nat /\ frame_count'[p] \in {frame_count[p], frame_count[p] + 1}
      /\ frame_count[n] \in Nat /\ frame_count'[n] \in {frame_count[n], frame_count[n] + 1}
      /\ frame_count'[p] # frame_count[p] => Timely(p)
      /\ frame_count'[n] # frame_count[n] => Timely(n)
  BY CountFact
<1>2. n \in peers[p] /\ p \in peers[n]
  BY DEF Together
<1>3. /\ Timely(p) => frame_count[p] < frame_count[n] + Skew
      /\ Timely(n) => frame_count[n] < frame_count[p] + Skew
  BY <1>2 DEF Timely
<1>4. /\ frame_count[p] <= frame_count[n] + Skew /\ frame_count[n] <= frame_count[p] + Skew
  BY DEF Near
<1> DEFINE a == frame_count[p]
           b == frame_count[n]
           c == frame_count'[p]
           d == frame_count'[n]
<1>5. /\ a \in Nat /\ c \in {a, a + 1} /\ b \in Nat /\ d \in {b, b + 1}
      /\ c # a => a < b + Skew
      /\ d # b => b < a + Skew
      /\ a <= b + Skew /\ b <= a + Skew
  BY <1>1, <1>3, <1>4
<1> HIDE DEF a, b, c, d
<1>6. c <= d + Skew /\ d <= c + Skew
  BY <1>5, ConstantFact
<1> QED BY <1>6 DEF Near, c, d

LEMMA StepArrived ==
    ASSUME Types, Carried, SendTurns, LogTurns, Next, Latency > 0,
           NEW p \in Nation, NEW n \in Nation \ {p}, Together(p), Arrived(p, n)
    PROVE  Arrived(p, n)'
<1> SUFFICES ASSUME NEW i \in DOMAIN log'[n],
                    log'[n][i].at + Latency < frame_count'[n]
             PROVE  i - 1 \in got'[p][n]
  BY DEF Arrived
<1>1. got[p][n] \subseteq got'[p][n]
  BY GotStep
<1>2. /\ frame_count[n] \in Nat /\ frame_count'[n] \in {frame_count[n], frame_count[n] + 1}
      /\ frame_count'[n] # frame_count[n] => Timely(n)
  BY CountFact
<1>3. CASE i \in DOMAIN log[n]
  <2>1. /\ log'[n][i] = log[n][i] /\ log[n][i].at \in Nat
        /\ i - 1 \in 0 .. sent[n] - 1 /\ i \in Nat
    BY <1>3, LogGrows, LogFact
  <2>2. CASE log[n][i].at + Latency < frame_count[n]
    BY <1>1, <1>3, <2>2 DEF Arrived
  <2>3. CASE ~(log[n][i].at + Latency < frame_count[n])
    <3>1. Timely(n) /\ log[n][i].at + Latency <= frame_count[n]
      BY <1>2, <2>1, <2>3, ConstantFact
    <3>2. p \in peers[n]
      BY DEF Together
    <3>3. log[n][(i - 1) + 1].at + Latency <= frame_count[n] => i - 1 \in got[p][n]
      BY <2>1, <3>1, <3>2 DEF Timely
    <3>4. (i - 1) + 1 = i
      BY <2>1
    <3> QED BY <1>1, <3>1, <3>3, <3>4
  <2> QED BY <2>2, <2>3
<1>4. CASE i \notin DOMAIN log[n]
  <2>1. log'[n][i].at = frame_count[n]
    BY <1>4, LogGrows, OwnQueueType
  <2> QED BY <1>2, <2>1, ConstantFact
<1> QED BY <1>3, <1>4

LEMMA StepInOrder ==
    ASSUME IInv, Next, Latency > 0,
           \/ process_frame_delay % alternating_send_rate = 0
           \/ Window <= 1
           \/ Latency < alternating_send_rate,
           NEW p \in Nation, NEW n \in Nation \ {p}, Arrived(p, n), InOrder(p, n)
    PROVE  InOrder(p, n)'
<1> USE DEF IInv
<1> SUFFICES ASSUME NEW i \in DOMAIN log'[n], NEW j \in DOMAIN log'[n],
                    j < i, log'[n][j].frame = log'[n][i].frame, i - 1 \in got'[p][n]
             PROVE  j - 1 \in got'[p][n]
  BY DEF InOrder
<1>0. Types /\ Carried /\ SendTurns /\ LogTurns
  OBVIOUS
<1>a. got[p][n] \subseteq got'[p][n]
  BY <1>0, GotStep
<1>b. got[p][n] \subseteq 0 .. sent[n] - 1
  BY DEF Carried
<1>1. got[p][n] \subseteq got'[p][n] /\ got[p][n] \subseteq 0 .. sent[n] - 1
  BY <1>a, <1>b
<1>2. sent[n] \in Nat /\ Len(log[n]) = sent[n] /\ log[n] \in Seq(Queue)
      /\ DOMAIN log[n] = 1 .. Len(log[n])
  BY SeqFact DEF Types, Carried
<1>3. i \in DOMAIN log[n] /\ j \in DOMAIN log[n]
  <2>1. i - 1 \in 0 .. sent[n] - 1
    BY <1>1, GotStep
  <2>2. i \in DOMAIN log[n]
    BY <1>2, <2>1, LogGrows
  <2>3. j \in DOMAIN log[n]
    BY <1>2, <2>2, LogGrows
  <2> QED BY <2>2, <2>3
<1>4. /\ log'[n][i] = log[n][i] /\ log'[n][j] = log[n][j]
      /\ i \in Nat \ {0} /\ j \in Nat \ {0}
  BY <1>3, LogGrows
<1>5. CASE i - 1 \in got[p][n]
  BY <1>1, <1>3, <1>4, <1>5 DEF InOrder
<1>6. CASE i - 1 \notin got[p][n]
  <2>1. PICK m \in 0 .. sent[n] - 1 : PollMsg(p, n, m) /\ got'[p][n] = got[p][n] \cup {m}
    BY <1>6, GotStep
  <2>2. m = i - 1
    BY <1>6, <2>1
  <2>3. CASE process_frame_delay % alternating_send_rate = 0
    <3>1. First(n, i)
      BY <1>3, <2>3, StampsDiffer
    <3> QED BY <1>3, <1>4, <3>1 DEF First
  <2>4. CASE Window <= 1
    <3>1. 0 .. m - Window \subseteq got[p][n]
      BY <2>1, PollFact
    <3>2. j - 1 \in 0 .. m - Window
      BY <1>4, <2>2, <2>4, ConstantFact
    <3> QED BY <1>1, <3>1, <3>2
  <2>5. CASE Latency < alternating_send_rate
    <3>a. frame_count[n] \in Nat
      BY ConstantFact DEF Types
    <3>b. /\ log[n][j].at \in Nat /\ log[n][i].at \in Nat
          /\ log[n][i].at <= frame_count[n]
      BY <1>0, <1>3, LogFact
    <3>1. /\ log[n][j].at \in Nat /\ log[n][i].at \in Nat
          /\ log[n][i].at <= frame_count[n] /\ frame_count[n] \in Nat
      BY <3>a, <3>b
    <3>2. /\ has_send_frame(n, log[n][j].at) /\ has_send_frame(n, log[n][i].at)
          /\ log[n][j].at < log[n][i].at
      BY <1>3 DEF LogTurns
    <3>3. log[n][j].at + alternating_send_rate <= log[n][i].at
      BY <3>1, <3>2, TurnsApart
    <3>4. log[n][j].at + Latency < frame_count[n]
      BY <2>5, <3>1, <3>3, ConstantFact
    <3> QED BY <1>1, <1>3, <3>4 DEF Arrived
  <2> QED BY <2>3, <2>4, <2>5
<1> QED BY <1>5, <1>6

LEMMA StepDrift ==
    ASSUME InTime, IInv, Drift, Next PROVE Drift'
<1> SUFFICES ASSUME NEW p \in Nation, Together(p)'
             PROVE  /\ remote'[p] = Nation \ {p}
                    /\ \A n \in Nation \ {p} : Near(p, n)' /\ Arrived(p, n)' /\ InOrder(p, n)'
  BY DEF Drift
<1>1. /\ Together(p) /\ remote[p] = Nation \ {p}
      /\ \A n \in Nation \ {p} : Near(p, n) /\ Arrived(p, n) /\ InOrder(p, n)
  BY TogetherStep DEF Drift, IInv
<1>2. \A n \in Nation \ {p} : Near(p, n)' /\ Arrived(p, n)' /\ InOrder(p, n)'
  BY <1>1, StepNear, StepArrived, StepInOrder DEF InTime, IInv
<1>3. remote'[p] = Nation \ {p}
  <2>1. CASE Sync(p)
    <3>1. ~TakeOver(p)
      <4>1. \A n \in Unready(p) : n \in peers[p]
        BY <1>1 DEF Unready, Together
      <4> QED BY <4>1 DEF TakeOver
    <3> QED BY <1>1, <2>1, <3>1, FrameFact DEF IInv
  <2>2. CASE ~Sync(p)
    BY <1>1, <2>2, CountStep DEF IInv
  <2> QED BY <2>1, <2>2
<1> QED BY <1>2, <1>3

\* No queue of a connected machine is further ahead than p has slots.
LEMMA LogBelow ==
    ASSUME InTime, Types, Carried, SendTurns, LogTurns, NEW p \in Nation, NEW n \in Nation \ {p},
           Near(p, n), NEW i \in DOMAIN log[n]
    PROVE  log[n][i].frame < frame_count[p] + RECEIVE_QUEUE_BACKUP
<1>1. /\ log[n][i].frame \in Nat
      /\ log[n][i].frame < frame_count[n] + process_frame_delay + alternating_send_rate
  BY LogFact
<1>a. frame_count[n] \in Nat /\ frame_count[p] \in Nat
  <2>1. frame_count[n] \in 1 .. MaxFrame /\ frame_count[p] \in 1 .. MaxFrame
    BY DEF Types
  <2> QED BY <2>1, ConstantFact
<1>b. frame_count[n] <= frame_count[p] + Skew
  BY DEF Near
<1>2. frame_count[n] \in Nat /\ frame_count[p] \in Nat /\ frame_count[n] <= frame_count[p] + Skew
  BY <1>a, <1>b
<1>3. Skew + process_frame_delay + alternating_send_rate <= RECEIVE_QUEUE_BACKUP
  BY DEF InTime
<1> QED BY <1>1, <1>2, <1>3, ConstantFact

LEMMA StepHeardSlots ==
    ASSUME InTime, IInv, Drift, HeardSlots, Next PROVE HeardSlots'
<1> DEFINE Heard(p, n, queues, f) ==
        /\ \A i \in DOMAIN log[n] : First(n, i) /\ log[n][i].frame = f /\ i - 1 \in got[p][n] =>
              n \in NationsIn(queues) /\ QueueOf(queues, n) = log[n][i].orders
        /\ f > process_frame_delay /\ n \in NationsIn(queues) =>
              \E i \in DOMAIN log[n] : log[n][i].frame = f /\ i - 1 \in got[p][n]
           Hears(p, n, queues, f) ==
        /\ \A i \in DOMAIN log[n] : First(n, i) /\ log[n][i].frame = f /\ i - 1 \in got'[p][n] =>
              n \in NationsIn(queues) /\ QueueOf(queues, n) = log[n][i].orders
        /\ f > process_frame_delay /\ n \in NationsIn(queues) =>
              \E i \in DOMAIN log[n] : log[n][i].frame = f /\ i - 1 \in got'[p][n]
           Holds(p, n, queues, f) ==
        /\ \A i \in DOMAIN log'[n] :
              First(n, i)' /\ log'[n][i].frame = f /\ i - 1 \in got'[p][n] =>
                  n \in NationsIn(queues) /\ QueueOf(queues, n) = log'[n][i].orders
        /\ f > process_frame_delay /\ n \in NationsIn(queues) =>
              \E i \in DOMAIN log'[n] : log'[n][i].frame = f /\ i - 1 \in got'[p][n]
<1> USE DEF IInv
<1> SUFFICES ASSUME NEW p \in Nation, Together(p)', NEW n \in Nation \ {p}, NEW k \in Slot
             PROVE  Holds(p, n, receive_queue'[p][k].queues, frame_count'[p] + k)
  BY DEF HeardSlots
<1>0. Types /\ Carried /\ SendTurns /\ LogTurns
  OBVIOUS
<1>1. /\ Together(p) /\ Near(p, n) /\ InOrder(p, n)
  BY <1>0, TogetherStep DEF Drift
<1>2. \A l \in Slot : Heard(p, n, receive_queue[p][l].queues, frame_count[p] + l)
  BY <1>1 DEF HeardSlots
<1>3. /\ \A i \in DOMAIN log[n] : /\ i \in DOMAIN log'[n] /\ log'[n][i] = log[n][i]
                                  /\ First(n, i)' <=> First(n, i)
      /\ \A i \in DOMAIN log'[n] : i \notin DOMAIN log[n] => i = sent[n] + 1
  BY <1>0, LogGrows DEF Carried
<1>4. got'[p][n] \subseteq 0 .. sent[n] - 1 /\ got[p][n] \subseteq got'[p][n]
  BY <1>0, GotStep DEF Carried
<1>5. ASSUME NEW i \in DOMAIN log'[n], i - 1 \in got'[p][n] PROVE i \in DOMAIN log[n]
  <2>1. i # sent[n] + 1
    <3>1. sent[n] \in Nat
      BY DEF Carried
    <3>2. i - 1 \in 0 .. sent[n] - 1
      BY <1>4, <1>5
    <3> QED BY <3>1, <3>2
  <2> QED BY <1>3, <2>1
<1>6. ASSUME NEW queues, NEW f, Hears(p, n, queues, f) PROVE Holds(p, n, queues, f)
  BY <1>3, <1>5, <1>6
<1>7. ASSUME SlotFresh(p, k)
      PROVE  Hears(p, n, receive_queue'[p][k].queues, frame_count'[p] + k)
  <2>1. /\ frame_count'[p] = frame_count[p] + 1 /\ k + 1 \notin Slot
        /\ receive_queue'[p][k].queues = << >>
    BY <1>7 DEF SlotFresh
  <2>2. frame_count'[p] + k >= frame_count[p] + RECEIVE_QUEUE_BACKUP
    <3>1. frame_count[p] \in Nat
      BY ConstantFact DEF Types
    <3>2. k \in Nat /\ k + 1 >= RECEIVE_QUEUE_BACKUP
      BY <2>1, ConstantFact DEF Slot
    <3> QED BY <2>1, <3>1, <3>2, ConstantFact
  <2>3. ASSUME NEW i \in DOMAIN log[n] PROVE log[n][i].frame # frame_count'[p] + k
    <3>1. log[n][i].frame < frame_count[p] + RECEIVE_QUEUE_BACKUP
      BY <1>0, <1>1, LogBelow
    <3>2. log[n][i].frame \in Nat
      BY <1>0, LogFact
    <3>3. frame_count[p] \in Nat /\ k \in Nat
      BY ConstantFact DEF Slot, Types
    <3> QED BY <2>1, <2>2, <3>1, <3>2, <3>3, ConstantFact
  <2>4. NationsIn(<< >>) = {}
    BY EmptySeq DEF NationsIn
  <2> QED BY <2>1, <2>3, <2>4
<1>8. ASSUME NEW l \in Slot, SlotKept(p, k, l), Sync(p) \/ SendFails(p)
      PROVE  Hears(p, n, receive_queue'[p][k].queues, frame_count'[p] + k)
  <2>1. /\ receive_queue'[p][k].queues = Received(p)[l].queues
        /\ frame_count'[p] + k = frame_count[p] + l
    BY <1>8 DEF SlotKept
  <2>2. got' = got
    BY <1>0, <1>8, SyncFact, SendFailsFact
  <2> DEFINE new == Received(p)[l].queues
             old == receive_queue[p][l].queues
             f == frame_count[p] + l
  <2>3. (n \in NationsIn(new) <=> n \in NationsIn(old)) /\ QueueOf(new, n) = QueueOf(old, n)
    <3>1. NationsIn(new) = NationsIn(old) \cup (IF Closes(p) /\ send_queue[p].frame = f THEN {p} ELSE {})
          /\ QueueOf(new, n) = QueueOf(old, n)
      BY <1>0, ReceivedSlots
    <3> HIDE DEF new, old, f
    <3> QED BY <3>1
  <2>4. Heard(p, n, old, f)
    BY <1>2
  <2> HIDE DEF new, old, f
  <2>5. Hears(p, n, new, f)
    BY <2>2, <2>3, <2>4
  <2> QED BY <2>1, <2>5 DEF new, f
<1>9. ASSUME NEW l \in Slot, SlotKept(p, k, l), ~Sync(p), ~SendFails(p)
      PROVE  Hears(p, n, receive_queue'[p][k].queues, frame_count'[p] + k)
  <2> DEFINE new == receive_queue'[p][k].queues
             old == receive_queue[p][k].queues
             f == frame_count[p] + k
  <2>1. /\ frame_count'[p] + k = f
        /\ \/ new = old
           \/ \E q \in Queue : /\ new = Append(old, q)
                               /\ \E m \in Nation \ {p} : \E i \in DOMAIN log[m] : q = log[m][i]
    BY <1>9 DEF SlotKept
  <2>2. old \in Seq(Queue) /\ \A m \in Nation : \A i \in DOMAIN log[m] : log[m][i].nation = m
    BY DEF Types, SlotType
  <2>3. Heard(p, n, old, f)
    BY <1>2
  <2>4. CASE \E m \in 0 .. sent[n] - 1 : PollMsg(p, n, m)
    <3>1. PICK m \in 0 .. sent[n] - 1 : PollMsg(p, n, m)
      BY <2>4
    <3> DEFINE q == log[n][m + 1]
               i == m + 1
    <3>2. /\ i \in DOMAIN log[n] /\ q \in Queue /\ m \notin got[p][n]
          /\ got'[p][n] = got[p][n] \cup {m}
          /\ receive_queue'[p] = Enqueue(receive_queue[p], q)
      BY <1>0, <3>1, PollFact
    <3>3. q = log[n][i] /\ i - 1 = m /\ i \in Nat /\ q.nation = n
      BY <2>2, <3>2
    <3>a. \A j \in DOMAIN log[n] : j \in Nat /\ j - 1 \in Int
      BY <1>0, LogFact
    <3> HIDE DEF q, i
    <3>4. /\ q.frame = f => new = Append(old, q)
          /\ q.frame # f => new = old
      <4> DEFINE rq == receive_queue[p]
      <4>1. rq \in [Slot -> SlotType] /\ rq[k].frame = f
        BY DEF Types
      <4> HIDE DEF rq
      <4>2. /\ q.frame = rq[k].frame => Enqueue(rq, q)[k].queues = Append(rq[k].queues, q)
            /\ q.frame # rq[k].frame => Enqueue(rq, q)[k].queues = rq[k].queues
        BY <3>2, <4>1, EnqueueFact
      <4> QED BY <3>2, <4>1, <4>2 DEF rq
    <3> HIDE DEF new, old, f
    <3>5. CASE q.frame # f
      <4>1. \A j \in DOMAIN log[n] : log[n][j].frame = f =>
                (j - 1 \in got'[p][n] <=> j - 1 \in got[p][n])
        <5> SUFFICES ASSUME NEW j \in DOMAIN log[n], log[n][j].frame = f, j - 1 = m PROVE FALSE
          BY <3>2
        <5>1. j = i
          BY <3>3, <3>a
        <5> QED BY <3>3, <3>5, <5>1
      <4>2. Hears(p, n, new, f)
        BY <2>3, <3>4, <3>5, <4>1
      <4> QED BY <2>1, <4>2 DEF new
    <3>6. CASE q.frame = f
      <4>1. /\ NationsIn(new) = NationsIn(old) \cup {n}
            /\ n \in NationsIn(old) => QueueOf(new, n) = QueueOf(old, n)
            /\ n \notin NationsIn(old) => QueueOf(new, n) = q.orders
        <5>1. /\ NationsIn(Append(old, q)) = NationsIn(old) \cup {q.nation}
              /\ QueueOf(Append(old, q), n) =
                        IF n \in NationsIn(old) THEN QueueOf(old, n)
                        ELSE IF q.nation = n THEN q.orders ELSE << >>
          BY <2>2, <3>2, AppendQueue
        <5> QED BY <3>3, <3>4, <3>6, <5>1
      <4>2. \E j \in DOMAIN log[n] : log[n][j].frame = f /\ j - 1 \in got'[p][n]
        BY <3>2, <3>3, <3>6
      <4>3. First(n, i) => n \notin NationsIn(old)
        <5> SUFFICES ASSUME First(n, i), n \in NationsIn(old) PROVE FALSE
          OBVIOUS
        <5>1. f > process_frame_delay
          BY <1>0, <3>2, <3>3, <3>6, LogFact
        <5>2. PICK j \in DOMAIN log[n] : log[n][j].frame = f /\ j - 1 \in got[p][n]
          BY <2>3, <5>1
        <5>3. j # i
          BY <3>2, <3>3, <5>2
        <5>4. ~(j < i)
          BY <3>3, <3>6, <5>2 DEF First
        <5>5. i < j
          BY <3>3, <3>a, <5>3, <5>4
        <5>6. i - 1 \in got[p][n]
          BY <1>1, <3>2, <3>3, <3>6, <5>2, <5>5 DEF InOrder
        <5> QED BY <3>2, <3>3, <5>6
      <4>4. ASSUME NEW j \in DOMAIN log[n], First(n, j), log[n][j].frame = f, j - 1 \in got'[p][n]
            PROVE  n \in NationsIn(new) /\ QueueOf(new, n) = log[n][j].orders
        <5>1. CASE j - 1 \in got[p][n]
          BY <2>3, <4>1, <4>4, <5>1
        <5>2. CASE j - 1 \notin got[p][n]
          <6>1. j = i
            BY <3>2, <3>3, <3>a, <4>4, <5>2
          <6> QED BY <3>3, <4>1, <4>3, <4>4, <6>1
        <5> QED BY <5>1, <5>2
      <4>5. Hears(p, n, new, f)
        BY <4>2, <4>4
      <4> QED BY <2>1, <4>5 DEF new
    <3> QED BY <3>5, <3>6
  <2>5. CASE ~\E m \in 0 .. sent[n] - 1 : PollMsg(p, n, m)
    <3>1. got'[p][n] = got[p][n]
      BY <1>0, <2>5, GotStep
    <3>2. (n \in NationsIn(new) <=> n \in NationsIn(old)) /\ QueueOf(new, n) = QueueOf(old, n)
      <4>1. new = old \/ \E q \in Queue : new = Append(old, q) /\ q.nation # n
        <5>1. ASSUME NEW q \in Nation, NEW l2 \in Nation, NEW m \in 0 .. sent[l2] - 1,
                     PollMsg(q, l2, m)
              PROVE  new = old \/ \E x \in Queue : new = Append(old, x) /\ x.nation # n
          <6>1. /\ m + 1 \in DOMAIN log[l2] /\ log[l2][m + 1] \in Queue
                /\ receive_queue'[q] = Enqueue(receive_queue[q], log[l2][m + 1])
                /\ \A j \in Nation : j # q => receive_queue'[j] = receive_queue[j]
            BY <1>0, <5>1, PollFact
          <6>2. CASE q = p
            <7>1. log[l2][m + 1].nation # n
              BY <2>2, <2>5, <5>1, <6>1, <6>2
            <7> DEFINE x == log[l2][m + 1]
                       rq == receive_queue[p]
            <7>2. rq \in [Slot -> SlotType] /\ x \in Queue /\ receive_queue'[p] = Enqueue(rq, x)
              BY <6>1, <6>2 DEF Types
            <7> HIDE DEF x, rq
            <7>3. \/ Enqueue(rq, x)[k].queues = Append(rq[k].queues, x)
                  \/ Enqueue(rq, x)[k].queues = rq[k].queues
              BY <7>2, EnqueueFact
            <7> QED BY <7>1, <7>2, <7>3 DEF x, rq
          <6>3. CASE q # p
            BY <6>1, <6>3
          <6> QED BY <6>2, <6>3
        <5>2. ASSUME NEW q \in Nation, GiveOrder(q) PROVE new = old
          BY <1>0, <5>2, GiveOrderFact
        <5>3. ASSUME NEW q \in Nation, SendFails(q), q # p PROVE new = old
          BY <1>0, <5>3, SendFailsFact
        <5>4. ASSUME NEW q \in Nation, Sync(q), q # p PROVE new = old
          <6>1. frame_count[q] < MaxFrame /\ (TakeOver(q) \/ ProcessFrame(q))
            BY <1>0, <5>4, SyncFact
          <6>2. receive_queue'[p] = receive_queue[p]
            BY <1>0, <5>4, <6>1, ProceedFact
          <6>3. frame_count'[p] = frame_count[p]
            BY <1>0, <5>4, <6>1, ProceedFact
          <6> QED BY <1>0, <5>4, <6>1, <6>2, <6>3, ProceedFact
        <5>5. ASSUME NEW q \in Nation, NEW m \in Nation, LoseConnection(q, m) PROVE new = old
          BY <5>5 DEF LoseConnection, local
        <5> HIDE DEF new, old
        <5> QED BY <1>9, <5>1, <5>2, <5>3, <5>4, <5>5 DEF Next
      <4> HIDE DEF new, old, f
      <4>2. ASSUME NEW q \in Queue, new = Append(old, q), q.nation # n
            PROVE  /\ n \in NationsIn(new) <=> n \in NationsIn(old)
                   /\ QueueOf(new, n) = QueueOf(old, n)
        <5>1. /\ NationsIn(Append(old, q)) = NationsIn(old) \cup {q.nation}
              /\ QueueOf(Append(old, q), n) =
                        IF n \in NationsIn(old) THEN QueueOf(old, n)
                        ELSE IF q.nation = n THEN q.orders ELSE << >>
          BY <2>2, AppendQueue
        <5>2. n \notin NationsIn(old) => QueueOf(old, n) = << >>
          BY <2>2, QueueOfFact
        <5> QED BY <4>2, <5>1, <5>2
      <4> QED BY <4>1, <4>2
    <3> HIDE DEF new, old, f
    <3>3. Hears(p, n, new, f)
      BY <2>3, <3>1, <3>2
    <3> QED BY <2>1, <3>3 DEF new
  <2> QED BY <2>4, <2>5
<1> HIDE DEF Hears, Heard, Holds
<1> QED BY <1>0, <1>6, <1>7, <1>8, <1>9, SlotStep

-----------------------------------------------------------------------------
(* Agreement *)

\* SameGame, for one machine.
SameSoFar ==
    \A p \in Nation : Together(p) => \A f \in 1 .. frame_count[p] - 1 :
        executed[p][f] = FlattenSeq([n \in Nation |-> Sent(n, f)])

\* What n has sent for a frame is in its first queue with that stamp.
LEMMA SentFact ==
    ASSUME Types, NEW n \in Nation, NEW f
    PROVE  \/ Sent(n, f) = << >> /\ \A i \in DOMAIN log[n] : log[n][i].frame # f
           \/ \E i \in DOMAIN log[n] : /\ First(n, i) /\ log[n][i].frame = f
                                       /\ Sent(n, f) = log[n][i].orders
<1> DEFINE stamped == {i \in DOMAIN log[n] : log[n][i].frame = f}
<1>1. Sent(n, f) = IF stamped = {} THEN << >> ELSE log[n][Min(stamped)].orders
  BY DEF Sent
<1>2. log[n] \in Seq(Queue)
  BY DEF Types
<1>3. stamped \in SUBSET Nat
  BY <1>2, SeqFact
<1>4. \A i : i \in stamped <=> i \in DOMAIN log[n] /\ log[n][i].frame = f
  OBVIOUS
<1> HIDE DEF stamped
<1>5. CASE stamped = {}
  BY <1>1, <1>4, <1>5
<1>6. CASE stamped # {}
  <2>1. Min(stamped) \in stamped /\ \A j \in stamped : Min(stamped) <= j
    BY <1>3, <1>6, MinIsLeast
  <2> DEFINE i == Min(stamped)
  <2>2. i \in stamped /\ \A j \in stamped : i <= j
    BY <2>1
  <2>3. Sent(n, f) = log[n][i].orders
    BY <1>1, <1>6
  <2> HIDE DEF i
  <2>4. i \in DOMAIN log[n] /\ log[n][i].frame = f /\ i \in Nat
    BY <1>3, <1>4, <2>2
  <2>5. ASSUME NEW j \in DOMAIN log[n], j < i PROVE log[n][j].frame # f
    <3>1. j \in stamped => i <= j /\ j \in Nat
      BY <1>3, <2>2
    <3> QED BY <1>4, <2>4, <2>5, <3>1
  <2>6. First(n, i)
    BY <2>4, <2>5 DEF First
  <2> QED BY <2>3, <2>4, <2>6
<1> QED BY <1>5, <1>6

\* What was sent for a frame does not change any more when the frame has come.
LEMMA SentStep ==
    ASSUME InTime, IInv, Drift, Next, NEW p \in Nation, Together(p), NEW n \in Nation,
           NEW f \in Nat, f <= frame_count[p], f <= frame_count[n] + Skew
    PROVE  Sent(n, f)' = Sent(n, f)
<1> DEFINE stamped == {i \in DOMAIN log[n] : log[n][i].frame = f}
           more == {i \in DOMAIN log'[n] : log'[n][i].frame = f}
<1>1. /\ Sent(n, f) = IF stamped = {} THEN << >> ELSE log[n][Min(stamped)].orders
      /\ Sent(n, f)' = IF more = {} THEN << >> ELSE log'[n][Min(more)].orders
  BY DEF Sent
<1>2. Types /\ Carried /\ SendTurns /\ LogTurns
  BY DEF IInv
<1>3. ASSUME NEW i \in DOMAIN log'[n], i \notin DOMAIN log[n] PROVE log'[n][i].frame # f
  <2>1. log'[n][i].frame = send_queue[n].frame /\ Transmits(n)
    BY <1>2, <1>3, LogGrows, OwnQueueType
  <2>2. /\ frame_count[n] \in Nat /\ send_queue[n].frame \in Nat
        /\ frame_count[n] + Ahead <= send_queue[n].frame
    BY <1>2, <2>1, StampFact
  <2>3. Latency > 0 /\ Skew + Latency <= Ahead
    BY DEF InTime
  <2> QED BY <2>1, <2>2, <2>3, AheadFact, ConstantFact
<1>4. \A i \in DOMAIN log[n] : i \in DOMAIN log'[n] /\ log'[n][i] = log[n][i]
  BY <1>2, LogGrows
<1>5. more = stamped
  BY <1>3, <1>4
<1>6. stamped \in SUBSET Nat /\ stamped \subseteq DOMAIN log[n]
  BY <1>2, SeqFact DEF Types
<1> HIDE DEF more, stamped
<1>7. stamped # {} => log'[n][Min(stamped)] = log[n][Min(stamped)]
  BY <1>4, <1>6, MinIsLeast
<1> QED BY <1>1, <1>5, <1>7

\* In the frame p processes it has the queue of everyone that is to be executed.
LEMMA AllThere ==
    ASSUME InTime, IInv, Drift, HeardSlots, Next, NEW p \in Nation, Together(p),
           Sync(p), ProcessFrame(p), NEW n \in Nation
    PROVE  QueueOf(Received(p)[0].queues, n) = Sent(n, frame_count[p])
<1> DEFINE c == frame_count[p]
           old == receive_queue[p][0].queues
           new == Received(p)[0].queues
<1>1. Types /\ Carried /\ SendTurns /\ LogTurns /\ OwnPresent /\ OwnSlots
  BY DEF IInv
<1>2. c \in Nat /\ 0 \in Slot /\ c + 0 = c /\ frame_count[n] \in Nat
  <2>1. frame_count[p] \in 1 .. MaxFrame /\ frame_count[n] \in 1 .. MaxFrame
    BY <1>1 DEF Types
  <2> QED BY <2>1, ConstantFact
<1>3. Latency > 0 /\ Skew + Latency <= Ahead /\ PlayerCount > 1
  BY DEF InTime
<1>4. /\ new \in Seq(Queue) /\ old \in Seq(Queue)
      /\ n # p => QueueOf(new, n) = QueueOf(old, n)
      /\ n \in NationsIn(old) => QueueOf(new, n) = QueueOf(old, n)
  BY <1>1, <1>2, ReceivedSlots
<1>5. c <= process_frame_delay => n \in NationsIn(old) /\ QueueOf(old, n) = << >>
  BY <1>2 DEF EmptyStart, IInv
<1>6. \A i \in DOMAIN log[n] : log[n][i].frame > process_frame_delay
  BY <1>1, LogFact
<1>7. CASE c <= process_frame_delay
  <2>1. \A i \in DOMAIN log[n] : log[n][i].frame # c
    <3> HIDE DEF c
    <3>1. ASSUME NEW i \in DOMAIN log[n], log[n][i].frame = c PROVE FALSE
      BY <1>2, <1>6, <1>7, <3>1, ConstantFact
    <3> QED BY <3>1
  <2>2. Sent(n, c) = << >>
    BY <1>1, <2>1, SentFact
  <2> QED BY <1>4, <1>5, <1>7, <2>2
<1>8. CASE c > process_frame_delay /\ n = p
  <2>1. /\ \A i \in DOMAIN log'[p] : First(p, i)' /\ log'[p][i].frame = c =>
                p \in NationsIn(new) /\ QueueOf(new, p) = log'[p][i].orders
        /\ peers[p] # {} /\ p \in NationsIn(new) =>
                \/ \E i \in DOMAIN log'[p] : log'[p][i].frame = c
                \/ SendFails(p) /\ send_queue[p].frame = c
    <3>1. \A l \in Slot :
            LET queues == Received(p)[l].queues
                f == frame_count[p] + l
            IN  /\ \A i \in DOMAIN log'[p] : First(p, i)' /\ log'[p][i].frame = f =>
                     p \in NationsIn(queues) /\ QueueOf(queues, p) = log'[p][i].orders
                /\ peers[p] # {} /\ f > process_frame_delay /\ p \in NationsIn(queues) =>
                     \/ \E i \in DOMAIN log'[p] : log'[p][i].frame = f
                     \/ SendFails(p) /\ send_queue[p].frame = f
      BY <1>1, OwnReceived
    <3>2. \A f : f = c + 0 => f = c
      BY <1>2
    <3> QED BY <1>2, <1>8, <3>1
  <2>2. peers[p] # {}
    <3>1. \E q \in Nation : q # p
      <4>1. 1 \in Nation /\ 2 \in Nation
        BY <1>3, ConstantFact DEF Nation
      <4> QED BY <4>1
    <3> QED BY <3>1 DEF Together
  <2>3. remote_send_success_flag'[p] /\ (SendFails(p) => ~remote_send_success_flag'[p])
    BY <1>1, SyncFact, SendFailsFact
  <2>4. p \in NationsIn(new) => \E i \in DOMAIN log'[p] : log'[p][i].frame = c
    BY <2>1, <2>2, <2>3
  <2>6. \A i \in DOMAIN log'[p] : i \notin DOMAIN log[p] => log'[p][i].frame # c
    <3> SUFFICES ASSUME NEW i \in DOMAIN log'[p], i \notin DOMAIN log[p]
                 PROVE  log'[p][i].frame # c
      OBVIOUS
    <3>1. log'[p][i].frame = send_queue[p].frame /\ Transmits(p)
      BY <1>1, LogGrows, OwnQueueType
    <3>2. /\ send_queue[p].frame \in Nat
          /\ c + Ahead <= send_queue[p].frame
      BY <1>1, <3>1, StampFact
    <3> QED BY <1>2, <1>3, <3>1, <3>2, AheadFact, ConstantFact
  <2>7. \A i \in DOMAIN log[p] : /\ i \in DOMAIN log'[p] /\ log'[p][i] = log[p][i]
                                 /\ First(p, i)' <=> First(p, i)
    BY <1>1, LogGrows
  <2> HIDE DEF c, new
  <2>8. CASE Sent(p, c) = << >> /\ \A i \in DOMAIN log[p] : log[p][i].frame # c
    <3>1. p \notin NationsIn(new)
      BY <2>4, <2>6, <2>7, <2>8
    <3> QED BY <1>4, <1>8, <2>8, <3>1, QueueOfFact DEF c, new
  <2>9. CASE \E i \in DOMAIN log[p] : /\ First(p, i) /\ log[p][i].frame = c
                                      /\ Sent(p, c) = log[p][i].orders
    BY <1>8, <2>1, <2>7, <2>9 DEF c, new
  <2> QED BY <1>1, <2>8, <2>9, SentFact
<1>9. CASE c > process_frame_delay /\ n # p
  <2>1. n \in Nation \ {p} /\ Arrived(p, n)
    BY <1>9 DEF Drift
  <2>2. c < frame_count[n] + Skew
    <3>1. Timely(p) /\ n \in peers[p]
      BY <2>1 DEF ProcessFrame, Together
    <3> QED BY <3>1 DEF Timely
  <2>3. ASSUME NEW i \in DOMAIN log[n], log[n][i].frame = c PROVE i - 1 \in got[p][n]
    <3>1. log[n][i].at \in Nat /\ log[n][i].at + Ahead <= c
      BY <1>1, <2>3, LogFact
    <3>2. log[n][i].at + Latency < frame_count[n]
      <4> HIDE DEF c
      <4> QED BY <1>2, <1>3, <2>2, <3>1, AheadFact, ConstantFact
    <3> QED BY <2>1, <3>2 DEF Arrived
  <2>4. /\ \A i \in DOMAIN log[n] : First(n, i) /\ log[n][i].frame = c /\ i - 1 \in got[p][n] =>
                n \in NationsIn(old) /\ QueueOf(old, n) = log[n][i].orders
        /\ n \in NationsIn(old) => \E i \in DOMAIN log[n] : log[n][i].frame = c
    <3>1. \A l \in Slot :
            LET queues == receive_queue[p][l].queues
                f == frame_count[p] + l
            IN  /\ \A i \in DOMAIN log[n] :
                      First(n, i) /\ log[n][i].frame = f /\ i - 1 \in got[p][n] =>
                        n \in NationsIn(queues) /\ QueueOf(queues, n) = log[n][i].orders
                /\ f > process_frame_delay /\ n \in NationsIn(queues) =>
                      \E i \in DOMAIN log[n] : log[n][i].frame = f /\ i - 1 \in got[p][n]
      BY <2>1 DEF HeardSlots
    <3> QED BY <1>2, <1>9, <3>1
  <2> HIDE DEF c, new, old
  <2>5. CASE Sent(n, c) = << >> /\ \A i \in DOMAIN log[n] : log[n][i].frame # c
    <3>1. n \notin NationsIn(old)
      BY <2>4, <2>5
    <3>2. QueueOf(old, n) = << >>
      BY <1>4, <3>1, QueueOfFact
    <3> QED BY <1>4, <1>9, <2>5, <3>2 DEF c, new
  <2>6. CASE \E i \in DOMAIN log[n] : /\ First(n, i) /\ log[n][i].frame = c
                                      /\ Sent(n, c) = log[n][i].orders
    BY <1>4, <1>9, <2>3, <2>4, <2>6 DEF c, new
  <2> QED BY <1>1, <2>5, <2>6, SentFact
<1>10. c > process_frame_delay \/ c <= process_frame_delay
  BY <1>2, ConstantFact
<1> QED BY <1>7, <1>8, <1>9, <1>10

LEMMA StepSame ==
    ASSUME InTime, IInv, Drift, HeardSlots, SameSoFar, Next PROVE SameSoFar'
<1> SUFFICES ASSUME NEW p \in Nation, Together(p)', NEW f \in 1 .. frame_count'[p] - 1
             PROVE  executed'[p][f] = FlattenSeq([n \in Nation |-> Sent(n, f)'])
  BY DEF SameSoFar
<1>1. Types /\ Carried /\ SendTurns /\ LogTurns
  BY DEF IInv
<1>2. Together(p) /\ \A n \in Nation \ {p} : Near(p, n)
  BY <1>1, TogetherStep DEF Drift
<1>3. /\ frame_count[p] \in Nat /\ frame_count'[p] \in {frame_count[p], frame_count[p] + 1}
      /\ frame_count'[p] # frame_count[p] => Sync(p) /\ ProcessFrame(p)
      /\ f \in Nat /\ f <= frame_count[p] /\ f > 0
  <2>1. /\ frame_count[p] \in Nat /\ frame_count'[p] \in {frame_count[p], frame_count[p] + 1}
        /\ frame_count'[p] # frame_count[p] => Sync(p) /\ ProcessFrame(p)
    BY <1>1, CountFact
  <2> QED BY <2>1
<1>4. ASSUME NEW n \in Nation PROVE Sent(n, f)' = Sent(n, f)
  <2>1. f <= frame_count[n] + Skew
    <3>1. frame_count[n] \in Nat
      BY <1>1, ConstantFact DEF Types
    <3>2. frame_count[p] <= frame_count[n] + Skew
      <4>1. CASE n = p
        BY <1>3, <4>1, ConstantFact
      <4>2. CASE n # p
        BY <1>2, <4>2 DEF Near
      <4> QED BY <4>1, <4>2
    <3> QED BY <1>3, <3>1, <3>2, ConstantFact
  <2> QED BY <1>2, <1>3, <2>1, SentStep
<1>5. [n \in Nation |-> Sent(n, f)'] = [n \in Nation |-> Sent(n, f)]
  BY <1>4
<1>6. f \in 1 .. MaxFrame
  <2>1. frame_count[p] \in 1 .. MaxFrame
    BY <1>1 DEF Types
  <2> QED BY <1>3, <2>1, ConstantFact
<1>7. CASE f < frame_count[p]
  <2>1. executed'[p][f] = executed[p][f]
    <3>1. CASE Sync(p)
      <4>1. CASE executed'[p] = executed[p]
        BY <4>1
      <4>2. CASE ProcessFrame(p)
        <5>1. frame_count[p] < MaxFrame
          BY <1>1, <3>1, SyncFact
        <5>2. f # frame_count[p]
          BY <1>3, <1>7
        <5>3. \A g \in 1 .. MaxFrame : g # frame_count[p] => executed'[p][g] = executed[p][g]
          BY <1>1, <4>2, <5>1, ExecutedFact
        <5> QED BY <1>6, <5>2, <5>3
      <4> QED BY <1>1, <3>1, <4>1, <4>2, FrameFact
    <3>2. CASE ~Sync(p)
      BY <1>1, <3>2, CountStep
    <3> QED BY <3>1, <3>2
  <2>2. executed[p][f] = FlattenSeq([n \in Nation |-> Sent(n, f)])
    BY <1>2, <1>3, <1>7 DEF SameSoFar
  <2> QED BY <1>5, <2>1, <2>2
<1>8. CASE ~(f < frame_count[p])
  <2>1. f = frame_count[p] /\ frame_count'[p] # frame_count[p]
    BY <1>3, <1>8
  <2>2. Sync(p) /\ ProcessFrame(p) /\ frame_count[p] < MaxFrame
    BY <1>1, <1>3, <2>1, SyncFact
  <2>3. executed'[p][f] = Process(Received(p)[0].queues, remote[p] \cup {p})
    BY <1>1, <2>1, <2>2, ExecutedFact
  <2>4. remote[p] \cup {p} = Nation
    BY <1>2 DEF Drift
  <2> DEFINE queues == Received(p)[0].queues
  <2>5. \A n \in Nation : QueueOf(queues, n) = Sent(n, f)
    BY <1>2, <2>1, <2>2, AllThere
  <2> HIDE DEF queues
  <2>6. Process(queues, Nation) = FlattenSeq([n \in Nation |-> QueueOf(queues, n)])
    <3>1. [n \in Nation |-> IF n \in Nation THEN QueueOf(queues, n) ELSE << >>]
            = [n \in Nation |-> QueueOf(queues, n)]
      OBVIOUS
    <3> QED BY <3>1 DEF Process
  <2>7. [n \in Nation |-> QueueOf(queues, n)] = [n \in Nation |-> Sent(n, f)]
    BY <2>5
  <2> QED BY <1>5, <2>3, <2>4, <2>6, <2>7 DEF queues
<1> QED BY <1>7, <1>8

\* All that rests on timing.
Timed == Drift /\ HeardSlots /\ SameSoFar

LEMMA InitTimed ==
    ASSUME Init PROVE Timed
<1>1. \A p \in Nation : /\ frame_count[p] = 1 /\ log[p] = << >> /\ remote[p] = Nation \ {p}
                        /\ \A n \in Nation : got[p][n] = {}
  BY DEF Init, Multicast!Init
<1>2. DOMAIN << >> = {} /\ NationsIn(<< >>) = {}
  BY EmptySeq DEF NationsIn
<1>3. Drift
  <2>1. \A p, n \in Nation : Near(p, n)
    BY <1>1, ConstantFact DEF Near
  <2>2. \A p, n \in Nation : Arrived(p, n) /\ InOrder(p, n)
    BY <1>1, <1>2 DEF Arrived, InOrder
  <2> QED BY <1>1, <2>1, <2>2 DEF Drift
<1>4. HeardSlots
  <2> SUFFICES ASSUME NEW p \in Nation, NEW n \in Nation \ {p}, NEW k \in Slot
               PROVE  frame_count[p] + k > process_frame_delay =>
                        n \notin NationsIn(receive_queue[p][k].queues)
    BY <1>1, <1>2 DEF HeardSlots
  <2>1. frame_count[p] = 1 /\ k \in Nat
    BY <1>1 DEF Slot
  <2>2. receive_queue[p] = init_receive_queue(1)
    BY DEF Init
  <2>3. ~(k < process_frame_delay) => receive_queue[p][k].queues = << >>
    BY <2>2, InitSlotType
  <2>4. frame_count[p] + k > process_frame_delay => ~(k < process_frame_delay)
    BY <2>1, ConstantFact
  <2> QED BY <1>2, <2>3, <2>4
<1>5. SameSoFar
  BY <1>1 DEF SameSoFar
<1> QED BY <1>3, <1>4, <1>5 DEF Timed

LEMMA StepTimed ==
    ASSUME InTime PROVE IInv /\ Timed /\ [Next]_vars => Timed'
<1> SUFFICES ASSUME IInv, Timed, [Next]_vars PROVE Timed'
  OBVIOUS
<1> USE DEF Timed
<1>1. CASE Next
  BY <1>1, StepDrift, StepHeardSlots, StepSame
<1>2. CASE UNCHANGED vars
  <2>1. UNCHANGED <<frame_count, remote, receive_queue, executed, log, peers, sent, got>>
    BY <1>2 DEF vars, local, multicast
  <2>2. \A p : Together(p)' <=> Together(p)
    BY <2>1 DEF Together
  <2>3. \A p, n : Near(p, n)' /\ Arrived(p, n)' /\ InOrder(p, n)' <=>
                  Near(p, n) /\ Arrived(p, n) /\ InOrder(p, n)
    BY <2>1 DEF Near, Arrived, InOrder
  <2>4. Drift'
    BY <2>1, <2>2, <2>3 DEF Drift
  <2>5. \A n, i : First(n, i)' <=> First(n, i)
    BY <2>1 DEF First
  <2>6. HeardSlots'
    BY <2>1, <2>2, <2>5 DEF HeardSlots
  <2>7. \A n, f : Sent(n, f)' = Sent(n, f)
    BY <2>1 DEF Sent
  <2>8. SameSoFar'
    BY <2>1, <2>2, <2>7 DEF SameSoFar
  <2> QED BY <2>4, <2>6, <2>8
<1> QED BY <1>1, <1>2

(* The timed part of the inductive invariant.                              *)
THEOREM TimedInvariance ==
    ASSUME InTime PROVE Spec => [](IInv /\ Timed)
<1>1. Init => IInv /\ Timed
  BY InitInvariant, InitTimed
<1>2. (IInv /\ Timed) /\ [Next]_vars => (IInv /\ Timed)'
  BY StepInvariant, StepTimed
<1> QED BY <1>1, <1>2, PTL DEF Spec

(* Agreement.  If machines and messages are in time, every machine whose    *)
(* connections last executes in each frame what the players sent for it.    *)
THEOREM GamesAgree ==
    ASSUME InTime PROVE Spec => []SameGame
<1>1. Timed => SameGame
  BY DEF Timed, SameSoFar, SameGame
<1> QED BY <1>1, TimedInvariance, PTL

(* If machines and messages are in time, no queue arrives for a frame that  *)
(* is over, nor for one that the receive queue has no slot for.             *)
THEOREM NoneDiscarded ==
    ASSUME InTime PROVE Spec => ArrivesInTime
<1> DEFINE Good == \A p, q \in Nation : Together(p) => \A n \in got'[p][q] \ got[p][q] :
                      \E k \in Slot : receive_queue[p][k].frame = log[q][n + 1].frame
<1>1. ASSUME IInv, Timed, [Next]_vars PROVE [Good]_vars
  <2> SUFFICES ASSUME Next, NEW p \in Nation, NEW q \in Nation, Together(p),
                      NEW n \in got'[p][q], n \notin got[p][q]
               PROVE  \E k \in Slot : receive_queue[p][k].frame = log[q][n + 1].frame
    BY <1>1
  <2>0. Types /\ Carried /\ SendTurns /\ LogTurns /\ Drift
    BY <1>1 DEF IInv, Timed
  <2>1. n \in 0 .. sent[q] - 1 /\ PollMsg(p, q, n)
    BY <2>0, GotStep
  <2>2. q # p /\ n + 1 \in DOMAIN log[q]
    BY <2>0, <2>1, PollFact
  <2>3. Near(p, q) /\ Arrived(p, q)
    BY <2>0, <2>2 DEF Drift
  <2> DEFINE i == n + 1
             f == log[q][i].frame
             k == f - frame_count[p]
  <2>4. i \in DOMAIN log[q] /\ i - 1 = n
    BY <2>1, <2>2
  <2> HIDE DEF i
  <2>5. /\ log[q][i].at \in Nat /\ f \in Nat /\ log[q][i].at + Ahead <= f
        /\ f < frame_count[p] + RECEIVE_QUEUE_BACKUP
    BY <2>0, <2>2, <2>3, <2>4, LogFact, LogBelow
  <2>6. ~(log[q][i].at + Latency < frame_count[q])
    BY <2>3, <2>4 DEF Arrived
  <2>7. frame_count[p] \in Nat /\ frame_count[q] \in Nat
    <3>1. frame_count[p] \in 1 .. MaxFrame /\ frame_count[q] \in 1 .. MaxFrame
      BY <2>0 DEF Types
    <3> QED BY <3>1, ConstantFact
  <2>8. frame_count[p] <= frame_count[q] + Skew /\ Skew + Latency <= Ahead
    BY <2>3 DEF Near, InTime
  <2> HIDE DEF f
  <2>9. k \in Slot /\ frame_count[p] + k = f
    BY <2>5, <2>6, <2>7, <2>8, AheadFact, ConstantFact DEF Slot
  <2>10. receive_queue[p][k].frame = f
    BY <2>0, <2>9 DEF Types
  <2> QED BY <2>9, <2>10 DEF f, i
<1>2. Spec => [][Good]_vars
  BY <1>1, TimedInvariance, PTL DEF Spec
<1> QED BY <1>2 DEF ArrivesInTime

-----------------------------------------------------------------------------
(* Saved games *)

LEMMA RequestFact ==
    ASSUME NEW m \in Nat, NEW orders \in Seq(Order)
    PROVE  /\ Request(m, orders) \in Nat
           /\ \A f \in Nat : Early(orders, f) /\ (m # 0 => m > f) =>
                (Request(m, orders) # 0 => Request(m, orders) > f)
<1> DEFINE requests == {i \in DOMAIN orders : orders[i].save # 0}
<1>1. Request(m, orders) = IF m # 0 \/ requests = {} THEN m ELSE orders[Min(requests)].save
  BY DEF Request
<1>2. DOMAIN orders \in SUBSET Nat /\ \A i \in DOMAIN orders : orders[i].save \in Nat
  <2>1. DOMAIN orders \in SUBSET Nat /\ \A i \in DOMAIN orders : orders[i] \in Order
    BY SeqFact
  <2> QED BY <2>1 DEF Order
<1>3. requests \in SUBSET Nat
  BY <1>2
<1>4. \A i \in requests : i \in DOMAIN orders /\ orders[i].save # 0
  OBVIOUS
<1> HIDE DEF requests
<1>5. CASE requests = {} \/ m # 0
  BY <1>1, <1>5
<1>6. CASE requests # {} /\ m = 0
  <2>1. Min(requests) \in requests
    BY <1>3, <1>6, MinIsLeast
  <2>2. Request(m, orders) = orders[Min(requests)].save
    BY <1>1, <1>6
  <2> QED BY <1>2, <1>4, <2>1, <2>2 DEF Early
<1> QED BY <1>5, <1>6

\* What processing a frame does to the request.
LEMMA SavedFact ==
    ASSUME Types, NEW p \in Nation, frame_count[p] < MaxFrame, ProcessFrame(p)
    PROVE  LET c == frame_count[p]
               request == Request(mp_save_frame[p], executed'[p][c])
           IN  /\ mp_save_frame'[p] = IF request = c + 1 THEN 0 ELSE request
               /\ saved'[p] = IF request = c + 1 THEN saved[p] \cup {c + 1} ELSE saved[p]
<1> DEFINE c == frame_count[p]
           orders == Process(Received(p)[0].queues, remote[p] \cup {p})
           request == SaveRequested(p, orders)
<1>1. orders = executed'[p][c]
  BY ExecutedFact
<1>2. request = Request(mp_save_frame[p], orders)
  BY DEF SaveRequested, Request
<1>3. /\ mp_save_frame' = [mp_save_frame EXCEPT ![p] = IF request = c + 1 THEN 0 ELSE request]
      /\ saved' = IF request = c + 1 THEN [saved EXCEPT ![p] = @ \cup {c + 1}] ELSE saved
  BY DEF ProcessFrame
<1> HIDE DEF c, orders, request
<1>4. /\ mp_save_frame'[p] = IF request = c + 1 THEN 0 ELSE request
      /\ saved'[p] = IF request = c + 1 THEN saved[p] \cup {c + 1} ELSE saved[p]
  BY <1>3 DEF Types
<1> QED BY <1>1, <1>2, <1>4 DEF c

\* Every order of a nation stands in one of the queues.
LEMMA QueueOfElement ==
    ASSUME NEW queues \in Seq(Queue), NEW n, NEW j \in DOMAIN QueueOf(queues, n)
    PROVE  \E i \in DOMAIN queues : QueueOf(queues, n) = queues[i].orders
<1> DEFINE found == {i \in DOMAIN queues : queues[i].nation = n}
<1>1. QueueOf(queues, n) = IF found = {} THEN << >> ELSE queues[Min(found)].orders
  BY DEF QueueOf
<1>2. found \in SUBSET Nat /\ found \subseteq DOMAIN queues
  BY SeqFact
<1> HIDE DEF found
<1>3. found # {}
  BY <1>1, EmptySeq
<1>4. Min(found) \in found
  BY <1>2, <1>3, MinIsLeast
<1> QED BY <1>1, <1>2, <1>3, <1>4

\* The frame asked for is behind the one in which the order will be executed.
LEMMA SaveFrameAhead ==
    ASSUME Types, SendTurns, SavesInTime, NEW p \in Nation
    PROVE  SaveFrame(p, frame_count[p]) > send_queue[p].frame
<1> DEFINE c == frame_count[p]
           s == send_queue[p].frame
           D == process_frame_delay
           R == alternating_send_rate
           g == next_send_frame(p, c + D)
           h == next_send_frame(p, c + 1 + D)
<1>1. /\ c \in Nat /\ s \in Nat /\ D \in Nat /\ R \in Nat
      /\ c + D \in Nat /\ c + 1 + D \in Nat
  BY StampFact, ConstantFact
<1>2. /\ g \in Nat /\ c + D <= g /\ has_send_frame(p, g)
      /\ h \in Nat /\ h < c + 1 + D + R
  BY <1>1, NextTurn
<1>3. SaveFrame(p, c) = g + 2
  BY DEF SaveFrame
<1>4. s <= next_send_frame(p, NextFrame(p) + D)
  BY DEF SendTurns
<1>5. CASE ~TurnTaken(p)
  <2>1. s <= g
    BY <1>4, <1>5 DEF NextFrame
  <2> HIDE DEF c, s, g
  <2> QED BY <1>1, <1>2, <1>3, <2>1 DEF c, s
<1>6. CASE TurnTaken(p)
  <2>1. s <= h /\ has_send_frame(p, c)
    BY <1>4, <1>6 DEF NextFrame, TurnTaken
  <2>2. CASE R = 1
    <3> HIDE DEF c, s, g, h, D, R
    <3>1. g + 2 > s
      BY <1>1, <1>2, <2>1, <2>2
    <3> QED BY <1>3, <3>1 DEF c, s
  <2>3. CASE D % R # 0
    <3>1. h <= c + Ahead + R
      BY <1>1, <2>1, NextBehind
    <3>2. c + Ahead \in Nat /\ has_send_frame(p, c + Ahead) /\ c + Ahead < g
      <4>1. Ahead \in Nat /\ Ahead < D
        <5>1. D % R \in Nat
          BY <1>1, DivMod, ConstantFact
        <5>2. Ahead = D - (D % R)
          BY DEF Ahead
        <5> QED BY <1>1, <2>3, <5>1, <5>2, AheadFact
      <4>2. has_send_frame(p, c + Ahead)
        BY <1>1, <2>1, TurnShift
      <4> HIDE DEF c, g, D
      <4> QED BY <1>1, <1>2, <4>1, <4>2
    <3>3. c + Ahead + R <= g
      BY <1>2, <3>2, TurnsApart
    <3> HIDE DEF c, s, g, h, D, R
    <3>4. g + 2 > s
      BY <1>1, <1>2, <2>1, <3>1, <3>2, <3>3
    <3> QED BY <1>3, <3>4 DEF c, s
  <2> QED BY <2>2, <2>3 DEF SavesInTime
<1> QED BY <1>5, <1>6

\* What happens to the orders waiting to be sent.
LEMMA OrdersStep ==
    ASSUME Types, Carried, Next, NEW p \in Nation
    PROVE  \/ send_queue'[p].orders = << >>
           \/ /\ send_queue'[p].orders = send_queue[p].orders
              /\ send_queue'[p].frame = send_queue[p].frame
           \/ /\ \E o \in Order : /\ o.save \in {0, SaveFrame(p, frame_count[p])}
                                  /\ send_queue'[p].orders = Append(send_queue[p].orders, o)
              /\ send_queue'[p].frame = send_queue[p].frame
<1>1. ASSUME NEW q \in Nation, GiveOrder(q), q # p PROVE send_queue'[p] = send_queue[p]
  BY <1>1, GiveOrderFact
<1>2. CASE GiveOrder(p)
  BY <1>2, GiveOrderFact
<1>3. ASSUME NEW q \in Nation, SendFails(q)
      PROVE  /\ send_queue'[p].orders = send_queue[p].orders
             /\ send_queue'[p].frame = send_queue[p].frame
  <2>1. CASE q = p
    BY <1>3, <2>1, SendFailsFact
  <2>2. CASE q # p
    BY <1>3, <2>2, SendFailsFact
  <2> QED BY <2>1, <2>2
<1>4. ASSUME NEW q \in Nation, Sync(q)
      PROVE  send_queue'[p] = send_queue[p] \/ send_queue'[p].orders = << >>
  <2>1. frame_count[q] \in 1 .. MaxFrame
    BY DEF Types
  <2>2. frame_count[q] + 1 \in Nat
    BY <2>1, ConstantFact
  <2> QED BY <1>4, <2>2, SyncFact, InitQueueType
<1>5. ASSUME NEW q \in Nation, NEW m \in Nation,
             LoseConnection(q, m) \/ \E i \in 0 .. sent[m] - 1 : PollMsg(q, m, i)
      PROVE  send_queue'[p] = send_queue[p]
  BY <1>5 DEF LoseConnection, PollMsg, local
<1> QED BY <1>1, <1>2, <1>3, <1>4, <1>5 DEF Next

\* Queues in slots have early requests only.
LEMMA EarlySlots ==
    ASSUME Types, Carried, SavesAhead, Next, NEW p \in Nation, NEW k \in Slot
    PROVE  \A i \in DOMAIN receive_queue'[p][k].queues :
                Early(receive_queue'[p][k].queues[i].orders, frame_count'[p] + k)
<1>1. CASE SlotFresh(p, k)
  BY <1>1, EmptySeq DEF SlotFresh
<1>2. ASSUME NEW l \in Slot, SlotKept(p, k, l)
      PROVE  \A i \in DOMAIN receive_queue'[p][k].queues :
                Early(receive_queue'[p][k].queues[i].orders, frame_count'[p] + k)
  <2> DEFINE old == receive_queue[p][l].queues
             new == receive_queue'[p][k].queues
             f == frame_count'[p] + k
  <2>1. old \in Seq(Queue) /\ \A i \in DOMAIN old : Early(old[i].orders, f)
    <3>1. old \in Seq(Queue)
      BY DEF Types, SlotType
    <3>2. f = frame_count[p] + l
      BY <1>2 DEF SlotKept
    <3> QED BY <3>1, <3>2 DEF SavesAhead
  <2>2. \/ new = old
        \/ \E q \in Queue : Early(q.orders, f) /\ new = Append(old, q)
    <3>1. \/ new = old
          \/ \E q \in Queue : /\ q.frame = f /\ new = Append(old, q)
                              /\ \/ q = OwnQueue(p)
                                 \/ \E m \in Nation \ {p} : \E i \in DOMAIN log[m] : q = log[m][i]
      BY <1>2 DEF SlotKept
    <3>2. Early(OwnQueue(p).orders, OwnQueue(p).frame)
      BY OwnQueueType DEF SavesAhead
    <3>3. \A m \in Nation : \A i \in DOMAIN log[m] : Early(log[m][i].orders, log[m][i].frame)
      BY DEF SavesAhead
    <3> HIDE DEF old, new, f
    <3> QED BY <3>1, <3>2, <3>3
  <2> HIDE DEF old, new, f
  <2>3. ASSUME NEW q \in Queue, Early(q.orders, f), new = Append(old, q)
        PROVE  \A i \in DOMAIN new : Early(new[i].orders, f)
    BY <2>1, <2>3, AppendFact
  <2>4. \A i \in DOMAIN new : Early(new[i].orders, f)
    BY <2>1, <2>2, <2>3
  <2> QED BY <2>4 DEF new, f
<1> QED BY <1>1, <1>2, SlotStep

LEMMA StepSavesAhead ==
    ASSUME IInv, SavesInTime, SavesAhead, Next PROVE SavesAhead'
<1>0. Types /\ Carried /\ SendTurns
  BY DEF IInv
<1>1. ASSUME NEW p \in Nation PROVE Early(send_queue'[p].orders, send_queue'[p].frame)
  <2>1. Early(send_queue[p].orders, send_queue[p].frame)
    BY DEF SavesAhead
  <2>2. CASE send_queue'[p].orders = << >>
    BY <2>2, EmptySeq DEF Early
  <2>3. ASSUME NEW o \in Order, o.save \in {0, SaveFrame(p, frame_count[p])},
               send_queue'[p].orders = Append(send_queue[p].orders, o),
               send_queue'[p].frame = send_queue[p].frame
        PROVE  Early(send_queue'[p].orders, send_queue'[p].frame)
    <3> DEFINE old == send_queue[p].orders
               new == send_queue'[p].orders
               f == send_queue[p].frame
    <3>1. o.save = 0 \/ o.save > f
      BY <1>0, <2>3, SaveFrameAhead
    <3>2. old \in Seq(Order) /\ new = Append(old, o)
      BY <1>0, <2>3 DEF Types, SendType
    <3> HIDE DEF old, new, f
    <3>3. \A j \in DOMAIN new : (j \in DOMAIN old /\ new[j] = old[j]) \/ new[j] = o
      BY <3>2, AppendFact
    <3>4. Early(new, f)
      BY <2>1, <3>1, <3>3 DEF Early, old, f
    <3> QED BY <2>3, <3>4 DEF new, f
  <2> QED BY <1>0, <2>1, <2>2, <2>3, OrdersStep
<1>2. ASSUME NEW p \in Nation, NEW i \in DOMAIN log'[p]
      PROVE  Early(log'[p][i].orders, log'[p][i].frame)
  <2>1. CASE i \in DOMAIN log[p]
    BY <1>0, <2>1, LogGrows DEF SavesAhead
  <2>2. CASE i \notin DOMAIN log[p]
    <3>1. log'[p][i] = OwnQueue(p)
      BY <1>0, <2>2, LogGrows
    <3> QED BY <1>0, <3>1, OwnQueueType DEF SavesAhead
  <2> QED BY <2>1, <2>2
<1>3. ASSUME NEW p \in Nation, NEW k \in Slot
      PROVE  \A i \in DOMAIN receive_queue'[p][k].queues :
                Early(receive_queue'[p][k].queues[i].orders, frame_count'[p] + k)
  BY <1>0, EarlySlots
<1>4. ASSUME NEW p \in Nation, mp_save_frame'[p] # 0
      PROVE  mp_save_frame'[p] > frame_count'[p]
  <2>1. /\ mp_save_frame[p] # 0 => mp_save_frame[p] > frame_count[p]
        /\ frame_count[p] \in Nat /\ mp_save_frame[p] \in Nat
    BY <1>0, ConstantFact DEF SavesAhead, Types
  <2>2. CASE frame_count'[p] = frame_count[p] /\ mp_save_frame'[p] = mp_save_frame[p]
    BY <1>4, <2>1, <2>2
  <2>3. CASE Sync(p) /\ ProcessFrame(p) /\ frame_count'[p] = frame_count[p] + 1
    <3> DEFINE c == frame_count[p]
               queues == Received(p)[0].queues
               orders == executed'[p][c]
               m == mp_save_frame[p]
    <3>1. frame_count[p] < MaxFrame
      BY <1>0, <2>3, SyncFact
    <3>2. /\ queues \in Seq(Queue) /\ orders = Process(queues, remote[p] \cup {p})
      BY <1>0, <2>3, <3>1, ExecutedFact
    <3>3. \A i \in DOMAIN queues : Early(queues[i].orders, c)
      <4>1. /\ receive_queue[p][0].queues \in Seq(Queue)
            /\ \A i \in DOMAIN receive_queue[p][0].queues :
                  Early(receive_queue[p][0].queues[i].orders, c)
        <5>1. 0 \in Slot /\ c + 0 = c
          BY <2>1, ConstantFact
        <5>2. receive_queue[p][0].queues \in Seq(Queue)
          BY <1>0, <5>1 DEF Types, SlotType
        <5> QED BY <5>1, <5>2 DEF SavesAhead
      <4>2. \/ queues = receive_queue[p][0].queues
            \/ send_queue[p].frame = c /\ queues = Append(receive_queue[p][0].queues, OwnQueue(p))
        <5>1. 0 \in Slot /\ c + 0 = c
          BY <2>1, ConstantFact
        <5> DEFINE before == receive_queue[p][0].queues
                   after == Received(p)[0].queues
                   here == Closes(p) /\ send_queue[p].frame = frame_count[p] + 0
        <5>2. (here => after = Append(before, OwnQueue(p))) /\ (~here => after = before)
          BY <1>0, <5>1, ReceivedSlots
        <5> HIDE DEF before, after
        <5> QED BY <5>1, <5>2 DEF before, after
      <4>3. OwnQueue(p) \in Queue /\ Early(OwnQueue(p).orders, send_queue[p].frame)
        BY <1>0, OwnQueueType DEF SavesAhead
      <4> DEFINE old == receive_queue[p][0].queues
                 q == OwnQueue(p)
      <4> HIDE DEF queues, c, old, q
      <4>4. ASSUME Early(q.orders, c), queues = Append(old, q), NEW i \in DOMAIN queues
            PROVE  Early(queues[i].orders, c)
        <5>1. old \in Seq(Queue) /\ q \in Queue
          BY <4>1, <4>3 DEF old, q
        <5>2. (i \in DOMAIN old /\ queues[i] = old[i]) \/ queues[i] = q
          BY <4>4, <5>1, AppendFact
        <5> QED BY <4>1, <4>4, <5>2 DEF old
      <4> QED BY <4>1, <4>2, <4>3, <4>4 DEF old, q
    <3> HIDE DEF queues, c, orders, m
    <3>4. orders \in Seq(Order) /\ Early(orders, c)
      <4>1. orders \in Seq(Order)
        BY <3>2, ProcessFact
      <4>2. ASSUME NEW j \in DOMAIN orders PROVE orders[j].save = 0 \/ orders[j].save > c
        <5>1. PICK n \in Nation : \E i \in DOMAIN QueueOf(queues, n) :
                    orders[j] = QueueOf(queues, n)[i]
          BY <3>2, ProcessFact
        <5>2. PICK i \in DOMAIN QueueOf(queues, n) : orders[j] = QueueOf(queues, n)[i]
          BY <5>1
        <5>3. PICK x \in DOMAIN queues : QueueOf(queues, n) = queues[x].orders
          BY <3>2, QueueOfElement
        <5> QED BY <3>3, <5>2, <5>3 DEF Early
      <4> QED BY <4>1, <4>2 DEF Early
    <3>5. c \in Nat /\ m \in Nat /\ (m # 0 => m > c)
      BY <2>1 DEF c, m
    <3>6. Request(m, orders) \in Nat /\ (Request(m, orders) # 0 => Request(m, orders) > c)
      BY <3>4, <3>5, RequestFact
    <3>7. mp_save_frame'[p] = IF Request(m, orders) = c + 1 THEN 0 ELSE Request(m, orders)
      BY <1>0, <2>3, <3>1, SavedFact DEF c, m, orders
    <3>8. frame_count'[p] = c + 1
      BY <2>3 DEF c
    <3> QED BY <1>4, <3>5, <3>6, <3>7, <3>8
  <2>4. CASE Sync(p)
    BY <1>0, <2>2, <2>3, <2>4, FrameFact
  <2>5. CASE ~Sync(p)
    BY <1>0, <2>2, <2>5, CountStep
  <2> QED BY <2>4, <2>5
<1> QED BY <1>1, <1>2, <1>3, <1>4 DEF SavesAhead

LEMMA StepSaveTraces ==
    ASSUME Types, Carried, SaveTraces, Next PROVE SaveTraces'
<1> SUFFICES ASSUME NEW p \in Nation PROVE \E h : TraceOf(p, h)'
  BY DEF SaveTraces
<1>1. PICK h : TraceOf(p, h)
  BY DEF SaveTraces
<1>2. Types' /\ frame_count[p] \in Nat \ {0} /\ frame_count[p] \in 1 .. MaxFrame
  <2>1. Types'
    BY StepTypes
  <2>2. frame_count[p] \in 1 .. MaxFrame
    BY DEF Types
  <2> QED BY <2>1, <2>2, ConstantFact
<1>3. CASE /\ frame_count'[p] = frame_count[p] /\ mp_save_frame'[p] = mp_save_frame[p]
           /\ executed'[p] = executed[p] /\ saved'[p] = saved[p]
  <2>1. TraceOf(p, h)'
    BY <1>1, <1>3 DEF TraceOf
  <2> QED BY <2>1
<1>4. CASE Sync(p) /\ ProcessFrame(p) /\ frame_count'[p] = frame_count[p] + 1
  <2> DEFINE c == frame_count[p]
             orders == executed'[p][c]
             request == Request(mp_save_frame[p], orders)
             value == mp_save_frame'[p]
             g == [h EXCEPT ![c + 1] = value]
  <2>1. c < MaxFrame
    BY <1>4, SyncFact
  <2>2. /\ \A f \in 1 .. MaxFrame : f # c => executed'[p][f] = executed[p][f]
        /\ value = IF request = c + 1 THEN 0 ELSE request
        /\ saved'[p] = IF request = c + 1 THEN saved[p] \cup {c + 1} ELSE saved[p]
    BY <1>4, <2>1, ExecutedFact, SavedFact
  <2>3. /\ h \in [1 .. MaxFrame -> Nat] /\ h[1] = 0 /\ h[c] = mp_save_frame[p]
        /\ \A f \in 1 .. c - 1 : h[f + 1] = IF Request(h[f], executed[p][f]) = f + 1 THEN 0
                                            ELSE Request(h[f], executed[p][f])
        /\ \A f \in 2 .. c : f \in saved[p] <=> Request(h[f - 1], executed[p][f - 1]) = f
        /\ saved[p] \subseteq 2 .. c
    BY <1>1 DEF TraceOf
  <2>4. value \in Nat /\ frame_count'[p] = c + 1 /\ c \in Nat \ {0} /\ MaxFrame \in Nat
    BY <1>2, <1>4, ConstantFact DEF Types
  <2>5. request = Request(h[c], executed'[p][c])
    BY <2>3
  <2> HIDE DEF c, orders, request, value, g
  <2>6. g \in [1 .. MaxFrame -> Nat] /\ g[c + 1] = value /\ \A f \in 1 .. c : g[f] = h[f]
    BY <2>1, <2>3, <2>4 DEF g
  <2>7. \A f \in 1 .. c - 1 : executed'[p][f] = executed[p][f]
    BY <2>1, <2>2, <2>4
  <2>8. \A f \in 1 .. c - 1 : /\ g[f + 1] = h[f + 1] /\ g[f] = h[f]
                              /\ Request(g[f], executed'[p][f]) = Request(h[f], executed[p][f])
    <3>1. \A f \in 1 .. c - 1 : f \in 1 .. c /\ f + 1 \in 1 .. c
      BY <2>4
    <3> QED BY <2>6, <2>7, <3>1
  <2>9. ASSUME NEW f \in 1 .. c
        PROVE  g[f + 1] = IF Request(g[f], executed'[p][f]) = f + 1 THEN 0
                          ELSE Request(g[f], executed'[p][f])
    <3>1. CASE f \in 1 .. c - 1
      BY <2>3, <2>8, <3>1
    <3>2. CASE f = c
      BY <2>2, <2>5, <2>6, <3>2
    <3> QED BY <2>4, <3>1, <3>2
  <2>10. ASSUME NEW f \in 2 .. c + 1
         PROVE  f \in saved'[p] <=> Request(g[f - 1], executed'[p][f - 1]) = f
    <3>1. CASE f \in 2 .. c
      <4>1. f - 1 \in 1 .. c - 1 /\ f # c + 1
        BY <2>4, <3>1
      <4>2. f \in saved'[p] <=> f \in saved[p]
        BY <2>2, <4>1
      <4> QED BY <2>3, <2>8, <3>1, <4>1, <4>2
    <3>2. CASE f = c + 1
      <4>1. f - 1 = c /\ c \in 1 .. c
        BY <2>4, <3>2
      <4>2. c + 1 \notin saved[p]
        BY <2>3, <2>4
      <4>3. f \in saved'[p] <=> request = c + 1
        BY <2>2, <3>2, <4>2
      <4> QED BY <2>5, <2>6, <3>2, <4>1, <4>3
    <3> QED BY <2>4, <3>1, <3>2
  <2>11. saved'[p] \subseteq 2 .. c + 1
    BY <2>2, <2>3, <2>4
  <2>12. g[1] = 0
    BY <2>3, <2>4, <2>6
  <2>13. (c + 1) - 1 = c
    BY <2>4
  <2>14. ASSUME NEW x, x = g PROVE TraceOf(p, x)'
    <3> DEFINE d == frame_count'[p]
    <3>1. d = c + 1 /\ d - 1 = c
      BY <2>4, <2>13
    <3> HIDE DEF d
    <3>2. /\ g \in [1 .. MaxFrame -> Nat] /\ g[1] = 0 /\ g[d] = mp_save_frame'[p]
          /\ \A f \in 1 .. d - 1 : g[f + 1] = IF Request(g[f], executed'[p][f]) = f + 1 THEN 0
                                              ELSE Request(g[f], executed'[p][f])
          /\ \A f \in 2 .. d : f \in saved'[p] <=> Request(g[f - 1], executed'[p][f - 1]) = f
          /\ saved'[p] \subseteq 2 .. d
      BY <2>6, <2>9, <2>10, <2>11, <2>12, <3>1 DEF value
    <3> QED BY <2>14, <3>2 DEF d, TraceOf
  <2>15. \E x : x = g
    OBVIOUS
  <2> QED BY <2>14, <2>15
<1>5. CASE Sync(p)
  BY <1>3, <1>4, <1>5, FrameFact
<1>6. CASE ~Sync(p)
  BY <1>3, <1>6, CountStep
<1> QED BY <1>5, <1>6

LEMMA InitSaves ==
    ASSUME Init PROVE SavesAhead /\ SaveTraces
<1>1. ASSUME NEW p \in Nation
      PROVE  /\ frame_count[p] = 1 /\ mp_save_frame[p] = 0 /\ saved[p] = {} /\ log[p] = << >>
             /\ send_queue[p] = init_send_queue(p, 1) /\ receive_queue[p] = init_receive_queue(1)
  BY DEF Init
<1>2. DOMAIN << >> = {}
  BY EmptySeq
<1>3. SavesAhead
  <2>1. ASSUME NEW p \in Nation PROVE Early(send_queue[p].orders, send_queue[p].frame)
    <3>1. send_queue[p].orders = << >>
      BY <1>1, InitQueueType
    <3> QED BY <1>2, <3>1 DEF Early
  <2>2. ASSUME NEW p \in Nation, NEW k \in Slot, NEW i \in DOMAIN receive_queue[p][k].queues
        PROVE  Early(receive_queue[p][k].queues[i].orders, frame_count[p] + k)
    <3>1. receive_queue[p][k].queues[i].orders = << >>
      <4>1. receive_queue[p][k].queues =
                IF k < process_frame_delay
                THEN [n \in Nation |-> [nation |-> n, frame |-> 1 + k, orders |-> << >>, at |-> 0]]
                ELSE << >>
        BY <1>1, InitSlotType
      <4> QED BY <1>2, <4>1
    <3> QED BY <1>2, <3>1 DEF Early
  <2> QED BY <1>1, <1>2, <2>1, <2>2 DEF SavesAhead
<1>4. ASSUME NEW p \in Nation PROVE TraceOf(p, [f \in 1 .. MaxFrame |-> 0])
  <2>1. 1 \in 1 .. MaxFrame /\ 1 .. 1 - 1 = {} /\ 2 .. 1 = {}
    BY ConstantFact
  <2> QED BY <1>1, <2>1 DEF TraceOf
<1> QED BY <1>3, <1>4 DEF SaveTraces

LEMMA StepSaves ==
    ASSUME SavesInTime
    PROVE  IInv /\ SavesAhead /\ SaveTraces /\ [Next]_vars => SavesAhead' /\ SaveTraces'
<1> SUFFICES ASSUME IInv, SavesAhead, SaveTraces, [Next]_vars
             PROVE  SavesAhead' /\ SaveTraces'
  OBVIOUS
<1>1. CASE Next
  BY <1>1, StepSavesAhead, StepSaveTraces DEF IInv
<1>2. CASE UNCHANGED vars
  <2>1. UNCHANGED <<frame_count, send_queue, receive_queue, mp_save_frame, executed, saved, log>>
    BY <1>2 DEF vars, local
  <2>2. SavesAhead'
    BY <2>1 DEF SavesAhead
  <2>3. \A p, h : TraceOf(p, h)' <=> TraceOf(p, h)
    BY <2>1 DEF TraceOf
  <2>4. SaveTraces'
    BY <2>3 DEF SaveTraces
  <2> QED BY <2>2, <2>4
<1> QED BY <1>1, <1>2

\* Machines that execute the same orders save the game in the same frames.
LEMMA SameTraces ==
    ASSUME Types, SaveTraces, NEW p \in Nation, NEW q \in Nation,
           frame_count[p] <= frame_count[q],
           \A f \in 1 .. frame_count[p] - 1 : executed[p][f] = executed[q][f]
    PROVE  saved[p] = {f \in saved[q] : f <= frame_count[p]}
<1> DEFINE c == frame_count[p]
           d == frame_count[q]
<1>1. c \in Nat \ {0} /\ d \in Nat \ {0} /\ c \in 1 .. MaxFrame /\ c <= d
  <2>1. frame_count[p] \in 1 .. MaxFrame /\ frame_count[q] \in 1 .. MaxFrame
    BY DEF Types
  <2> QED BY <2>1, ConstantFact
<1>2. PICK h : TraceOf(p, h)
  BY DEF SaveTraces
<1>3. PICK g : TraceOf(q, g)
  BY DEF SaveTraces
<1>4. /\ h[1] = 0
      /\ \A f \in 1 .. c - 1 : h[f + 1] = IF Request(h[f], executed[p][f]) = f + 1 THEN 0
                                          ELSE Request(h[f], executed[p][f])
      /\ \A f \in 2 .. c : f \in saved[p] <=> Request(h[f - 1], executed[p][f - 1]) = f
      /\ saved[p] \subseteq 2 .. c
  BY <1>2 DEF TraceOf
<1>5. /\ g[1] = 0
      /\ \A f \in 1 .. d - 1 : g[f + 1] = IF Request(g[f], executed[q][f]) = f + 1 THEN 0
                                          ELSE Request(g[f], executed[q][f])
      /\ \A f \in 2 .. d : f \in saved[q] <=> Request(g[f - 1], executed[q][f - 1]) = f
      /\ saved[q] \subseteq 2 .. d
  BY <1>3 DEF TraceOf
<1>6. \A f \in 1 .. c - 1 : executed[p][f] = executed[q][f]
  OBVIOUS
<1> HIDE DEF c, d
<1> DEFINE A == {i \in Nat : i + 1 <= c => h[i + 1] = g[i + 1]}
<1>7. A = Nat
  <2>1. 0 \in A
    BY <1>4, <1>5
  <2>2. ASSUME NEW i \in A PROVE i + 1 \in A
    <3> SUFFICES ASSUME (i + 1) + 1 <= c PROVE h[(i + 1) + 1] = g[(i + 1) + 1]
      OBVIOUS
    <3> DEFINE f == i + 1
    <3>1. f \in 1 .. c - 1 /\ f \in 1 .. d - 1 /\ f <= c
      BY <1>1
    <3>2. h[f] = g[f]
      BY <3>1
    <3> HIDE DEF f
    <3>3. h[f + 1] = g[f + 1]
      BY <1>4, <1>5, <1>6, <3>1, <3>2
    <3> QED BY <3>3 DEF f
  <2> HIDE DEF A
  <2>3. A \in SUBSET Nat
    BY DEF A
  <2> QED BY <2>1, <2>2, <2>3, Induction
<1>8. \A f \in 1 .. c : h[f] = g[f]
  <2> TAKE f \in 1 .. c
  <2>1. f - 1 \in A /\ (f - 1) + 1 = f /\ f <= c
    <3>1. f - 1 \in Nat /\ (f - 1) + 1 = f /\ f <= c
      BY <1>1
    <3> HIDE DEF A
    <3> QED BY <1>7, <3>1
  <2> QED BY <2>1
<1>9. ASSUME NEW f \in 2 .. c PROVE f \in saved[p] <=> f \in saved[q]
  <2>1. f - 1 \in 1 .. c - 1 /\ f - 1 \in 1 .. c /\ f \in 2 .. d
    BY <1>1
  <2>2. h[f - 1] = g[f - 1] /\ executed[p][f - 1] = executed[q][f - 1]
    BY <1>6, <1>8, <2>1
  <2> QED BY <1>4, <1>5, <2>1, <2>2
<1>10. ASSUME NEW f PROVE f \in saved[p] <=> f \in saved[q] /\ f <= c
  <2>1. ASSUME f \in saved[p] PROVE f \in saved[q] /\ f <= c
    BY <1>1, <1>4, <1>9, <2>1
  <2>2. ASSUME f \in saved[q], f <= c PROVE f \in saved[p]
    <3>1. f \in 2 .. c
      BY <1>1, <1>5, <2>2
    <3> QED BY <1>9, <2>2, <3>1
  <2> QED BY <2>1, <2>2
<1> QED BY <1>10 DEF c

(* Saved games.  If machines and messages are in time and the delay is not *)
(* a multiple of the send rate, all machines save the game in the same     *)
(* frames, and no request outlives the frame it is for.                    *)
THEOREM SavesAgree ==
    ASSUME InTime, SavesInTime PROVE Spec => []SameSaves
<1>1. Init => IInv /\ Timed /\ SavesAhead /\ SaveTraces
  BY InitInvariant, InitTimed, InitSaves
<1>2. (IInv /\ Timed /\ SavesAhead /\ SaveTraces) /\ [Next]_vars
        => (IInv /\ Timed /\ SavesAhead /\ SaveTraces)'
  BY StepInvariant, StepTimed, StepSaves
<1>3. ASSUME IInv, Timed, SavesAhead, SaveTraces PROVE SameSaves
  <2>1. Types /\ SameSoFar
    BY <1>3 DEF IInv, Timed
  <2>2. ASSUME NEW p \in Nation, NEW q \in Nation, Together(p), Together(q),
               frame_count[p] <= frame_count[q]
        PROVE  saved[p] = {f \in saved[q] : f <= frame_count[p]}
    <3>1. ASSUME NEW f \in 1 .. frame_count[p] - 1 PROVE executed[p][f] = executed[q][f]
      <4>1. f \in 1 .. frame_count[q] - 1
        <5>1. frame_count[p] \in 1 .. MaxFrame /\ frame_count[q] \in 1 .. MaxFrame
          BY <2>1 DEF Types
        <5> QED BY <2>2, <5>1, ConstantFact
      <4> QED BY <2>1, <2>2, <4>1 DEF SameSoFar
    <3> QED BY <1>3, <2>1, <2>2, <3>1, SameTraces
  <2> QED BY <1>3, <2>2 DEF SameSaves, SavesAhead
<1> QED BY <1>1, <1>2, <1>3, PTL DEF Spec
=============================================================================
