--------------------------- MODULE DiplomacyProofs ---------------------------
(***************************************************************************)
(* Proofs about Diplomacy, for any nations, any number of slots, events    *)
(* and orders and any relations at the start.  Every operator of Diplomacy *)
(* takes a world and returns one, so the lemmas say of each what it keeps  *)
(* of the world, and an action is the chain of them that it is in the      *)
(* code.                                                                   *)
(***************************************************************************)
EXTENDS Diplomacy, DataLemmas, FiniteSetTheorems

Answers == {"accept", "reject"}
MsgSet ==
    [id : Offers \cup Notices, from : Nation, to : Nation, para : Nation \cup {0},
     reply : {"waiting", "not_needed"} \cup Answers, age : 0..3]
Status == Hostile..Alliance
World ==
    [alive : SUBSET Nation, status : [Nation -> [Nation -> Status]],
     trade : [Nation -> [Nation -> BOOLEAN]], truce : SUBSET (SUBSET Nation),
     msg : [Slot -> MsgSet \cup {NoMsg}], free : Seq(Slot),
     queue : [Nation -> SUBSET Slot], running : BOOLEAN]

\* A message as it lies in the array: it is about two nations, and about a third
\* one where it has to be.
Proper(m) ==
    /\ m \in MsgSet /\ m.from # m.to /\ m.para # m.to
    /\ m.para # 0 <=> m.id \in AboutAThird
    /\ m.reply = "waiting" => m.id \in Offers

\* A message that is about to be sent.
Fresh(m) ==
    Proper(m) /\ m.age = 0 /\ m.reply = IF m.id \in Offers THEN "waiting" ELSE "not_needed"

-----------------------------------------------------------------------------
(* What holds of every world *)

\* The rooms in the list are the empty ones, each once.
FreeRooms(w) ==
    /\ \A k, l \in DOMAIN w.free : w.free[k] = w.free[l] => k = l
    /\ \A r \in Slot : w.msg[r] = NoMsg <=> \E k \in DOMAIN w.free : w.free[k] = r

ProperMessages(w) ==
    \A r \in Used(w) : Proper(w.msg[r]) /\ {w.msg[r].from, w.msg[r].to} \subseteq w.alive

SameOffer(m, n) ==
    /\ m.reply = "waiting" /\ n.reply = "waiting" /\ m.from \in Ai
    /\ m.id = n.id /\ m.from = n.from /\ m.to = n.to
NoRepetition(w) == \A r, q \in Used(w) : SameOffer(w.msg[r], w.msg[q]) => r = q

\* Who had a cease-fire of late is tense.
TenseTruce(w) == \A pair \in w.truce : \E n, m \in Nation : pair = {n, m} /\ w.status[n][m] = Tense

Mutual(w) ==
    \A n, m \in Nation : n # m =>
        w.status[n][m] = w.status[m][n] /\ w.trade[n][m] = w.trade[m][n]

Sound(w) ==
    w \in World /\ FreeRooms(w) /\ ProperMessages(w) /\ NoRepetition(w) /\ TenseTruce(w) /\ Mutual(w)

\* What holds as long as replies answer what was read.
AlliesTrade(w) ==
    \A n, m \in Nation : n # m /\ w.status[n][m] = Alliance => w.trade[n][m]

\* What is in the queue of an Ai waits for its answer.
Awaited(m, n) ==
    n \in Ai /\ m.to = n /\ m.reply = "waiting" /\ m.age <= 1
Queues(w) == \A n \in Nation : \A r \in w.queue[n] : Awaited(w.msg[r], n)

\* n and m come closer to each other on the way from w to v.
Warmer(w, v, n, m) ==
    \/ /\ v.status[n][m] > w.status[n][m]
       /\ (v.status[n][m] >= Friendly \/ w.status[n][m] = Hostile)
    \/ v.trade[n][m] /\ ~w.trade[n][m]

\* From w to v the world stays as it should be and nobody comes closer.
Calm(w, v) ==
    /\ Sound(v)
    /\ AlliesTrade(w) => AlliesTrade(v)
    /\ Queues(w) => Queues(v)
    /\ \A n, m \in Nation : ~Warmer(w, v, n, m)

-----------------------------------------------------------------------------
(* Orders *)

KeySet == [id : Offers, from : Nation, to : Nation, para : Nation \cup {0}]
\* What player p may have read.
Read(p) == {s \in [recno : Slot, meant : KeySet] : s.meant.to = p}
Orders(p) ==
    {SendOrder(m) : m \in {f \in MsgSet : Fresh(f)}}
        \cup {ReplyOrder(s, answer) : s \in Read(p), answer \in Answers}
Screens == {NoScreen} \cup UNION {Read(p) : p \in Human}

Players ==
    /\ screen \in [Human -> Screens]
    /\ orders \in [Human -> UNION {Seq(Orders(p)) : p \in Human}]
    /\ misread \in BOOLEAN /\ events \in 0..MaxEvents
    /\ \A p \in Human : /\ screen[p] \in Read(p) \cup {NoScreen}
                        /\ orders[p] \in Seq(Orders(p)) /\ Len(orders[p]) <= MaxOrders

IInv ==
    /\ Sound(world) /\ Players
    /\ ~misread => AlliesTrade(world)
    /\ ~misread /\ ~SlowAi => Queues(world)

-----------------------------------------------------------------------------
(* The list of rooms *)

LEMMA DownwardsFact ==
    /\ Downwards \in Seq(Slot) /\ DOMAIN Downwards = Slot
    /\ \A k, l \in Slot : Downwards[k] = Downwards[l] => k = l
    /\ \A r \in Slot : MaxMsg + 1 - r \in Slot /\ Downwards[MaxMsg + 1 - r] = r
<1>1. MaxMsg \in Nat
  BY BoundAssumption
<1>2. \A k \in 1..MaxMsg : MaxMsg + 1 - k \in 1..MaxMsg
  BY <1>1
<1>3. Downwards = [i \in 1..MaxMsg |-> MaxMsg + 1 - i]
  BY DEF Downwards, Slot
<1>4. Downwards \in Seq(Slot)
  BY <1>1, <1>2, <1>3 DEF Slot
<1>5. \A k, l \in Slot : Downwards[k] = Downwards[l] => k = l
  BY <1>1, <1>3 DEF Slot
<1>6. \A r \in Slot : MaxMsg + 1 - r \in Slot /\ Downwards[MaxMsg + 1 - r] = r
  BY <1>1, <1>2, <1>3 DEF Slot
<1> QED BY <1>3, <1>4, <1>5, <1>6 DEF Slot

\* The rooms given back are those of the deleted messages, each once.
LEMMA DescendingFact ==
    ASSUME NEW S \in SUBSET Slot
    PROVE  /\ Descending(S) \in Seq(Slot)
           /\ \A k \in DOMAIN Descending(S) : Descending(S)[k] \in S
           /\ \A k, l \in DOMAIN Descending(S) : Descending(S)[k] = Descending(S)[l] => k = l
           /\ \A r \in S : \E k \in DOMAIN Descending(S) : Descending(S)[k] = r
<1> DEFINE P == {k \in Slot : Downwards[k] \in S}
           s == FlattenSeq([k \in DOMAIN Downwards |-> IF k \in P THEN <<Downwards[k]>> ELSE << >>])
           d == Descending(S)
<1>1. d = s
  <2>1. [k \in Slot |-> IF Downwards[k] \in S THEN <<Downwards[k]>> ELSE << >>]
          = [k \in DOMAIN Downwards |-> IF k \in P THEN <<Downwards[k]>> ELSE << >>]
    BY DownwardsFact
  <2> QED BY <2>1 DEF Descending
<1>2. s \in Seq(Slot) /\ \E f : ChosenUpTo(Downwards, P, Len(Downwards), s, f)
  <2>1. P \in SUBSET DOMAIN Downwards /\ Downwards \in Seq(Slot)
    BY DownwardsFact
  <2> HIDE DEF P
  <2> QED BY <2>1, ChosenFact
<1>3. PICK f : ChosenUpTo(Downwards, P, Len(Downwards), s, f)
  BY <1>2
<1>4. DOMAIN s \in SUBSET Nat /\ \A k \in Slot : k \in Nat /\ k <= Len(Downwards)
  <2>1. DOMAIN Downwards = 1 .. Len(Downwards) /\ Len(Downwards) \in Nat
    BY DownwardsFact, SeqFact
  <2>2. DOMAIN s \in SUBSET Nat
    BY <1>2, SeqFact
  <2> QED BY <2>1, <2>2, DownwardsFact
<1> HIDE DEF s
<1>5. \A k \in DOMAIN s : f[k] \in Slot /\ s[k] = Downwards[f[k]] /\ s[k] \in S
  BY <1>3 DEF ChosenUpTo
<1>6. \A k, l \in DOMAIN s : s[k] = s[l] => k = l
  <2> SUFFICES ASSUME NEW k \in DOMAIN s, NEW l \in DOMAIN s, s[k] = s[l] PROVE k = l
    OBVIOUS
  <2>1. f[k] = f[l] /\ f[k] \in Nat /\ k \in Nat /\ l \in Nat
    BY <1>4, <1>5, DownwardsFact
  <2>2. k < l => f[k] < f[l]
    BY <1>3 DEF ChosenUpTo
  <2>3. l < k => f[l] < f[k]
    BY <1>3 DEF ChosenUpTo
  <2> QED BY <2>1, <2>2, <2>3
<1>7. \A r \in S : \E k \in DOMAIN s : s[k] = r
  <2> SUFFICES ASSUME NEW r \in S PROVE \E k \in DOMAIN s : s[k] = r
    OBVIOUS
  <2>1. PICK p \in Slot : Downwards[p] = r
    BY DownwardsFact
  <2>2. p \in P /\ p <= Len(Downwards)
    BY <1>4, <2>1
  <2>3. \E k \in DOMAIN s : f[k] = p
    BY <1>3, <2>2 DEF ChosenUpTo
  <2> QED BY <1>5, <2>1, <2>3
<1> QED BY <1>1, <1>2, <1>5, <1>6, <1>7 DEF s

\* The list without its last room.
LEMMA FrontFact ==
    ASSUME NEW s \in Seq(Slot), Len(s) >= 1
    PROVE  /\ Front(s) \in Seq(Slot) /\ Len(Front(s)) = Len(s) - 1
           /\ Last(s) \in Slot /\ Len(s) \in DOMAIN s /\ Last(s) = s[Len(s)]
           /\ DOMAIN Front(s) = DOMAIN s \ {Len(s)}
           /\ \A k \in DOMAIN Front(s) : Front(s)[k] = s[k]
<1>1. Len(s) \in Nat /\ DOMAIN s = 1 .. Len(s) /\ \A k \in DOMAIN s : s[k] \in Slot
  BY SeqFact
<1> DEFINE n == Len(s) - 1
           t == SubSeq(s, 1, n)
<1>2. n \in Nat /\ n >= 0 /\ n - 1 + 1 = n /\ \A k \in 1 .. n : k \in DOMAIN s /\ 1 + k - 1 = k
  BY <1>1
<1> HIDE DEF n
<1>3. /\ t \in Seq(Slot) /\ Len(t) = IF 1 <= n THEN n - 1 + 1 ELSE 0
      /\ \A k \in 1 .. n - 1 + 1 : t[k] = s[1 + k - 1]
  <2>1. \A k \in 1 .. n : s[k] \in Slot
    BY <1>1, <1>2
  <2> QED BY <1>2, <2>1, SubSeqProperties, 1 \in Int, n \in Int
<1> HIDE DEF t
<1>4. Len(t) = n /\ DOMAIN t = 1 .. n
  <2>1. Len(t) = n
    BY <1>2, <1>3
  <2> QED BY <1>3, <2>1, SeqFact
<1>5. DOMAIN t = DOMAIN s \ {Len(s)}
  BY <1>1, <1>4 DEF n
<1>6. \A k \in DOMAIN t : t[k] = s[k]
  BY <1>2, <1>3, <1>4
<1>7. Len(s) \in DOMAIN s
  BY <1>1
<1>8. Front(s) = t
  BY DEF Front, t, n
<1> QED BY <1>1, <1>3, <1>4, <1>5, <1>6, <1>7, <1>8 DEF Last, n

-----------------------------------------------------------------------------
(* What the operators keep *)

\* Relations, nations and the game are left alone.
Undisturbed(w, v) ==
    v.status = w.status /\ v.trade = w.trade /\ v.truce = w.truce /\ v.alive = w.alive
        /\ v.running = w.running

LEMMA WorldFact ==
    ASSUME NEW w \in World
    PROVE  /\ w.alive \in SUBSET Nation /\ w.status \in [Nation -> [Nation -> Status]]
           /\ w.trade \in [Nation -> [Nation -> BOOLEAN]] /\ w.truce \in SUBSET (SUBSET Nation)
           /\ w.msg \in [Slot -> MsgSet \cup {NoMsg}] /\ w.free \in Seq(Slot)
           /\ w.queue \in [Nation -> SUBSET Slot] /\ w.running \in BOOLEAN
BY DEF World

LEMMA RelationFact ==
    ASSUME NEW w \in World, NEW n \in Nation, NEW m \in Nation
    PROVE  w.status[n][m] \in 0..4 /\ w.trade[n][m] \in BOOLEAN
BY WorldFact DEF Status, Hostile, Alliance

LEMMA CalmFact ==
    ASSUME NEW w \in World, NEW v, Sound(v), Undisturbed(w, v), Queues(w) => Queues(v)
    PROVE  Calm(w, v)
<1>1. v.status = w.status /\ v.trade = w.trade
  BY DEF Undisturbed
<1>2. AlliesTrade(w) => AlliesTrade(v)
  BY <1>1 DEF AlliesTrade
<1>3. \A n, m \in Nation : ~(w.status[n][m] > w.status[n][m])
  BY RelationFact
<1>4. \A n, m \in Nation : ~Warmer(w, v, n, m)
  BY <1>1, <1>3 DEF Warmer
<1> QED BY <1>2, <1>4 DEF Calm

\* What a message is made of.
LEMMA MsgFact ==
    ASSUME NEW m \in MsgSet
    PROVE  /\ m.id \in Offers \cup Notices /\ m.from \in Nation /\ m.to \in Nation
           /\ m.para \in Nation \cup {0} /\ m.age \in 0..3 /\ m # NoMsg
           /\ m.reply \in {"waiting", "not_needed", "accept", "reject"}
BY DEF MsgSet, NoMsg, Offers, Notices, Answers

LEMMA NoMsgFact ==
    /\ NoMsg \notin MsgSet /\ NoMsg.id = "none" /\ NoMsg.from \notin Nation /\ NoMsg.to \notin Nation
    /\ NoMsg.reply = "none" /\ NoMsg.age = 0
BY NationAssumption, MsgFact DEF NoMsg

\* Deleting messages: their rooms are free, no action about them is left.
LEMMA DelAllFact ==
    ASSUME NEW w, Sound(w), NEW S \in SUBSET Used(w)
    PROVE  LET v == DelAll(w, S)
           IN  /\ Sound(v) /\ Undisturbed(w, v) /\ Calm(w, v)
               /\ Len(v.free) >= Len(w.free)
               /\ \A r \in Slot : v.msg[r] = IF r \in S THEN NoMsg ELSE w.msg[r]
<1> DEFINE v == DelAll(w, S)
           d == Descending(S)
           fs == w.free
           gs == fs \o d
<1>1. w \in World /\ S \in SUBSET Slot /\ fs \in Seq(Slot) /\ \A r \in S : w.msg[r] # NoMsg
  BY DEF Sound, World, Used
<1>3. /\ d \in Seq(Slot) /\ \A k \in DOMAIN d : d[k] \in S
      /\ \A k, l \in DOMAIN d : d[k] = d[l] => k = l
      /\ \A r \in S : \E k \in DOMAIN d : d[k] = r
  BY <1>1, DescendingFact
<1>2. /\ v \in World /\ Undisturbed(w, v)
      /\ v.msg = [r \in Slot |-> IF r \in S THEN NoMsg ELSE w.msg[r]] /\ v.free = gs
      /\ v.queue = [n \in Nation |-> w.queue[n] \ {r \in S : w.msg[r].to = n /\ Unanswered(w.msg[r])}]
  <2> DEFINE msg == [r \in Slot |-> IF r \in S THEN NoMsg ELSE w.msg[r]]
             queue == [n \in Nation |->
                          w.queue[n] \ {r \in S : w.msg[r].to = n /\ Unanswered(w.msg[r])}]
  <2>1. v = [w EXCEPT !.msg = msg, !.free = gs, !.queue = queue]
    BY DEF DelAll
  <2>2. gs \in Seq(Slot)
    BY <1>1, <1>3, ConcatProperties
  <2>3. msg \in [Slot -> MsgSet \cup {NoMsg}] /\ queue \in [Nation -> SUBSET Slot]
    BY <1>1, WorldFact
  <2> HIDE DEF msg, gs, queue, v
  <2>4. v \in World /\ Undisturbed(w, v) /\ v.msg = msg /\ v.free = gs /\ v.queue = queue
    BY <1>1, <2>1, <2>2, <2>3 DEF World, Undisturbed
  <2> QED BY <2>4 DEF msg, queue
<1> HIDE DEF v, d, fs
<1>4. /\ gs \in Seq(Slot) /\ \A k \in DOMAIN fs : k \in DOMAIN gs /\ gs[k] = fs[k]
      /\ \A k \in DOMAIN d : Len(fs) + k \in DOMAIN gs /\ gs[Len(fs) + k] = d[k]
      /\ \A k \in DOMAIN gs : k \in DOMAIN fs \/ (k - Len(fs) \in DOMAIN d /\ k = Len(fs) + (k - Len(fs)))
      /\ \A k \in DOMAIN fs : k \in Nat /\ 1 <= k /\ k <= Len(fs)
      /\ \A k \in DOMAIN d : k \in Nat /\ 1 <= k
      /\ Len(fs) \in Nat
  BY <1>1, <1>3, ConcatFact
<1>5. Len(gs) >= Len(fs)
  <2>1. Len(gs) = Len(fs) + Len(d) /\ Len(d) \in Nat
    BY <1>1, <1>3, ConcatProperties, SeqFact
  <2> QED BY <1>4, <2>1
<1> HIDE DEF gs
<1>6. /\ \A k, l \in DOMAIN fs : fs[k] = fs[l] => k = l
      /\ \A r \in Slot : w.msg[r] = NoMsg <=> \E k \in DOMAIN fs : fs[k] = r
  BY DEF Sound, FreeRooms, fs
<1>7. \A r \in Slot : v.msg[r] = IF r \in S THEN NoMsg ELSE w.msg[r]
  BY <1>2
<1>8. FreeRooms(v)
  <2>1. \A r \in Slot : v.msg[r] = NoMsg <=> \E k \in DOMAIN gs : gs[k] = r
    <3> SUFFICES ASSUME NEW r \in Slot PROVE v.msg[r] = NoMsg <=> \E k \in DOMAIN gs : gs[k] = r
      OBVIOUS
    <3>1. CASE r \in S
      BY <1>3, <1>4, <1>7, <3>1
    <3>2. CASE r \notin S
      <4>1. v.msg[r] = NoMsg <=> \E k \in DOMAIN fs : fs[k] = r
        BY <1>6, <1>7, <3>2
      <4>2. \A k \in DOMAIN d : d[k] # r
        BY <1>3, <3>2
      <4> QED BY <1>4, <4>1, <4>2
    <3> QED BY <3>1, <3>2
  <2>2. \A k \in DOMAIN fs, l \in DOMAIN d : fs[k] # d[l]
    BY <1>1, <1>3, <1>6
  <2>3. ASSUME NEW k \in DOMAIN gs, NEW l \in DOMAIN gs, gs[k] = gs[l] PROVE k = l
    <3>1. CASE k \in DOMAIN fs /\ l \in DOMAIN fs
      BY <1>4, <1>6, <2>3, <3>1
    <3>2. CASE k \in DOMAIN fs /\ l - Len(fs) \in DOMAIN d /\ l = Len(fs) + (l - Len(fs))
      BY <1>4, <2>2, <2>3, <3>2
    <3>3. CASE l \in DOMAIN fs /\ k - Len(fs) \in DOMAIN d /\ k = Len(fs) + (k - Len(fs))
      BY <1>4, <2>2, <2>3, <3>3
    <3>4. CASE /\ k - Len(fs) \in DOMAIN d /\ k = Len(fs) + (k - Len(fs))
               /\ l - Len(fs) \in DOMAIN d /\ l = Len(fs) + (l - Len(fs))
      <4> DEFINE i == k - Len(fs)
                 j == l - Len(fs)
      <4>1. gs[Len(fs) + i] = d[i] /\ gs[Len(fs) + j] = d[j]
        BY <1>4, <3>4
      <4>2. d[i] = d[j]
        BY <2>3, <3>4, <4>1
      <4>3. i = j
        BY <1>3, <3>4, <4>2
      <4> QED BY <3>4, <4>3
    <3> QED BY <1>4, <3>1, <3>2, <3>3, <3>4
  <2> QED BY <1>2, <2>1, <2>3 DEF FreeRooms
<1>11. \A r \in Used(v) : r \in Used(w) /\ v.msg[r] = w.msg[r]
  BY <1>7 DEF Used
<1>12. Sound(v)
  <2>1. v.alive = w.alive /\ v.status = w.status /\ v.trade = w.trade /\ v.truce = w.truce
    BY <1>2 DEF Undisturbed
  <2>2. ProperMessages(v)
    BY <1>11, <2>1 DEF Sound, ProperMessages
  <2>3. NoRepetition(v)
    BY <1>11 DEF Sound, NoRepetition
  <2>4. TenseTruce(v) /\ Mutual(v)
    BY <2>1 DEF Sound, TenseTruce, Mutual
  <2> QED BY <1>2, <1>8, <2>2, <2>3, <2>4 DEF Sound
<1>13. ASSUME Queues(w) PROVE Queues(v)
  <2> SUFFICES ASSUME NEW n \in Nation, NEW r \in v.queue[n] PROVE Awaited(v.msg[r], n)
    BY DEF Queues
  <2>1. r \in w.queue[n] /\ r \in Slot /\ (r \notin S \/ w.msg[r].to # n \/ ~Unanswered(w.msg[r]))
    BY <1>1, <1>2, WorldFact
  <2>2. Awaited(w.msg[r], n)
    BY <1>13, <2>1 DEF Queues
  <2>3. r \notin S
    BY <2>1, <2>2 DEF Awaited, Unanswered
  <2> QED BY <1>7, <2>1, <2>2, <2>3
<1>14. Calm(w, v)
  BY <1>1, <1>2, <1>12, <1>13, CalmFact
<1> QED BY <1>2, <1>5, <1>7, <1>12, <1>14 DEF v, fs

\* A new message takes the room emptied last; an Ai finds an offer in its queue.
LEMMA PutFact ==
    ASSUME NEW w, Sound(w), NEW m, Fresh(m), Len(w.free) >= 1,
           {m.from, m.to} \subseteq w.alive,
           m.id \in Offers /\ m.from \in Ai => Exist(w, m.id, m.from, m.to) = {}
    PROVE  LET v == Put(w, m)
           IN  /\ Sound(v) /\ Undisturbed(w, v) /\ Calm(w, v)
               /\ Len(v.free) = Len(w.free) - 1
               /\ \E s \in Slot : /\ w.msg[s] = NoMsg
                                  /\ \A r \in Slot : v.msg[r] = IF r = s THEN m ELSE w.msg[r]
<1> DEFINE v == Put(w, m)
           fs == w.free
           gs == Front(fs)
           s == Last(fs)
           msg == [w.msg EXCEPT ![s] = m]
           queue == IF m.to \in Ai /\ m.reply = "waiting"
                    THEN [w.queue EXCEPT ![m.to] = @ \cup {s}] ELSE w.queue
<1>1. w \in World /\ fs \in Seq(Slot) /\ m \in MsgSet /\ m.to \in Nation
  BY MsgFact DEF Sound, World, Fresh, Proper
<1>2. /\ gs \in Seq(Slot) /\ Len(gs) = Len(fs) - 1
      /\ s \in Slot /\ Len(fs) \in DOMAIN fs /\ s = fs[Len(fs)]
      /\ DOMAIN gs = DOMAIN fs \ {Len(fs)}
      /\ \A k \in DOMAIN gs : gs[k] = fs[k]
  BY <1>1, FrontFact
<1> HIDE DEF gs, s
<1>3. msg \in [Slot -> MsgSet \cup {NoMsg}] /\ queue \in [Nation -> SUBSET Slot]
  BY <1>1, <1>2, WorldFact
<1>4. v \in World /\ Undisturbed(w, v) /\ v.msg = msg /\ v.free = gs /\ v.queue = queue
  <2> DEFINE put == LinkIn(w, m)
  <2>1. put = [w EXCEPT !.free = gs, !.msg = msg]
    BY <1>1 DEF LinkIn, gs, s, World
  <2> HIDE DEF put, msg, queue
  <2>2. put \in World /\ Undisturbed(w, put) /\ put.msg = msg /\ put.free = gs /\ put.queue = w.queue
    BY <1>1, <1>2, <1>3, <2>1 DEF World, Undisturbed
  <2>3. v = IF m.to \in Ai /\ m.reply = "waiting"
            THEN [put EXCEPT !.queue[m.to] = @ \cup {s}] ELSE put
    BY DEF Put, put, s
  <2>4. CASE m.to \in Ai /\ m.reply = "waiting"
    <3>1. v = [put EXCEPT !.queue = queue]
      BY <1>1, <2>2, <2>3, <2>4 DEF queue, World
    <3> QED BY <1>3, <2>2, <3>1 DEF World, Undisturbed
  <2>5. CASE ~(m.to \in Ai /\ m.reply = "waiting")
    BY <2>2, <2>3, <2>5 DEF queue
  <2> QED BY <2>4, <2>5
<1> HIDE DEF v
<1>5. \A r \in Slot : v.msg[r] = IF r = s THEN m ELSE w.msg[r]
  BY <1>1, <1>2, <1>4, WorldFact
<1>6. /\ \A k, l \in DOMAIN fs : fs[k] = fs[l] => k = l
      /\ \A r \in Slot : w.msg[r] = NoMsg <=> \E k \in DOMAIN fs : fs[k] = r
  BY DEF Sound, FreeRooms
<1>7. m # NoMsg /\ w.msg[s] = NoMsg
  BY <1>1, <1>2, <1>6, MsgFact
<1> HIDE DEF fs, msg, queue
<1>8. FreeRooms(v)
  <2>1. \A k, l \in DOMAIN gs : gs[k] = gs[l] => k = l
    BY <1>2, <1>6
  <2>2. ASSUME NEW r \in Slot PROVE v.msg[r] = NoMsg <=> \E k \in DOMAIN gs : gs[k] = r
    <3>1. CASE r = s
      <4>1. \A k \in DOMAIN gs : gs[k] # s
        BY <1>2, <1>6
      <4> QED BY <1>5, <1>7, <3>1, <4>1
    <3>2. CASE r # s
      <4>1. (\E k \in DOMAIN gs : gs[k] = r) <=> (\E k \in DOMAIN fs : fs[k] = r)
        BY <1>2, <3>2
      <4> QED BY <1>5, <1>6, <3>2, <4>1
    <3> QED BY <3>1, <3>2
  <2> QED BY <1>4, <2>1, <2>2 DEF FreeRooms
<1>9. \A r \in Used(v) : /\ r \in Slot
                         /\ \/ r = s /\ v.msg[r] = m
                            \/ r # s /\ r \in Used(w) /\ v.msg[r] = w.msg[r]
  BY <1>5 DEF Used
<1>10. Sound(v)
  <2>1. v.alive = w.alive /\ v.status = w.status /\ v.trade = w.trade /\ v.truce = w.truce
    BY <1>4 DEF Undisturbed
  <2>2. ProperMessages(v)
    BY <1>9, <2>1 DEF Sound, ProperMessages, Fresh
  <2>3. NoRepetition(v)
    <3>1. ASSUME NEW r \in Used(w), m.id = w.msg[r].id, m.from = w.msg[r].from, m.to = w.msg[r].to,
                 m.from \in Ai, m.reply = "waiting", w.msg[r].reply = "waiting"
          PROVE  FALSE
      <4>1. m.id \in Offers
        BY <3>1 DEF Fresh, Proper
      <4>2. r \in Exist(w, m.id, m.from, m.to)
        BY <3>1 DEF Exist, Used, Unanswered
      <4> QED BY <3>1, <4>1, <4>2
    <3> SUFFICES ASSUME NEW r \in Used(v), NEW q \in Used(v), SameOffer(v.msg[r], v.msg[q]) PROVE r = q
      BY DEF NoRepetition
    <3>2. CASE r = s /\ q # s
      BY <1>9, <3>1, <3>2 DEF SameOffer
    <3>3. CASE r # s /\ q = s
      BY <1>9, <3>1, <3>3 DEF SameOffer
    <3>4. CASE r # s /\ q # s
      BY <1>9, <3>4 DEF Sound, NoRepetition
    <3> QED BY <3>2, <3>3, <3>4
  <2>4. TenseTruce(v) /\ Mutual(v)
    BY <2>1 DEF Sound, TenseTruce, Mutual
  <2> QED BY <1>4, <1>8, <2>2, <2>3, <2>4 DEF Sound
<1>11. ASSUME Queues(w) PROVE Queues(v)
  <2> SUFFICES ASSUME NEW n \in Nation, NEW r \in v.queue[n] PROVE Awaited(v.msg[r], n)
    BY DEF Queues
  <2>1. CASE r \in w.queue[n]
    <3>1. Awaited(w.msg[r], n) /\ r \in Slot
      BY <1>1, <1>11, <2>1, WorldFact DEF Queues
    <3>2. r # s
      BY <1>7, <3>1, NoMsgFact DEF Awaited
    <3> QED BY <1>5, <3>1, <3>2
  <2>2. CASE r \notin w.queue[n]
    <3>1. m.to \in Ai /\ m.reply = "waiting" /\ n = m.to /\ r = s
      BY <1>1, <1>4, <2>2, WorldFact DEF queue
    <3>2. v.msg[r] = m /\ m.age = 0
      BY <1>2, <1>5, <3>1 DEF Fresh
    <3> QED BY <3>1, <3>2 DEF Awaited
  <2> QED BY <2>1, <2>2
<1>12. Calm(w, v)
  BY <1>1, <1>4, <1>10, <1>11, CalmFact
<1> QED BY <1>2, <1>4, <1>5, <1>7, <1>10, <1>12 DEF v, fs

\* Messages, nations and the game are left alone.
SameBooks(w, v) ==
    v.msg = w.msg /\ v.free = w.free /\ v.queue = w.queue /\ v.alive = w.alive /\ v.running = w.running

LEMMA BooksFact ==
    ASSUME NEW w, Sound(w), NEW v \in World, SameBooks(w, v)
    PROVE  /\ FreeRooms(v) /\ ProperMessages(v) /\ NoRepetition(v) /\ Used(v) = Used(w)
           /\ Queues(w) => Queues(v)
BY DEF SameBooks, Sound, FreeRooms, ProperMessages, NoRepetition, Queues, Used

Traded(w, v, n, m, flag) ==
    /\ Sound(v) /\ SameBooks(w, v) /\ v.status = w.status
    /\ \A a, b \in Nation :
        /\ {a, b} = {n, m} => v.trade[a][b] = flag
        /\ {a, b} # {n, m} => v.trade[a][b] = w.trade[a][b]
    /\ Queues(w) => Queues(v)

LEMMA TradeFact ==
    ASSUME NEW w, Sound(w), NEW n \in Nation, NEW m \in Nation, n # m, NEW flag \in BOOLEAN
    PROVE  Traded(w, SetTrade(w, n, m, flag), n, m, flag)
<1> DEFINE v == SetTrade(w, n, m, flag)
<1>1. w \in World
  BY DEF Sound
<1>2. /\ v \in World /\ SameBooks(w, v) /\ v.status = w.status /\ v.truce = w.truce
      /\ v.trade = [w.trade EXCEPT ![n][m] = flag, ![m][n] = flag]
  BY <1>1 DEF SetTrade, World, SameBooks
<1> HIDE DEF v
<1>3. \A a, b \in Nation : v.trade[a][b] = IF {a, b} = {n, m} THEN flag ELSE w.trade[a][b]
  <2>1. \A a, b \in Nation : v.trade[a][b] =
            IF (a = n /\ b = m) \/ (a = m /\ b = n) THEN flag ELSE w.trade[a][b]
    BY <1>1, <1>2, WorldFact
  <2>2. \A a, b \in Nation : {a, b} = {n, m} <=> (a = n /\ b = m) \/ (a = m /\ b = n)
    OBVIOUS
  <2> QED BY <2>1, <2>2
<1>4. TenseTruce(v)
  BY <1>2 DEF Sound, TenseTruce
<1>5. Mutual(v)
  <2>1. \A a, b \in Nation : {a, b} = {b, a}
    OBVIOUS
  <2>2. Mutual(w)
    BY DEF Sound
  <2>3. ASSUME NEW a \in Nation, NEW b \in Nation, a # b
        PROVE  v.trade[a][b] = v.trade[b][a] /\ v.status[a][b] = v.status[b][a]
    <3>1. w.trade[a][b] = w.trade[b][a] /\ w.status[a][b] = w.status[b][a]
      BY <2>2, <2>3 DEF Mutual
    <3>2. v.trade[a][b] = v.trade[b][a]
      BY <1>3, <2>1, <3>1
    <3> QED BY <1>2, <3>1, <3>2
  <2> QED BY <2>3 DEF Mutual
<1>6. FreeRooms(v) /\ ProperMessages(v) /\ NoRepetition(v) /\ (Queues(w) => Queues(v))
  BY <1>2, BooksFact
<1> QED BY <1>2, <1>3, <1>4, <1>5, <1>6 DEF Sound, Traded, v

\* War ends the trade between the two, a recent cease-fire may prevent it.
Related(w, v, n, m, status) ==
    /\ Sound(v) /\ SameBooks(w, v)
    /\ Queues(w) => Queues(v)
    /\ \/ v = w /\ status = Hostile
       \/ \A a, b \in Nation :
            /\ {a, b} = {n, m} => v.status[a][b] = status
            /\ {a, b} # {n, m} => v.status[a][b] = w.status[a][b]
            /\ {a, b} = {n, m} /\ status = Hostile => v.trade[a][b] = FALSE
            /\ {a, b} # {n, m} \/ status # Hostile => v.trade[a][b] = w.trade[a][b]

LEMMA StatusFact ==
    ASSUME NEW w, Sound(w), NEW n \in Nation, NEW m \in Nation, n # m, NEW status \in Status
    PROVE  Related(w, SetStatus(w, n, m, status), n, m, status)
<1> DEFINE v == SetStatus(w, n, m, status)
           truce == IF status = Tense THEN w.truce \cup {{n, m}} ELSE w.truce \ {{n, m}}
           set == [w EXCEPT !.status[n][m] = status, !.status[m][n] = status, !.truce = truce]
<1>1. w \in World /\ truce \in SUBSET (SUBSET Nation)
  BY WorldFact DEF Sound
<1>2. CASE w.status[n][m] = Tense /\ status = Hostile /\ {n, m} \in w.truce
  <2>1. v = w
    BY <1>2 DEF SetStatus
  <2> QED BY <1>2, <2>1 DEF SameBooks, Related
<1>3. CASE ~(w.status[n][m] = Tense /\ status = Hostile /\ {n, m} \in w.truce)
  <2>1. v = IF status = Hostile THEN SetTrade(set, n, m, FALSE) ELSE set
    BY <1>3, Zenon DEF SetStatus
  <2> HIDE DEF truce
  <2>2. /\ set \in World /\ SameBooks(w, set) /\ set.trade = w.trade /\ set.truce = truce
        /\ set.status = [w.status EXCEPT ![n][m] = status, ![m][n] = status]
    BY <1>1 DEF World, SameBooks
  <2> HIDE DEF set, v
  <2>3. \A a, b \in Nation : {a, b} = {n, m} <=> (a = n /\ b = m) \/ (a = m /\ b = n)
    OBVIOUS
  <2>4. \A a, b \in Nation : set.status[a][b] = IF {a, b} = {n, m} THEN status ELSE w.status[a][b]
    <3>1. \A a, b \in Nation : set.status[a][b] =
              IF (a = n /\ b = m) \/ (a = m /\ b = n) THEN status ELSE w.status[a][b]
      BY <1>1, <2>2, WorldFact
    <3> QED BY <2>3, <3>1
  <2>5. TenseTruce(set)
    <3> SUFFICES ASSUME NEW pair \in truce
                 PROVE  \E a, b \in Nation : pair = {a, b} /\ set.status[a][b] = Tense
      BY <2>2 DEF TenseTruce
    <3>1. CASE pair = {n, m}
      <4>1. status = Tense
        BY <3>1 DEF truce
      <4> QED BY <2>4, <3>1, <4>1
    <3>2. CASE pair # {n, m}
      <4>1. PICK a \in Nation, b \in Nation : pair = {a, b} /\ w.status[a][b] = Tense
        BY <3>2 DEF Sound, TenseTruce, truce
      <4> QED BY <2>4, <3>2, <4>1
    <3> QED BY <3>1, <3>2
  <2>6. Mutual(set)
    <3>1. \A a, b \in Nation : {a, b} = {b, a}
      OBVIOUS
    <3>2. Mutual(w)
      BY DEF Sound
    <3>3. ASSUME NEW a \in Nation, NEW b \in Nation, a # b
          PROVE  set.trade[a][b] = set.trade[b][a] /\ set.status[a][b] = set.status[b][a]
      <4>1. w.trade[a][b] = w.trade[b][a] /\ w.status[a][b] = w.status[b][a]
        BY <3>2, <3>3 DEF Mutual
      <4>2. set.status[a][b] = set.status[b][a]
        BY <2>4, <3>1, <4>1
      <4> QED BY <2>2, <4>1, <4>2
    <3> QED BY <3>3 DEF Mutual
  <2>7. Sound(set) /\ (Queues(w) => Queues(set))
    <3>1. FreeRooms(set) /\ ProperMessages(set) /\ NoRepetition(set) /\ (Queues(w) => Queues(set))
      BY <2>2, BooksFact
    <3> QED BY <2>2, <2>5, <2>6, <3>1 DEF Sound
  <2>8. CASE status = Hostile
    <3>1. v = SetTrade(set, n, m, FALSE)
      BY <2>1, <2>8
    <3>2. Traded(set, SetTrade(set, n, m, FALSE), n, m, FALSE)
      BY <2>7, TradeFact
    <3>3. /\ Sound(v) /\ SameBooks(set, v) /\ v.status = set.status
          /\ Queues(set) => Queues(v)
      BY <3>1, <3>2 DEF Traded
    <3>4. \A a, b \in Nation :
            /\ {a, b} = {n, m} => v.trade[a][b] = FALSE
            /\ {a, b} # {n, m} => v.trade[a][b] = set.trade[a][b]
      BY <3>1, <3>2 DEF Traded
    <3>5. SameBooks(w, v)
      BY <2>2, <3>3 DEF SameBooks
    <3>6. Queues(w) => Queues(v)
      BY <2>7, <3>3
    <3>7. ASSUME NEW a \in Nation, NEW b \in Nation
          PROVE  /\ {a, b} = {n, m} => v.status[a][b] = status
                 /\ {a, b} # {n, m} => v.status[a][b] = w.status[a][b]
      <4>1. v.status[a][b] = set.status[a][b]
        BY <3>3
      <4> QED BY <2>4, <4>1
    <3>8. ASSUME NEW a \in Nation, NEW b \in Nation
          PROVE  /\ {a, b} = {n, m} => v.trade[a][b] = FALSE
                 /\ {a, b} # {n, m} => v.trade[a][b] = w.trade[a][b]
      <4>1. set.trade[a][b] = w.trade[a][b]
        BY <2>2
      <4> QED BY <3>4, <4>1, Zenon
    <3>9. Related(w, v, n, m, status)
      BY <2>8, <3>3, <3>5, <3>6, <3>7, <3>8, Zenon DEF Related
    <3> QED BY <3>9 DEF v
  <2>9. CASE status # Hostile
    <3>1. v = set
      BY <2>1, <2>9
    <3> QED BY <2>2, <2>4, <2>7, <2>9, <3>1 DEF v, Related
  <2> QED BY <2>8, <2>9
<1> QED BY <1>2, <1>3

\* Nobody comes closer in one step, nor in two.
LEMMA CalmTwice ==
    ASSUME NEW w, NEW v, NEW u, Sound(w), Calm(w, v), Calm(v, u)
    PROVE  Calm(w, u)
<1>1. w \in World /\ v \in World /\ u \in World
  BY DEF Calm, Sound
<1>2. ASSUME NEW n \in Nation, NEW m \in Nation PROVE ~Warmer(w, u, n, m)
  <2>1. /\ w.status[n][m] \in 0..4 /\ v.status[n][m] \in 0..4 /\ u.status[n][m] \in 0..4
        /\ ~Warmer(w, v, n, m) /\ ~Warmer(v, u, n, m)
    BY <1>1, RelationFact DEF Calm
  <2> QED BY <2>1 DEF Warmer, Hostile, Friendly
<1> QED BY <1>2 DEF Calm

LEMMA CalmSelf ==
    ASSUME NEW w, Sound(w)
    PROVE  Calm(w, w)
BY CalmFact DEF Sound, Undisturbed

\* A status below friendship makes nobody closer, unless it ends a war.
LEMMA CoolerFact ==
    ASSUME NEW w, Sound(w), NEW v, NEW n \in Nation, NEW m \in Nation, n # m,
           NEW status \in Hostile..Neutral, Related(w, v, n, m, status),
           status = Hostile \/ w.status[n][m] # Hostile
    PROVE  Calm(w, v)
<1>1. w \in World /\ v \in World /\ Mutual(w)
  BY DEF Sound, Related
<1>2. CASE v = w
  BY <1>2, CalmSelf
<1>3. CASE v # w
  <2>1. \A a, b \in Nation : /\ w.status[a][b] \in 0..4 /\ v.status[a][b] \in 0..4
                             /\ w.trade[a][b] \in BOOLEAN /\ v.trade[a][b] \in BOOLEAN
    BY <1>1, RelationFact
  <2>2. ASSUME NEW a \in Nation, NEW b \in Nation
        PROVE  /\ {a, b} = {n, m} => v.status[a][b] = status
               /\ {a, b} # {n, m} => v.status[a][b] = w.status[a][b]
               /\ v.trade[a][b] => w.trade[a][b]
    BY <1>3, <2>1 DEF Related
  <2>3. ASSUME NEW a \in Nation, NEW b \in Nation
        PROVE  ~Warmer(w, v, a, b)
    <3>1. {a, b} = {n, m} => w.status[a][b] = w.status[n][m]
      <4>1. {a, b} = {n, m} => (a = n /\ b = m) \/ (a = m /\ b = n)
        OBVIOUS
      <4> QED BY <1>1, <4>1 DEF Mutual
    <3> QED BY <2>1, <2>2, <3>1 DEF Warmer, Hostile, Friendly, Neutral
  <2>4. ASSUME AlliesTrade(w) PROVE AlliesTrade(v)
    <3> SUFFICES ASSUME NEW a \in Nation, NEW b \in Nation, a # b, v.status[a][b] = Alliance
                 PROVE  v.trade[a][b]
      BY DEF AlliesTrade
    <3>1. {a, b} # {n, m} /\ w.status[a][b] = Alliance
      <4>1. /\ {a, b} = {n, m} => v.status[a][b] = status
            /\ {a, b} # {n, m} => v.status[a][b] = w.status[a][b]
        BY <2>2
      <4>2. status # Alliance
        BY DEF Hostile, Neutral, Alliance
      <4> QED BY <2>4, <4>1, <4>2
    <3>2. v.trade[a][b] = w.trade[a][b]
      BY <1>3, <3>1 DEF Related
    <3> QED BY <2>4, <3>1, <3>2 DEF AlliesTrade
  <2> QED BY <2>3, <2>4 DEF Calm, Related
<1> QED BY <1>2, <1>3

\* What is dissolved of a nation that is gone.
LEMMA GoneFact ==
    ASSUME NEW w, Sound(w), NEW n \in Nation
    PROVE  /\ Calm(w, NationGone(w, n)) /\ Len(NationGone(w, n).free) >= Len(w.free)
           /\ NationGone(w, n).status = w.status /\ NationGone(w, n).trade = w.trade
<1> DEFINE S == {r \in Used(w) : n \in {w.msg[r].from, w.msg[r].to} \/ ~ValidToDisp(w, w.msg[r])}
           u == DelAll(w, S)
           v == NationGone(w, n)
<1>1. /\ Sound(u) /\ Undisturbed(w, u) /\ Calm(w, u) /\ Len(u.free) >= Len(w.free)
      /\ \A r \in Slot : u.msg[r] = IF r \in S THEN NoMsg ELSE w.msg[r]
  <2>1. S \in SUBSET Used(w)
    OBVIOUS
  <2> HIDE DEF S
  <2> QED BY <2>1, DelAllFact
<1>2. v = [u EXCEPT !.alive = @ \ {n}, !.queue[n] = {}]
  BY DEF NationGone, DelAllNationMsg
<1> HIDE DEF v, u
<1>3. /\ u \in World /\ v \in World
      /\ v.alive = u.alive \ {n} /\ v.queue = [u.queue EXCEPT ![n] = {}]
      /\ v.status = u.status /\ v.trade = u.trade /\ v.truce = u.truce
      /\ v.msg = u.msg /\ v.free = u.free /\ v.running = u.running
  BY <1>1, <1>2 DEF Sound, World
<1>4. ProperMessages(v)
  <2> SUFFICES ASSUME NEW r \in Used(v)
               PROVE  Proper(v.msg[r]) /\ {v.msg[r].from, v.msg[r].to} \subseteq v.alive
    BY DEF ProperMessages
  <2>1. r \in Slot /\ u.msg[r] # NoMsg /\ v.msg[r] = u.msg[r] /\ r \in Used(u)
    BY <1>3 DEF Used
  <2>2. Proper(u.msg[r]) /\ {u.msg[r].from, u.msg[r].to} \subseteq u.alive
    BY <1>1, <2>1 DEF Sound, ProperMessages
  <2>3. r \notin S /\ r \in Used(w) /\ u.msg[r] = w.msg[r]
    BY <1>1, <2>1 DEF Used
  <2>4. n \notin {w.msg[r].from, w.msg[r].to}
    BY <2>3
  <2> QED BY <1>3, <2>1, <2>2, <2>3, <2>4
<1>5. Sound(v)
  BY <1>1, <1>3, <1>4 DEF Sound, FreeRooms, NoRepetition, Used, TenseTruce, Mutual
<1>6. ASSUME Queues(u) PROVE Queues(v)
  <2> SUFFICES ASSUME NEW a \in Nation, NEW r \in v.queue[a] PROVE Awaited(v.msg[r], a)
    BY DEF Queues
  <2>1. r \in u.queue[a]
    BY <1>3, WorldFact
  <2> QED BY <1>3, <1>6, <2>1 DEF Queues
<1>7. \A a, b \in Nation : ~Warmer(w, v, a, b)
  BY <1>1, <1>3 DEF Calm, Warmer, Undisturbed
<1>8. AlliesTrade(w) => AlliesTrade(v)
  BY <1>1, <1>3 DEF AlliesTrade, Undisturbed
<1>9. Calm(w, v)
  BY <1>1, <1>5, <1>6, <1>7, <1>8 DEF Calm
<1> QED BY <1>1, <1>3, <1>9 DEF v, Undisturbed

LEMMA EffectCases ==
    ASSUME NEW w, NEW m
    PROVE  /\ m.id = "trade" => Effect(w, m) = SetTrade(w, m.to, m.from, TRUE)
           /\ m.id = "friendly" => Effect(w, m) = SetStatus(w, m.to, m.from, Friendly)
           /\ m.id = "alliance" => Effect(w, m) = FormAlliance(w, m.to, m.from)
           /\ m.id = "end_trade" => Effect(w, m) = SetTrade(w, m.to, m.from, FALSE)
           /\ m.id \in {"end_friendly", "end_alliance"} =>
                Effect(w, m) = SetStatus(w, m.from, m.to, Neutral)
           /\ m.id = "cease_war" => Effect(w, m) = SetStatus(w, m.to, m.from, Tense)
           /\ m.id = "declare_war" => Effect(w, m) = SetStatus(w, m.to, m.from, Hostile)
           /\ m.id = "request_surrender" => Effect(w, m) = NationGone(w, m.to)
           /\ m.id = "surrender" => Effect(w, m) = NationGone(w, m.from)
           /\ m.id \in {"embargo", "request_war"} => Effect(w, m) = w
<1> DEFINE id == m.id
<1>1. Effect(w, m) =
        CASE id = "trade"        -> SetTrade(w, m.to, m.from, TRUE)
          [] id = "friendly"     -> SetStatus(w, m.to, m.from, Friendly)
          [] id = "alliance"     -> FormAlliance(w, m.to, m.from)
          [] id = "end_trade"    -> SetTrade(w, m.to, m.from, FALSE)
          [] id \in {"end_friendly", "end_alliance"} -> SetStatus(w, m.from, m.to, Neutral)
          [] id = "cease_war"    -> SetStatus(w, m.to, m.from, Tense)
          [] id = "declare_war"  -> SetStatus(w, m.to, m.from, Hostile)
          [] id = "request_surrender" -> NationGone(w, m.to)
          [] id = "surrender"    -> NationGone(w, m.from)
          [] OTHER               -> w
  BY DEF Effect
<1> HIDE DEF id
<1> QED BY <1>1 DEF id

\* A treaty or a cease-fire comes about between the two of the message only.
Treaties == {"trade", "friendly", "alliance", "cease_war"}
Settled(w, v, m) ==
    /\ Sound(v)
    /\ AlliesTrade(w) => AlliesTrade(v)
    /\ Queues(w) => Queues(v)
    /\ \A a, b \in Nation :
        Warmer(w, v, a, b) => {a, b} = {m.from, m.to} /\ m.id \in Treaties

LEMMA CalmSettles ==
    ASSUME NEW w, NEW v, NEW m, Calm(w, v)
    PROVE  Settled(w, v, m)
BY DEF Calm, Settled

LEMMA TreatyFact ==
    ASSUME NEW w, Sound(w), NEW m, Proper(m), m.id \in Treaties
    PROVE  Settled(w, Effect(w, m), m) /\ SameBooks(w, Effect(w, m))
<1> DEFINE v == Effect(w, m)
<1>1. m.from \in Nation /\ m.to \in Nation /\ m.from # m.to /\ {m.to, m.from} = {m.from, m.to}
  BY MsgFact DEF Proper
<1> DEFINE n == m.to
           k == m.from
<1>2. w \in World /\ Friendly \in Status /\ Alliance \in Status /\ Tense \in Status
  BY DEF Sound, Status, Friendly, Tense, Alliance, Hostile
<1> HIDE DEF v
<1>3. ASSUME Sound(v), SameBooks(w, v), Queues(w) => Queues(v),
             \A a, b \in Nation : {a, b} # {n, k} =>
                v.status[a][b] = w.status[a][b] /\ v.trade[a][b] = w.trade[a][b],
             AlliesTrade(w) =>
                \A a, b \in Nation : a # b /\ {a, b} = {n, k} /\ v.status[a][b] = Alliance
                                        => v.trade[a][b]
      PROVE  Settled(w, v, m)
  <2>1. \A a, b \in Nation : /\ w.status[a][b] \in 0..4 /\ v.status[a][b] \in 0..4
                             /\ w.trade[a][b] \in BOOLEAN /\ v.trade[a][b] \in BOOLEAN
    BY <1>2, <1>3, RelationFact DEF Sound
  <2>2. ASSUME NEW a \in Nation, NEW b \in Nation, {a, b} # {n, k} PROVE ~Warmer(w, v, a, b)
    <3>1. v.status[a][b] = w.status[a][b] /\ v.trade[a][b] = w.trade[a][b]
      BY <1>3, <2>2
    <3> QED BY <2>1, <3>1 DEF Warmer
  <2>3. ASSUME AlliesTrade(w), NEW a \in Nation, NEW b \in Nation, a # b, v.status[a][b] = Alliance
        PROVE  v.trade[a][b]
    <3>1. CASE {a, b} = {n, k}
      BY <1>3, <2>3, <3>1
    <3>2. CASE {a, b} # {n, k}
      <4>1. v.status[a][b] = w.status[a][b] /\ v.trade[a][b] = w.trade[a][b]
        BY <1>3, <3>2
      <4> QED BY <2>3, <4>1 DEF AlliesTrade
    <3> QED BY <3>1, <3>2
  <2> QED BY <1>1, <1>3, <2>2, <2>3 DEF Settled, AlliesTrade
<1>4. CASE m.id = "trade"
  <2>1. Traded(w, v, n, k, TRUE)
    <3>1. v = SetTrade(w, n, k, TRUE)
      BY <1>4, EffectCases DEF v
    <3>2. Traded(w, SetTrade(w, n, k, TRUE), n, k, TRUE)
      BY <1>1, TradeFact
    <3> QED BY <3>1, <3>2
  <2>2. \A a, b \in Nation : {a, b} = {n, k} => v.trade[a][b] = TRUE
    BY <2>1 DEF Traded
  <2> QED BY <1>3, <2>1, <2>2 DEF Traded, v
<1>5. CASE m.id \in {"friendly", "cease_war"}
  <2>1. PICK status \in {Friendly, Tense} : Related(w, v, n, k, status)
    <3>1. v = SetStatus(w, n, k, Friendly) \/ v = SetStatus(w, n, k, Tense)
      BY <1>5, EffectCases DEF v
    <3>2. /\ Related(w, SetStatus(w, n, k, Friendly), n, k, Friendly)
          /\ Related(w, SetStatus(w, n, k, Tense), n, k, Tense)
      BY <1>1, <1>2, StatusFact
    <3> QED BY <3>1, <3>2
  <2>2. status # Hostile /\ status # Alliance
    BY DEF Friendly, Tense, Hostile, Alliance
  <2>3. /\ Sound(v) /\ SameBooks(w, v)
        /\ Queues(w) => Queues(v)
        /\ \A a, b \in Nation :
            /\ {a, b} = {n, k} => v.status[a][b] = status
            /\ {a, b} # {n, k} => v.status[a][b] = w.status[a][b]
            /\ v.trade[a][b] = w.trade[a][b]
    BY <2>1, <2>2 DEF Related
  <2> QED BY <1>3, <2>2, <2>3 DEF v
<1>6. CASE m.id = "alliance"
  <2> DEFINE u == SetStatus(w, n, k, Alliance)
  <2>1. v = SetTrade(u, n, k, TRUE)
    BY <1>6, EffectCases DEF v, FormAlliance
  <2>2. Related(w, u, n, k, Alliance)
    BY <1>1, <1>2, StatusFact
  <2> HIDE DEF u
  <2>3. Traded(u, v, n, k, TRUE)
    BY <1>1, <2>1, <2>2, TradeFact DEF Related
  <2>4. \A a, b \in Nation : {a, b} # {n, k} =>
                v.status[a][b] = w.status[a][b] /\ v.trade[a][b] = w.trade[a][b]
    <3>1. Alliance # Hostile
      BY DEF Alliance, Hostile
    <3> QED BY <2>2, <2>3, <3>1 DEF Related, Traded
  <2>5. \A a, b \in Nation : {a, b} = {n, k} => v.trade[a][b] = TRUE
    BY <2>3 DEF Traded
  <2>6. SameBooks(w, v) /\ Sound(v) /\ (Queues(w) => Queues(v))
    BY <2>2, <2>3 DEF Related, Traded, SameBooks
  <2> QED BY <1>3, <2>4, <2>5, <2>6 DEF v
<1> QED BY <1>4, <1>5, <1>6 DEF Treaties

LEMMA AllowsFact ==
    ASSUME NEW w, NEW to, NEW from, NEW id, CanSend(w, to, from, id)
    PROVE  /\ id = "end_trade" => w.status[from][to] # Alliance
           /\ id = "end_friendly" => w.status[from][to] = Friendly
           /\ id = "end_alliance" => w.status[from][to] = Alliance
<1>1. StatusAllows(w, to, from, id)
  BY DEF CanSend
<1>2. id = "end_trade" => w.status[from][to] # Alliance
  BY <1>1 DEF StatusAllows
<1>3. id = "end_friendly" => w.status[from][to] = Friendly
  BY <1>1 DEF StatusAllows
<1>4. id = "end_alliance" => w.status[from][to] = Alliance
  BY <1>1 DEF StatusAllows
<1> QED BY <1>2, <1>3, <1>4

\* An accepted offer brings about what was offered; a notice that may be sent
\* brings nobody closer.
LEMMA EffectFact ==
    ASSUME NEW w, Sound(w), NEW m, Proper(m)
    PROVE  LET v == Effect(w, m)
           IN  /\ Sound(v) /\ Len(v.free) >= Len(w.free)
               /\ m.id \in Offers => Settled(w, v, m)
               /\ m.id \in Notices /\ CanSend(w, m.to, m.from, m.id) => Calm(w, v)
               /\ m.id \in Treaties \cup Notices /\ m.id # "surrender" => SameBooks(w, v)
<1> DEFINE v == Effect(w, m)
           n == m.from
           k == m.to
           may == CanSend(w, m.to, m.from, m.id)
<1>1. n \in Nation /\ k \in Nation /\ n # k /\ k # n /\ m.id \in Offers \cup Notices
  BY MsgFact DEF Proper
<1>2. w \in World /\ Len(w.free) >= Len(w.free)
  BY WorldFact, SeqFact DEF Sound
<1>3. /\ may /\ m.id = "end_trade" => w.status[n][k] # Alliance
      /\ may /\ m.id = "end_friendly" => w.status[n][k] = Friendly
      /\ may /\ m.id = "end_alliance" => w.status[n][k] = Alliance
  BY AllowsFact
<1>4. /\ Neutral \in Status /\ Hostile \in Status
      /\ Neutral \in Hostile..Neutral /\ Hostile \in Hostile..Neutral
      /\ Friendly # Hostile /\ Alliance # Hostile
  BY DEF Status, Neutral, Hostile, Friendly, Alliance
<1> HIDE DEF may, v
<1>5. CASE m.id \in Treaties
  <2>1. Settled(w, v, m) /\ SameBooks(w, v)
    BY <1>5, TreatyFact DEF v
  <2>2. Sound(v) /\ v.free = w.free /\ m.id \notin Notices
    BY <1>5, <2>1 DEF Settled, SameBooks, Treaties, Notices
  <2> QED BY <1>2, <2>1, <2>2 DEF v
<1>6. CASE m.id \in {"embargo", "request_war"}
  <2>1. v = w /\ m.id \notin Treaties \cup Notices
    BY <1>6, EffectCases DEF v, Treaties, Notices
  <2>2. Calm(w, v) /\ Settled(w, v, m)
    BY <2>1, CalmSelf, CalmSettles
  <2> QED BY <1>2, <2>1, <2>2 DEF v
<1>7. CASE m.id = "request_surrender"
  <2>1. v = NationGone(w, k) /\ m.id \notin Treaties \cup Notices
    BY <1>7, EffectCases DEF v, Treaties, Notices
  <2>2. Calm(w, v) /\ Len(v.free) >= Len(w.free)
    BY <1>1, <2>1, GoneFact
  <2>3. Sound(v) /\ Settled(w, v, m)
    BY <2>2, CalmSettles DEF Calm
  <2> QED BY <2>1, <2>2, <2>3 DEF v
<1>8. CASE m.id = "surrender"
  <2>1. v = NationGone(w, n) /\ m.id \notin Offers
    BY <1>8, EffectCases DEF v, Offers
  <2>2. Calm(w, v) /\ Len(v.free) >= Len(w.free)
    BY <1>1, <2>1, GoneFact
  <2>3. Sound(v)
    BY <2>2 DEF Calm
  <2> QED BY <1>8, <2>1, <2>2, <2>3 DEF v
<1>9. CASE m.id \in {"end_friendly", "end_alliance"}
  <2>1. v = SetStatus(w, n, k, Neutral) /\ m.id \notin Offers
    BY <1>9, EffectCases DEF v, Offers
  <2>2. Related(w, v, n, k, Neutral)
    BY <1>1, <1>4, <2>1, StatusFact
  <2>3. may => w.status[n][k] # Hostile
    BY <1>3, <1>4, <1>9
  <2>4. may => Calm(w, v)
    BY <1>1, <1>4, <2>2, <2>3, CoolerFact
  <2>5. Sound(v) /\ SameBooks(w, v) /\ v.free = w.free
    BY <2>2 DEF Related, SameBooks
  <2> QED BY <1>2, <2>1, <2>4, <2>5 DEF v, may
<1>10. CASE m.id = "declare_war"
  <2>1. v = SetStatus(w, k, n, Hostile) /\ m.id \notin Offers
    BY <1>10, EffectCases DEF v, Offers
  <2>2. Related(w, v, k, n, Hostile)
    BY <1>1, <1>4, <2>1, StatusFact
  <2>3. Calm(w, v)
    BY <1>1, <1>4, <2>2, CoolerFact
  <2>4. Sound(v) /\ SameBooks(w, v) /\ v.free = w.free
    BY <2>2 DEF Related, SameBooks
  <2> QED BY <1>2, <2>1, <2>3, <2>4 DEF v
<1>11. CASE m.id = "end_trade"
  <2>1. v = SetTrade(w, k, n, FALSE) /\ m.id \notin Offers
    BY <1>11, EffectCases DEF v, Offers
  <2>2. Traded(w, SetTrade(w, k, n, FALSE), k, n, FALSE)
    BY <1>1, TradeFact
  <2>3. /\ Sound(v) /\ SameBooks(w, v) /\ v.status = w.status /\ v.free = w.free
        /\ Queues(w) => Queues(v)
    BY <2>1, <2>2 DEF Traded, SameBooks
  <2>4. \A a, b \in Nation : {a, b} # {k, n} => v.trade[a][b] = w.trade[a][b]
    BY <2>1, <2>2 DEF Traded
  <2>5. \A a, b \in Nation : {a, b} = {k, n} => v.trade[a][b] = FALSE
    BY <2>1, <2>2 DEF Traded
  <2>6. ASSUME may PROVE Calm(w, v)
    <3>1. ASSUME NEW a \in Nation, NEW b \in Nation PROVE ~Warmer(w, v, a, b)
      <4>1. v.status[a][b] = w.status[a][b] /\ w.status[a][b] \in 0..4
        BY <1>2, <2>3, RelationFact
      <4>2. v.trade[a][b] => w.trade[a][b]
        BY <2>4, <2>5
      <4> QED BY <4>1, <4>2 DEF Warmer
    <3>2. ASSUME NEW a \in Nation, NEW b \in Nation, a # b, AlliesTrade(w), v.status[a][b] = Alliance
          PROVE  v.trade[a][b]
      <4>1. w.status[a][b] = Alliance /\ w.trade[a][b]
        BY <2>3, <3>2 DEF AlliesTrade
      <4>2. {a, b} = {k, n} => w.status[n][k] = Alliance
        <5>1. {a, b} = {k, n} => (a = n /\ b = k) \/ (a = k /\ b = n)
          OBVIOUS
        <5> QED BY <1>1, <4>1, <5>1 DEF Sound, Mutual
      <4>3. {a, b} # {k, n}
        BY <1>3, <1>11, <2>6, <4>2
      <4> QED BY <2>4, <4>1, <4>3
    <3> QED BY <2>3, <3>1, <3>2 DEF Calm, AlliesTrade
  <2> QED BY <1>2, <2>1, <2>3, <2>6 DEF v, may
<1>12. \/ m.id \in Treaties \/ m.id \in {"embargo", "request_war"} \/ m.id = "request_surrender"
       \/ m.id = "surrender" \/ m.id \in {"end_friendly", "end_alliance"} \/ m.id = "declare_war"
       \/ m.id = "end_trade"
  BY <1>1 DEF Offers, Notices, Treaties
<1> QED BY <1>5, <1>6, <1>7, <1>8, <1>9, <1>10, <1>11, <1>12

\* The message from the other side is settled too, unless it was answered.
LEMMA CrossedFact ==
    ASSUME NEW w, Sound(w), NEW m
    PROVE  LET v == DelCrossed(w, m)
           IN  /\ Calm(w, v) /\ Sound(v) /\ Len(v.free) >= Len(w.free)
               /\ \A r \in Slot : w.msg[r].reply \in Answers => v.msg[r] = w.msg[r]
<1> DEFINE S == Exist(w, m.id, m.to, m.from)
<1>1. S \in SUBSET Used(w) /\ \A r \in S : w.msg[r].reply \notin Answers
  BY DEF Exist, Unanswered, Used, NoMsg, Answers
<1> HIDE DEF S
<1>2. LET v == DelAll(w, S)
      IN  /\ Sound(v) /\ Undisturbed(w, v) /\ Calm(w, v)
          /\ Len(v.free) >= Len(w.free)
          /\ \A r \in Slot : v.msg[r] = IF r \in S THEN NoMsg ELSE w.msg[r]
  BY <1>1, DelAllFact
<1>3. DelCrossed(w, m) = DelAll(w, S)
  BY DEF DelCrossed, S
<1> QED BY <1>1, <1>2, <1>3

LEMMA StopFact ==
    ASSUME NEW w, Sound(w)
    PROVE  Calm(w, Stop(w)) /\ Stop(w).msg = w.msg /\ Stop(w).free = w.free
<1> DEFINE v == Stop(w)
<1>1. w \in World
  BY DEF Sound
<1>2. /\ v \in World /\ v.status = w.status /\ v.trade = w.trade /\ v.truce = w.truce
      /\ v.alive = w.alive /\ v.msg = w.msg /\ v.free = w.free /\ v.queue = w.queue
  BY <1>1 DEF Stop, World
<1> HIDE DEF v
<1>3. Sound(v)
  BY <1>2 DEF Sound, FreeRooms, ProperMessages, NoRepetition, Used, TenseTruce, Mutual
<1>4. ASSUME NEW a \in Nation, NEW b \in Nation PROVE ~Warmer(w, v, a, b)
  <2>1. v.status[a][b] = w.status[a][b] /\ w.status[a][b] \in 0..4
    BY <1>1, <1>2, RelationFact
  <2> QED BY <1>2, <2>1 DEF Warmer
<1>5. Calm(w, v)
  BY <1>2, <1>3, <1>4 DEF Calm, AlliesTrade, Queues
<1> QED BY <1>2, <1>5 DEF v

\* A message that is sent brings nobody closer, takes one room, and, unless it
\* is a surrender, leaves the answered messages where they are.
Sent(w, v, m) ==
    /\ Calm(w, v) /\ Len(v.free) >= Len(w.free) - 1
    /\ m.id # "surrender" =>
        \A r \in Slot : w.msg[r].reply \in Answers => v.msg[r] = w.msg[r]

LEMMA SendFact ==
    ASSUME NEW w, Sound(w), NEW m, Fresh(m), Len(w.free) >= 1
    PROVE  Sent(w, SendTalkMsg(w, m), m)
<1> DEFINE v == SendTalkMsg(w, m)
           put == Put(w, m)
           done == Effect(put, m)
<1>1. w \in World /\ Len(w.free) \in Nat
  BY WorldFact, SeqFact DEF Sound
<1>2. CASE UsesDeleted(w, m)
  <2>1. v = Stop(w)
    BY <1>2 DEF SendTalkMsg
  <2> QED BY <1>1, <2>1, StopFact DEF Sent
<1>3. CASE ~UsesDeleted(w, m) /\ NotSent(w, m)
  <2>1. v = w
    BY <1>3 DEF SendTalkMsg
  <2> QED BY <1>1, <2>1, CalmSelf DEF Sent
<1>4. CASE ~UsesDeleted(w, m) /\ ~NotSent(w, m)
  <2>1. CanSend(w, m.to, m.from, m.id)
    BY <1>4 DEF NotSent
  <2>2. {m.from, m.to} \subseteq w.alive
    BY <1>4, <2>1 DEF UsesDeleted, CanSend
  <2>3. m.id \in Offers /\ m.from \in Ai => Exist(w, m.id, m.from, m.to) = {}
    BY <1>4 DEF NotSent
  <2>4. LET u == Put(w, m)
        IN  /\ Sound(u) /\ Undisturbed(w, u) /\ Calm(w, u)
            /\ Len(u.free) = Len(w.free) - 1
            /\ \E s \in Slot : /\ w.msg[s] = NoMsg
                               /\ \A r \in Slot : u.msg[r] = IF r = s THEN m ELSE w.msg[r]
    BY <2>2, <2>3, PutFact
  <2>5. /\ Sound(put) /\ Undisturbed(w, put) /\ Calm(w, put)
        /\ Len(put.free) = Len(w.free) - 1
    BY <2>4
  <2>6. \A r \in Slot : w.msg[r].reply \in Answers => put.msg[r] = w.msg[r]
    <3>1. NoMsg.reply \notin Answers
      BY DEF NoMsg, Answers
    <3> QED BY <2>4, <3>1
  <2>7. CASE m.reply = "waiting"
    <3>1. v = put
      BY <1>4, <2>7 DEF SendTalkMsg
    <3> QED BY <1>1, <2>5, <2>6, <3>1 DEF Sent
  <2>8. CASE m.reply # "waiting"
    <3>1. v = DelCrossed(done, m)
      BY <1>4, <2>8 DEF SendTalkMsg
    <3>2. m.id \in Notices /\ Proper(m)
      BY <2>8, MsgFact DEF Fresh, Proper
    <3> HIDE DEF put
    <3>3. CanSend(put, m.to, m.from, m.id)
      <4>1. put.status = w.status /\ put.trade = w.trade /\ put.alive = w.alive
        BY <2>5 DEF Undisturbed
      <4>2. AtWarWith(put, m.from) = AtWarWith(w, m.from)
        BY <4>1 DEF AtWarWith
      <4> QED BY <2>1, <4>1, <4>2 DEF CanSend, StatusAllows
    <3>4. /\ Calm(put, done) /\ Sound(done) /\ Len(done.free) >= Len(put.free)
          /\ m.id # "surrender" => done.msg = put.msg
      BY <2>5, <3>2, <3>3, EffectFact DEF SameBooks
    <3> HIDE DEF done
    <3>5. /\ Calm(done, DelCrossed(done, m)) /\ Len(DelCrossed(done, m).free) >= Len(done.free)
          /\ \A r \in Slot : done.msg[r].reply \in Answers => DelCrossed(done, m).msg[r] = done.msg[r]
      BY <3>4, CrossedFact
    <3>6. Calm(done, v) /\ Len(v.free) >= Len(done.free)
      BY <3>1, <3>5
    <3>7. Calm(w, v)
      BY <2>5, <3>4, <3>6, CalmTwice
    <3>8. Len(v.free) >= Len(w.free) - 1
      <4>1. v.free \in Seq(Slot) /\ done.free \in Seq(Slot)
        BY <3>4, <3>6, WorldFact DEF Calm, Sound
      <4>2. Len(v.free) \in Nat /\ Len(done.free) \in Nat
        BY <4>1, SeqFact
      <4> QED BY <1>1, <2>5, <3>4, <3>6, <4>2
    <3>9. ASSUME m.id # "surrender", NEW r \in Slot, w.msg[r].reply \in Answers
          PROVE  v.msg[r] = w.msg[r]
      <4>1. done.msg[r] = w.msg[r]
        BY <2>6, <3>4, <3>9
      <4> QED BY <3>1, <3>5, <3>9, <4>1
    <3> QED BY <3>7, <3>8, <3>9 DEF Sent
  <2> QED BY <2>7, <2>8
<1> QED BY <1>2, <1>3, <1>4

\* The messages that the code makes up.
LEMMA MessageFact ==
    ASSUME NEW id \in Offers \cup Notices, NEW from \in Nation, NEW to \in Nation, from # to,
           NEW para \in Nation \cup {0}, para # to, para # 0 <=> id \in AboutAThird
    PROVE  Fresh(Message(id, from, to, para)) /\ Message(id, from, to, para).id = id
BY DEF Fresh, Proper, Message, MsgSet, Answers, Offers, Notices

LEMMA NoticeFact ==
    ASSUME NEW id \in {"end_trade", "end_friendly", "end_alliance", "declare_war"},
           NEW from \in Nation, NEW to \in Nation, from # to
    PROVE  /\ Fresh(Message(id, from, to, 0)) /\ Message(id, from, to, 0).id = id
           /\ Message(id, from, to, 0).id # "surrender"
<1>1. id \in Notices /\ id \notin AboutAThird /\ 0 # to /\ id # "surrender"
  BY NationAssumption DEF Notices, AboutAThird
<1> QED BY <1>1, MessageFact

\* Writing the reply to a message that is there disturbs nothing, unless an Ai
\* still has the message in its queue.
Marked(w, r, m) == [w EXCEPT !.msg[r] = m]

LEMMA MarkFact ==
    ASSUME NEW w, Sound(w), NEW r \in Used(w), NEW m, NEW answer \in Answers,
           m = [w.msg[r] EXCEPT !.reply = answer]
    PROVE  LET v == Marked(w, r, m)
           IN  /\ Sound(v) /\ Undisturbed(w, v) /\ v.free = w.free
               /\ Proper(m) /\ m.reply = answer /\ m.id = w.msg[r].id
               /\ m.from = w.msg[r].from /\ m.to = w.msg[r].to /\ m.age = w.msg[r].age
               /\ \A q \in Slot : v.msg[q] = IF q = r THEN m ELSE w.msg[q]
               /\ (\A n \in Nation : r \notin w.queue[n]) => Calm(w, v)
<1> DEFINE v == Marked(w, r, m)
           o == w.msg[r]
<1>1. w \in World /\ r \in Slot /\ o # NoMsg /\ Proper(o) /\ {o.from, o.to} \subseteq w.alive
  BY DEF Sound, Used, ProperMessages
<1>2. /\ m \in MsgSet /\ m.reply = answer /\ m.id = o.id /\ m.from = o.from /\ m.to = o.to
      /\ m.age = o.age /\ m.para = o.para
  BY <1>1 DEF Proper, MsgSet
<1>3. Proper(m) /\ m # NoMsg
  BY <1>1, <1>2, MsgFact DEF Proper, Answers
<1>4. /\ v \in World /\ Undisturbed(w, v) /\ v.free = w.free /\ v.queue = w.queue
      /\ \A q \in Slot : v.msg[q] = IF q = r THEN m ELSE w.msg[q]
  <2> HIDE DEF o
  <2> QED BY <1>1, <1>2 DEF Marked, World, Undisturbed
<1> HIDE DEF v
<1>5. Used(v) = Used(w)
  BY <1>1, <1>3, <1>4 DEF Used
<1>6. FreeRooms(v)
  <2>1. \A q \in Slot : v.msg[q] = NoMsg <=> w.msg[q] = NoMsg
    BY <1>1, <1>3, <1>4
  <2> QED BY <1>4, <2>1 DEF Sound, FreeRooms
<1>7. ProperMessages(v)
  <2> SUFFICES ASSUME NEW q \in Used(v)
               PROVE  Proper(v.msg[q]) /\ {v.msg[q].from, v.msg[q].to} \subseteq v.alive
    BY DEF ProperMessages
  <2>1. q \in Slot /\ Proper(w.msg[q]) /\ {w.msg[q].from, w.msg[q].to} \subseteq w.alive
    BY <1>5 DEF Sound, ProperMessages, Used
  <2> QED BY <1>1, <1>2, <1>3, <1>4, <2>1 DEF Undisturbed
<1>8. NoRepetition(v)
  <2> SUFFICES ASSUME NEW p \in Used(w), NEW q \in Used(w), SameOffer(v.msg[p], v.msg[q])
               PROVE  p = q
    BY <1>5 DEF NoRepetition
  <2>1. p # r /\ q # r /\ p \in Slot /\ q \in Slot
    BY <1>2, <1>4 DEF SameOffer, Answers, Used
  <2> QED BY <1>4, <2>1 DEF Sound, NoRepetition
<1>9. Sound(v)
  BY <1>4, <1>6, <1>7, <1>8 DEF Sound, TenseTruce, Mutual, Undisturbed
<1>10. ASSUME \A n \in Nation : r \notin w.queue[n] PROVE Calm(w, v)
  <2>1. Queues(w) => Queues(v)
    <3> SUFFICES ASSUME Queues(w), NEW n \in Nation, NEW q \in w.queue[n]
                 PROVE  Awaited(v.msg[q], n)
      BY <1>4 DEF Queues
    <3>1. q \in Slot /\ q # r
      BY <1>1, <1>10, WorldFact
    <3> QED BY <1>4, <3>1 DEF Queues
  <2> QED BY <1>1, <1>4, <1>9, <2>1, CalmFact
<1> QED BY <1>2, <1>3, <1>4, <1>9, <1>10 DEF v

\* The sender who is angry ends a treaty or declares war, by a message.
LEMMA NotifyFact ==
    ASSUME NEW w, Sound(w), NEW m, Proper(m), NEW angry \in BOOLEAN, Len(w.free) >= 1
    PROVE  LET v == NotifyReply(w, m, angry)
           IN  /\ Calm(w, v) /\ Sound(v) /\ Len(v.free) >= Len(w.free) - 1
               /\ \A r \in Slot : w.msg[r].reply \in Answers => v.msg[r] = w.msg[r]
               /\ m.reply # "reject" => v = w
<1> DEFINE v == NotifyReply(w, m, angry)
<1>1. m.from \in Nation /\ m.to \in Nation /\ m.from # m.to
  BY MsgFact DEF Proper
<1>2. w \in World /\ Len(w.free) \in Nat
  BY WorldFact, SeqFact DEF Sound
<1>3. CASE v = w
  BY <1>2, <1>3, CalmSelf
<1>4. CASE \E id \in {"end_friendly", "end_alliance", "declare_war"} :
              m.reply = "reject" /\ v = SendTalkMsg(w, Message(id, m.from, m.to, 0))
  <2>1. PICK id \in {"end_friendly", "end_alliance", "declare_war"} :
              m.reply = "reject" /\ v = SendTalkMsg(w, Message(id, m.from, m.to, 0))
    BY <1>4
  <2> DEFINE notice == Message(id, m.from, m.to, 0)
  <2>2. Fresh(notice) /\ notice.id # "surrender"
    BY <1>1, NoticeFact
  <2> HIDE DEF notice
  <2>3. Sent(w, SendTalkMsg(w, notice), notice)
    BY <2>2, SendFact
  <2>4. v = SendTalkMsg(w, notice)
    BY <2>1 DEF notice
  <2>5. /\ Calm(w, v) /\ Len(v.free) >= Len(w.free) - 1
        /\ \A r \in Slot : w.msg[r].reply \in Answers => v.msg[r] = w.msg[r]
    BY <2>2, <2>3, <2>4 DEF Sent
  <2> QED BY <2>1, <2>5 DEF Calm
<1>5. v = w \/ \E id \in {"end_friendly", "end_alliance", "declare_war"} :
                  m.reply = "reject" /\ v = SendTalkMsg(w, Message(id, m.from, m.to, 0))
  BY DEF NotifyReply
<1> QED BY <1>3, <1>4, <1>5

LEMMA EndTreatyFact ==
    ASSUME NEW w, Sound(w), NEW n \in Nation, NEW m \in Nation, n # m, Len(w.free) >= 1
    PROVE  LET v == EndTreatyFirst(w, n, m)
           IN  Calm(w, v) /\ Sound(v) /\ Len(v.free) >= Len(w.free) - 1
<1> DEFINE v == EndTreatyFirst(w, n, m)
<1>1. w \in World /\ Len(w.free) \in Nat
  BY WorldFact, SeqFact DEF Sound
<1>2. CASE v = w
  BY <1>1, <1>2, CalmSelf
<1>3. CASE \E id \in {"end_friendly", "end_alliance"} : v = SendTalkMsg(w, Message(id, n, m, 0))
  <2>1. PICK id \in {"end_friendly", "end_alliance"} : v = SendTalkMsg(w, Message(id, n, m, 0))
    BY <1>3
  <2>2. Fresh(Message(id, n, m, 0))
    BY NoticeFact
  <2> QED BY <2>1, <2>2, SendFact DEF Sent, Calm
<1>4. v = w \/ \E id \in {"end_friendly", "end_alliance"} : v = SendTalkMsg(w, Message(id, n, m, 0))
  BY DEF EndTreatyFirst
<1> QED BY <1>2, <1>3, <1>4

\* What follows an accepted message: the treaty that was offered, or messages
\* to a third nation, by which nobody comes closer.
Agreed(w, v, m) ==
    /\ Sound(v)
    /\ m.id \in Offers => Settled(w, v, m)
    /\ m.id \in Notices /\ CanSend(w, m.to, m.from, m.id) => Calm(w, v)
    /\ m.id \in Treaties =>
        \A r \in Slot : w.msg[r].reply \in Answers => v.msg[r] = w.msg[r]

LEMMA AcceptedFact ==
    ASSUME NEW w, Sound(w), NEW m, Proper(m), Len(w.free) >= 2
    PROVE  Agreed(w, ProcessAcceptedReply(w, m), m)
<1> DEFINE third == SendTalkMsg(w, Message("end_trade", m.to, m.para, 0))
           ended == EndTreatyFirst(w, m.to, m.para)
           war == SendTalkMsg(ended, Message("declare_war", m.to, m.para, 0))
           done == IF m.id = "embargo" THEN third
                   ELSE IF m.id = "request_war" /\ w.status[m.from][m.para] = Hostile THEN war
                   ELSE Effect(w, m)
           v == DelCrossed(done, m)
<1>1. ProcessAcceptedReply(w, m) = v
  BY DEF ProcessAcceptedReply
<1>2. w \in World /\ Len(w.free) \in Nat /\ m.to \in Nation /\ m.from \in Nation
  BY WorldFact, SeqFact, MsgFact DEF Sound, Proper
<1>3. Agreed(w, done, m)
  <2>1. CASE m.id \in AboutAThird
    <3>1. m.para \in Nation /\ m.to # m.para /\ m.id \notin Treaties \cup Notices
      BY <2>1, MsgFact DEF Proper, AboutAThird, Treaties, Notices
    <3>2. CASE m.id = "embargo"
      <4>1. Fresh(Message("end_trade", m.to, m.para, 0))
        BY <1>2, <3>1, NoticeFact
      <4>2. Calm(w, third)
        BY <1>2, <4>1, SendFact DEF Sent
      <4> HIDE DEF third
      <4>3. Settled(w, third, m) /\ Sound(third)
        BY <4>2, CalmSettles DEF Calm
      <4> QED BY <3>1, <3>2, <4>3 DEF Agreed
    <3>3. CASE m.id = "request_war" /\ w.status[m.from][m.para] = Hostile
      <4>1. Calm(w, ended) /\ Sound(ended) /\ Len(ended.free) >= Len(w.free) - 1
        BY <1>2, <3>1, EndTreatyFact
      <4> HIDE DEF ended
      <4>2. Len(ended.free) >= 1
        <5>1. Len(ended.free) \in Nat
          BY <4>1, WorldFact, SeqFact DEF Sound
        <5> QED BY <1>2, <4>1, <5>1
      <4>3. Fresh(Message("declare_war", m.to, m.para, 0))
        BY <1>2, <3>1, NoticeFact
      <4>4. Calm(ended, war)
        BY <4>1, <4>2, <4>3, SendFact DEF Sent
      <4> HIDE DEF war
      <4>5. Calm(w, war)
        BY <4>1, <4>4, CalmTwice
      <4>6. Settled(w, war, m) /\ Sound(war)
        BY <4>5, CalmSettles DEF Calm
      <4> QED BY <3>1, <3>3, <4>6 DEF Agreed
    <3>4. CASE m.id = "request_war" /\ w.status[m.from][m.para] # Hostile
      <4>1. done = Effect(w, m) /\ m.id \in Offers
        BY <3>4 DEF Offers
      <4>2. Sound(Effect(w, m)) /\ Settled(w, Effect(w, m), m)
        BY <4>1, EffectFact
      <4> QED BY <3>1, <4>1, <4>2 DEF Agreed
    <3> QED BY <2>1, <3>2, <3>3, <3>4 DEF AboutAThird
  <2>2. CASE m.id \notin AboutAThird
    <3>1. done = Effect(w, m)
      BY <2>2 DEF AboutAThird
    <3>2. LET u == Effect(w, m)
          IN  /\ Sound(u) /\ Len(u.free) >= Len(w.free)
              /\ m.id \in Offers => Settled(w, u, m)
              /\ m.id \in Notices /\ CanSend(w, m.to, m.from, m.id) => Calm(w, u)
              /\ m.id \in Treaties \cup Notices /\ m.id # "surrender" => SameBooks(w, u)
      BY EffectFact
    <3>3. m.id \in Treaties => m.id # "surrender"
      BY DEF Treaties
    <3> QED BY <3>1, <3>2, <3>3 DEF Agreed, SameBooks
  <2> QED BY <2>1, <2>2
<1> HIDE DEF done
<1>4. /\ Calm(done, v) /\ Sound(v)
      /\ \A r \in Slot : done.msg[r].reply \in Answers => v.msg[r] = done.msg[r]
  BY <1>3, CrossedFact DEF Agreed
<1> HIDE DEF v
<1>5. ASSUME m.id \in Offers PROVE Settled(w, v, m)
  <2>1. Settled(w, done, m)
    BY <1>3, <1>5 DEF Agreed
  <2>2. ASSUME NEW a \in Nation, NEW b \in Nation, Warmer(w, v, a, b) PROVE Warmer(w, done, a, b)
    <3>1. ~Warmer(done, v, a, b)
      BY <1>4 DEF Calm
    <3>2. /\ w.status[a][b] \in 0..4 /\ v.status[a][b] \in 0..4 /\ done.status[a][b] \in 0..4
      BY <1>2, <1>3, <1>4, RelationFact DEF Agreed, Sound
    <3> QED BY <2>2, <3>1, <3>2 DEF Warmer, Hostile, Friendly
  <2> QED BY <1>4, <2>1, <2>2 DEF Settled, Calm
<1>6. ASSUME m.id \in Notices, CanSend(w, m.to, m.from, m.id) PROVE Calm(w, v)
  BY <1>3, <1>4, <1>6, CalmTwice DEF Agreed
<1>7. ASSUME m.id \in Treaties, NEW r \in Slot, w.msg[r].reply \in Answers PROVE v.msg[r] = w.msg[r]
  BY <1>3, <1>4, <1>7 DEF Agreed
<1> QED BY <1>1, <1>4, <1>5, <1>6, <1>7 DEF Agreed

\* A reply to an offer, or to a notice that could be sent again, keeps what
\* should be; who comes closer by it are the two whose offer is accepted.
Accepts(m, a, b) == {m.from, m.to} = {a, b} /\ m.reply = "accept" /\ m.id \in Treaties

Replied(w, v, r) ==
    /\ Sound(v)
    /\ w.msg[r].id \in Offers \/ CanSend(w, w.msg[r].to, w.msg[r].from, w.msg[r].id) =>
        /\ AlliesTrade(w) => AlliesTrade(v)
        /\ Queues(w) /\ (\A n \in Nation : r \notin w.queue[n]) => Queues(v)
        /\ \A a, b \in Nation : Warmer(w, v, a, b) => Accepts(v.msg[r], a, b)

LEMMA ReplyFact ==
    ASSUME NEW w, Sound(w), NEW r \in Used(w), NEW answer \in Answers, NEW angry \in BOOLEAN,
           Len(w.free) >= 2
    PROVE  Replied(w, ReplyTalkMsg(w, r, answer, angry), r)
<1> DEFINE m == [w.msg[r] EXCEPT !.reply = answer]
           u == Marked(w, r, m)
           told == NotifyReply(u, m, angry)
           v == ReplyTalkMsg(w, r, answer, angry)
           good == w.msg[r].id \in Offers \/ CanSend(w, w.msg[r].to, w.msg[r].from, w.msg[r].id)
<1>1. v = IF answer = "accept" THEN ProcessAcceptedReply(told, m) ELSE told
  BY DEF ReplyTalkMsg, Marked
<1>2. /\ Sound(u) /\ Undisturbed(w, u) /\ u.free = w.free
      /\ Proper(m) /\ m.reply = answer /\ m.id = w.msg[r].id
      /\ m.from = w.msg[r].from /\ m.to = w.msg[r].to /\ m.age = w.msg[r].age
      /\ \A q \in Slot : u.msg[q] = IF q = r THEN m ELSE w.msg[q]
      /\ (\A n \in Nation : r \notin w.queue[n]) => Calm(w, u)
  BY MarkFact
<1>3. r \in Slot /\ u.msg[r] = m
  BY <1>2 DEF Used
<1>4. w \in World /\ u \in World /\ Len(u.free) \in Nat /\ Len(u.free) >= 2
  BY <1>2, WorldFact, SeqFact DEF Sound
<1> HIDE DEF u, m
<1>5. /\ Calm(u, told) /\ Sound(told) /\ Len(told.free) >= Len(u.free) - 1
      /\ m.reply # "reject" => told = u
  BY <1>2, <1>4, NotifyFact
<1> HIDE DEF told, v
<1>6. ASSUME Sound(v),
             good => /\ AlliesTrade(u) => AlliesTrade(v)
                     /\ Queues(u) => Queues(v)
                     /\ \A a, b \in Nation : Warmer(u, v, a, b) => Accepts(v.msg[r], a, b)
      PROVE  Replied(w, v, r)
  <2>1. AlliesTrade(w) => AlliesTrade(u)
    BY <1>2 DEF AlliesTrade, Undisturbed
  <2>2. \A a, b \in Nation : Warmer(w, v, a, b) => Warmer(u, v, a, b)
    BY <1>2 DEF Warmer, Undisturbed
  <2>3. Queues(w) /\ (\A n \in Nation : r \notin w.queue[n]) => Queues(u)
    BY <1>2 DEF Calm
  <2> QED BY <1>6, <2>1, <2>2, <2>3 DEF Replied
<1>7. CASE answer = "accept"
  <2> DEFINE x == ProcessAcceptedReply(u, m)
  <2>1. told = u /\ v = x
    BY <1>1, <1>2, <1>5, <1>7
  <2>2. Agreed(u, x, m)
    BY <1>2, <1>4, AcceptedFact
  <2> HIDE DEF x
  <2>3. ASSUME m.id \in Offers, NEW a \in Nation, NEW b \in Nation, Warmer(u, v, a, b)
        PROVE  Accepts(v.msg[r], a, b)
    <3>1. {a, b} = {m.from, m.to} /\ m.id \in Treaties
      BY <2>1, <2>2, <2>3 DEF Agreed, Settled
    <3>2. v.msg[r] = m
      BY <1>2, <1>3, <2>1, <2>2, <3>1 DEF Agreed
    <3> QED BY <1>2, <1>7, <3>1, <3>2 DEF Accepts
  <2>4. ASSUME m.id \notin Offers, good PROVE Calm(u, v)
    <3>1. m.id \in Notices
      BY <1>2, <2>4, MsgFact DEF Proper
    <3>2. CanSend(w, m.to, m.from, m.id)
      BY <1>2, <2>4
    <3>3. u.status = w.status /\ u.trade = w.trade /\ u.alive = w.alive
      BY <1>2 DEF Undisturbed
    <3>4. AtWarWith(u, m.from) = AtWarWith(w, m.from)
      BY <3>3 DEF AtWarWith
    <3>5. CanSend(u, m.to, m.from, m.id)
      BY <3>2, <3>3, <3>4 DEF CanSend, StatusAllows
    <3> QED BY <2>1, <2>2, <3>1, <3>5 DEF Agreed
  <2>5. CASE m.id \in Offers
    BY <1>6, <2>1, <2>2, <2>3, <2>5 DEF Agreed, Settled, v
  <2>6. CASE m.id \notin Offers
    BY <1>6, <2>1, <2>2, <2>4, <2>6 DEF Agreed, Calm, v
  <2> QED BY <2>5, <2>6
<1>8. CASE answer # "accept"
  <2>1. v = told
    BY <1>1, <1>8
  <2> QED BY <1>5, <1>6, <2>1 DEF Calm, v
<1> QED BY <1>7, <1>8 DEF v

-----------------------------------------------------------------------------
(* The weekly look *)

\* A message that counts as rejected, or is a year old, is in no queue.
LEMMA ProcessFact ==
    ASSUME NEW w, Sound(w), NEW r \in Slot, NEW angry \in BOOLEAN, Len(w.free) >= 1
    PROVE  LET v == ProcessMsg(w, r, angry)
           IN  Calm(w, v) /\ Sound(v) /\ Len(v.free) >= Len(w.free) - 1
<1> DEFINE o == w.msg[r]
           v == ProcessMsg(w, r, angry)
<1>1. w \in World /\ Len(w.free) \in Nat /\ o \in MsgSet \cup {NoMsg}
  BY WorldFact, SeqFact DEF Sound
<1>2. o.age # 0 \/ o.reply = "waiting" => r \in Used(w)
  BY NoMsgFact DEF Used
<1>3. CASE NoResponse(o)
  <2> DEFINE m == [o EXCEPT !.reply = "reject"]
             u == Marked(w, r, m)
             told == NotifyReply(u, m, angry)
  <2>1. r \in Used(w) /\ o.age >= 2 /\ m = [w.msg[r] EXCEPT !.reply = "reject"]
    BY <1>2, <1>3 DEF NoResponse
  <2>2. v = IF m.age >= 3 THEN DelMsg(told, r) ELSE told
    BY <1>3 DEF ProcessMsg, Marked
  <2>3. /\ Sound(u) /\ Undisturbed(w, u) /\ u.free = w.free /\ Proper(m) /\ m.reply = "reject"
        /\ \A q \in Slot : u.msg[q] = IF q = r THEN m ELSE w.msg[q]
        /\ (\A n \in Nation : r \notin w.queue[n]) => Calm(w, u)
    <3>1. "reject" \in Answers
      BY DEF Answers
    <3> QED BY <2>1, <3>1, MarkFact
  <2> HIDE DEF m, u
  <2>4. Calm(w, u)
    <3>1. ASSUME Queues(w) PROVE \A n \in Nation : r \notin w.queue[n]
      <4>1. o.age \in 0..3
        BY <1>1, MsgFact, NoMsgFact
      <4>2. ~(o.age <= 1)
        BY <2>1, <4>1
      <4> QED BY <3>1, <4>2 DEF Queues, Awaited
    <3>2. Queues(w) => Queues(u)
      BY <2>3, <3>1 DEF Calm
    <3> QED BY <1>1, <2>3, <3>2, CalmFact
  <2>5. /\ Calm(u, told) /\ Sound(told) /\ Len(told.free) >= Len(u.free) - 1
        /\ \A q \in Slot : u.msg[q].reply \in Answers => told.msg[q] = u.msg[q]
    BY <1>1, <2>3, NotifyFact
  <2> HIDE DEF told
  <2>6. r \in Used(told)
    <3>1. told.msg[r] = m
      BY <2>3, <2>5 DEF Answers
    <3> QED BY <2>3, <3>1, MsgFact DEF Used, Proper
  <2>7. Calm(w, told) /\ Len(told.free) >= Len(w.free) - 1
    BY <2>3, <2>4, <2>5, CalmTwice
  <2>8. CASE m.age >= 3
    <3>1. v = DelAll(told, {r})
      BY <2>2, <2>8 DEF DelMsg
    <3>2. Sound(v) /\ Calm(told, v) /\ Len(v.free) >= Len(told.free)
      BY <2>5, <2>6, <3>1, DelAllFact
    <3>3. Calm(w, v)
      BY <2>7, <3>2, CalmTwice
    <3>4. Len(v.free) \in Nat /\ Len(told.free) \in Nat
      BY <2>5, <3>2, WorldFact, SeqFact DEF Sound
    <3>5. Len(v.free) >= Len(w.free) - 1
      BY <1>1, <2>7, <3>2, <3>4
    <3> QED BY <3>2, <3>3, <3>5
  <2>9. CASE ~(m.age >= 3)
    BY <2>2, <2>5, <2>7, <2>9
  <2> QED BY <2>8, <2>9
<1>4. CASE ~NoResponse(o)
  <2>1. v = IF o.age >= 3 THEN DelMsg(w, r) ELSE w
    <3>1. [o EXCEPT !.reply = @].age = o.age
      BY <1>1 DEF MsgSet, NoMsg
    <3> QED BY <1>4, <3>1 DEF ProcessMsg
  <2>2. CASE o.age >= 3
    <3>1. v = DelAll(w, {r})
      BY <2>1, <2>2 DEF DelMsg
    <3>2. r \in Used(w)
      BY <1>2, <2>2
    <3>3. Sound(v) /\ Calm(w, v) /\ Len(v.free) >= Len(w.free)
      BY <3>1, <3>2, DelAllFact
    <3>4. Len(v.free) \in Nat
      BY <3>3, WorldFact, SeqFact DEF Sound
    <3> QED BY <1>1, <3>3, <3>4
  <2>3. CASE ~(o.age >= 3)
    BY <1>1, <2>1, <2>3, CalmSelf
  <2> QED BY <2>2, <2>3
<1> QED BY <1>3, <1>4

\* f[k] is the world after the last k slots.
LookAt(angry, k, w) ==
    IF MaxMsg + 1 - k \in Due
    THEN ProcessMsg(w, MaxMsg + 1 - k, MaxMsg + 1 - k \in angry) ELSE w
IsLook(angry, f, n) ==
    f = [k \in 0..n |-> IF k = 0 THEN world ELSE LookAt(angry, k, f[k - 1])]

LEMMA LookExists ==
    ASSUME NEW angry, NEW n \in Nat
    PROVE  \E f : IsLook(angry, f, n)
<1> DEFINE A == {i \in Nat : \E f : IsLook(angry, f, i)}
<1>1. 0 \in A
  <2> DEFINE f == [k \in 0..0 |-> world]
  <2>1. \A k \in 0..0 : k = 0
    OBVIOUS
  <2>2. f = [k \in 0..0 |-> IF k = 0 THEN world ELSE LookAt(angry, k, f[k - 1])]
    BY <2>1
  <2> QED BY <2>2 DEF IsLook
<1>2. ASSUME NEW i \in A PROVE i + 1 \in A
  <2>1. PICK g : IsLook(angry, g, i)
    OBVIOUS
  <2> DEFINE last == LookAt(angry, i + 1, g[i])
             f == [k \in 0..i + 1 |-> IF k = i + 1 THEN last ELSE g[k]]
  <2>2. i \in Nat /\ i + 1 # 0 /\ i + 1 - 1 = i /\ i # i + 1 /\ i \in 0..i + 1
    OBVIOUS
  <2>3. \A k \in 0..i + 1 : k = i + 1 \/ k \in 0..i
    BY <2>2
  <2>4. \A k \in 0..i : k \in 0..i + 1 /\ k # i + 1 /\ (k # 0 => k - 1 \in 0..i)
    BY <2>2
  <2>5. \A k \in 0..i : g[k] = IF k = 0 THEN world ELSE LookAt(angry, k, g[k - 1])
    <3>1. g = [k \in 0..i |-> IF k = 0 THEN world ELSE LookAt(angry, k, g[k - 1])]
      BY <2>1 DEF IsLook
    <3> DEFINE E(k) == IF k = 0 THEN world ELSE LookAt(angry, k, g[k - 1])
    <3>2. g = [k \in 0..i |-> E(k)]
      BY <3>1
    <3> HIDE DEF E
    <3>3. \A k \in 0..i : g[k] = E(k)
      BY <3>2
    <3> QED BY <3>3 DEF E
  <2>6. /\ \A k \in 0..i + 1 : f[k] = IF k = i + 1 THEN last ELSE g[k]
        /\ f = [k \in 0..i + 1 |-> f[k]]
    OBVIOUS
  <2> HIDE DEF f, last
  <2>7. ASSUME NEW k \in 0..i + 1
        PROVE  f[k] = IF k = 0 THEN world ELSE LookAt(angry, k, f[k - 1])
    <3>1. CASE k = i + 1
      <4>1. f[k] = last /\ f[k - 1] = g[i] /\ k # 0
        BY <2>2, <2>6, <3>1
      <4> QED BY <3>1, <4>1 DEF last
    <3>2. CASE k \in 0..i
      <4>1. f[k] = g[k] /\ (k # 0 => f[k - 1] = g[k - 1])
        BY <2>4, <2>6, <3>2
      <4> QED BY <2>5, <3>2, <4>1
    <3> QED BY <2>3, <3>1, <3>2
  <2>8. f = [k \in 0..i + 1 |-> IF k = 0 THEN world ELSE LookAt(angry, k, f[k - 1])]
    <3> DEFINE E(k) == IF k = 0 THEN world ELSE LookAt(angry, k, f[k - 1])
    <3>1. \A k \in 0..i + 1 : f[k] = E(k)
      BY <2>7
    <3> HIDE DEF E
    <3>2. f = [k \in 0..i + 1 |-> E(k)]
      BY <2>6, <3>1
    <3> QED BY <3>2 DEF E
  <2> QED BY <2>2, <2>8 DEF IsLook
<1>3. A \in SUBSET Nat
  OBVIOUS
<1> HIDE DEF A
<1>4. n \in A
  BY <1>1, <1>2, <1>3, Induction
<1> QED BY <1>4 DEF A

\* The slots that are still to be looked at leave room for what it may send.
LEMMA WeeklyFact ==
    ASSUME Sound(world), NEW angry, Len(world.free) >= Cardinality(Due)
    PROVE  Calm(world, Weekly(angry))
<1> DEFINE ToDo(k) == {r \in Due : r <= MaxMsg - k}
<1>1. MaxMsg \in Nat /\ Due \in SUBSET (1..MaxMsg) /\ IsFiniteSet(Due) /\ Slot = 1..MaxMsg
  <2>1. MaxMsg \in Nat /\ Due \in SUBSET (1..MaxMsg)
    BY BoundAssumption DEF Due, Slot
  <2>2. IsFiniteSet(1..MaxMsg)
    BY <2>1, FS_Interval
  <2> QED BY <2>1, <2>2, FS_Subset DEF Slot
<1>2. PICK f : IsLook(angry, f, MaxMsg) /\ Weekly(angry) = f[MaxMsg]
  <2> DEFINE g == CHOOSE look :
                    look = [k \in 0..MaxMsg |->
                              IF k = 0 THEN world
                              ELSE LET r == MaxMsg + 1 - k
                                   IN  IF r \in Due THEN ProcessMsg(look[k - 1], r, r \in angry)
                                       ELSE look[k - 1]]
  <2>1. Weekly(angry) = g[MaxMsg]
    BY DEF Weekly
  <2>2. g = CHOOSE look : IsLook(angry, look, MaxMsg)
    BY DEF IsLook, LookAt
  <2>3. IsLook(angry, g, MaxMsg)
    BY <1>1, <2>2, LookExists
  <2> QED BY <2>1, <2>3
<1>3. f[0] = world /\ \A k \in 1..MaxMsg : f[k] = LookAt(angry, k, f[k - 1])
  <2> DEFINE E(k) == IF k = 0 THEN world ELSE LookAt(angry, k, f[k - 1])
  <2>1. f = [k \in 0..MaxMsg |-> E(k)]
    BY <1>2 DEF IsLook
  <2> HIDE DEF E
  <2>2. \A k \in 0..MaxMsg : f[k] = E(k)
    BY <2>1
  <2> QED BY <1>1, <2>2 DEF E
<1>4. ASSUME NEW k \in 0..MaxMsg
      PROVE  IsFiniteSet(ToDo(k)) /\ Cardinality(ToDo(k)) \in Nat
  <2>1. ToDo(k) \in SUBSET Due
    OBVIOUS
  <2> QED BY <1>1, <2>1, FS_Subset, FS_CardinalityType
<1>5. ASSUME NEW k \in 1..MaxMsg
      PROVE  Cardinality(ToDo(k - 1)) =
                IF MaxMsg + 1 - k \in Due THEN Cardinality(ToDo(k)) + 1 ELSE Cardinality(ToDo(k))
  <2> DEFINE r == MaxMsg + 1 - k
  <2>1. r \notin ToDo(k) /\ k \in 0..MaxMsg
    BY <1>1
  <2>2. ToDo(k - 1) = IF r \in Due THEN ToDo(k) \cup {r} ELSE ToDo(k)
    <3>1. \A q \in Due : q <= MaxMsg - (k - 1) <=> q <= MaxMsg - k \/ q = r
      BY <1>1
    <3> QED BY <3>1
  <2> HIDE DEF ToDo, r
  <2>3. Cardinality(ToDo(k) \cup {r}) = Cardinality(ToDo(k)) + 1
    BY <1>4, <2>1, FS_AddElement
  <2> QED BY <2>2, <2>3 DEF r
<1> DEFINE P(k) == Calm(world, f[k]) /\ Len(f[k].free) >= Cardinality(ToDo(k))
           A == {k \in Nat : k <= MaxMsg => P(k)}
<1>6. 0 \in A
  <2>1. ToDo(0) = Due
    <3>1. \A r \in Due : r <= MaxMsg - 0
      BY <1>1
    <3> QED BY <3>1
  <2>2. Calm(world, world)
    BY CalmSelf
  <2> QED BY <1>3, <2>1, <2>2
<1>7. ASSUME NEW i \in A PROVE i + 1 \in A
  <2> SUFFICES ASSUME i + 1 <= MaxMsg PROVE P(i + 1)
    OBVIOUS
  <2> DEFINE k == i + 1
             r == MaxMsg + 1 - k
             w == f[i]
  <2>1. k \in 1..MaxMsg /\ k \in 0..MaxMsg /\ k - 1 = i /\ i \in Nat /\ P(i) /\ r \in 1..MaxMsg
    BY <1>1
  <2>2. f[k] = LookAt(angry, k, w)
    BY <1>3, <2>1
  <2>3. Calm(world, w) /\ Sound(w) /\ Len(w.free) >= Cardinality(ToDo(i)) /\ Len(w.free) \in Nat
    <3>1. Calm(world, w) /\ Sound(w)
      BY <2>1 DEF Calm
    <3> QED BY <2>1, <3>1, WorldFact, SeqFact DEF Sound
  <2>4. /\ Cardinality(ToDo(k)) \in Nat
        /\ Cardinality(ToDo(i)) = IF r \in Due THEN Cardinality(ToDo(k)) + 1 ELSE Cardinality(ToDo(k))
    BY <1>4, <1>5, <2>1
  <2> HIDE DEF ToDo, r, w, k
  <2>5. CASE r \in Due
    <3> DEFINE v == ProcessMsg(w, r, r \in angry)
    <3>1. f[k] = v
      BY <2>2, <2>5 DEF LookAt, r
    <3>2. (r \in angry) \in BOOLEAN /\ r \in Slot /\ Len(w.free) >= 1
      BY <1>1, <2>1, <2>3, <2>4, <2>5
    <3>3. Calm(w, v) /\ Sound(v) /\ Len(v.free) >= Len(w.free) - 1
      BY <2>3, <3>2, ProcessFact
    <3> HIDE DEF v
    <3>4. Calm(world, v)
      BY <2>3, <3>3, CalmTwice
    <3>5. Len(v.free) \in Nat
      BY <3>3, WorldFact, SeqFact DEF Sound
    <3>6. Len(v.free) >= Cardinality(ToDo(k))
      BY <2>3, <2>4, <2>5, <3>3, <3>5
    <3> QED BY <3>1, <3>4, <3>6 DEF k
  <2>6. CASE r \notin Due
    <3>1. f[k] = w
      BY <2>2, <2>6 DEF LookAt, r
    <3> QED BY <2>3, <2>4, <2>6, <3>1 DEF k
  <2> QED BY <2>5, <2>6
<1>8. A \in SUBSET Nat
  OBVIOUS
<1> HIDE DEF A
<1>9. MaxMsg \in A
  BY <1>1, <1>6, <1>7, <1>8, Induction
<1> QED BY <1>1, <1>2, <1>9 DEF A

-----------------------------------------------------------------------------
(* The actions *)

\* An action that brings nobody closer and leaves the players' part in order.
LEMMA CalmStep ==
    ASSUME IInv, Calm(world, world'), Players', misread' = misread
    PROVE  IInv' /\ TreatyStep
<1>1. Sound(world)' /\ (AlliesTrade(world) => AlliesTrade(world)')
      /\ (Queues(world) => Queues(world)')
  BY DEF Calm, Sound, World, FreeRooms, ProperMessages, NoRepetition, TenseTruce, Mutual, Used,
         AlliesTrade, Queues
<1>2. IInv'
  BY <1>1 DEF IInv
<1>3. \A n, m \in Nation : ~Closer(n, m)
  BY DEF Calm, Closer, Warmer
<1> QED BY <1>2, <1>3 DEF TreatyStep

\* The players' part is left alone but for the events.
LEMMA PlayersStay ==
    ASSUME Players, screen' = screen, orders' = orders, misread' = misread, events' \in 0..MaxEvents
    PROVE  Players'
BY DEF Players

LEMMA EventFact ==
    ASSUME Players, events < MaxEvents, events' = events + 1
    PROVE  events' \in 0..MaxEvents
BY BoundAssumption DEF Players

\* What a player or an Ai chooses to send.
LEMMA ChosenIsFresh ==
    ASSUME IInv, NEW n \in Nation, NEW m \in Choosable(n), Sensible(m)
    PROVE  Fresh(m) /\ m \in MsgSet
<1>1. world.alive \in SUBSET Nation
  BY WorldFact DEF IInv, Sound
<1>2. PICK id \in Talk, to \in world.alive \ {n}, para \in {0} \cup (world.alive \ {n}) :
        m = Message(id, n, to, para)
  BY DEF Choosable
<1>3. id \in Offers \cup Notices /\ to \in Nation /\ n # to /\ para \in Nation \cup {0}
  BY <1>1, <1>2, ChoiceAssumption
<1>4. m.id = id /\ m.to = to /\ m.para = para
  BY <1>2 DEF Message
<1>5. para # to /\ (para # 0 <=> id \in AboutAThird)
  BY <1>4 DEF Sensible
<1> QED BY <1>2, <1>3, <1>5, MessageFact DEF Fresh, Proper

LEMMA SomePlayer ==
    ASSUME Players, NEW p \in Human
    PROVE  /\ screen[p] \in Read(p) \cup {NoScreen} /\ orders[p] \in Seq(Orders(p))
           /\ Len(orders[p]) \in Nat /\ p \in Nation
BY SeqFact DEF Players, Nation

LEMMA Ordered ==
    ASSUME Players, NEW p \in Human, NEW order \in Orders(p), Len(orders[p]) < MaxOrders,
           orders' = [orders EXCEPT ![p] = Append(@, order)],
           screen' \in [Human -> Screens],
           \A q \in Human : screen'[q] \in Read(q) \cup {NoScreen},
           misread' = misread, events' \in 0..MaxEvents
    PROVE  Players'
<1> DEFINE s == Append(orders[p], order)
<1>1. orders[p] \in Seq(Orders(p)) /\ Len(orders[p]) \in Nat /\ MaxOrders \in Nat
  BY SomePlayer, BoundAssumption
<1>2. s \in Seq(Orders(p)) /\ Len(s) <= MaxOrders
  <2>1. s \in Seq(Orders(p)) /\ Len(s) = Len(orders[p]) + 1
    BY <1>1, AppendProperties
  <2> QED BY <1>1, <2>1
<1> HIDE DEF s
<1>3. /\ orders' = [orders EXCEPT ![p] = s]
      /\ orders \in [Human -> UNION {Seq(Orders(q)) : q \in Human}]
  BY DEF Players, s
<1>4. \A q \in Human : orders'[q] = IF q = p THEN s ELSE orders[q]
  BY <1>3
<1>5. orders' \in [Human -> UNION {Seq(Orders(q)) : q \in Human}]
  <2>1. s \in UNION {Seq(Orders(q)) : q \in Human}
    BY <1>2
  <2> QED BY <1>3, <2>1
<1>6. \A q \in Human : orders'[q] \in Seq(Orders(q)) /\ Len(orders'[q]) <= MaxOrders
  BY <1>2, <1>4 DEF Players
<1> QED BY <1>5, <1>6 DEF Players

LEMMA SendsStep ==
    ASSUME IInv, NEW p \in Human, PlayerSends(p)
    PROVE  IInv' /\ TreatyStep
<1>1. PICK m \in Choosable(p) :
        Sensible(m) /\ orders' = [orders EXCEPT ![p] = Append(@, SendOrder(m))]
  BY DEF PlayerSends
<1>2. Players /\ p \in Nation
  BY DEF IInv, Nation
<1>3. SendOrder(m) \in Orders(p)
  BY <1>1, <1>2, ChosenIsFresh DEF Orders
<1>4. events' \in 0..MaxEvents
  BY <1>2, EventFact DEF PlayerSends
<1>5. Players'
  BY <1>1, <1>2, <1>3, <1>4, Ordered DEF PlayerSends, Players
<1>6. Calm(world, world')
  BY CalmSelf DEF PlayerSends, IInv
<1> QED BY <1>5, <1>6, CalmStep DEF PlayerSends

LEMMA ReadStep ==
    ASSUME IInv, NEW p \in Human, PlayerReply(p)
    PROVE  IInv' /\ TreatyStep
<1>1. PICK r \in Used(world) :
        /\ world.msg[r].to = p /\ world.msg[r].reply = "waiting"
        /\ screen' = [screen EXCEPT ![p] = [recno |-> r, meant |-> Key(world.msg[r])]]
  BY DEF PlayerReply
<1> DEFINE s == [recno |-> r, meant |-> Key(world.msg[r])]
<1>2. s \in Read(p)
  <2>1. Proper(world.msg[r]) /\ r \in Slot
    BY DEF IInv, Sound, ProperMessages, Used
  <2>2. Key(world.msg[r]) \in KeySet /\ Key(world.msg[r]).to = p
    BY <1>1, <2>1, MsgFact DEF Proper, Key, KeySet
  <2> QED BY <2>1, <2>2 DEF Read
<1> HIDE DEF s
<1>3. /\ screen' = [screen EXCEPT ![p] = s]
      /\ screen \in [Human -> Screens]
  BY <1>1 DEF IInv, Players, s
<1>4. Players'
  <2>1. s \in Screens
    BY <1>2 DEF Screens
  <2>2. screen' \in [Human -> Screens]
    BY <1>3, <2>1
  <2>3. \A q \in Human : screen'[q] \in Read(q) \cup {NoScreen}
    BY <1>2, <1>3 DEF IInv, Players
  <2> QED BY <2>2, <2>3 DEF PlayerReply, IInv, Players
<1>5. Calm(world, world')
  BY CalmSelf DEF PlayerReply, IInv
<1> QED BY <1>4, <1>5, CalmStep DEF PlayerReply

LEMMA AnswerStep ==
    ASSUME IInv, NEW p \in Human, DetectTalk(p)
    PROVE  IInv' /\ TreatyStep
<1>1. /\ screen' \in [Human -> Screens]
      /\ \A q \in Human : screen'[q] \in Read(q) \cup {NoScreen}
  <2>1. NoScreen \in Screens
    BY DEF Screens
  <2> QED BY <2>1 DEF DetectTalk, IInv, Players
<1>2. Players'
  <2>1. CASE orders' = orders
    BY <1>1, <2>1 DEF DetectTalk, IInv, Players
  <2>2. CASE orders' # orders
    <3>1. PICK answer \in Answers :
            /\ Len(orders[p]) < MaxOrders
            /\ orders' = [orders EXCEPT ![p] = Append(@, ReplyOrder(screen[p], answer))]
      BY <2>2 DEF DetectTalk, Answers
    <3>2. ReplyOrder(screen[p], answer) \in Orders(p)
      <4>1. screen[p] \in Read(p)
        BY SomePlayer DEF DetectTalk, IInv
      <4> QED BY <4>1 DEF Orders
    <3>3. misread' = misread /\ events' \in 0..MaxEvents /\ Players
      BY DEF DetectTalk, IInv, Players
    <3> QED BY <1>1, <3>1, <3>2, <3>3, Ordered
  <2> QED BY <2>1, <2>2
<1>3. Calm(world, world')
  BY CalmSelf DEF DetectTalk, IInv
<1> QED BY <1>2, <1>3, CalmStep DEF DetectTalk

LEMMA ExecutedPlayers ==
    ASSUME Players, NEW p \in Human, orders[p] # <<>>, orders' = [orders EXCEPT ![p] = Tail(@)],
           screen' = screen, misread' \in BOOLEAN, events' = events
    PROVE  Players' /\ Head(orders[p]) \in Orders(p)
<1> DEFINE s == Tail(orders[p])
<1>1. orders[p] \in Seq(Orders(p)) /\ Len(orders[p]) \in Nat /\ MaxOrders \in Nat
  BY SomePlayer, BoundAssumption
<1>2. /\ s \in Seq(Orders(p)) /\ Len(s) <= MaxOrders /\ Head(orders[p]) \in Orders(p)
  <2>1. s \in Seq(Orders(p)) /\ Len(s) = Len(orders[p]) - 1 /\ Head(orders[p]) \in Orders(p)
    BY <1>1, HeadTailProperties
  <2>2. Len(orders[p]) <= MaxOrders
    BY DEF Players
  <2> QED BY <1>1, <2>1, <2>2
<1> HIDE DEF s
<1>3. /\ orders' = [orders EXCEPT ![p] = s]
      /\ orders \in [Human -> UNION {Seq(Orders(q)) : q \in Human}]
  BY DEF Players, s
<1>4. \A q \in Human : orders'[q] = IF q = p THEN s ELSE orders[q]
  BY <1>3
<1>5. orders' \in [Human -> UNION {Seq(Orders(q)) : q \in Human}]
  <2>1. s \in UNION {Seq(Orders(q)) : q \in Human}
    BY <1>2
  <2> QED BY <1>3, <2>1
<1>6. \A q \in Human : orders'[q] \in Seq(Orders(q)) /\ Len(orders'[q]) <= MaxOrders
  BY <1>2, <1>4 DEF Players
<1> QED BY <1>2, <1>5, <1>6 DEF Players

\* A reply that is executed for the message that was read is one to an offer to
\* the player, which is in no queue; after another one nothing is promised but
\* that the world is sound.
LEMMA ExecuteStep ==
    ASSUME IInv, NEW p \in Human, ExecuteOrder(p)
    PROVE  IInv' /\ TreatyStep
<1> DEFINE order == Head(orders[p])
<1>1. /\ orders[p] # <<>> /\ orders' = [orders EXCEPT ![p] = Tail(@)]
      /\ screen' = screen /\ events' = events /\ misread' = (misread \/ Misdirected(p))
      /\ Len(world.free) >= 2
  BY DEF ExecuteOrder, Room
<1>2. Players /\ Sound(world) /\ p \in Nation
  BY DEF IInv, Nation
<1>3. Players' /\ order \in Orders(p)
  <2>1. misread' \in BOOLEAN
    BY <1>1, <1>2 DEF Players
  <2> QED BY <1>1, <1>2, <2>1, ExecutedPlayers
<1>4. \/ order.kind = "send" /\ world' = SendTalkMsg(world, order.msg)
      \/ order.kind = "reply" /\ world.msg[order.recno] = NoMsg /\ world' = world
      \/ /\ order.kind = "reply" /\ world.msg[order.recno] # NoMsg
         /\ \E angry \in BOOLEAN : world' = ReplyTalkMsg(world, order.recno, order.answer, angry)
  BY Zenon DEF ExecuteOrder
<1>5. Misdirected(p) <=> /\ order.kind = "reply" /\ world.msg[order.recno] # NoMsg
                         /\ Key(world.msg[order.recno]) # order.meant
  BY DEF Misdirected
<1>6. orders[p] # <<>> /\ orders'[p] = Tail(orders[p])
  <2>1. orders \in [Human -> UNION {Seq(Orders(q)) : q \in Human}]
    BY <1>2 DEF Players
  <2> QED BY <1>1, <2>1
<1> HIDE DEF order
<1>7. CASE order.kind = "send"
  <2>1. world' = SendTalkMsg(world, order.msg) /\ misread' = misread
    BY <1>1, <1>2, <1>4, <1>5, <1>7 DEF Players
  <2>2. Fresh(order.msg)
    BY <1>3, <1>7 DEF Orders, SendOrder, ReplyOrder
  <2>3. Len(world.free) >= 1
    BY <1>1, <1>2, WorldFact, SeqFact DEF Sound
  <2>4. Calm(world, world')
    BY <1>2, <2>1, <2>2, <2>3, SendFact DEF Sent
  <2> QED BY <1>3, <2>1, <2>4, CalmStep
<1>8. CASE order.kind = "reply" /\ world.msg[order.recno] = NoMsg /\ world' = world
  <2>1. Calm(world, world')
    BY <1>2, <1>8, CalmSelf
  <2>2. misread' = misread
    BY <1>1, <1>2, <1>5, <1>8 DEF Players
  <2> QED BY <1>3, <2>1, <2>2, CalmStep
<1>9. CASE /\ order.kind = "reply" /\ world.msg[order.recno] # NoMsg
           /\ \E angry \in BOOLEAN : world' = ReplyTalkMsg(world, order.recno, order.answer, angry)
  <2> DEFINE r == order.recno
  <2>1. /\ r \in Slot /\ order.meant \in KeySet /\ order.meant.to = p /\ order.answer \in Answers
    <3>1. PICK s \in Read(p), answer \in Answers : order = ReplyOrder(s, answer)
      BY <1>3, <1>9 DEF Orders, SendOrder, ReplyOrder
    <3> QED BY <3>1 DEF ReplyOrder, Read
  <2>2. r \in Used(world)
    BY <1>9, <2>1 DEF Used
  <2>3. Replied(world, world', r)
    BY <1>1, <1>2, <1>9, <2>1, <2>2, ReplyFact
  <2> HIDE DEF r
  <2>4. Sound(world')
    BY <2>3 DEF Replied
  <2>5. Sound(world)'
    BY <2>4 DEF Sound, World, FreeRooms, ProperMessages, NoRepetition, TenseTruce, Mutual, Used
  <2>6. CASE Misdirected(p)
    <3>1. misread' = TRUE /\ Misreads(p)
      BY <1>1, <1>6, <2>6 DEF Misreads
    <3> QED BY <1>3, <2>5, <2>6, <3>1 DEF IInv, TreatyStep
  <2>7. CASE ~Misdirected(p)
    <3>1. misread' = misread /\ Key(world.msg[r]) = order.meant
      BY <1>1, <1>2, <1>5, <1>9, <2>7 DEF Players, r
    <3>2. world.msg[r].id \in Offers /\ world.msg[r].to = p
      BY <2>1, <3>1 DEF Key, KeySet
    <3>3. Queues(world) => \A n \in Nation : r \notin world.queue[n]
      BY <3>2, NationAssumption DEF Queues, Awaited
    <3>4. /\ AlliesTrade(world) => AlliesTrade(world')
          /\ Queues(world) => Queues(world')
          /\ \A a, b \in Nation : Warmer(world, world', a, b) => Accepts(world'.msg[r], a, b)
      BY <2>3, <3>2, <3>3 DEF Replied
    <3>5. (AlliesTrade(world) => AlliesTrade(world)') /\ (Queues(world) => Queues(world)')
      BY <3>4 DEF AlliesTrade, Queues
    <3>6. IInv'
      BY <1>3, <2>5, <3>1, <3>5 DEF IInv
    <3>7. ASSUME NEW a \in Nation, NEW b \in Nation, Closer(a, b)
          PROVE  /\ {world'.msg[r].from, world'.msg[r].to} = {a, b}
                 /\ world'.msg[r].reply = "accept"
                 /\ world'.msg[r].id \in {"trade", "friendly", "alliance", "cease_war"}
      <4>1. Warmer(world, world', a, b)
        BY <3>7 DEF Closer, Warmer
      <4> QED BY <3>4, <4>1 DEF Accepts, Treaties
    <3>8. r \in Slot
      BY <2>1 DEF r
    <3> QED BY <3>6, <3>7, <3>8 DEF TreatyStep
  <2> QED BY <2>6, <2>7
<1> QED BY <1>4, <1>7, <1>8, <1>9

LEMMA OfferStep ==
    ASSUME IInv, NEW n \in Ai, AiSendTalkMsg(n)
    PROVE  IInv' /\ TreatyStep
<1>1. PICK m \in Choosable(n) : Sensible(m) /\ world' = SendTalkMsg(world, m)
  BY DEF AiSendTalkMsg
<1>2. Fresh(m)
  BY <1>1, ChosenIsFresh DEF Nation
<1>3. Len(world.free) >= 1 /\ Sound(world) /\ Players
  BY DEF AiSendTalkMsg, Room, IInv
<1>4. Calm(world, world')
  BY <1>1, <1>2, <1>3, SendFact DEF Sent
<1>5. events' \in 0..MaxEvents
  BY <1>3, EventFact DEF AiSendTalkMsg
<1> QED BY <1>3, <1>4, <1>5, PlayersStay, CalmStep DEF AiSendTalkMsg

\* What an Ai takes from its queue is in no queue any more.
Taken(w, n, r) == [w EXCEPT !.queue[n] = @ \ {r}]

LEMMA TakenFact ==
    ASSUME NEW w, Sound(w), NEW n \in Nation, NEW r \in w.queue[n]
    PROVE  LET v == Taken(w, n, r)
           IN  /\ Sound(v) /\ Undisturbed(w, v) /\ Calm(w, v) /\ v.msg = w.msg /\ v.free = w.free
               /\ Queues(w) => \A k \in Nation : r \notin v.queue[k]
<1> DEFINE v == Taken(w, n, r)
<1>1. w \in World
  BY DEF Sound
<1>2. /\ v \in World /\ Undisturbed(w, v) /\ v.msg = w.msg /\ v.free = w.free
      /\ v.queue = [w.queue EXCEPT ![n] = @ \ {r}]
  BY <1>1 DEF Taken, World, Undisturbed
<1> HIDE DEF v
<1>3. /\ \A k \in Nation : v.queue[k] \subseteq w.queue[k]
      /\ r \notin v.queue[n]
  BY <1>1, <1>2, WorldFact
<1>4. Sound(v)
  BY <1>2 DEF Sound, FreeRooms, ProperMessages, NoRepetition, Used, TenseTruce, Mutual, Undisturbed
<1>5. Queues(w) => Queues(v)
  BY <1>2, <1>3 DEF Queues
<1>6. Calm(w, v)
  BY <1>1, <1>2, <1>4, <1>5, CalmFact
<1>7. ASSUME Queues(w), NEW k \in Nation, r \in v.queue[k] PROVE FALSE
  <2>1. Awaited(w.msg[r], n) /\ Awaited(w.msg[r], k)
    BY <1>3, <1>7 DEF Queues
  <2> QED BY <1>3, <1>7, <2>1 DEF Awaited
<1> QED BY <1>2, <1>4, <1>6, <1>7 DEF v

LEMMA TakeStep ==
    ASSUME IInv, NEW n \in Ai, NEW r \in Slot, AiProcessTalkMsg(n, r)
    PROVE  IInv' /\ TreatyStep
<1> DEFINE taken == Taken(world, n, r)
           m == world.msg[r]
<1>1. /\ r \in world.queue[n] /\ n \in Nation /\ Len(world.free) >= 2
      /\ Sound(world) /\ Players /\ misread' = misread
  BY DEF AiProcessTalkMsg, Room, IInv, Nation
<1>2. Players'
  <2>1. events' \in 0..MaxEvents
    BY <1>1 DEF AiProcessTalkMsg, Players
  <2> QED BY <1>1, <2>1, PlayersStay DEF AiProcessTalkMsg
<1>3. \/ world' = taken
      \/ /\ m # NoMsg /\ ValidToReply(world, m)
         /\ \E answer \in Answers, angry \in BOOLEAN : world' = ReplyTalkMsg(taken, r, answer, angry)
  BY DEF AiProcessTalkMsg, Taken, Answers
<1>4. /\ Sound(taken) /\ Undisturbed(world, taken) /\ Calm(world, taken)
      /\ taken.msg = world.msg /\ taken.free = world.free
      /\ Queues(world) => \A k \in Nation : r \notin taken.queue[k]
  BY <1>1, TakenFact
<1> HIDE DEF taken
<1>5. CASE world' = taken
  BY <1>1, <1>2, <1>4, <1>5, CalmStep
<1>6. CASE /\ m # NoMsg /\ ValidToReply(world, m)
           /\ \E answer \in Answers, angry \in BOOLEAN : world' = ReplyTalkMsg(taken, r, answer, angry)
  <2>1. r \in Used(taken)
    BY <1>4, <1>6 DEF Used
  <2>2. Replied(taken, world', r)
    BY <1>1, <1>4, <1>6, <2>1, ReplyFact
  <2>3. CanSend(taken, m.to, m.from, m.id)
    <3>1. taken.status = world.status /\ taken.trade = world.trade /\ taken.alive = world.alive
      BY <1>4 DEF Undisturbed
    <3>2. AtWarWith(taken, m.from) = AtWarWith(world, m.from)
      BY <3>1 DEF AtWarWith
    <3>3. CanSend(world, m.to, m.from, m.id)
      BY <1>6 DEF ValidToReply
    <3> QED BY <3>1, <3>2, <3>3 DEF CanSend, StatusAllows
  <2>4. /\ AlliesTrade(taken) => AlliesTrade(world')
        /\ Queues(taken) /\ (\A k \in Nation : r \notin taken.queue[k]) => Queues(world')
        /\ \A a, b \in Nation : Warmer(taken, world', a, b) => Accepts(world'.msg[r], a, b)
    BY <1>4, <2>2, <2>3 DEF Replied
  <2>5. /\ Sound(world') /\ (AlliesTrade(world) => AlliesTrade(world'))
        /\ Queues(world) => Queues(world')
    BY <1>4, <2>2, <2>4 DEF Replied, Calm
  <2>6. Sound(world)' /\ (AlliesTrade(world) => AlliesTrade(world)')
        /\ (Queues(world) => Queues(world)')
    BY <2>5 DEF Sound, World, FreeRooms, ProperMessages, NoRepetition, TenseTruce, Mutual, Used,
                AlliesTrade, Queues
  <2>7. IInv'
    BY <1>1, <1>2, <2>6 DEF IInv
  <2>8. ASSUME NEW a \in Nation, NEW b \in Nation, Closer(a, b)
        PROVE  /\ {world'.msg[r].from, world'.msg[r].to} = {a, b}
               /\ world'.msg[r].reply = "accept"
               /\ world'.msg[r].id \in {"trade", "friendly", "alliance", "cease_war"}
    <3>1. Warmer(taken, world', a, b)
      BY <1>4, <2>8 DEF Closer, Warmer, Undisturbed
    <3> QED BY <2>4, <3>1 DEF Accepts, Treaties
  <2> QED BY <2>7, <2>8 DEF TreatyStep
<1> QED BY <1>3, <1>5, <1>6

LEMMA WeeklyStep ==
    ASSUME IInv, ProcessTalkMsg
    PROVE  IInv' /\ TreatyStep
<1>1. /\ Sound(world) /\ Players /\ Len(world.free) >= Cardinality(Due) /\ misread' = misread
      /\ \E angry \in SUBSET Due : world' = Weekly(angry)
  BY DEF ProcessTalkMsg, Room, IInv
<1>2. Calm(world, world')
  BY <1>1, WeeklyFact
<1>3. Players'
  <2>1. events' \in 0..MaxEvents
    BY <1>1 DEF ProcessTalkMsg, Players
  <2> QED BY <1>1, <2>1, PlayersStay DEF ProcessTalkMsg
<1> QED BY <1>1, <1>2, <1>3, CalmStep

\* A message in a queue grows no older than two months.
LEMMA AgeStep ==
    ASSUME IInv, NEW r \in Slot, MessageAges(r)
    PROVE  IInv' /\ TreatyStep
<1> DEFINE o == world.msg[r]
           m == [o EXCEPT !.age = @ + 1]
<1>1. /\ world \in World /\ Sound(world) /\ Players /\ o # NoMsg /\ o.age < 3
      /\ world' = [world EXCEPT !.msg[r].age = @ + 1] /\ misread' = misread
      /\ \/ o.age = 0 \/ SlowAi
         \/ \A n \in Ai : r \notin world.queue[n]
  BY DEF MessageAges, IInv, Sound
<1>2. Proper(o) /\ {o.from, o.to} \subseteq world.alive /\ r \in Used(world)
  BY <1>1 DEF Sound, ProperMessages, Used
<1>3. Players'
  <2>1. events' \in 0..MaxEvents
    BY <1>1 DEF MessageAges, Players
  <2> QED BY <1>1, <2>1, PlayersStay DEF MessageAges
<1>4. /\ m \in MsgSet /\ m.id = o.id /\ m.from = o.from /\ m.to = o.to
      /\ m.para = o.para /\ m.reply = o.reply /\ m.age = o.age + 1
  <2>1. o.age \in 0..3
    BY <1>2, MsgFact DEF Proper
  <2>2. o.age + 1 \in 0..3
    BY <1>1, <2>1
  <2>3. o \in MsgSet
    BY <1>2 DEF Proper
  <2> HIDE DEF o
  <2> QED BY <2>2, <2>3 DEF MsgSet
<1>5. Proper(m) /\ m # NoMsg
  BY <1>2, <1>4, MsgFact DEF Proper
<1> DEFINE v == world'
<1>6. /\ v \in World /\ Undisturbed(world, v) /\ v.free = world.free /\ v.queue = world.queue
      /\ \A q \in Slot : v.msg[q] = IF q = r THEN m ELSE world.msg[q]
  <2>1. v = [world EXCEPT !.msg[r] = m]
    BY <1>1
  <2> HIDE DEF o, m, v
  <2> QED BY <1>1, <1>4, <2>1 DEF World, Undisturbed
<1> HIDE DEF m, o
<1>7. Used(v) = Used(world) /\ \A q \in Slot : v.msg[q] = NoMsg <=> world.msg[q] = NoMsg
  BY <1>1, <1>5, <1>6 DEF Used, o
<1>8. ProperMessages(v)
  <2> SUFFICES ASSUME NEW q \in Used(world)
               PROVE  Proper(v.msg[q]) /\ {v.msg[q].from, v.msg[q].to} \subseteq v.alive
    BY <1>7 DEF ProperMessages
  <2>1. q \in Slot /\ Proper(world.msg[q]) /\ {world.msg[q].from, world.msg[q].to} \subseteq world.alive
    BY <1>1 DEF Sound, ProperMessages, Used
  <2> QED BY <1>2, <1>4, <1>5, <1>6, <2>1 DEF Undisturbed
<1>9. NoRepetition(v)
  <2> SUFFICES ASSUME NEW p \in Used(world), NEW q \in Used(world), SameOffer(v.msg[p], v.msg[q])
               PROVE  p = q
    BY <1>7 DEF NoRepetition
  <2>1. ASSUME NEW k \in Used(world)
        PROVE  /\ v.msg[k].id = world.msg[k].id /\ v.msg[k].from = world.msg[k].from
               /\ v.msg[k].to = world.msg[k].to /\ v.msg[k].reply = world.msg[k].reply
    BY <1>4, <1>6 DEF Used, o
  <2>2. SameOffer(world.msg[p], world.msg[q])
    BY <2>1 DEF SameOffer
  <2> QED BY <1>1, <2>2 DEF Sound, NoRepetition
<1>10. Sound(v)
  BY <1>1, <1>6, <1>7, <1>8, <1>9 DEF Sound, FreeRooms, TenseTruce, Mutual, Undisturbed
<1>11. ASSUME ~SlowAi, Queues(world) PROVE Queues(v)
  <2> SUFFICES ASSUME NEW n \in Nation, NEW q \in world.queue[n] PROVE Awaited(v.msg[q], n)
    BY <1>6 DEF Queues
  <2>1. q \in Slot /\ Awaited(world.msg[q], n)
    BY <1>1, <1>11, WorldFact DEF Queues
  <2>2. CASE q = r
    <3>1. n \in Ai /\ o.age = 0
      BY <1>1, <1>11, <2>1, <2>2 DEF Awaited
    <3>2. m.age <= 1
      BY <1>4, <3>1
    <3> QED BY <1>4, <1>6, <2>1, <2>2, <3>2 DEF Awaited, o
  <2>3. CASE q # r
    BY <1>6, <2>1, <2>3
  <2> QED BY <2>2, <2>3
<1>12. Sound(world)' /\ (AlliesTrade(world) => AlliesTrade(world)')
       /\ (~SlowAi /\ Queues(world) => Queues(world)')
  BY <1>6, <1>10, <1>11
     DEF Sound, World, FreeRooms, ProperMessages, NoRepetition, TenseTruce, Mutual, Used,
         AlliesTrade, Queues, Undisturbed
<1>13. IInv'
  BY <1>1, <1>3, <1>12 DEF IInv
<1>14. ASSUME NEW a \in Nation, NEW b \in Nation PROVE ~Closer(a, b)
  <2>1. world'.status[a][b] = world.status[a][b] /\ world.status[a][b] \in 0..4
        /\ world'.trade[a][b] = world.trade[a][b]
    BY <1>1, <1>6, RelationFact DEF Undisturbed
  <2> QED BY <2>1 DEF Closer
<1> QED BY <1>13, <1>14 DEF TreatyStep

LEMMA TruceStep ==
    ASSUME IInv, NEW pair \in world.truce, TruceEnds(pair)
    PROVE  IInv' /\ TreatyStep
<1> DEFINE v == [world EXCEPT !.truce = @ \ {pair}]
<1>1. world \in World /\ Sound(world) /\ Players /\ world' = v /\ misread' = misread
  BY DEF TruceEnds, IInv, Sound
<1>2. /\ v \in World /\ v.status = world.status /\ v.trade = world.trade
      /\ v.truce = world.truce \ {pair} /\ v.alive = world.alive /\ v.running = world.running
      /\ SameBooks(world, v)
  BY <1>1 DEF World, SameBooks
<1> HIDE DEF v
<1>3. Sound(v)
  <2>1. TenseTruce(v) /\ Mutual(v)
    BY <1>1, <1>2 DEF Sound, TenseTruce, Mutual
  <2> QED BY <1>1, <1>2, <2>1, BooksFact DEF Sound
<1>4. ASSUME NEW a \in Nation, NEW b \in Nation PROVE ~Warmer(world, v, a, b)
  <2>1. v.status[a][b] = world.status[a][b] /\ world.status[a][b] \in 0..4
    BY <1>1, <1>2, RelationFact
  <2> QED BY <1>2, <2>1 DEF Warmer
<1>5. Calm(world, world')
  BY <1>1, <1>2, <1>3, <1>4 DEF Calm, AlliesTrade, Queues, SameBooks
<1>6. Players'
  <2>1. events' \in 0..MaxEvents
    BY <1>1 DEF TruceEnds, Players
  <2> QED BY <1>1, <2>1, PlayersStay DEF TruceEnds
<1> QED BY <1>1, <1>5, <1>6, CalmStep

LEMMA MonthStep ==
    ASSUME IInv, NEW n \in Nation, NextMonth(n)
    PROVE  IInv' /\ TreatyStep
<1>1. PICK m \in world.alive \ {n} :
        world.status[n][m] = Tense /\ world' = SetStatus(world, n, m, Neutral)
  BY DEF NextMonth
<1>2. Sound(world) /\ Players /\ misread' = misread /\ m \in Nation /\ n # m
  BY <1>1, WorldFact DEF NextMonth, IInv, Sound
<1>3. Neutral \in Status /\ Neutral \in Hostile..Neutral /\ Tense # Hostile
  BY DEF Status, Neutral, Tense, Hostile, Alliance
<1>4. Related(world, world', n, m, Neutral)
  BY <1>1, <1>2, <1>3, StatusFact
<1>5. Calm(world, world')
  BY <1>1, <1>2, <1>3, <1>4, CoolerFact
<1>6. Players'
  <2>1. events' \in 0..MaxEvents
    BY <1>2 DEF NextMonth, Players
  <2> QED BY <1>2, <2>1, PlayersStay DEF NextMonth
<1> QED BY <1>2, <1>5, <1>6, CalmStep

LEMMA AttackStep ==
    ASSUME IInv, NEW n \in Nation, NEW by \in Nation, BeingAttacked(n, by)
    PROVE  IInv' /\ TreatyStep
<1>1. Sound(world) /\ Players /\ misread' = misread /\ by # n /\ events < MaxEvents
      /\ world' = SetStatus(world, by, n, Hostile)
  BY DEF BeingAttacked, IInv
<1>2. Hostile \in Status /\ Hostile \in Hostile..Neutral
  BY DEF Status, Neutral, Hostile, Alliance
<1>3. Related(world, world', by, n, Hostile)
  BY <1>1, <1>2, StatusFact
<1>4. Calm(world, world')
  BY <1>1, <1>2, <1>3, CoolerFact
<1>5. Players'
  <2>1. events' \in 0..MaxEvents
    BY <1>1, EventFact DEF BeingAttacked
  <2> QED BY <1>1, <2>1, PlayersStay DEF BeingAttacked
<1> QED BY <1>1, <1>4, <1>5, CalmStep

LEMMA DefeatStep ==
    ASSUME IInv, NEW n \in Nation, Defeated(n)
    PROVE  IInv' /\ TreatyStep
<1>1. Sound(world) /\ Players /\ misread' = misread /\ world' = NationGone(world, n)
  BY DEF Defeated, IInv
<1>2. Calm(world, world')
  BY <1>1, GoneFact
<1>3. Players'
  <2>1. events' \in 0..MaxEvents
    BY <1>1, EventFact DEF Defeated
  <2> QED BY <1>1, <2>1, PlayersStay DEF Defeated
<1> QED BY <1>1, <1>2, <1>3, CalmStep

LEMMA InitFact == Init => IInv
<1> SUFFICES ASSUME Init PROVE IInv
  OBVIOUS
<1>1. PICK s \in Start :
        world = [alive |-> Nation, status |-> s.status, trade |-> s.trade,
                 truce |-> {}, msg |-> [r \in Slot |-> NoMsg], free |-> Downwards,
                 queue |-> [n \in Nation |-> {}], running |-> TRUE]
  BY DEF Init
<1>2. /\ s.status \in [Nation -> [Nation -> Status]]
      /\ s.trade \in [Nation -> [Nation -> BOOLEAN]]
      /\ \A n, m \in Nation : n # m =>
            /\ s.status[n][m] = s.status[m][n]
            /\ s.trade[n][m] = s.trade[m][n]
            /\ s.status[n][m] = Alliance => s.trade[n][m]
  BY StartAssumption DEF Status
<1>3. /\ world.status = s.status /\ world.trade = s.trade /\ world.truce = {}
      /\ world.msg = [r \in Slot |-> NoMsg] /\ world.free = Downwards
      /\ world.queue = [n \in Nation |-> {}]
  BY <1>1
<1>4. world \in World
  BY <1>1, <1>2, DownwardsFact DEF World
<1>5. FreeRooms(world)
  <2>1. \A r \in Slot : world.msg[r] = NoMsg /\ \E k \in DOMAIN Downwards : Downwards[k] = r
    <3>1. \A r \in Slot : world.msg[r] = NoMsg
      BY <1>3
    <3>2. \A r \in Slot : \E k \in DOMAIN Downwards : Downwards[k] = r
      BY DownwardsFact
    <3> QED BY <3>1, <3>2
  <2>2. \A k, l \in DOMAIN Downwards : Downwards[k] = Downwards[l] => k = l
    BY DownwardsFact
  <2>3. \A r \in Slot :
            world.msg[r] = NoMsg <=> \E k \in DOMAIN world.free : world.free[k] = r
    BY <1>3, <2>1
  <2>4. \A k, l \in DOMAIN world.free : world.free[k] = world.free[l] => k = l
    BY <1>3, <2>2
  <2> QED BY <2>3, <2>4 DEF FreeRooms
<1>6. Used(world) = {}
  BY <1>3 DEF Used
<1>7. Mutual(world) /\ AlliesTrade(world)
  BY <1>2, <1>3 DEF Mutual, AlliesTrade
<1>8. Sound(world) /\ Queues(world)
  BY <1>3, <1>4, <1>5, <1>6, <1>7
     DEF Sound, ProperMessages, NoRepetition, TenseTruce, Queues
<1>9. Players
  <2>1. /\ screen = [p \in Human |-> NoScreen] /\ orders = [p \in Human |-> <<>>]
        /\ misread = FALSE /\ events = 0
    BY DEF Init
  <2>2. NoScreen \in Screens
    BY DEF Screens
  <2>3. 0 \in 0..MaxEvents /\ 0 <= MaxOrders
    BY BoundAssumption
  <2>4. ASSUME NEW p \in Human PROVE <<>> \in Seq(Orders(p)) /\ Len(<<>>) = 0
    BY EmptySeq
  <2> QED BY <2>1, <2>2, <2>3, <2>4 DEF Players
<1> QED BY <1>7, <1>8, <1>9 DEF IInv

LEMMA NextFact ==
    ASSUME IInv, [Next]_vars
    PROVE  IInv' /\ [TreatyStep]_vars
<1>1. CASE UNCHANGED vars
  <2>1. Players' /\ misread' = misread /\ Calm(world, world')
    <3>1. world' = world /\ screen' = screen /\ orders' = orders /\ misread' = misread
          /\ events' = events
      BY <1>1 DEF vars
    <3>2. Players'
      BY <3>1 DEF IInv, Players
    <3> QED BY <3>1, <3>2, CalmSelf DEF IInv
  <2> QED BY <1>1, <2>1, CalmStep
<1>2. CASE Next
  <2>1. ASSUME NEW p \in Human, PlayerSends(p) PROVE IInv' /\ TreatyStep
    BY <2>1, SendsStep
  <2>2. ASSUME NEW p \in Human, PlayerReply(p) PROVE IInv' /\ TreatyStep
    BY <2>2, ReadStep
  <2>3. ASSUME NEW p \in Human, DetectTalk(p) PROVE IInv' /\ TreatyStep
    BY <2>3, AnswerStep
  <2>4. ASSUME NEW p \in Human, ExecuteOrder(p) PROVE IInv' /\ TreatyStep
    BY <2>4, ExecuteStep
  <2>5. ASSUME NEW n \in Ai, AiSendTalkMsg(n) PROVE IInv' /\ TreatyStep
    BY <2>5, OfferStep
  <2>6. ASSUME NEW n \in Ai, NEW r \in Slot, AiProcessTalkMsg(n, r) PROVE IInv' /\ TreatyStep
    BY <2>6, TakeStep
  <2>7. ASSUME ProcessTalkMsg PROVE IInv' /\ TreatyStep
    BY <2>7, WeeklyStep
  <2>8. ASSUME NEW r \in Slot, MessageAges(r) PROVE IInv' /\ TreatyStep
    BY <2>8, AgeStep
  <2>9. ASSUME NEW pair \in world.truce, TruceEnds(pair) PROVE IInv' /\ TreatyStep
    BY <2>9, TruceStep
  <2>10. ASSUME NEW n \in Nation, NextMonth(n) PROVE IInv' /\ TreatyStep
    BY <2>10, MonthStep
  <2>11. ASSUME NEW n \in Nation, Defeated(n) PROVE IInv' /\ TreatyStep
    BY <2>11, DefeatStep
  <2>12. ASSUME NEW n \in Nation, NEW by \in Nation, BeingAttacked(n, by)
         PROVE  IInv' /\ TreatyStep
    BY <2>12, AttackStep
  <2>13. IInv' /\ TreatyStep
    BY <1>2, <2>1, <2>2, <2>3, <2>4, <2>5, <2>6, <2>7, <2>8, <2>9, <2>10, <2>11, <2>12 DEF Next
  <2> QED BY <2>13
<1> QED BY <1>1, <1>2

-----------------------------------------------------------------------------
(* The theorems *)

\* The invariant that the others follow from.
THEOREM Invariance == Spec => []IInv
<1>1. Init => IInv
  BY InitFact
<1>2. IInv /\ [Next]_vars => IInv'
  BY NextFact
<1> QED BY <1>1, <1>2, PTL DEF Spec

\* Every variable keeps its type, and the list of empty rooms is the list of
\* those that hold no message (linkin, del_talk_msg).
THEOREM TypeCorrect == Spec => []TypeOK
<1>1. IInv => TypeOK
  <2> SUFFICES ASSUME IInv PROVE TypeOK
    OBVIOUS
  <2>1. /\ world \in World /\ FreeRooms(world) /\ ProperMessages(world) /\ TenseTruce(world)
        /\ Players
    BY DEF IInv, Sound
  <2>2. /\ world.alive \subseteq Nation /\ world.running \in BOOLEAN
        /\ world.status \in [Nation -> [Nation -> Hostile..Alliance]]
        /\ world.trade \in [Nation -> [Nation -> BOOLEAN]]
    BY <2>1, WorldFact DEF Status
  <2>3. \A pair \in world.truce :
            \E n, m \in Nation : pair = {n, m} /\ world.status[n][m] = Tense
    BY <2>1 DEF TenseTruce
  <2>4. IsInjective(world.free)
    BY <2>1 DEF IsInjective, FreeRooms
  <2>5. Slot \ ToSet(world.free) = Used(world)
    <3>1. ToSet(world.free) = {r \in Slot : \E k \in DOMAIN world.free : world.free[k] = r}
      <4>1. world.free \in Seq(Slot)
        BY <2>1, WorldFact
      <4> QED BY <4>1, SeqFact DEF ToSet
    <3> QED BY <2>1, <3>1 DEF FreeRooms, Used
  <2>6. \A r \in Used(world) : /\ world.msg[r].age \in 0..3
                               /\ {world.msg[r].from, world.msg[r].to} \subseteq Nation
                               /\ world.msg[r].para # 0 <=> world.msg[r].id \in AboutAThird
    BY <2>1, MsgFact DEF ProperMessages, Proper
  <2>7. \A p \in Human : screen[p].recno \in 0..MaxMsg /\ Len(orders[p]) <= MaxOrders
    <3>1. \A p \in Human : Len(orders[p]) <= MaxOrders /\ screen[p] \in Read(p) \cup {NoScreen}
      BY <2>1 DEF Players
    <3>2. NoScreen.recno = 0 /\ MaxMsg \in Nat
      BY BoundAssumption DEF NoScreen
    <3>3. \A p \in Human : \A s \in Read(p) : s.recno \in 1..MaxMsg
      BY DEF Read, Slot
    <3> QED BY <3>1, <3>2, <3>3
  <2> QED BY <2>1, <2>2, <2>3, <2>4, <2>5, <2>6, <2>7 DEF TypeOK, Players
<1> QED BY <1>1, Invariance, PTL

\* Whatever is accepted late or out of order, both sides hold the same of their
\* relation, and allies trade unless a reply was taken for another message's
\* (form_alliance_treaty, set_relation_status, can_send_msg).
THEOREM TreatiesAlwaysAgree == Spec => []TreatiesAgree
<1>1. IInv => TreatiesAgree
  <2> SUFFICES ASSUME IInv, NEW n \in world.alive, NEW m \in world.alive, n # m
               PROVE  /\ world.status[n][m] = world.status[m][n]
                      /\ world.trade[n][m] = world.trade[m][n]
                      /\ world.status[n][m] = Alliance /\ ~misread => world.trade[n][m]
    BY DEF TreatiesAgree
  <2>1. n \in Nation /\ m \in Nation
    BY WorldFact DEF IInv, Sound
  <2> QED BY <2>1 DEF IInv, Sound, Mutual, AlliesTrade
<1> QED BY <1>1, Invariance, PTL

\* No message outlives its nations (del_all_nation_msg, send_talk_msg).
THEOREM MessagesStayAlive == Spec => []MessagesAlive
<1>1. IInv => MessagesAlive
  BY DEF IInv, Sound, ProperMessages, MessagesAlive
<1> QED BY <1>1, Invariance, PTL

\* An Ai sends no offer twice while the first one waits (send_talk_msg).
THEOREM NeverRepeats == Spec => []NoRepeats
<1>1. IInv => NoRepeats
  BY DEF IInv, Sound, NoRepetition, SameOffer, NoRepeats
<1> QED BY <1>1, Invariance, PTL

\* The queue of an Ai names messages to it, if it takes them up before they
\* count as rejected and no reply is taken for another message's (del_talk_msg).
THEOREM QueuesRefer ==
    ASSUME ~SlowAi
    PROVE  Spec => []QueueRefers
<1>1. IInv => QueueRefers
  <2> SUFFICES ASSUME IInv, ~misread, NEW n \in Nation, NEW r \in world.queue[n]
               PROVE  world.msg[r] # NoMsg /\ world.msg[r].to = n
    BY DEF QueueRefers
  <2>1. Awaited(world.msg[r], n)
    BY DEF IInv, Queues
  <2> QED BY <2>1, NoMsgFact DEF Awaited, Nation
<1> QED BY <1>1, Invariance, PTL

\* Nobody comes to a treaty or a cease-fire but by an offer that is accepted
\* (reply_talk_msg, process_accepted_reply).
THEOREM TreatiesByOffer == Spec => TreatyByOffer
<1>1. IInv /\ [Next]_vars => [TreatyStep]_vars
  BY NextFact
<1>2. Spec => []IInv /\ [][Next]_vars
  BY Invariance, PTL DEF Spec
<1>3. Spec => [][TreatyStep]_vars
  BY <1>1, <1>2, PTL
<1> QED BY <1>3 DEF TreatyByOffer
=============================================================================
