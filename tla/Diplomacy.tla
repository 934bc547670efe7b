----------------------------- MODULE Diplomacy -----------------------------
(***************************************************************************)
(* Relations between the nations, the messages in which they offer, end or *)
(* ask for something, and the replies.  A message lies in talk_msg_array   *)
(* for a year.  A computer player (Ai) finds an offer in its action queue  *)
(* and answers it some day; a human player answers it on the screen.  What *)
(* a human does is an order that takes effect when its frame is executed   *)
(* (module Lockstep), so the world may have changed since the click.       *)
(*                                                                         *)
(* The world is a record, and an operator that is named after a function   *)
(* of the code takes the world before the call and returns the world after *)
(* it.  A message is an id, the two nations, and the third nation that it  *)
(* is about; a message deleted from its slot is NoMsg.                     *)
(*                                                                         *)
(* Left out: messages that only move cash, food or technology, military    *)
(* aid, reputation and the ratings the computer decides by (it may decide  *)
(* either way), and contact between nations.                               *)
(***************************************************************************)
EXTENDS Integers, Sequences, FiniteSets, SequencesExt

CONSTANTS
    Human, Ai,      \* the nations, by who plays them
    Talk,           \* the messages that are sent
    MaxMsg,         \* bound: slots of talk_msg_array
    MaxEvents,      \* bound: what the nations do of their own accord, namely
                    \* messages, attacks and defeats
    MaxOrders,      \* bound: orders of one player on their way
    Start,          \* the relations at the start, pairs of status and trade
    SlowAi          \* whether a message may wait for two months in the queue
                    \* of an Ai: hardly in the code, where process_ai takes
                    \* up all of them every third day

Nation == Human \cup Ai
Slot == 1..MaxMsg

Offers == {"trade", "friendly", "alliance", "embargo", "cease_war",
           "request_war", "request_surrender"}
Notices == {"end_trade", "end_friendly", "end_alliance", "declare_war", "surrender"}
AboutAThird == {"embargo", "request_war"}

ASSUME NationAssumption ==
    /\ IsFiniteSet(Nation) /\ 0 \notin Nation /\ Human \cap Ai = {}
ASSUME BoundAssumption ==
    MaxMsg \in Nat \ {0} /\ MaxEvents \in Nat /\ MaxOrders \in Nat \ {0}
ASSUME ChoiceAssumption == Talk \subseteq Offers \cup Notices /\ SlowAi \in BOOLEAN

\* The relation status, as numbered by the code.
Hostile == 0
Tense == 1
Neutral == 2
Friendly == 3
Alliance == 4

\* Relations are set on both sides, and allies trade (init_relation, the saved
\* games).
ASSUME StartAssumption ==
    \A s \in Start :
        /\ s.status \in [Nation -> [Nation -> Hostile..Alliance]]
        /\ s.trade \in [Nation -> [Nation -> BOOLEAN]]
        /\ \A n, m \in Nation : n # m =>
            /\ s.status[n][m] = s.status[m][n]
            /\ s.trade[n][m] = s.trade[m][n]
            /\ s.status[n][m] = Alliance => s.trade[n][m]

VARIABLES
    world,
    screen,     \* the message each player is replying to
    orders,     \* of each player, in the order they will be executed
    misread,    \* history: a reply was executed for another message than the
                \* one that the player has read
    events      \* how many of them there were, see MaxEvents

vars == <<world, screen, orders, misread, events>>

\* Ages of a message: up to a month, up to two, up to a year, older.
NoMsg == [id |-> "none", from |-> 0, to |-> 0, para |-> 0, reply |-> "none", age |-> 0]
Key(m) == [id |-> m.id, from |-> m.from, to |-> m.to, para |-> m.para]
Message(id, from, to, para) ==
    [id |-> id, from |-> from, to |-> to, para |-> para, age |-> 0,
     reply |-> IF id \in Offers THEN "waiting" ELSE "not_needed"]
NoScreen == [recno |-> 0, meant |-> Key(NoMsg)]

Used(w) == {r \in Slot : w.msg[r] # NoMsg}
\* From the last slot to the first.
Downwards == [i \in Slot |-> MaxMsg + 1 - i]

-----------------------------------------------------------------------------
(* Relations *)

SetTrade(w, n, m, flag) == [w EXCEPT !.trade[n][m] = flag, !.trade[m][n] = flag]

\* Within five days after a cease-fire, shots that are still on their way do
\* not bring the war back.  War ends trade.
SetStatus(w, n, m, status) ==
    IF w.status[n][m] = Tense /\ status = Hostile /\ {n, m} \in w.truce THEN w
    ELSE LET set == [w EXCEPT !.status[n][m] = status, !.status[m][n] = status,
                              !.truce = IF status = Tense THEN @ \cup {{n, m}}
                                        ELSE @ \ {{n, m}}]
         IN  IF status = Hostile THEN SetTrade(set, n, m, FALSE) ELSE set

\* Mistake: the trade treaty is left to the allies.
FormAllianceOnly(w, n, m) == SetStatus(w, n, m, Alliance)

\* Allied nations are obliged to trade with each other.
FormAlliance(w, n, m) == SetTrade(SetStatus(w, n, m, Alliance), n, m, TRUE)

AtWarWith(w, n) == {m \in w.alive : w.status[n][m] = Hostile}

\* can_send_msg: what the status allows, and the trade treaty.
StatusAllows(w, to, from, id) ==
    LET status == w.status[from][to] IN
    CASE id = "trade"        -> status \notin {Alliance, Hostile}
      [] id = "friendly"     -> status \in {Tense, Neutral}
      [] id = "alliance"     -> status \in {Neutral, Friendly}
      [] id = "end_trade"    -> status # Alliance
      [] id = "end_friendly" -> status = Friendly
      [] id = "end_alliance" -> status = Alliance
      [] id = "embargo"      -> status \in {Friendly, Alliance}
      [] id = "cease_war"    -> status = Hostile
      [] id = "request_war"  -> status = Alliance /\ AtWarWith(w, from) # {}
      [] id = "declare_war"  -> status \in {Tense, Neutral}
      [] OTHER               -> TRUE
CanSend(w, to, from, id) ==
    /\ StatusAllows(w, to, from, id)
    /\ id = "trade" => ~w.trade[to][from]
    /\ id = "end_trade" => w.trade[to][from]

ValidToDisp(w, m) ==
    /\ {m.from, m.to} \subseteq w.alive
    /\ m.id \in AboutAThird => m.para \in w.alive

\* The third nation that a request is about: one that the other trades with and
\* we do not, or whom we are at war with and the other is not.
Suits(w, m) ==
    /\ m.id = "embargo" => ~w.trade[m.from][m.para] /\ w.trade[m.to][m.para]
    /\ m.id = "request_war" =>
            w.status[m.from][m.para] = Hostile /\ w.status[m.to][m.para] # Hostile

ValidToReply(w, m) ==
    /\ m.age = 0
    /\ ValidToDisp(w, m)
    /\ CanSend(w, m.to, m.from, m.id)
    /\ Suits(w, m)

-----------------------------------------------------------------------------
(* talk_msg_array *)

\* Mistake: the room is not taken off the list of empty ones.
LinkInBeside(w, m) == [w EXCEPT !.msg[Last(w.free)] = m]

\* linkin: the room emptied last is used first.
LinkIn(w, m) == [w EXCEPT !.free = Front(@), !.msg[Last(w.free)] = m]

\* These slots, from the last to the first, as the loops of TalkRes go.
Descending(slots) ==
    FlattenSeq([k \in Slot |-> IF Downwards[k] \in slots THEN <<Downwards[k]>> ELSE <<>>])

Unanswered(m) == m.reply \in {"waiting", "not_needed"}

\* Mistake: the actions of the receivers are forgotten.
DelAllOnly(w, slots) ==
    [w EXCEPT !.msg = [r \in Slot |-> IF r \in slots THEN NoMsg ELSE @[r]],
              !.free = @ \o Descending(slots)]

\* del_talk_msg for each of these.  An answered message is not looked for in
\* the queue of the receiver.
DelAll(w, slots) ==
    [w EXCEPT !.msg = [r \in Slot |-> IF r \in slots THEN NoMsg ELSE @[r]],
              !.free = @ \o Descending(slots),
              !.queue = [n \in Nation |->
                  @[n] \ {r \in slots : w.msg[r].to = n /\ Unanswered(w.msg[r])}]]

DelMsg(w, r) == DelAll(w, {r})

\* The slots with this message, whatever its parameter, before it is answered.
Exist(w, id, from, to) ==
    {r \in Slot : /\ w.msg[r].id = id /\ w.msg[r].from = from /\ w.msg[r].to = to
                  /\ Unanswered(w.msg[r])}

\* Mistake: only what the nation has sent is deleted.
DelAllNationMsgFrom(w, n) == DelAll(w, {r \in Used(w) : w.msg[r].from = n})

\* The nation is still in nation_array: what names it as a third nation stays.
DelAllNationMsg(w, n) ==
    DelAll(w, {r \in Used(w) : n \in {w.msg[r].from, w.msg[r].to}
                               \/ ~ValidToDisp(w, w.msg[r])})

NationGone(w, n) ==
    [DelAllNationMsg(w, n) EXCEPT !.alive = @ \ {n}, !.queue[n] = {}]

-----------------------------------------------------------------------------
(* Sending *)

\* The game does not survive the use of a deleted nation.
Stop(w) == [w EXCEPT !.running = FALSE]
UsesDeleted(w, m) ==
    \/ m.from \notin w.alive
    \/ m.to \notin w.alive /\ StatusAllows(w, m.to, m.from, m.id)

\* What an accepted message does, other than sending messages in its turn.
Effect(w, m) ==
    CASE m.id = "trade"        -> SetTrade(w, m.to, m.from, TRUE)
      [] m.id = "friendly"     -> SetStatus(w, m.to, m.from, Friendly)
      [] m.id = "alliance"     -> FormAlliance(w, m.to, m.from)
      [] m.id = "end_trade"    -> SetTrade(w, m.to, m.from, FALSE)
      [] m.id \in {"end_friendly", "end_alliance"} -> SetStatus(w, m.from, m.to, Neutral)
      [] m.id = "cease_war"    -> SetStatus(w, m.to, m.from, Tense)
      [] m.id = "declare_war"  -> SetStatus(w, m.to, m.from, Hostile)
      [] m.id = "request_surrender" -> NationGone(w, m.to)
      [] m.id = "surrender"    -> NationGone(w, m.from)
      [] OTHER                 -> w

\* The same message from the other side is settled with it.
DelCrossed(w, m) == DelAll(w, Exist(w, m.id, m.to, m.from))

\* An Ai does not send the same offer twice while it waits for the reply.  Other
\* messages are checked again, since they may come from the network.
NotSent(w, m) ==
    \/ m.id \in Offers /\ m.from \in Ai /\ Exist(w, m.id, m.from, m.to) # {}
    \/ ~CanSend(w, m.to, m.from, m.id)

Put(w, m) ==
    LET put == LinkIn(w, m) IN
    IF m.to \in Ai /\ m.reply = "waiting"
    THEN [put EXCEPT !.queue[m.to] = @ \cup {Last(w.free)}] ELSE put

\* Mistake: the array is not searched for the same message.
SendTalkMsgAgain(w, m) ==
    IF UsesDeleted(w, m) THEN Stop(w)
    ELSE IF ~CanSend(w, m.to, m.from, m.id) THEN w
    ELSE IF m.reply = "waiting" THEN Put(w, m)
    ELSE DelCrossed(Effect(Put(w, m), m), m)

\* A notice takes effect at once.
SendTalkMsg(w, m) ==
    IF UsesDeleted(w, m) THEN Stop(w)
    ELSE IF NotSent(w, m) THEN w
    ELSE IF m.reply = "waiting" THEN Put(w, m)
    ELSE DelCrossed(Effect(Put(w, m), m), m)

\* Who agrees to an embargo ends his trade with the third nation; who agrees to
\* go to war ends his treaty with it, and declares war.
EndTreatyFirst(w, n, m) ==
    IF w.status[n][m] = Alliance THEN SendTalkMsg(w, Message("end_alliance", n, m, 0))
    ELSE IF w.status[n][m] = Friendly THEN SendTalkMsg(w, Message("end_friendly", n, m, 0))
    ELSE w

ProcessAcceptedReply(w, m) ==
    LET done ==
        CASE m.id = "embargo" -> SendTalkMsg(w, Message("end_trade", m.to, m.para, 0))
          [] m.id = "request_war" /\ w.status[m.from][m.para] = Hostile ->
                SendTalkMsg(EndTreatyFirst(w, m.to, m.para),
                            Message("declare_war", m.to, m.para, 0))
          [] OTHER -> Effect(w, m)
    IN  DelCrossed(done, m)

\* An Ai whose offer is rejected and who is angry enough ends a treaty, or
\* declares war where there is none.  (That it may ask again at once, with a
\* tribute, is left to AiSendTalkMsg: a step of its own, which may follow.)
NotifyReply(w, m, angry) ==
    IF m.from \notin Ai \/ m.reply # "reject" \/ ~angry THEN w
    ELSE IF m.id # "alliance" /\ w.status[m.from][m.to] >= Friendly
         THEN SendTalkMsg(w, Message(IF w.status[m.from][m.to] = Friendly
                                     THEN "end_friendly" ELSE "end_alliance",
                                     m.from, m.to, 0))
    ELSE SendTalkMsg(w, Message("declare_war", m.from, m.to, 0))

\* Mistake: the consequences do not depend on the reply.
ReplyTalkMsgAlways(w, r, answer, angry) ==
    LET m == [w.msg[r] EXCEPT !.reply = answer] IN
    ProcessAcceptedReply(NotifyReply([w EXCEPT !.msg[r] = m], m, angry), m)

\* Whether the message still waits for a reply is not asked.
ReplyTalkMsg(w, r, answer, angry) ==
    LET m == [w.msg[r] EXCEPT !.reply = answer]
        told == NotifyReply([w EXCEPT !.msg[r] = m], m, angry)
    IN  IF answer = "accept" THEN ProcessAcceptedReply(told, m) ELSE told

-----------------------------------------------------------------------------
(* Actions *)

Init ==
    /\ \E s \in Start :
        world = [alive |-> Nation, status |-> s.status, trade |-> s.trade,
                 truce |-> {}, msg |-> [r \in Slot |-> NoMsg], free |-> Downwards,
                 queue |-> [n \in Nation |-> {}], running |-> TRUE]
    /\ screen = [p \in Human |-> NoScreen]
    /\ orders = [p \in Human |-> <<>>]
    /\ misread = FALSE
    /\ events = 0

\* Bound: slots for the messages that one action may send.
Room(k) == world.running /\ Len(world.free) >= k

\* What may be sent, going by what the sender sees now.
Choosable(from) ==
    {Message(id, from, to, para) :
        id \in Talk, to \in world.alive \ {from},
        para \in {0} \cup (world.alive \ {from})}
Sensible(m) ==
    /\ (m.para # 0) = (m.id \in AboutAThird) /\ m.para # m.to
    /\ CanSend(world, m.to, m.from, m.id)
    /\ Suits(world, m)

SendOrder(m) == [kind |-> "send", msg |-> m, recno |-> 0, meant |-> Key(NoMsg), answer |-> "none"]
ReplyOrder(s, answer) ==
    [kind |-> "reply", msg |-> NoMsg, recno |-> s.recno, meant |-> s.meant, answer |-> answer]

\* A player chooses a message to send; the order goes out to all machines.
PlayerSends(p) ==
    /\ world.running /\ p \in world.alive /\ screen[p] = NoScreen
    /\ events < MaxEvents /\ Len(orders[p]) < MaxOrders
    /\ \E m \in Choosable(p) :
        /\ Sensible(m)
        /\ orders' = [orders EXCEPT ![p] = Append(@, SendOrder(m))]
    /\ events' = events + 1
    /\ UNCHANGED <<world, screen, misread>>

\* A player clicks on an offer in the news; one that is not valid is not shown.
PlayerReply(p) ==
    /\ world.running /\ p \in world.alive /\ screen[p] = NoScreen
    /\ \E r \in Used(world) :
        /\ world.msg[r].to = p /\ world.msg[r].reply = "waiting"
        /\ ValidToReply(world, world.msg[r])
        /\ screen' = [screen EXCEPT ![p] = [recno |-> r, meant |-> Key(world.msg[r])]]
    /\ UNCHANGED <<world, orders, misread, events>>

\* The player answers, unless the message has been deleted meanwhile, or leaves.
DetectTalk(p) ==
    /\ world.running /\ p \in world.alive /\ screen[p] # NoScreen
    /\ screen' = [screen EXCEPT ![p] = NoScreen]
    /\ \/ orders' = orders
       \/ /\ world.msg[screen[p].recno] # NoMsg /\ Len(orders[p]) < MaxOrders
          /\ \E answer \in {"accept", "reject"} :
                orders' = [orders EXCEPT ![p] = Append(@, ReplyOrder(screen[p], answer))]
    /\ UNCHANGED <<world, misread, events>>

\* The next order of p answers a message that took over the number of the one
\* that was read.
Misdirected(p) ==
    LET order == Head(orders[p]) IN
    /\ order.kind = "reply" /\ world.msg[order.recno] # NoMsg
    /\ Key(world.msg[order.recno]) # order.meant

\* The frame of the order is executed, on every machine.  Of a reply only the
\* number is looked up.
ExecuteOrder(p) ==
    /\ Room(2) /\ orders[p] # <<>>
    /\ orders' = [orders EXCEPT ![p] = Tail(@)]
    /\ misread' = (misread \/ Misdirected(p))
    /\ UNCHANGED <<screen, events>>
    /\ LET order == Head(orders[p]) IN
        \/ order.kind = "send" /\ world' = SendTalkMsg(world, order.msg)
        \/ order.kind = "reply" /\ world.msg[order.recno] = NoMsg /\ world' = world
        \/ /\ order.kind = "reply" /\ world.msg[order.recno] # NoMsg
           /\ \E angry \in BOOLEAN :
                world' = ReplyTalkMsg(world, order.recno, order.answer, angry)

\* An Ai sends a message.
AiSendTalkMsg(n) ==
    /\ Room(1) /\ n \in world.alive /\ events < MaxEvents
    /\ \E m \in Choosable(n) :
        /\ Sensible(m)
        /\ world' = SendTalkMsg(world, m)
    /\ events' = events + 1
    /\ UNCHANGED <<screen, orders, misread>>

\* An Ai takes a message from its queue.  It does not answer one that has become
\* invalid.
AiProcessTalkMsg(n, r) ==
    /\ Room(2) /\ n \in world.alive /\ r \in world.queue[n]
    /\ UNCHANGED <<screen, orders, misread, events>>
    /\ LET taken == [world EXCEPT !.queue[n] = @ \ {r}]
           m == world.msg[r]
       IN  \/ (m = NoMsg \/ ~ValidToReply(world, m)) /\ world' = taken
           \/ /\ m # NoMsg /\ ValidToReply(world, m)
              /\ \E answer \in {"accept", "reject"}, angry \in BOOLEAN :
                    world' = ReplyTalkMsg(taken, r, answer, angry)

\* An offer of an Ai that waits for longer than two months counts as rejected.
NoResponse(m) == m.from \in Ai /\ m.reply = "waiting" /\ m.age >= 2

ProcessMsg(w, r, angry) ==
    LET m == [w.msg[r] EXCEPT !.reply = IF NoResponse(w.msg[r]) THEN "reject" ELSE @]
        told == IF NoResponse(w.msg[r]) THEN NotifyReply([w EXCEPT !.msg[r] = m], m, angry) ELSE w
    IN  IF m.age >= 3 THEN DelMsg(told, r) ELSE told

Due == {r \in Slot : NoResponse(world.msg[r]) \/ world.msg[r].age >= 3}

\* The weekly look at all messages.  look[k]: after the last k slots; angry: the
\* messages whose senders take the rejection amiss.
Weekly(angry) ==
    LET look[k \in 0..MaxMsg] ==
            IF k = 0 THEN world
            ELSE LET r == MaxMsg + 1 - k
                 IN  IF r \in Due THEN ProcessMsg(look[k - 1], r, r \in angry) ELSE look[k - 1]
    IN  look[MaxMsg]

ProcessTalkMsg ==
    /\ Due # {} /\ Room(Cardinality(Due))
    /\ UNCHANGED <<screen, orders, misread, events>>
    /\ \E angry \in SUBSET Due : world' = Weekly(angry)

\* A month, another one, or the rest of the year goes by for a message.  Orders
\* are executed sooner, the weekly look comes in between, and the screen of a
\* deleted message is left.
MessageAges(r) ==
    /\ world.running /\ world.msg[r] # NoMsg /\ world.msg[r].age < 3
    /\ Due = {}
    /\ \A p \in Human : /\ orders[p] = <<>>
                        /\ screen[p] # NoScreen => world.msg[screen[p].recno] # NoMsg
    /\ \/ world.msg[r].age = 0 \/ SlowAi
       \/ \A n \in Ai : r \notin world.queue[n]
    /\ world' = [world EXCEPT !.msg[r].age = @ + 1]
    /\ UNCHANGED <<screen, orders, misread, events>>

\* Five days after a cease-fire.
TruceEnds(pair) ==
    /\ world.running /\ pair \in world.truce
    /\ world' = [world EXCEPT !.truce = @ \ {pair}]
    /\ UNCHANGED <<screen, orders, misread, events>>

\* After three years without a conflict.
NextMonth(n) ==
    /\ world.running /\ n \in world.alive
    /\ \E m \in world.alive \ {n} :
        /\ world.status[n][m] = Tense /\ {n, m} \notin world.truce
        /\ world' = SetStatus(world, n, m, Neutral)
    /\ UNCHANGED <<screen, orders, misread, events>>

\* Whoever is hit by a deliberate attack is at war with the attacker.
BeingAttacked(n, by) ==
    /\ world.running /\ events < MaxEvents /\ {n, by} \subseteq world.alive /\ n # by
    /\ events' = events + 1
    /\ world.status[n][by] # Hostile
    /\ world' = SetStatus(world, by, n, Hostile)
    /\ UNCHANGED <<screen, orders, misread>>

\* A nation is destroyed, or an Ai gives itself up to another one.
Defeated(n) ==
    /\ world.running /\ events < MaxEvents /\ n \in world.alive
    /\ events' = events + 1
    /\ world' = NationGone(world, n)
    /\ UNCHANGED <<screen, orders, misread>>

Next ==
    \/ \E p \in Human :
        PlayerSends(p) \/ PlayerReply(p) \/ DetectTalk(p) \/ ExecuteOrder(p)
    \/ \E n \in Ai : AiSendTalkMsg(n) \/ \E r \in Slot : AiProcessTalkMsg(n, r)
    \/ ProcessTalkMsg
    \/ \E r \in Slot : MessageAges(r)
    \/ \E pair \in world.truce : TruceEnds(pair)
    \/ \E n \in Nation : NextMonth(n) \/ Defeated(n) \/ \E by \in Nation : BeingAttacked(n, by)

Spec == Init /\ [][Next]_vars

-----------------------------------------------------------------------------
(* Properties *)

\* Every variable keeps its type, and the free slots are the unused ones.
TypeOK ==
    /\ world.alive \subseteq Nation /\ world.running \in BOOLEAN
    /\ world.status \in [Nation -> [Nation -> Hostile..Alliance]]
    /\ world.trade \in [Nation -> [Nation -> BOOLEAN]]
    /\ \A pair \in world.truce : \E n, m \in Nation : pair = {n, m} /\ world.status[n][m] = Tense
    /\ IsInjective(world.free) /\ Slot \ ToSet(world.free) = Used(world)
    /\ \A r \in Used(world) : /\ world.msg[r].age \in 0..3
                              /\ {world.msg[r].from, world.msg[r].to} \subseteq Nation
                              /\ world.msg[r].para # 0 <=> world.msg[r].id \in AboutAThird
    /\ \A p \in Human : screen[p].recno \in 0..MaxMsg /\ Len(orders[p]) <= MaxOrders
    /\ misread \in BOOLEAN /\ events \in 0..MaxEvents

\* Both nations hold the same of their relation, and allied nations trade with
\* each other, whatever was accepted late or out of order (form_alliance_treaty,
\* set_relation_status, can_send_msg), as long as the replies answer what was
\* read, see AnswersWhatWasRead.
TreatiesAgree ==
    \A n, m \in world.alive : n # m =>
        /\ world.status[n][m] = world.status[m][n]
        /\ world.trade[n][m] = world.trade[m][n]
        /\ world.status[n][m] = Alliance /\ ~misread => world.trade[n][m]

\* No message to or from a nation outlives it: the weekly look, the news and the
\* computer's queue take both nations of a message for granted (process_talk_msg).
MessagesAlive ==
    \A r \in Used(world) : {world.msg[r].from, world.msg[r].to} \subseteq world.alive

\* What an Ai has in its queue is a message to it that is there, so that it never
\* answers a message that took over the number (del_talk_msg, add_action), as
\* long as no player does.
QueueRefers ==
    ~misread => \A n \in Nation : \A r \in world.queue[n] :
        world.msg[r] # NoMsg /\ world.msg[r].to = n

\* An Ai does not pester: of its offers to one nation no two are the same and
\* unanswered (send_talk_msg).
NoRepeats ==
    \A r, q \in Used(world) :
        /\ world.msg[r].reply = "waiting" /\ world.msg[q].reply = "waiting"
        /\ world.msg[r].from \in Ai
        /\ world.msg[r].id = world.msg[q].id
        /\ world.msg[r].from = world.msg[q].from /\ world.msg[r].to = world.msg[q].to
        => r = q

\* The step executes such an order.
Misreads(p) == orders[p] # <<>> /\ orders'[p] = Tail(orders[p]) /\ Misdirected(p)

\* No treaty and no cease-fire comes about without an offer between the two that
\* is accepted (reply_talk_msg, process_accepted_reply), but for a reply that
\* answers another message, see AnswersWhatWasRead.
Closer(n, m) ==
    \/ world'.status[n][m] > world.status[n][m]
        /\ (world'.status[n][m] >= Friendly \/ world.status[n][m] = Hostile)
    \/ world'.trade[n][m] /\ ~world.trade[n][m]
TreatyStep ==
    \A n, m \in Nation : Closer(n, m) /\ (\A p \in Human : ~Misreads(p)) =>
        \E r \in Slot : /\ {world'.msg[r].from, world'.msg[r].to} = {n, m}
                        /\ world'.msg[r].reply = "accept"
                        /\ world'.msg[r].id \in {"trade", "friendly", "alliance", "cease_war"}
TreatyByOffer == [][TreatyStep]_vars

-----------------------------------------------------------------------------
(* Promises of the comments that the code does not keep; see the README. *)

\* "Auto terminate their trade treaty if two nations go into a war."
EnemiesDontTrade ==
    \A n, m \in world.alive : world.status[n][m] = Hostile => ~world.trade[n][m]

\* An answered message is not answered again.
AnsweredOnce ==
    [][\A r \in Slot : world.msg[r].reply \in {"accept", "reject"} =>
            world'.msg[r].reply \in {world.msg[r].reply, "none"}]_vars

\* A reply answers the message that the player has read.
AnswersWhatWasRead == ~misread

\* No order and no acceptance uses a deleted nation.
NoFatalError == world.running
=============================================================================
