----------------------------- MODULE LobbyProofs -----------------------------
(***************************************************************************)
(* Proofs about Lobby, for any machines, slots and colours: the types, and *)
(* that the host's list of registered players is consistent, whatever      *)
(* messages come in whatever order and whoever leaves: no two players have *)
(* one id or one colour, and the colours marked are those given out.       *)
(***************************************************************************)
EXTENDS Lobby, DataLemmas

RegEntry == [id : Slot, ready : BOOLEAN, color : Color \cup {0}]
Pool == UNION {[S -> Player] : S \in SUBSET Slot}
Links == [Machine -> [Machine -> {"none", "dialled", "up", "closed"}]]
Pointers == [Machine -> [Machine -> Slot \cup {0}]]
Channels == [Machine -> [Machine -> Seq(Message)]]

\* The types, without the length of the lists.
Types ==
    /\ phase \in [Machine -> {"away", "joining", "lobby", "started", "gone"}]
    /\ link \in Links
    /\ data \in Pointers
    /\ chan \in Channels
    /\ player_pool \in [Machine -> Pool]
    /\ my_player_id \in [Machine -> Slot \cup {0}]
    /\ reg \in [Machine -> Seq(RegEntry)]
    /\ selfReadyFlag \in [Machine -> BOOLEAN]
    /\ colorAssigned \in SUBSET Color
    /\ player_nation_color \in [Machine -> Color \cup {0}]
    /\ clicks \in [Machine -> Nat]

-----------------------------------------------------------------------------
(* Messages *)

\* What a message is made of.
LEMMA MessageFact ==
    ASSUME NEW msg \in Message
    PROVE  /\ msg.type \in {"CONNECT", "NEW_PLAYER", "REFUSE_NEW_PLAYER", "ABORT_GAME", "PLAYER_ID",
                            "PLAYER_DISCONNECT", "ACCEPT_COLOR", "ACQUIRE_COLOR", "PLAYER_READY",
                            "ACCEPT_NEW_PLAYER"}
           /\ msg.type \in {"PLAYER_ID", "PLAYER_DISCONNECT", "PLAYER_READY", "ACCEPT_NEW_PLAYER"} =>
                  msg.id \in Slot
           /\ msg.type \in {"ACCEPT_COLOR", "ACQUIRE_COLOR"} => msg.color \in Color
           /\ msg.type = "PLAYER_READY" => msg.flag \in BOOLEAN
           /\ msg.type = "ACCEPT_NEW_PLAYER" => msg.machine \in Machine /\ msg.make_contact \in BOOLEAN
BY DEF Message

\* The messages that are sent.
LEMMA SentFact ==
    /\ \A type \in {"CONNECT", "NEW_PLAYER", "REFUSE_NEW_PLAYER", "ABORT_GAME"} :
          [type |-> type] \in Message
    /\ \A i \in Slot :
          [type |-> "PLAYER_ID", id |-> i] \in Message /\ [type |-> "PLAYER_DISCONNECT", id |-> i] \in Message
    /\ \A c \in Color : ColorMsg(c) \in Message /\ [type |-> "ACQUIRE_COLOR", color |-> c] \in Message
    /\ \A i \in Slot, flag \in BOOLEAN : ReadyMsg(i, flag) \in Message
    /\ \A i \in Slot, n \in Machine, flag \in BOOLEAN : AcceptMsg(i, n, flag) \in Message
BY DEF Message, ColorMsg, ReadyMsg, AcceptMsg

LEMMA OneMessage ==
    ASSUME NEW msg \in Message
    PROVE  <<msg>> \in Seq(Message) /\ DOMAIN <<msg>> = {1} /\ <<msg>>[1] = msg
OBVIOUS

LEMMA NoMessage == << >> \in Seq(Message) /\ DOMAIN << >> = {}
OBVIOUS

LEMMA PushFact ==
    ASSUME Types, NEW ch \in Channels, NEW m \in Machine, NEW to, NEW msgs \in Seq(Message)
    PROVE  /\ Push(ch, m, to, msgs) \in Channels
           /\ \A a, b \in Machine : Push(ch, m, to, msgs)[a][b] =
                IF a = m /\ b \in to /\ link[b][a] # "closed" THEN ch[a][b] \o msgs ELSE ch[a][b]
<1>1. \A a, b \in Machine : ch[a][b] \o msgs \in Seq(Message)
  BY ConcatProperties DEF Channels
<1>2. \A a, b \in Machine : Push(ch, m, to, msgs)[a][b] =
          IF a = m /\ b \in to /\ link[b][a] # "closed" THEN ch[a][b] \o msgs ELSE ch[a][b]
  BY DEF Push, Channels
<1>3. Push(ch, m, to, msgs) \in Channels
  BY <1>1 DEF Push, Channels
<1> QED BY <1>2, <1>3

LEMMA DroppedFact ==
    ASSUME NEW ch \in Channels, NEW m \in Machine, NEW others
    PROVE  /\ Dropped(ch, m, others) \in Channels
           /\ \A a, b \in Machine : Dropped(ch, m, others)[a][b] =
                IF a \in others /\ b = m THEN << >> ELSE ch[a][b]
BY NoMessage DEF Dropped, Channels

LEMMA TakenFact ==
    ASSUME Types, NEW m \in Machine, NEW n \in Machine, chan[n][m] # << >>
    PROVE  /\ Taken(m, n) \in Channels
           /\ \A a, b \in Machine : Taken(m, n)[a][b] =
                IF a = n /\ b = m THEN Tail(chan[n][m]) ELSE chan[a][b]
           /\ chan[n][m] \in Seq(Message) /\ Tail(chan[n][m]) \in Seq(Message)
           /\ Head(chan[n][m]) = chan[n][m][1] /\ 1 \in DOMAIN chan[n][m]
           /\ Head(chan[n][m]) \in Message
<1>1. chan[n][m] \in Seq(Message)
  BY DEF Types, Channels
<1>2. /\ Tail(chan[n][m]) \in Seq(Message) /\ Head(chan[n][m]) = chan[n][m][1]
      /\ 1 \in DOMAIN chan[n][m] /\ chan[n][m][1] \in Message
  BY <1>1, TailFact
<1> QED BY <1>1, <1>2 DEF Taken, Types, Channels

-----------------------------------------------------------------------------
(* Lists and pools *)

\* The entries of list at the places P, in their order.
Chosen(list, P, s) == s \in Seq(RegEntry) /\ \E f : ChosenUpTo(list, P, Len(list), s, f)

LEMMA EntriesFact ==
    ASSUME NEW list \in Seq(RegEntry), NEW ids
    PROVE  Chosen(list, {k \in DOMAIN list : list[k].id \in ids}, Entries(list, ids))
<1> DEFINE P == {k \in DOMAIN list : list[k].id \in ids}
           ss == [k \in DOMAIN list |-> IF k \in P THEN <<list[k]>> ELSE << >>]
<1>1. Chosen(list, P, FlattenSeq(ss))
  BY ChosenFact DEF Chosen
<1>2. Entries(list, ids) = FlattenSeq(ss)
  BY DEF Entries
<1> QED BY <1>1, <1>2

\* f tells where the elements of s, those with these ids, are in list.
Places(list, ids, s, f) ==
    /\ f \in [DOMAIN s -> DOMAIN list]
    /\ \A k \in DOMAIN s : s[k] = list[f[k]] /\ list[f[k]].id \in ids
    /\ \A k, l \in DOMAIN s : f[k] = f[l] => k = l
    /\ \A j \in DOMAIN list : list[j].id \in ids => \E k \in DOMAIN s : f[k] = j

\* An entry that is chosen is an entry, and different ones stay different.
LEMMA EntriesElements ==
    ASSUME NEW list \in Seq(RegEntry), NEW ids
    PROVE  /\ Entries(list, ids) \in Seq(RegEntry)
           /\ \E f : Places(list, ids, Entries(list, ids), f)
<1> DEFINE P == {k \in DOMAIN list : list[k].id \in ids}
           s == Entries(list, ids)
<1>1. s \in Seq(RegEntry) /\ \E f : ChosenUpTo(list, P, Len(list), s, f)
  BY EntriesFact DEF Chosen
<1>2. PICK f : ChosenUpTo(list, P, Len(list), s, f)
  BY <1>1
<1>3. /\ DOMAIN list = 1 .. Len(list) /\ Len(list) \in Nat /\ DOMAIN s \in SUBSET Nat
      /\ \A j \in DOMAIN list : j <= Len(list)
  BY <1>1, SeqFact
<1> HIDE DEF s
<1>4. f \in [DOMAIN s -> P] /\ \A k \in DOMAIN s : s[k] = list[f[k]] /\ f[k] \in P
  BY <1>2 DEF ChosenUpTo
<1>5. f \in [DOMAIN s -> DOMAIN list]
  BY <1>4
<1>6. \A k \in DOMAIN s : s[k] = list[f[k]] /\ list[f[k]].id \in ids
  BY <1>4
<1>7. ASSUME NEW k \in DOMAIN s, NEW l \in DOMAIN s, f[k] = f[l] PROVE k = l
  <2>1. k \in Nat /\ l \in Nat /\ f[k] \in Nat
    BY <1>3, <1>4
  <2>2. ~(f[k] < f[l]) /\ ~(f[l] < f[k])
    BY <1>7, <2>1
  <2>3. ~(k < l) /\ ~(l < k)
    BY <1>2, <2>2 DEF ChosenUpTo
  <2> QED BY <2>1, <2>3
<1>8. \A j \in P : \E k \in DOMAIN s : f[k] = j
  BY <1>2, <1>3 DEF ChosenUpTo
<1>9. Places(list, ids, s, f)
  BY <1>5, <1>6, <1>7, <1>8 DEF Places
<1> QED BY <1>1, <1>9 DEF s

UniqueIds(list) == \A k, l \in DOMAIN list : list[k].id = list[l].id => k = l

\* What is left of a list without the players that are lost.
LEMMA UnregisterFact ==
    ASSUME NEW list \in Seq(RegEntry), NEW lost
    PROVE  /\ Unregister(list, lost) \in Seq(RegEntry)
           /\ Ids(Unregister(list, lost)) = Ids(list) \ lost
           /\ \A k \in DOMAIN Unregister(list, lost) : \E j \in DOMAIN list :
                  Unregister(list, lost)[k] = list[j] /\ list[j].id \notin lost
           /\ \A j \in DOMAIN list : list[j].id \notin lost =>
                  \E k \in DOMAIN Unregister(list, lost) : Unregister(list, lost)[k] = list[j]
           /\ UniqueIds(list) => UniqueIds(Unregister(list, lost))
<1> DEFINE ids == Ids(list) \ lost
           s == Entries(list, ids)
<1>0. Unregister(list, lost) = s
  BY DEF Unregister
<1>1. \A j \in DOMAIN list : list[j].id \in ids <=> list[j].id \notin lost
  BY DEF Ids
<1>2. s \in Seq(RegEntry)
  BY EntriesElements
<1>3. PICK f : Places(list, ids, s, f)
  BY EntriesElements
<1> HIDE DEF s, ids
<1>4. \A k \in DOMAIN s : \E j \in DOMAIN list : s[k] = list[j] /\ list[j].id \notin lost
  BY <1>1, <1>3 DEF Places
<1>5. \A j \in DOMAIN list : list[j].id \notin lost => \E k \in DOMAIN s : s[k] = list[j]
  BY <1>1, <1>3 DEF Places
<1>6. Ids(s) = Ids(list) \ lost
  BY <1>4, <1>5 DEF Ids
<1>7. UniqueIds(list) => UniqueIds(s)
  BY <1>3 DEF UniqueIds, Places
<1> QED BY <1>0, <1>2, <1>4, <1>5, <1>6, <1>7

\* The notices tell the ids of the lost.
LEMMA NoticeFact ==
    ASSUME NEW list \in Seq(RegEntry), NEW lost
    PROVE  LET msgs == DisconnectNotice(Entries(list, lost))
           IN  /\ msgs \in Seq(Message)
               /\ \A k \in DOMAIN msgs : msgs[k].type = "PLAYER_DISCONNECT"
               /\ \A i \in Ids(list) \cap lost : \E k \in DOMAIN msgs : msgs[k].id = i
<1> DEFINE s == Entries(list, lost)
           msgs == DisconnectNotice(s)
<1>1. s \in Seq(RegEntry)
  BY EntriesElements
<1>2. PICK f : Places(list, lost, s, f)
  BY EntriesElements
<1> HIDE DEF s
<1>3. DOMAIN s = 1 .. Len(s) /\ Len(s) \in Nat /\ \A k \in DOMAIN s : s[k].id \in Slot
  <2>1. DOMAIN s = 1 .. Len(s) /\ Len(s) \in Nat /\ \A k \in DOMAIN s : s[k] \in RegEntry
    BY <1>1, SeqFact
  <2> QED BY <2>1 DEF RegEntry
<1>4. \A k \in DOMAIN s : [type |-> "PLAYER_DISCONNECT", id |-> s[k].id] \in Message
  BY <1>3, SentFact
<1>5. DOMAIN msgs = DOMAIN s /\ \A k \in DOMAIN s : msgs[k] = [type |-> "PLAYER_DISCONNECT", id |-> s[k].id]
  BY DEF DisconnectNotice
<1>6. msgs \in Seq(Message)
  BY <1>3, <1>4 DEF DisconnectNotice
<1> HIDE DEF msgs
<1>7. \A k \in DOMAIN msgs : msgs[k].type = "PLAYER_DISCONNECT" /\ msgs[k].id = s[k].id
  BY <1>5
<1>8. \A i \in Ids(list) \cap lost : \E k \in DOMAIN msgs : msgs[k].id = i
  <2> SUFFICES ASSUME NEW j \in DOMAIN list, list[j].id \in lost
               PROVE  \E k \in DOMAIN msgs : msgs[k].id = list[j].id
    BY DEF Ids
  <2>1. PICK k \in DOMAIN s : f[k] = j
    BY <1>2 DEF Places
  <2>2. s[k] = list[j]
    BY <1>2, <2>1 DEF Places
  <2> QED BY <1>5, <1>7, <2>1, <2>2
<1> QED BY <1>6, <1>7, <1>8 DEF msgs, s

LEMMA PoolFact ==
    ASSUME NEW pool \in Pool
    PROVE  /\ DOMAIN pool \subseteq Slot
           /\ \A i \in DOMAIN pool : pool[i] \in Player /\ pool[i].machine \in Machine
                                     /\ pool[i].connecting \in BOOLEAN /\ pool[i].authorized \in BOOLEAN
BY DEF Pool, Player

LEMMA PoolIntro ==
    ASSUME NEW S \in SUBSET Slot, NEW p, p \in [S -> Player] PROVE p \in Pool
BY DEF Pool

LEMMA WithoutFact ==
    ASSUME NEW pool \in Pool, NEW lost
    PROVE  /\ Without(pool, lost) \in Pool
           /\ DOMAIN Without(pool, lost) = DOMAIN pool \ lost
           /\ \A i \in DOMAIN pool \ lost : Without(pool, lost)[i] = pool[i]
<1>1. DOMAIN Without(pool, lost) = DOMAIN pool \ lost
      /\ \A i \in DOMAIN pool \ lost : Without(pool, lost)[i] = pool[i]
  BY DEF Without
<1>2. DOMAIN pool \subseteq Slot /\ \A i \in DOMAIN pool : pool[i] \in Player
  BY PoolFact
<1>3. Without(pool, lost) \in [DOMAIN pool \ lost -> Player]
  BY <1>1, <1>2 DEF Without
<1> QED BY <1>1, <1>2, <1>3, PoolIntro

\* The place of an id in the list.
LEMMA PositionFact ==
    ASSUME NEW list \in Seq(RegEntry), NEW i \in Ids(list)
    PROVE  Position(list, i) \in DOMAIN list /\ list[Position(list, i)].id = i
<1>1. \E k : k \in DOMAIN list /\ list[k].id = i
  BY DEF Ids
<1>2. \E k \in DOMAIN list : list[k].id = i
  BY <1>1
<1> QED BY <1>2, Zenon DEF Position

LEMMA ListType == \A i \in Slot : i \in Nat
BY DEF Slot

\* The list for a new player is that of the pool, in messages that make no contact.
LEMMA PlayerListFact ==
    ASSUME NEW pool \in Pool, NEW f
    PROVE  /\ PlayerList(pool, f) \in Seq(Message)
           /\ \A k \in DOMAIN PlayerList(pool, f) : \E i \in DOMAIN pool \ {f} :
                  PlayerList(pool, f)[k] = AcceptMsg(i, pool[i].machine, FALSE)
<1> DEFINE msg(i) == AcceptMsg(i, pool[i].machine, FALSE)
           piece(i) == IF i \in DOMAIN pool \ {f} THEN <<msg(i)>> ELSE << >>
           ss == [i \in Slot |-> piece(i)]
<1>1. DOMAIN pool \subseteq Slot /\ \A i \in DOMAIN pool : msg(i) \in Message
  BY PoolFact, SentFact
<1>2. PlayerList(pool, f) = FlattenSeq(ss)
  BY DEF PlayerList
<1> HIDE DEF msg
<1>3. \A i \in Slot : piece(i) \in Seq(Message)
  BY <1>1
<1>4. \A i \in Slot : \A j \in DOMAIN piece(i) : i \in DOMAIN pool \ {f} /\ piece(i)[j] = msg(i)
  BY <1>1
<1> HIDE DEF piece
<1>5. ss \in Seq(Seq(Message)) /\ Len(ss) = MAX_NATION /\ \A i \in Slot : ss[i] = piece(i)
  BY <1>3, ColorAssumption DEF Slot
<1> HIDE DEF ss
<1>6. FlattenSeq(ss) \in Seq(Message) /\ SameElements(ss, Len(ss), FlattenSeq(ss))
  BY <1>5, FlattenProperties
<1>7. \A k \in DOMAIN FlattenSeq(ss) : \E i \in Slot : \E j \in DOMAIN ss[i] :
             FlattenSeq(ss)[k] = ss[i][j]
  BY <1>5, <1>6 DEF SameElements, Slot
<1>8. \A k \in DOMAIN FlattenSeq(ss) : \E i \in DOMAIN pool \ {f} : FlattenSeq(ss)[k] = msg(i)
  BY <1>4, <1>5, <1>7
<1> QED BY <1>2, <1>6, <1>8 DEF msg

\* They make no contact, and number 1 is the host.
LEMMA PlayerListWords ==
    ASSUME NEW pool \in Pool, NEW f, pool[1].machine = Host
    PROVE  /\ PlayerList(pool, f) \in Seq(Message)
           /\ \A k \in DOMAIN PlayerList(pool, f) :
                /\ PlayerList(pool, f)[k].type = "ACCEPT_NEW_PLAYER"
                /\ ~PlayerList(pool, f)[k].make_contact
                /\ PlayerList(pool, f)[k].id = 1 => PlayerList(pool, f)[k].machine = Host
<1> DEFINE t == PlayerList(pool, f)
<1>1. t \in Seq(Message) /\ \A k \in DOMAIN t : \E i \in DOMAIN pool \ {f} :
         t[k] = AcceptMsg(i, pool[i].machine, FALSE)
  BY PlayerListFact DEF AcceptMsg
<1> HIDE DEF t
<1>2. \A k \in DOMAIN t : /\ t[k].type = "ACCEPT_NEW_PLAYER" /\ ~t[k].make_contact
                          /\ t[k].id = 1 => t[k].machine = Host
  BY <1>1 DEF AcceptMsg
<1> QED BY <1>1, <1>2 DEF t

\* The list of flags has those that are up.
LEMMA ReadyListFact ==
    ASSUME NEW list \in Seq(RegEntry)
    PROVE  /\ ReadyList(list) \in Seq(Message)
           /\ \A k \in DOMAIN ReadyList(list) : ReadyList(list)[k].type = "PLAYER_READY"
<1> DEFINE msg(k) == ReadyMsg(list[k].id, TRUE)
           piece(k) == IF list[k].ready THEN <<msg(k)>> ELSE << >>
           ss == [k \in DOMAIN list |-> piece(k)]
<1>1. /\ Len(list) \in Nat /\ DOMAIN list = 1 .. Len(list)
      /\ \A k \in DOMAIN list : list[k] \in RegEntry
  BY SeqFact
<1>2. \A k \in DOMAIN list : msg(k) \in Message
  BY <1>1, SentFact DEF RegEntry
<1>3. \A k \in DOMAIN list : msg(k).type = "PLAYER_READY"
  BY DEF ReadyMsg
<1>4. ReadyList(list) = FlattenSeq(ss)
  BY DEF ReadyList
<1> HIDE DEF msg
<1>5. \A k \in DOMAIN list : piece(k) \in Seq(Message)
  BY <1>2
<1>6. \A k \in DOMAIN list : \A j \in DOMAIN piece(k) : piece(k)[j] = msg(k)
  BY <1>2
<1> HIDE DEF piece
<1>7. ss \in Seq(Seq(Message)) /\ Len(ss) = Len(list) /\ \A k \in DOMAIN list : ss[k] = piece(k)
  BY <1>1, <1>5
<1> HIDE DEF ss
<1>8. FlattenSeq(ss) \in Seq(Message) /\ SameElements(ss, Len(ss), FlattenSeq(ss))
  BY <1>7, FlattenProperties
<1>9. \A k \in DOMAIN FlattenSeq(ss) : \E i \in DOMAIN list : \E j \in DOMAIN ss[i] :
             FlattenSeq(ss)[k] = ss[i][j]
  BY <1>1, <1>7, <1>8 DEF SameElements
<1>10. \A k \in DOMAIN FlattenSeq(ss) : FlattenSeq(ss)[k].type = "PLAYER_READY"
  BY <1>3, <1>6, <1>7, <1>9
<1> QED BY <1>4, <1>8, <1>10

-----------------------------------------------------------------------------
(* What the actions do, machine by machine *)

\* Nothing happens to a.
Unmoved(a) ==
    /\ phase'[a] = phase[a] /\ link'[a] = link[a] /\ data'[a] = data[a]
    /\ player_pool'[a] = player_pool[a]
    /\ my_player_id'[a] = my_player_id[a] /\ reg'[a] = reg[a]
    /\ selfReadyFlag'[a] = selfReadyFlag[a]
    /\ player_nation_color'[a] = player_nation_color[a]

\* m has left; ch is what was under way.
Left(m, ch) ==
    /\ phase'[m] = "gone" /\ player_pool'[m] = << >> /\ my_player_id'[m] = 0 /\ reg'[m] = << >>
    /\ selfReadyFlag'[m] = FALSE
    /\ \A b \in Machine : link'[m][b] = "closed" /\ data'[m][b] = 0
    /\ \A a, b \in Machine : chan'[a][b] = IF b = m THEN << >> ELSE ch[a][b]
    /\ colorAssigned' = IF m = Host THEN {} ELSE colorAssigned

LEMMA QuitFact ==
    ASSUME Types, NEW m \in Machine, NEW ch \in Channels, Quit(m, ch), clicks' \in [Machine -> Nat]
    PROVE  Types' /\ Left(m, ch) /\ \A a \in Machine \ {m} : Unmoved(a)
<1>1. /\ Dropped(ch, m, Machine) \in Channels
      /\ \A a, b \in Machine : Dropped(ch, m, Machine)[a][b] = IF b = m THEN << >> ELSE ch[a][b]
  BY DroppedFact
<1>2. << >> \in Pool /\ << >> \in Seq(RegEntry)
  <2>1. << >> \in [{} -> Player] /\ {} \in SUBSET Slot /\ << >> \in Seq(RegEntry)
    OBVIOUS
  <2> QED BY <2>1, PoolIntro
<1>3. Types'
  BY <1>1, <1>2 DEF Quit, Types, Links, Pointers
<1>4. Left(m, ch)
  BY <1>1 DEF Quit, Left, Types, Links, Pointers
<1>5. \A a \in Machine \ {m} : Unmoved(a)
  BY DEF Quit, Unmoved, Types, Links, Pointers
<1> QED BY <1>3, <1>4, <1>5

\* The players in the list that SysMsg finds to be lost, and the connections it cuts.
Lost(m, pool) == {i \in Ids(reg[m]) : i \notin DOMAIN pool \/ ~pool[i].connecting}
Cut(m, pool, dt) == PeersOf(dt, m, Lost(m, pool))

\* m has deleted who is lost; pool, lk, dt and ch are those after the event.
Swept(m, pool, lk, dt, ch) ==
    /\ player_pool'[m] = Without(pool, Lost(m, pool))
    /\ reg'[m] = Unregister(reg[m], Lost(m, pool))
    /\ \A b \in Machine : link'[m][b] = IF b \in Cut(m, pool, dt) THEN "closed" ELSE lk[m][b]
    /\ \A b \in Machine : data'[m][b] = IF b \in Cut(m, pool, dt) THEN 0 ELSE dt[m][b]
    /\ phase'[m] = phase[m] /\ my_player_id'[m] = my_player_id[m]
    /\ selfReadyFlag'[m] = selfReadyFlag[m] /\ player_nation_color'[m] = player_nation_color[m]
    /\ m # Host =>
        /\ 1 \notin Lost(m, pool)
        /\ colorAssigned' = colorAssigned
        /\ \A a, b \in Machine : chan'[a][b] =
              IF a \in Cut(m, pool, dt) /\ b = m THEN << >> ELSE ch[a][b]
    /\ m = Host =>
        /\ colorAssigned' = colorAssigned \ ColorsOf(reg[m], Lost(m, pool))
        /\ \A a, b \in Machine : chan'[a][b] =
              IF a \in Cut(m, pool, dt) /\ b = m THEN << >>
              ELSE IF a = m /\ lk[m][b] = "up" /\ b \notin Cut(m, pool, dt) /\ link[b][m] # "closed"
                   THEN ch[a][b] \o DisconnectNotice(Entries(reg[m], Lost(m, pool)))
                   ELSE ch[a][b]

\* The peers that point to some ids are cut off and point to nobody.
LEMMA CutFact ==
    ASSUME NEW m \in Machine, NEW lk \in Links, NEW dt \in Pointers, NEW cut
    PROVE  /\ Closed(lk, m, cut) \in Links /\ Cleared(dt, m, cut) \in Pointers
           /\ \A b \in Machine : Closed(lk, m, cut)[m][b] = IF b \in cut THEN "closed" ELSE lk[m][b]
           /\ \A b \in Machine : Cleared(dt, m, cut)[m][b] = IF b \in cut THEN 0 ELSE dt[m][b]
           /\ \A a \in Machine \ {m} : Closed(lk, m, cut)[a] = lk[a] /\ Cleared(dt, m, cut)[a] = dt[a]
<1>1. /\ Closed(lk, m, cut) \in Links
      /\ \A b \in Machine : Closed(lk, m, cut)[m][b] = IF b \in cut THEN "closed" ELSE lk[m][b]
      /\ \A a \in Machine \ {m} : Closed(lk, m, cut)[a] = lk[a]
  BY DEF Closed, Links
<1>2. /\ Cleared(dt, m, cut) \in Pointers
      /\ \A b \in Machine : Cleared(dt, m, cut)[m][b] = IF b \in cut THEN 0 ELSE dt[m][b]
      /\ \A a \in Machine \ {m} : Cleared(dt, m, cut)[a] = dt[a]
  BY DEF Cleared, Pointers
<1> QED BY <1>1, <1>2

LEMMA SysMsgFact ==
    ASSUME Types, NEW m \in Machine, NEW pool \in Pool, NEW lk \in Links, NEW dt \in Pointers,
           NEW ch \in Channels, SysMsg(m, pool, lk, dt, ch), clicks' = clicks,
           \A a \in Machine \ {m} : lk[a] = link[a] /\ dt[a] = data[a]
    PROVE  /\ Types' /\ \A a \in Machine \ {m} : Unmoved(a)
           /\ (Left(m, ch) /\ m # Host) \/ Swept(m, pool, lk, dt, ch)
<1> DEFINE lost == Lost(m, pool)
           cut == Cut(m, pool, dt)
           lk2 == Closed(lk, m, cut)
           dt2 == Cleared(dt, m, cut)
           ch2 == Dropped(ch, m, cut)
           notice == DisconnectNotice(Entries(reg[m], lost))
<1>1. CASE m # Host /\ 1 \in lost
  <2>1. Quit(m, ch)
    BY <1>1 DEF SysMsg, Lost
  <2> QED BY <1>1, <2>1, QuitFact DEF Types
<1>2. CASE ~(m # Host /\ 1 \in lost)
  <2>1. /\ player_pool' = [player_pool EXCEPT ![m] = Without(pool, lost)]
        /\ link' = lk2 /\ data' = dt2
        /\ reg' = [reg EXCEPT ![m] = Unregister(@, lost)]
        /\ m = Host => /\ colorAssigned' = colorAssigned \ ColorsOf(reg[m], lost)
                       /\ chan' = Push(ch2, m, Peers(lk2, m), notice)
        /\ m # Host => chan' = ch2 /\ UNCHANGED colorAssigned
        /\ UNCHANGED <<phase, my_player_id, selfReadyFlag, player_nation_color>>
    BY <1>2, Zenon DEF SysMsg, Lost, Cut
  <2>2. reg[m] \in Seq(RegEntry)
    BY DEF Types
  <2>3. Without(pool, lost) \in Pool /\ Unregister(reg[m], lost) \in Seq(RegEntry)
    BY <2>2, WithoutFact, UnregisterFact
  <2>4. notice \in Seq(Message)
    BY <2>2, NoticeFact
  <2>5. /\ ch2 \in Channels
        /\ \A a, b \in Machine : ch2[a][b] = IF a \in cut /\ b = m THEN << >> ELSE ch[a][b]
    BY DroppedFact
  <2>6. /\ lk2 \in Links /\ dt2 \in Pointers
        /\ \A b \in Machine : lk2[m][b] = IF b \in cut THEN "closed" ELSE lk[m][b]
        /\ \A b \in Machine : dt2[m][b] = IF b \in cut THEN 0 ELSE dt[m][b]
        /\ \A a \in Machine \ {m} : lk2[a] = lk[a] /\ dt2[a] = dt[a]
    BY CutFact
  <2> HIDE DEF lost, cut, ch2, notice, lk2, dt2
  <2>8. /\ Push(ch2, m, Peers(lk2, m), notice) \in Channels
        /\ \A a, b \in Machine : Push(ch2, m, Peers(lk2, m), notice)[a][b] =
              IF a = m /\ b \in Peers(lk2, m) /\ link[b][a] # "closed"
              THEN ch2[a][b] \o notice ELSE ch2[a][b]
    BY <2>4, <2>5, PushFact
  <2>9. \A b \in Machine : b \in Peers(lk2, m) <=> lk[m][b] = "up" /\ b \notin cut
    BY <2>6 DEF Peers
  <2>10. Types'
    <3>1. chan' \in Channels
      BY <2>1, <2>5, <2>8
    <3>2. colorAssigned' \in SUBSET Color
      BY <2>1 DEF Types
    <3> QED BY <2>1, <2>3, <2>6, <3>1, <3>2 DEF Types
  <2>11. \A a \in Machine \ {m} : Unmoved(a)
    BY <2>1, <2>6 DEF Unmoved, Types
  <2>12. player_pool'[m] = Without(pool, lost) /\ reg'[m] = Unregister(reg[m], lost)
    BY <2>1 DEF Types
  <2>13. m # Host => \A a, b \in Machine : chan'[a][b] = IF a \in cut /\ b = m THEN << >> ELSE ch[a][b]
    BY <2>1, <2>5
  <2>14. ASSUME m = Host, NEW a \in Machine, NEW b \in Machine
         PROVE  chan'[a][b] =
                  IF a \in cut /\ b = m THEN << >>
                  ELSE IF a = m /\ lk[m][b] = "up" /\ b \notin cut /\ link[b][m] # "closed"
                       THEN ch[a][b] \o notice ELSE ch[a][b]
    <3>1. chan'[a][b] = IF a = m /\ lk[m][b] = "up" /\ b \notin cut /\ link[b][m] # "closed"
                        THEN ch2[a][b] \o notice ELSE ch2[a][b]
      BY <2>1, <2>8, <2>9, <2>14
    <3>2. CASE a \in cut /\ b = m
      BY <2>5, <3>1, <3>2
    <3>3. CASE ~(a \in cut /\ b = m)
      BY <2>5, <3>1, <3>3
    <3> QED BY <3>2, <3>3
  <2>15. Swept(m, pool, lk, dt, ch)
    BY <1>2, <2>1, <2>6, <2>12, <2>13, <2>14 DEF Swept, lost, cut, notice
  <2> QED BY <2>10, <2>11, <2>15
<1> QED BY <1>1, <1>2

\* What is under way from a to b when m has taken a message of n, and what when
\* m has sent msgs besides.
Took(m, n, a, b) == IF a = n /\ b = m THEN Tail(chan[a][b]) ELSE chan[a][b]
Sent(m, to, msgs, old, a, b) ==
    IF a = m /\ b \in to /\ link[b][a] # "closed" THEN old \o msgs ELSE old

LEMMA TakeFact ==
    ASSUME Types, NEW m \in Machine, NEW n \in Machine, Events(m, n)
    PROVE  /\ Taken(m, n) \in Channels
           /\ \A a, b \in Machine : Taken(m, n)[a][b] = Took(m, n, a, b)
           /\ chan[n][m] \in Seq(Message) /\ Tail(chan[n][m]) \in Seq(Message)
           /\ Head(chan[n][m]) = chan[n][m][1] /\ 1 \in DOMAIN chan[n][m]
           /\ Head(chan[n][m]) \in Message
BY TakenFact DEF Events, Took

LEMMA SendFact ==
    ASSUME Types, NEW ch \in Channels, NEW m \in Machine, NEW to, NEW msgs \in Seq(Message)
    PROVE  /\ Push(ch, m, to, msgs) \in Channels
           /\ \A a, b \in Machine : Push(ch, m, to, msgs)[a][b] = Sent(m, to, msgs, ch[a][b], a, b)
BY PushFact DEF Sent

LEMMA TakeSendFact ==
    ASSUME Types, NEW m \in Machine, NEW n \in Machine, Events(m, n), NEW to, NEW msgs \in Seq(Message)
    PROVE  /\ Push(Taken(m, n), m, to, msgs) \in Channels
           /\ \A a, b \in Machine :
                 Push(Taken(m, n), m, to, msgs)[a][b] = Sent(m, to, msgs, Took(m, n, a, b), a, b)
<1>1. Taken(m, n) \in Channels /\ \A a, b \in Machine : Taken(m, n)[a][b] = Took(m, n, a, b)
  BY TakeFact
<1> DEFINE ch == Taken(m, n)
<1>2. ch \in Channels /\ \A a, b \in Machine : ch[a][b] = Took(m, n, a, b)
  BY <1>1
<1> HIDE DEF ch
<1>3. /\ Push(ch, m, to, msgs) \in Channels
      /\ \A a, b \in Machine : Push(ch, m, to, msgs)[a][b] = Sent(m, to, msgs, ch[a][b], a, b)
  BY <1>2, SendFact
<1>4. \A a, b \in Machine : Push(ch, m, to, msgs)[a][b] = Sent(m, to, msgs, Took(m, n, a, b), a, b)
  BY <1>2, <1>3
<1> QED BY <1>3, <1>4 DEF ch

LEMMA SeqIntro ==
    ASSUME NEW S, NEW list \in Seq(S), NEW T, NEW new, new = [k \in DOMAIN list |-> new[k]],
           \A k \in DOMAIN list : new[k] \in T
    PROVE  new \in Seq(T) /\ DOMAIN new = DOMAIN list
<1>1. DOMAIN list = 1 .. Len(list) /\ Len(list) \in Nat
  BY SeqFact
<1> QED BY <1>1

LEMMA AnswerFact ==
    ASSUME NEW m \in Machine, NEW n \in Machine
    PROVE  Answer(m, n) \in Seq(Message) /\ \A k \in DOMAIN Answer(m, n) :
              Answer(m, n)[k].type = "CONNECT" /\ link[m][n] = "dialled"
<1>1. [type |-> "CONNECT"] \in Message
  BY SentFact
<1> QED BY <1>1 DEF Answer

\* The answer, and the request for an id.
Hello(m, n) == Answer(m, n) \o <<[type |-> "NEW_PLAYER"]>>

SaysHello(m, n) ==
    \A a, b \in Machine : chan'[a][b] = Sent(m, {n}, Hello(m, n), Took(m, n, a, b), a, b)

LEMMA EnterFact ==
    ASSUME Types, NEW m \in Machine, NEW n \in Machine, EnterLobby(m, n)
    PROVE  /\ Types' /\ \A a \in Machine \ {m} : Unmoved(a)
           /\ phase[m] = "joining" /\ phase'[m] = "lobby"
           /\ \A b \in Machine : link'[m][b] = IF b = n THEN "up" ELSE link[m][b]
           /\ UNCHANGED <<data, lobby, clicks>>
           /\ SaysHello(m, n)
           /\ Events(m, n) /\ Head(chan[n][m]).type = "CONNECT"
<1> DEFINE msgs == Hello(m, n)
<1>1. /\ Events(m, n) /\ Head(chan[n][m]).type = "CONNECT" /\ phase[m] = "joining"
      /\ phase' = [phase EXCEPT ![m] = "lobby"] /\ link' = [link EXCEPT ![m][n] = "up"]
      /\ chan' = Push(Taken(m, n), m, {n}, msgs) /\ UNCHANGED <<data, lobby, clicks>>
  BY Zenon DEF EnterLobby, Connect, Hello
<1>2. msgs \in Seq(Message)
  <2>1. [type |-> "NEW_PLAYER"] \in Message
    BY SentFact
  <2> QED BY <2>1, OneMessage, AnswerFact, ConcatProperties DEF Hello
<1> HIDE DEF msgs
<1>3. /\ Taken(m, n) \in Channels
      /\ \A a, b \in Machine : Taken(m, n)[a][b] = Took(m, n, a, b)
  BY <1>1, TakeFact
<1>4. /\ chan' \in Channels
      /\ \A a, b \in Machine : chan'[a][b] = Sent(m, {n}, msgs, Taken(m, n)[a][b], a, b)
  BY <1>1, <1>2, <1>3, SendFact
<1>5. Types' /\ \A a \in Machine \ {m} : Unmoved(a)
  BY <1>1, <1>4 DEF Types, Unmoved, lobby, Links
<1>6. phase'[m] = "lobby" /\ \A b \in Machine : link'[m][b] = IF b = n THEN "up" ELSE link[m][b]
  BY <1>1 DEF Types, Links
<1>7. \A a, b \in Machine : chan'[a][b] = Sent(m, {n}, msgs, Took(m, n, a, b), a, b)
  BY <1>3, <1>4
<1>8. SaysHello(m, n)
  BY <1>7 DEF msgs, SaysHello
<1> QED BY <1>1, <1>5, <1>6, <1>8

\* An event at m after which it looks for players that are lost.
Event(m, pool, lk, dt, ch) ==
    /\ pool \in Pool /\ lk \in Links /\ dt \in Pointers /\ ch \in Channels
    /\ \A a \in Machine \ {m} : lk[a] = link[a] /\ dt[a] = data[a]
    /\ (Left(m, ch) /\ m # Host) \/ Swept(m, pool, lk, dt, ch)

\* The pool of m after a connection with n on a peer that points to i.
LEMMA MadeFact ==
    ASSUME NEW pool \in Pool, NEW i \in Slot, NEW n \in Machine
    PROVE  /\ Made(pool, i, n) \in Pool /\ DOMAIN Made(pool, i, n) = DOMAIN pool \cup {i}
           /\ \A j \in DOMAIN pool : Made(pool, i, n)[j] = pool[j]
           /\ i \notin DOMAIN pool => Made(pool, i, n)[i] = Desc(n)
<1>1. DOMAIN pool \subseteq Slot /\ \A j \in DOMAIN pool : pool[j] \in Player
  BY PoolFact
<1>2. Desc(n) \in Player
  BY DEF Desc, Player
<1>3. Made(pool, i, n) \in [DOMAIN pool \cup {i} -> Player]
  BY <1>1, <1>2 DEF Made
<1>4. Made(pool, i, n) \in Pool
  BY <1>1, <1>3, PoolIntro
<1> QED BY <1>4 DEF Made

\* The pointers of m when the peer that was x's is n's.
Pointing(m, x, n, i, dt) ==
    \A b \in Machine : dt[m][b] = IF b = n THEN i ELSE IF b = x THEN 0 ELSE data[m][b]

LEMMA TakePeerFact ==
    ASSUME Types, NEW m \in Machine, NEW x \in Machine, NEW n \in Machine, NEW i \in Slot \cup {0}
    PROVE  /\ TakePeer(m, x, n, i) \in Pointers /\ Pointing(m, x, n, i, TakePeer(m, x, n, i))
           /\ \A a \in Machine \ {m} : TakePeer(m, x, n, i)[a] = data[a]
BY DEF TakePeer, Types, Pointers, Pointing

\* How the peer is found and the player i to whom it points.
Admits(m, n, x, i) ==
    \/ x = n /\ i \in Sender(m, n)
    \/ x = n /\ m = Host /\ Sender(m, n) = {} /\ i \notin DOMAIN player_pool[m]
    \/ link[m][n] = "none" /\ x \in Leftover(m) /\ i = data[m][x]

Admitted(m, n, pool, dt) ==
    \E x \in Machine, i \in Slot :
        Admits(m, n, x, i) /\ pool = Made(player_pool[m], i, n) /\ Pointing(m, x, n, i, dt)

\* At m the connection with n is there.
Welcomed(m, n, pool, lk, dt, ch) ==
    /\ Event(m, pool, lk, dt, ch) /\ Admitted(m, n, pool, dt)
    /\ \A b \in Machine : lk[m][b] = IF b = n THEN "up" ELSE link[m][b]
    /\ \A a, b \in Machine : ch[a][b] = Sent(m, {n}, Answer(m, n), Took(m, n, a, b), a, b)

LEMMA SenderFact ==
    ASSUME Types, NEW m \in Machine, NEW n \in Machine
    PROVE  /\ Sender(m, n) \subseteq Slot
           /\ data[m][n] # 0 => Sender(m, n) = {data[m][n]}
           /\ data[m][n] = 0 => Sender(m, n) = IdsOf(player_pool[m], n)
<1>1. data[m][n] \in Slot \cup {0} /\ DOMAIN player_pool[m] \subseteq Slot
  BY PoolFact DEF Types, Pointers
<1> QED BY <1>1 DEF Sender, IdsOf

LEMMA AdmitFact ==
    ASSUME Types, NEW m \in Machine, NEW n \in Machine, PeerConnects(m, n)
    PROVE  \E x \in Machine, i \in Slot : Admits(m, n, x, i) /\ Admit(m, n, x, i)
<1>0. \A x \in Machine : data[m][x] \in Slot \cup {0}
  BY DEF Types, Pointers
<1>1. CASE \E i \in Sender(m, n) : Admit(m, n, n, i)
  BY <1>1, SenderFact DEF Admits
<1>2. CASE m = Host /\ Sender(m, n) = {} /\ \E i \in FreeSlot(player_pool[m]) : Admit(m, n, n, i)
  <2>1. FreeSlot(player_pool[m]) \subseteq Slot \ DOMAIN player_pool[m]
    BY DEF FreeSlot
  <2> QED BY <1>2, <2>1 DEF Admits
<1>3. CASE link[m][n] = "none" /\ \E x \in Leftover(m) : Admit(m, n, x, data[m][x])
  <2>1. Leftover(m) \subseteq Machine /\ \A x \in Leftover(m) : data[m][x] # 0
    BY DEF Leftover
  <2> QED BY <1>0, <1>3, <2>1 DEF Admits
<1> QED BY <1>1, <1>2, <1>3 DEF PeerConnects

LEMMA PeerFact ==
    ASSUME Types, NEW m \in Machine, NEW n \in Machine, PeerConnects(m, n)
    PROVE  /\ Types' /\ \A a \in Machine \ {m} : Unmoved(a)
           /\ Events(m, n) /\ Head(chan[n][m]).type = "CONNECT" /\ phase[m] = "lobby"
           /\ clicks' = clicks /\ \E pool, lk, dt, ch : Welcomed(m, n, pool, lk, dt, ch)
<1> DEFINE lk == [link EXCEPT ![m][n] = "up"]
           ch == Push(Taken(m, n), m, {n}, Answer(m, n))
<1>1. /\ Events(m, n) /\ Head(chan[n][m]).type = "CONNECT" /\ phase[m] = "lobby"
      /\ clicks' = clicks
  BY DEF PeerConnects, Connect
<1>2. /\ ch \in Channels
      /\ \A a, b \in Machine : ch[a][b] = Sent(m, {n}, Answer(m, n), Took(m, n, a, b), a, b)
  <2>1. Answer(m, n) \in Seq(Message)
    BY AnswerFact
  <2>2. /\ Taken(m, n) \in Channels
        /\ \A a, b \in Machine : Taken(m, n)[a][b] = Took(m, n, a, b)
    BY <1>1, TakeFact
  <2>3. /\ ch \in Channels
        /\ \A a, b \in Machine : ch[a][b] = Sent(m, {n}, Answer(m, n), Taken(m, n)[a][b], a, b)
    BY <2>1, <2>2, SendFact
  <2> HIDE DEF ch
  <2> QED BY <2>2, <2>3
<1>3. PICK x \in Machine, i \in Slot : Admits(m, n, x, i) /\ Admit(m, n, x, i)
  BY AdmitFact
<1> DEFINE pool == Made(player_pool[m], i, n)
           dt == TakePeer(m, x, n, i)
<1>4. player_pool[m] \in Pool
  BY DEF Types
<1>5. pool \in Pool
  BY <1>4, MadeFact
<1>6. /\ lk \in Links /\ \A a \in Machine \ {m} : lk[a] = link[a]
      /\ \A b \in Machine : lk[m][b] = IF b = n THEN "up" ELSE link[m][b]
  BY DEF Types, Links
<1>7. /\ dt \in Pointers /\ Pointing(m, x, n, i, dt)
      /\ \A a \in Machine \ {m} : dt[a] = data[a]
  BY TakePeerFact
<1>8. Admitted(m, n, pool, dt)
  BY <1>3, <1>7 DEF Admitted
<1>9. SysMsg(m, pool, lk, dt, ch)
  BY <1>3 DEF Admit
<1> HIDE DEF lk, ch, pool, dt
<1>10. /\ Types' /\ \A a \in Machine \ {m} : Unmoved(a)
       /\ (Left(m, ch) /\ m # Host) \/ Swept(m, pool, lk, dt, ch)
  BY <1>1, <1>2, <1>5, <1>6, <1>7, <1>9, SysMsgFact
<1>11. Event(m, pool, lk, dt, ch)
  BY <1>2, <1>5, <1>6, <1>7, <1>10 DEF Event
<1>12. Welcomed(m, n, pool, lk, dt, ch)
  BY <1>2, <1>6, <1>8, <1>11 DEF Welcomed
<1> QED BY <1>1, <1>10, <1>12

\* At m the connection with n is no more, and nothing n sent will be read.
Parted(m, n, lk, dt, ch) ==
    /\ \A b \in Machine : lk[m][b] = IF b = n THEN "closed" ELSE link[m][b]
    /\ \A b \in Machine : dt[m][b] = data[m][b]
    /\ \A a, b \in Machine : ch[a][b] = IF a = n /\ b = m THEN << >> ELSE chan[a][b]

LEMMA StrangerFact ==
    ASSUME Types, NEW m \in Machine, NEW n \in Machine, StrangerConnects(m, n)
    PROVE  /\ Types' /\ \A a \in Machine \ {m} : Unmoved(a)
           /\ Events(m, n) /\ Head(chan[n][m]).type = "CONNECT" /\ phase[m] = "lobby"
           /\ Sender(m, n) = {} /\ clicks' = clicks
           /\ \E lk, dt, ch : Event(m, player_pool[m], lk, dt, ch) /\ Parted(m, n, lk, dt, ch)
<1> DEFINE lk == [link EXCEPT ![m][n] = "closed"]
           ch == Dropped(chan, m, {n})
<1>1. /\ Events(m, n) /\ Head(chan[n][m]).type = "CONNECT" /\ phase[m] = "lobby"
      /\ Sender(m, n) = {} /\ clicks' = clicks
      /\ SysMsg(m, player_pool[m], lk, data, ch)
  BY DEF StrangerConnects, Connect
<1>2. /\ ch \in Channels
      /\ \A a, b \in Machine : ch[a][b] = IF a = n /\ b = m THEN << >> ELSE chan[a][b]
  BY DroppedFact DEF Types
<1>3. /\ lk \in Links /\ \A a \in Machine \ {m} : lk[a] = link[a]
      /\ \A b \in Machine : lk[m][b] = IF b = n THEN "closed" ELSE link[m][b]
      /\ player_pool[m] \in Pool /\ data \in Pointers
  BY DEF Types, Links
<1> HIDE DEF lk, ch
<1>4. /\ Types' /\ \A a \in Machine \ {m} : Unmoved(a)
      /\ (Left(m, ch) /\ m # Host) \/ Swept(m, player_pool[m], lk, data, ch)
  BY <1>1, <1>2, <1>3, SysMsgFact
<1>5. Event(m, player_pool[m], lk, data, ch) /\ Parted(m, n, lk, data, ch)
  BY <1>2, <1>3, <1>4 DEF Event, Parted
<1> QED BY <1>1, <1>4, <1>5

\* The pool of m in which the player heard from n is no longer marked connecting.
Unmarked(m, n) ==
    [i \in DOMAIN player_pool[m] |->
        [player_pool[m][i] EXCEPT !.connecting = @ /\ i \notin Sender(m, n)]]

LEMMA UnmarkedFact ==
    ASSUME Types, NEW m \in Machine, NEW n \in Machine
    PROVE  /\ Unmarked(m, n) \in Pool /\ DOMAIN Unmarked(m, n) = DOMAIN player_pool[m]
           /\ \A i \in DOMAIN player_pool[m] :
                /\ Unmarked(m, n)[i].machine = player_pool[m][i].machine
                /\ Unmarked(m, n)[i].authorized = player_pool[m][i].authorized
                /\ Unmarked(m, n)[i].connecting <=>
                      player_pool[m][i].connecting /\ i \notin Sender(m, n)
<1>1. player_pool[m] \in Pool
  BY DEF Types
<1>2. DOMAIN player_pool[m] \subseteq Slot /\ \A i \in DOMAIN player_pool[m] : player_pool[m][i] \in Player
  BY <1>1, PoolFact
<1>3. Unmarked(m, n) \in [DOMAIN player_pool[m] -> Player]
  BY <1>2 DEF Unmarked, Player
<1>4. Unmarked(m, n) \in Pool
  BY <1>2, <1>3, PoolIntro
<1> QED BY <1>2, <1>4 DEF Unmarked, Player

LEMMA DisconnectFact ==
    ASSUME Types, NEW m \in Machine, NEW n \in Machine, Disconnect(m, n)
    PROVE  /\ Types' /\ \A a \in Machine \ {m} : Unmoved(a)
           /\ phase[m] \in {"joining", "lobby"} /\ link[m][n] \in {"dialled", "up"}
           /\ clicks' = clicks
           /\ \E lk, dt, ch : /\ Parted(m, n, lk, dt, ch)
                              /\ \/ phase[m] = "joining" /\ Left(m, ch)
                                 \/ phase[m] = "lobby" /\ Event(m, Unmarked(m, n), lk, dt, ch)
<1> DEFINE lk == [link EXCEPT ![m][n] = "closed"]
           ch == Dropped(chan, m, {n})
<1>1. /\ phase[m] \in {"joining", "lobby"} /\ link[m][n] \in {"dialled", "up"} /\ clicks' = clicks
      /\ IF phase[m] = "joining" THEN Quit(m, ch) ELSE SysMsg(m, Unmarked(m, n), lk, data, ch)
  BY DEF Disconnect, Unmarked
<1>2. /\ ch \in Channels
      /\ \A a, b \in Machine : ch[a][b] = IF a = n /\ b = m THEN << >> ELSE chan[a][b]
  BY DroppedFact DEF Types
<1>3. /\ lk \in Links /\ \A a \in Machine \ {m} : lk[a] = link[a]
      /\ \A b \in Machine : lk[m][b] = IF b = n THEN "closed" ELSE link[m][b]
      /\ Unmarked(m, n) \in Pool /\ data \in Pointers
  BY UnmarkedFact DEF Types, Links
<1> HIDE DEF lk, ch
<1>4. Parted(m, n, lk, data, ch)
  BY <1>2, <1>3 DEF Parted
<1>5. CASE phase[m] = "joining"
  <2>1. Types' /\ Left(m, ch) /\ \A a \in Machine \ {m} : Unmoved(a)
    BY <1>1, <1>2, <1>5, QuitFact DEF Types
  <2> QED BY <1>1, <1>4, <1>5, <2>1
<1>6. CASE phase[m] = "lobby"
  <2>1. /\ Types' /\ \A a \in Machine \ {m} : Unmoved(a)
        /\ (Left(m, ch) /\ m # Host) \/ Swept(m, Unmarked(m, n), lk, data, ch)
    BY <1>1, <1>2, <1>3, <1>6, SysMsgFact
  <2>2. Event(m, Unmarked(m, n), lk, data, ch)
    BY <1>2, <1>3, <2>1 DEF Event
  <2> QED BY <1>1, <1>4, <1>6, <2>1, <2>2
<1> QED BY <1>1, <1>5, <1>6

\* The list is the same but for the flags.
Reflagged(list, new) ==
    /\ DOMAIN new = DOMAIN list
    /\ \A k \in DOMAIN list : new[k].id = list[k].id /\ new[k].color = list[k].color

LEMMA EntryFact ==
    ASSUME NEW list \in Seq(RegEntry), NEW p \in DOMAIN list
    PROVE  /\ \A flag \in BOOLEAN : LET new == [list EXCEPT ![p].ready = flag] IN
                /\ new \in Seq(RegEntry) /\ Reflagged(list, new) /\ new[p].ready = flag
                /\ \A k \in DOMAIN list \ {p} : new[k] = list[k]
           /\ \A c \in Color : LET new == [list EXCEPT ![p].color = c] IN
                /\ new \in Seq(RegEntry) /\ DOMAIN new = DOMAIN list /\ new[p].color = c
                /\ new[p].id = list[p].id /\ new[p].ready = list[p].ready
                /\ \A k \in DOMAIN list \ {p} : new[k] = list[k]
<1>1. Len(list) \in Nat /\ DOMAIN list = 1 .. Len(list) /\ \A k \in DOMAIN list : list[k] \in RegEntry
  BY SeqFact
<1>2. \A k \in DOMAIN list : list[k].id \in Slot /\ list[k].ready \in BOOLEAN /\ list[k].color \in Color \cup {0}
  BY <1>1 DEF RegEntry
<1>3. ASSUME NEW flag \in BOOLEAN
      PROVE  LET new == [list EXCEPT ![p].ready = flag] IN
                /\ new \in Seq(RegEntry) /\ Reflagged(list, new) /\ new[p].ready = flag
                /\ \A k \in DOMAIN list \ {p} : new[k] = list[k]
  <2> DEFINE new == [list EXCEPT ![p].ready = flag]
  <2>1. DOMAIN new = DOMAIN list /\ \A k \in DOMAIN list \ {p} : new[k] = list[k]
    OBVIOUS
  <2>2. new[p] = [list[p] EXCEPT !.ready = flag]
    OBVIOUS
  <2> HIDE DEF new
  <2>3. new[p] \in RegEntry /\ new[p].ready = flag /\ new[p].id = list[p].id /\ new[p].color = list[p].color
    BY <1>1, <2>2 DEF RegEntry
  <2>4. \A k \in DOMAIN list : new[k] \in RegEntry
    BY <1>1, <2>1, <2>3
  <2>5. new \in Seq(RegEntry)
    <3>1. new = [k \in 1 .. Len(list) |-> new[k]]
      BY <1>1, <2>1 DEF new
    <3> QED BY <1>1, <2>4, <3>1
  <2>6. Reflagged(list, new)
    BY <2>1, <2>3 DEF Reflagged
  <2> QED BY <2>1, <2>3, <2>5, <2>6 DEF new
<1>4. ASSUME NEW c \in Color
      PROVE  LET new == [list EXCEPT ![p].color = c] IN
                /\ new \in Seq(RegEntry) /\ DOMAIN new = DOMAIN list /\ new[p].color = c
                /\ new[p].id = list[p].id /\ new[p].ready = list[p].ready
                /\ \A k \in DOMAIN list \ {p} : new[k] = list[k]
  <2> DEFINE new == [list EXCEPT ![p].color = c]
  <2>1. DOMAIN new = DOMAIN list /\ \A k \in DOMAIN list \ {p} : new[k] = list[k]
    OBVIOUS
  <2>2. new[p] = [list[p] EXCEPT !.color = c]
    OBVIOUS
  <2> HIDE DEF new
  <2>3. new[p] \in RegEntry /\ new[p].ready = list[p].ready /\ new[p].id = list[p].id /\ new[p].color = c
    BY <1>1, <2>2 DEF RegEntry
  <2>4. \A k \in DOMAIN list : new[k] \in RegEntry
    BY <1>1, <2>1, <2>3
  <2>5. new \in Seq(RegEntry)
    <3>1. new = [k \in 1 .. Len(list) |-> new[k]]
      BY <1>1, <2>1 DEF new
    <3> QED BY <1>1, <2>4, <3>1
  <2> QED BY <2>1, <2>3, <2>5 DEF new
<1> QED BY <1>3, <1>4

LEMMA GotFact ==
    ASSUME NEW m, NEW n, NEW type, Got(m, n, type)
    PROVE  /\ Events(m, n) /\ phase[m] = "lobby" /\ link[m][n] = "up"
           /\ Head(chan[n][m]).type = type
BY DEF Got

\* What m has in its list of id i has now the flag up or down.
Flags(m, i, flag) ==
    /\ reg'[m] \in Seq(RegEntry) /\ Reflagged(reg[m], reg'[m])
    /\ \A k \in DOMAIN reg[m] :
          reg'[m][k].ready = IF reg[m][k].id = i THEN flag ELSE reg[m][k].ready

LEMMA ReadyFact ==
    ASSUME Types, NEW m \in Machine, NEW n \in Machine, PlayerReady(m, n)
    PROVE  LET msg == Head(chan[n][m]) IN
           /\ Types' /\ \A a \in Machine \ {m} : Unmoved(a)
           /\ Got(m, n, "PLAYER_READY") /\ msg.id \in Slot
           /\ Flags(m, msg.id, msg.flag)
           /\ \A a, b \in Machine : chan'[a][b] =
                 IF m = Host THEN Sent(m, Peers(link, m), <<msg>>, Took(m, n, a, b), a, b)
                 ELSE Took(m, n, a, b)
           /\ UNCHANGED <<phase, link, data, player_pool, my_player_id, selfReadyFlag, colorAssigned,
                          player_nation_color, clicks>>
<1> DEFINE msg == Head(chan[n][m])
           new == [k \in DOMAIN reg[m] |->
                      IF reg[m][k].id = msg.id THEN [reg[m][k] EXCEPT !.ready = msg.flag] ELSE reg[m][k]]
<1>1. /\ Got(m, n, "PLAYER_READY") /\ reg' = [reg EXCEPT ![m] = new]
      /\ chan' = Forward(m, Taken(m, n), msg)
      /\ UNCHANGED <<phase, link, data, player_pool, my_player_id, selfReadyFlag, colorAssigned,
                     player_nation_color, clicks>>
  BY DEF PlayerReady
<1>2. Events(m, n) /\ msg.type = "PLAYER_READY"
  BY <1>1, GotFact
<1>3. msg \in Message /\ Taken(m, n) \in Channels /\ \A a, b \in Machine : Taken(m, n)[a][b] = Took(m, n, a, b)
  BY <1>2, TakeFact
<1>4. msg.id \in Slot /\ msg.flag \in BOOLEAN
  BY <1>2, <1>3, MessageFact
<1>5. <<msg>> \in Seq(Message)
  BY <1>3, OneMessage
<1> HIDE DEF msg
<1>6. /\ Len(reg[m]) \in Nat /\ DOMAIN reg[m] = 1 .. Len(reg[m])
      /\ \A k \in DOMAIN reg[m] : reg[m][k] \in RegEntry
  BY SeqFact DEF Types
<1>7. \A k \in DOMAIN reg[m] : /\ new[k] \in RegEntry /\ new[k].id = reg[m][k].id /\ new[k].color = reg[m][k].color
                               /\ new[k].ready = IF reg[m][k].id = msg.id THEN msg.flag ELSE reg[m][k].ready
  BY <1>4, <1>6 DEF RegEntry
<1>8. DOMAIN new = DOMAIN reg[m] /\ new = [k \in DOMAIN reg[m] |-> new[k]]
  OBVIOUS
<1> HIDE DEF new
<1>8a. new \in Seq(RegEntry)
  BY <1>7, <1>8, SeqIntro DEF Types
<1>9. reg'[m] = new /\ \A a \in Machine \ {m} : reg'[a] = reg[a]
  BY <1>1 DEF Types
<1>10. Flags(m, msg.id, msg.flag)
  BY <1>7, <1>8, <1>8a, <1>9 DEF Flags, Reflagged
<1>11. ASSUME NEW a \in Machine, NEW b \in Machine
       PROVE  chan'[a][b] = IF m = Host THEN Sent(m, Peers(link, m), <<msg>>, Took(m, n, a, b), a, b)
                            ELSE Took(m, n, a, b)
  <2>1. CASE m = Host
    <3>1. chan' = Push(Taken(m, n), m, Peers(link, m), <<msg>>)
      BY <1>1, <2>1 DEF Forward
    <3> DEFINE to == Peers(link, m)
               msgs == <<msg>>
    <3>2. msgs \in Seq(Message)
      BY <1>5
    <3> HIDE DEF to, msgs
    <3>3. \A x, y \in Machine : Push(Taken(m, n), m, to, msgs)[x][y] = Sent(m, to, msgs, Took(m, n, x, y), x, y)
      BY <1>2, <3>2, TakeSendFact
    <3> QED BY <2>1, <3>1, <3>3 DEF to, msgs
  <2>2. CASE m # Host
    BY <1>1, <1>3, <2>2 DEF Forward
  <2> QED BY <2>1, <2>2
<1>12. chan' \in Channels
  <2>1. Push(Taken(m, n), m, Peers(link, m), <<msg>>) \in Channels
    BY <1>3, <1>5, SendFact
  <2> QED BY <1>1, <1>3, <2>1 DEF Forward
<1>13. reg' \in [Machine -> Seq(RegEntry)]
  BY <1>1, <1>8a DEF Types
<1>14. Types' /\ \A a \in Machine \ {m} : Unmoved(a)
  BY <1>1, <1>9, <1>12, <1>13 DEF Types, Unmoved
<1> QED BY <1>1, <1>4, <1>10, <1>11, <1>14 DEF msg

\* m has got number i, unless it has one.
NumberedAs(m, i) ==
    IF my_player_id[m] = 0
    THEN /\ my_player_id'[m] = i
         /\ DOMAIN player_pool'[m] = DOMAIN player_pool[m] \cup {i} /\ player_pool'[m][i] = Desc(m)
         /\ \A j \in DOMAIN player_pool[m] \ {i} : player_pool'[m][j] = player_pool[m][j]
         /\ reg'[m] = Append(reg[m], Entry(i, 0))
    ELSE my_player_id'[m] = my_player_id[m] /\ player_pool'[m] = player_pool[m] /\ reg'[m] = reg[m]

LEMMA EntryType == \A i \in Slot : Entry(i, 0) \in RegEntry
BY DEF Entry, RegEntry

LEMMA PlayerIdFact ==
    ASSUME Types, NEW m \in Machine, NEW n \in Machine, PlayerId(m, n)
    PROVE  /\ Types' /\ \A a \in Machine \ {m} : Unmoved(a)
           /\ Got(m, n, "PLAYER_ID") /\ Head(chan[n][m]).id \in Slot
           /\ NumberedAs(m, Head(chan[n][m]).id)
           /\ \A a, b \in Machine : chan'[a][b] = Took(m, n, a, b)
           /\ UNCHANGED <<phase, link, data, selfReadyFlag, colorAssigned, player_nation_color, clicks>>
<1> DEFINE i == Head(chan[n][m]).id
           new == [j \in DOMAIN player_pool[m] \cup {i} |-> IF j = i THEN Desc(m) ELSE player_pool[m][j]]
<1>1. /\ Got(m, n, "PLAYER_ID") /\ chan' = Taken(m, n)
      /\ IF my_player_id[m] = 0
         THEN /\ my_player_id' = [my_player_id EXCEPT ![m] = i]
              /\ player_pool' = [player_pool EXCEPT ![m] = new]
              /\ reg' = [reg EXCEPT ![m] = Append(@, Entry(i, 0))]
         ELSE UNCHANGED <<my_player_id, player_pool, reg>>
      /\ UNCHANGED <<phase, link, data, selfReadyFlag, colorAssigned, player_nation_color, clicks>>
  BY DEF PlayerId
<1>2. Events(m, n) /\ Head(chan[n][m]).type = "PLAYER_ID"
  BY <1>1, GotFact
<1>3. Head(chan[n][m]) \in Message /\ Taken(m, n) \in Channels
      /\ \A a, b \in Machine : Taken(m, n)[a][b] = Took(m, n, a, b)
  BY <1>2, TakeFact
<1>4. i \in Slot
  BY <1>2, <1>3, MessageFact
<1> HIDE DEF i
<1>5. /\ DOMAIN player_pool[m] \subseteq Slot /\ \A j \in DOMAIN player_pool[m] : player_pool[m][j] \in Player
      /\ reg[m] \in Seq(RegEntry)
  BY PoolFact DEF Types
<1>6. Desc(m) \in Player
  BY DEF Desc, Player
<1>7. new \in [DOMAIN player_pool[m] \cup {i} -> Player]
  BY <1>5, <1>6
<1>8. new \in Pool
  BY <1>4, <1>5, <1>7, PoolIntro
<1>9. /\ DOMAIN new = DOMAIN player_pool[m] \cup {i} /\ new[i] = Desc(m)
      /\ \A j \in DOMAIN player_pool[m] \ {i} : new[j] = player_pool[m][j]
  OBVIOUS
<1>10. Append(reg[m], Entry(i, 0)) \in Seq(RegEntry)
  BY <1>4, <1>5, EntryType, AppendFact
<1> HIDE DEF new
<1>11. Types' /\ \A a \in Machine \ {m} : Unmoved(a)
  <2>1. CASE my_player_id[m] = 0
    BY <1>1, <1>3, <1>4, <1>8, <1>10, <2>1 DEF Types, Unmoved
  <2>2. CASE my_player_id[m] # 0
    BY <1>1, <1>3, <2>2 DEF Types, Unmoved
  <2> QED BY <2>1, <2>2
<1>12. NumberedAs(m, i)
  BY <1>1, <1>9 DEF NumberedAs, Types
<1> QED BY <1>1, <1>3, <1>4, <1>11, <1>12 DEF i

\* The list of m with a player i that has just been accepted.
Accepted(list, i, new) ==
    IF i \in Ids(list) THEN Reflagged(list, new) ELSE new = Append(list, Entry(i, 0))

\* What ACCEPT_NEW_PLAYER does, if anything.
Adds(m, msg) ==
    IF Len(reg[m]) < MAX_NATION /\ msg.id # my_player_id[m]
    THEN /\ DOMAIN player_pool'[m] = DOMAIN player_pool[m] \cup {msg.id}
         /\ \A j \in DOMAIN player_pool[m] : player_pool'[m][j] = player_pool[m][j]
         /\ msg.id \notin DOMAIN player_pool[m] => player_pool'[m][msg.id] = Desc(msg.machine)
         /\ reg'[m] \in Seq(RegEntry) /\ Accepted(reg[m], msg.id, reg'[m])
    ELSE player_pool'[m] = player_pool[m] /\ reg'[m] = reg[m]

\* m dials the machine of the message.
Dials(m, msg) ==
    /\ msg.id \notin DOMAIN player_pool[m] /\ msg.make_contact
    /\ Len(reg[m]) < MAX_NATION /\ msg.id # my_player_id[m]

LEMMA AcceptFact ==
    ASSUME Types, NEW m \in Machine, NEW n \in Machine, AcceptNewPlayer(m, n)
    PROVE  LET msg == Head(chan[n][m]) IN
           /\ Types' /\ \A a \in Machine \ {m} : Unmoved(a)
           /\ Got(m, n, "ACCEPT_NEW_PLAYER") /\ msg.id \in Slot /\ msg.machine \in Machine
           /\ Adds(m, msg)
           /\ \A b \in Machine : link'[m][b] =
                 IF Dials(m, msg) /\ b = msg.machine THEN "dialled" ELSE link[m][b]
           /\ \/ Dials(m, msg) /\ \E x \in {msg.machine} \cup Leftover(m) :
                                    Pointing(m, x, msg.machine, 0, data')
              \/ ~Dials(m, msg) /\ data' = data
           /\ \A a, b \in Machine : chan'[a][b] =
                 IF Dials(m, msg) THEN Sent(msg.machine, {m}, <<[type |-> "CONNECT"]>>, Took(m, n, a, b), a, b)
                 ELSE Took(m, n, a, b)
           /\ UNCHANGED <<phase, my_player_id, selfReadyFlag, colorAssigned,
                          player_nation_color, clicks>>
<1> DEFINE msg == Head(chan[n][m])
           dial == msg.id \notin DOMAIN player_pool[m] /\ msg.make_contact
           does == Len(reg[m]) < MAX_NATION /\ msg.id # my_player_id[m]
           pool == Made(player_pool[m], msg.id, msg.machine)
           list == IF msg.id \in Ids(reg[m])
                   THEN [reg[m] EXCEPT ![Position(reg[m], msg.id)].ready = FALSE]
                   ELSE Append(reg[m], Entry(msg.id, 0))
           msgs == <<[type |-> "CONNECT"]>>
           to == {m}
<1>1. /\ Got(m, n, "ACCEPT_NEW_PLAYER")
      /\ IF does
         THEN /\ player_pool' = [player_pool EXCEPT ![m] = pool]
              /\ reg' = [reg EXCEPT ![m] = list]
              /\ link' = IF dial THEN [link EXCEPT ![m][msg.machine] = "dialled"] ELSE link
              /\ IF dial THEN \E x \in {msg.machine} \cup Leftover(m) :
                                 data' = TakePeer(m, x, msg.machine, 0)
                         ELSE UNCHANGED data
              /\ chan' = IF dial THEN Push(Taken(m, n), msg.machine, to, msgs) ELSE Taken(m, n)
         ELSE /\ chan' = Taken(m, n)
              /\ UNCHANGED <<player_pool, reg, link, data>>
      /\ UNCHANGED <<phase, my_player_id, selfReadyFlag, colorAssigned,
                     player_nation_color, clicks>>
  BY DEF AcceptNewPlayer, Dial
<1>2. Events(m, n) /\ msg.type = "ACCEPT_NEW_PLAYER"
  BY <1>1, GotFact
<1>3. msg \in Message /\ Taken(m, n) \in Channels
      /\ \A a, b \in Machine : Taken(m, n)[a][b] = Took(m, n, a, b)
  BY <1>2, TakeFact
<1>4. msg.id \in Slot /\ msg.machine \in Machine
  BY <1>2, <1>3, MessageFact
<1>5. msgs \in Seq(Message)
  BY SentFact, OneMessage
<1>6. Dials(m, msg) <=> does /\ dial
  BY DEF Dials
<1> HIDE DEF msg, to, msgs
<1>7. /\ DOMAIN player_pool[m] \subseteq Slot /\ \A j \in DOMAIN player_pool[m] : player_pool[m][j] \in Player
      /\ reg[m] \in Seq(RegEntry)
  BY PoolFact DEF Types
<1>9. player_pool[m] \in Pool
  BY DEF Types
<1>10. /\ pool \in Pool
       /\ DOMAIN pool = DOMAIN player_pool[m] \cup {msg.id}
       /\ \A j \in DOMAIN player_pool[m] : pool[j] = player_pool[m][j]
       /\ msg.id \notin DOMAIN player_pool[m] => pool[msg.id] = Desc(msg.machine)
  <2> DEFINE old == player_pool[m]
             i == msg.id
             k == msg.machine
  <2>1. old \in Pool /\ i \in Slot /\ k \in Machine
    BY <1>4, <1>9
  <2> HIDE DEF old, i, k
  <2>2. /\ Made(old, i, k) \in Pool /\ DOMAIN Made(old, i, k) = DOMAIN old \cup {i}
        /\ \A j \in DOMAIN old : Made(old, i, k)[j] = old[j]
        /\ i \notin DOMAIN old => Made(old, i, k)[i] = Desc(k)
    BY <2>1, MadeFact
  <2> QED BY <2>2 DEF old, i, k
<1>12. list \in Seq(RegEntry) /\ Accepted(reg[m], msg.id, list)
  <2>1. CASE msg.id \in Ids(reg[m])
    <3> DEFINE p == Position(reg[m], msg.id)
    <3>1. p \in DOMAIN reg[m]
      BY <1>7, <2>1, PositionFact
    <3> HIDE DEF p
    <3>2. [reg[m] EXCEPT ![p].ready = FALSE] \in Seq(RegEntry)
          /\ Reflagged(reg[m], [reg[m] EXCEPT ![p].ready = FALSE])
      BY <1>7, <3>1, EntryFact
    <3> QED BY <2>1, <3>2 DEF Accepted, p
  <2>2. CASE msg.id \notin Ids(reg[m])
    <3>1. Append(reg[m], Entry(msg.id, 0)) \in Seq(RegEntry)
      BY <1>4, <1>7, EntryType, AppendFact
    <3> QED BY <2>2, <3>1 DEF Accepted
  <2> QED BY <2>1, <2>2
<1> HIDE DEF pool, list
<1>13. /\ Push(Taken(m, n), msg.machine, to, msgs) \in Channels
       /\ \A a, b \in Machine : Push(Taken(m, n), msg.machine, to, msgs)[a][b] =
             Sent(msg.machine, to, msgs, Took(m, n, a, b), a, b)
  <2> DEFINE ch == Taken(m, n)
             k == msg.machine
  <2>1. ch \in Channels /\ k \in Machine /\ \A a, b \in Machine : ch[a][b] = Took(m, n, a, b)
    BY <1>3, <1>4
  <2> HIDE DEF ch, k
  <2>2. /\ Push(ch, k, to, msgs) \in Channels
        /\ \A a, b \in Machine : Push(ch, k, to, msgs)[a][b] = Sent(k, to, msgs, ch[a][b], a, b)
    BY <1>5, <2>1, SendFact
  <2>3. \A a, b \in Machine : Push(ch, k, to, msgs)[a][b] = Sent(k, to, msgs, Took(m, n, a, b), a, b)
    BY <2>1, <2>2
  <2> QED BY <2>2, <2>3 DEF ch, k
<1> DEFINE sent == Push(Taken(m, n), msg.machine, to, msgs)
<1> HIDE DEF sent
<1>14. chan' = IF does /\ dial THEN sent ELSE Taken(m, n)
  BY <1>1 DEF sent
<1>15. sent \in Channels /\ \A a, b \in Machine : sent[a][b] = Sent(msg.machine, to, msgs, Took(m, n, a, b), a, b)
  BY <1>13 DEF sent
<1> HIDE DEF dial, does
<1>16. chan' \in Channels /\ \A a, b \in Machine : chan'[a][b] =
          IF Dials(m, msg) THEN Sent(msg.machine, to, msgs, Took(m, n, a, b), a, b) ELSE Took(m, n, a, b)
  BY <1>3, <1>6, <1>14, <1>15
<1>17. link' = IF Dials(m, msg) THEN [link EXCEPT ![m][msg.machine] = "dialled"] ELSE link
  BY <1>1, <1>6
<1>18. link' \in Links /\ \A b \in Machine : link'[m][b] =
          IF Dials(m, msg) /\ b = msg.machine THEN "dialled" ELSE link[m][b]
  BY <1>4, <1>17 DEF Types, Links
<1>19. \A a \in Machine \ {m} : link'[a] = link[a]
  BY <1>17 DEF Types, Links
<1>19a. /\ \/ Dials(m, msg) /\ \E x \in {msg.machine} \cup Leftover(m) :
                                   data' = TakePeer(m, x, msg.machine, 0)
           \/ ~Dials(m, msg) /\ data' = data
  BY <1>1, <1>6
<1>19b. /\ data' \in Pointers /\ \A a \in Machine \ {m} : data'[a] = data[a]
        /\ \/ Dials(m, msg) /\ \E x \in {msg.machine} \cup Leftover(m) :
                                   Pointing(m, x, msg.machine, 0, data')
           \/ ~Dials(m, msg) /\ data' = data
  <2>1. Leftover(m) \subseteq Machine /\ 0 \in Slot \cup {0}
    BY DEF Leftover
  <2>2. CASE Dials(m, msg)
    <3>1. PICK x \in {msg.machine} \cup Leftover(m) : data' = TakePeer(m, x, msg.machine, 0)
      BY <1>19a, <2>2
    <3>2. x \in Machine
      BY <1>4, <2>1
    <3> QED BY <1>4, <2>1, <2>2, <3>1, <3>2, TakePeerFact
  <2>3. CASE ~Dials(m, msg)
    BY <1>19a, <2>3 DEF Types
  <2> QED BY <2>2, <2>3
<1>20. player_pool' \in [Machine -> Pool] /\ reg' \in [Machine -> Seq(RegEntry)]
  BY <1>1, <1>10, <1>12 DEF Types
<1>21. Types' /\ \A a \in Machine \ {m} : Unmoved(a)
  BY <1>1, <1>16, <1>18, <1>19, <1>19b, <1>20 DEF Types, Unmoved
<1>22. Adds(m, msg)
  <2>1. CASE does
    <3>1. player_pool'[m] = pool /\ reg'[m] = list
      BY <1>1, <2>1 DEF Types
    <3> QED BY <1>10, <1>12, <2>1, <3>1 DEF Adds, does
  <2>2. CASE ~does
    BY <1>1, <2>2 DEF Adds, does
  <2> QED BY <2>1, <2>2
<1> QED BY <1>1, <1>4, <1>16, <1>18, <1>19b, <1>21, <1>22 DEF msg, to, msgs

LEMMA ColorFact ==
    ASSUME Types, NEW m \in Machine, NEW n \in Machine, AcceptColor(m, n)
    PROVE  /\ Types' /\ Got(m, n, "ACCEPT_COLOR") /\ Head(chan[n][m]).color \in Color
           /\ \A a \in Machine : player_nation_color'[a] =
                 IF a = m THEN Head(chan[n][m]).color ELSE player_nation_color[a]
           /\ \A a, b \in Machine : chan'[a][b] = Took(m, n, a, b)
           /\ UNCHANGED <<phase, link, data, player_pool, my_player_id, reg, selfReadyFlag,
                          colorAssigned, clicks>>
<1> DEFINE c == Head(chan[n][m]).color
<1>1. /\ Got(m, n, "ACCEPT_COLOR") /\ chan' = Taken(m, n)
      /\ player_nation_color' = [player_nation_color EXCEPT ![m] = c]
      /\ UNCHANGED <<phase, link, data, player_pool, my_player_id, reg, selfReadyFlag, colorAssigned, clicks>>
  BY DEF AcceptColor
<1>2. Events(m, n) /\ Head(chan[n][m]).type = "ACCEPT_COLOR"
  BY <1>1, GotFact
<1>3. Head(chan[n][m]) \in Message /\ Taken(m, n) \in Channels
      /\ \A a, b \in Machine : Taken(m, n)[a][b] = Took(m, n, a, b)
  BY <1>2, TakeFact
<1>4. c \in Color
  BY <1>2, <1>3, MessageFact
<1> HIDE DEF c
<1>5. Types' /\ \A a \in Machine : player_nation_color'[a] = IF a = m THEN c ELSE player_nation_color[a]
  BY <1>1, <1>3, <1>4 DEF Types
<1> QED BY <1>1, <1>3, <1>4, <1>5 DEF c

\* The connections that go with the player of id i.
CutOff(m, i) == PeersOf(data, m, {i})

LEMMA GoneFact ==
    ASSUME Types, NEW m \in Machine, NEW n \in Machine, PlayerDisconnect(m, n)
    PROVE  LET i == Head(chan[n][m]).id IN
           /\ Types' /\ \A a \in Machine \ {m} : Unmoved(a)
           /\ Got(m, n, "PLAYER_DISCONNECT") /\ i \in Slot
           /\ player_pool'[m] = Without(player_pool[m], {i})
           /\ reg'[m] = Unregister(reg[m], {i})
           /\ \A b \in Machine : link'[m][b] = IF b \in CutOff(m, i) THEN "closed" ELSE link[m][b]
           /\ \A b \in Machine : data'[m][b] = IF b \in CutOff(m, i) THEN 0 ELSE data[m][b]
           /\ \A a, b \in Machine : chan'[a][b] =
                 IF a \in CutOff(m, i) /\ b = m THEN << >> ELSE Took(m, n, a, b)
           /\ UNCHANGED <<phase, my_player_id, selfReadyFlag, colorAssigned, player_nation_color,
                          clicks>>
<1> DEFINE i == Head(chan[n][m]).id
           cut == CutOff(m, i)
           ch == Taken(m, n)
<1>1. /\ Got(m, n, "PLAYER_DISCONNECT")
      /\ player_pool' = [player_pool EXCEPT ![m] = Without(@, {i})]
      /\ reg' = [reg EXCEPT ![m] = Unregister(@, {i})]
      /\ link' = Closed(link, m, cut) /\ data' = Cleared(data, m, cut)
      /\ chan' = Dropped(ch, m, cut)
      /\ UNCHANGED <<phase, my_player_id, selfReadyFlag, colorAssigned, player_nation_color, clicks>>
  BY DEF PlayerDisconnect, CutOff
<1>2. Events(m, n) /\ Head(chan[n][m]).type = "PLAYER_DISCONNECT"
  BY <1>1, GotFact
<1>3. Head(chan[n][m]) \in Message /\ ch \in Channels
      /\ \A a, b \in Machine : ch[a][b] = Took(m, n, a, b)
  BY <1>2, TakeFact
<1>4. i \in Slot
  BY <1>2, <1>3, MessageFact
<1> HIDE DEF i, cut, ch
<1>5. reg[m] \in Seq(RegEntry) /\ player_pool[m] \in Pool
  BY DEF Types
<1>6. Without(player_pool[m], {i}) \in Pool /\ Unregister(reg[m], {i}) \in Seq(RegEntry)
  BY <1>5, WithoutFact, UnregisterFact
<1>7. chan' \in Channels
      /\ \A a, b \in Machine : chan'[a][b] = IF a \in cut /\ b = m THEN << >> ELSE ch[a][b]
  BY <1>1, <1>3, DroppedFact
<1>8. /\ link' \in Links /\ data' \in Pointers
      /\ \A a \in Machine \ {m} : link'[a] = link[a] /\ data'[a] = data[a]
      /\ \A b \in Machine : link'[m][b] = IF b \in cut THEN "closed" ELSE link[m][b]
      /\ \A b \in Machine : data'[m][b] = IF b \in cut THEN 0 ELSE data[m][b]
  BY <1>1, CutFact DEF Types
<1>9. Types' /\ \A a \in Machine \ {m} : Unmoved(a)
  BY <1>1, <1>6, <1>7, <1>8 DEF Types, Unmoved
<1>10. player_pool'[m] = Without(player_pool[m], {i}) /\ reg'[m] = Unregister(reg[m], {i})
  BY <1>1 DEF Types
<1>11. \A a, b \in Machine : chan'[a][b] = IF a \in cut /\ b = m THEN << >> ELSE Took(m, n, a, b)
  BY <1>3, <1>7
<1> QED BY <1>1, <1>4, <1>8, <1>9, <1>10, <1>11 DEF i, cut

LEMMA DismissedFact ==
    ASSUME Types, NEW m \in Machine, NEW n \in Machine, Dismissed(m, n)
    PROVE  /\ Types' /\ \A a \in Machine \ {m} : Unmoved(a)
           /\ Got(m, n, "REFUSE_NEW_PLAYER") \/ Got(m, n, "ABORT_GAME")
           /\ Left(m, Taken(m, n)) /\ clicks' = clicks
           /\ \A a, b \in Machine : Taken(m, n)[a][b] = Took(m, n, a, b)
<1>1. /\ Got(m, n, "REFUSE_NEW_PLAYER") \/ Got(m, n, "ABORT_GAME")
      /\ Quit(m, Taken(m, n)) /\ clicks' = clicks
  BY DEF Dismissed
<1>2. Events(m, n)
  BY <1>1, GotFact
<1>3. Taken(m, n) \in Channels /\ \A a, b \in Machine : Taken(m, n)[a][b] = Took(m, n, a, b)
  BY <1>2, TakeFact
<1>4. clicks' \in [Machine -> Nat]
  BY <1>1 DEF Types
<1> QED BY <1>1, <1>3, <1>4, QuitFact

\* All machines keep what they have; only messages come and go.
LEMMA RefuseFact ==
    ASSUME Types, NEW n \in Machine, RefusePlayer(n), Host \in Machine
    PROVE  /\ Types' /\ Got(Host, n, "NEW_PLAYER")
           /\ \A a, b \in Machine : chan'[a][b] =
                 Sent(Host, {n}, <<[type |-> "REFUSE_NEW_PLAYER"]>>, Took(Host, n, a, b), a, b)
           /\ UNCHANGED <<phase, link, data, lobby, clicks>>
<1> DEFINE msgs == <<[type |-> "REFUSE_NEW_PLAYER"]>>
           to == {n}
<1>1. /\ Got(Host, n, "NEW_PLAYER") /\ chan' = Push(Taken(Host, n), Host, to, msgs)
      /\ UNCHANGED <<phase, link, data, lobby, clicks>>
  BY DEF RefusePlayer
<1>2. Events(Host, n)
  BY <1>1, GotFact
<1>3. msgs \in Seq(Message)
  BY SentFact, OneMessage
<1> HIDE DEF msgs, to
<1>4. chan' \in Channels
      /\ \A a, b \in Machine : chan'[a][b] = Sent(Host, to, msgs, Took(Host, n, a, b), a, b)
  BY <1>1, <1>2, <1>3, TakeSendFact
<1>5. Types'
  BY <1>1, <1>4 DEF Types, lobby
<1> QED BY <1>1, <1>4, <1>5 DEF msgs, to

LEMMA FromFact ==
    ASSUME NEW m, NEW n, data[m][n] # 0 PROVE From(m, n) = data[m][n]
<1>1. Sender(m, n) = {data[m][n]}
  BY DEF Sender
<1>2. From(m, n) \in Sender(m, n)
  BY <1>1, Zenon DEF From
<1> QED BY <1>1, <1>2

\* The host's list with one more player, n, of id f and of colour c.
Enlisted(n, f, c) ==
    /\ c \in Color \ colorAssigned /\ colorAssigned' = colorAssigned \cup {c}
    /\ reg'[Host] = Append(reg[Host], Entry(f, c))
    /\ DOMAIN player_pool'[Host] = DOMAIN player_pool[Host]
    /\ player_pool'[Host][f] = [player_pool[Host][f] EXCEPT !.authorized = TRUE]
    /\ \A i \in DOMAIN player_pool[Host] \ {f} : player_pool'[Host][i] = player_pool[Host][i]

\* What the host has sent when it has taken NEW_PLAYER of n.
Announced(n, f, c, a, b) ==
    Sent(Host, {n}, PlayerList(player_pool[Host], f) \o <<ColorMsg(c)>> \o ReadyList(reg[Host]),
         Sent(Host, Peers(link, Host), <<AcceptMsg(f, player_pool[Host][f].machine, TRUE)>>,
              Sent(Host, {n}, <<[type |-> "PLAYER_ID", id |-> f]>>, Took(Host, n, a, b), a, b), a, b), a, b)

EnlistedSent(n, f, c) ==
    Enlisted(n, f, c) /\ \A a, b \in Machine : chan'[a][b] = Announced(n, f, c, a, b)

LEMMA NewPlayerFact ==
    ASSUME Types, NEW n \in Machine, NewPlayer(n), Host \in Machine, data[Host][n] # 0,
           data[Host][n] \in DOMAIN player_pool[Host]
    PROVE  LET f == data[Host][n] IN
           /\ Types' /\ \A a \in Machine \ {Host} : Unmoved(a)
           /\ Got(Host, n, "NEW_PLAYER") /\ Len(reg[Host]) < MAX_NATION
           /\ f \in Slot /\ n \notin BadPassword /\ ~player_pool[Host][f].authorized
           /\ \E c \in Color : EnlistedSent(n, f, c)
           /\ UNCHANGED <<phase, link, data, my_player_id, selfReadyFlag, player_nation_color, clicks>>
<1> DEFINE pool == player_pool[Host]
           f == data[Host][n]
           idMsg == <<[type |-> "PLAYER_ID", id |-> f]>>
           accept == <<AcceptMsg(f, pool[f].machine, TRUE)>>
           more(c) == PlayerList(pool, f) \o <<ColorMsg(c)>> \o ReadyList(reg[Host])
           to == {n}
           all == Peers(link, Host)
           ch1 == Push(Taken(Host, n), Host, to, idMsg)
           ch2 == Push(ch1, Host, all, accept)
           ch3(c) == Push(ch2, Host, to, more(c))
<1>1. /\ Got(Host, n, "NEW_PLAYER") /\ Len(reg[Host]) < MAX_NATION /\ ~pool[f].authorized
      /\ n \notin BadPassword
      /\ player_pool' = [player_pool EXCEPT ![Host][f].authorized = TRUE]
      /\ \E c \in Color \ colorAssigned :
            /\ colorAssigned' = colorAssigned \cup {c}
            /\ reg' = [reg EXCEPT ![Host] = Append(@, Entry(f, c))]
            /\ chan' = ch3(c)
      /\ UNCHANGED <<phase, link, data, my_player_id, selfReadyFlag, player_nation_color, clicks>>
  <2>1. From(Host, n) = f
    BY FromFact
  <2> HIDE DEF f
  <2> QED BY <2>1, Zenon DEF NewPlayer
<1>2. PICK c \in Color \ colorAssigned :
            /\ colorAssigned' = colorAssigned \cup {c}
            /\ reg' = [reg EXCEPT ![Host] = Append(@, Entry(f, c))]
            /\ chan' = ch3(c)
  BY <1>1
<1>3. Events(Host, n)
  BY <1>1, GotFact
<1>4. pool \in Pool /\ reg[Host] \in Seq(RegEntry)
  BY DEF Types
<1>5. f \in DOMAIN pool /\ f \in Slot /\ pool[f].machine \in Machine
  BY <1>4, PoolFact
<1>6. idMsg \in Seq(Message) /\ accept \in Seq(Message)
  <2>1. [type |-> "PLAYER_ID", id |-> f] \in Message /\ AcceptMsg(f, pool[f].machine, TRUE) \in Message
    BY <1>5, SentFact
  <2> QED BY <2>1, OneMessage
<1>7. more(c) \in Seq(Message)
  <2>1. PlayerList(pool, f) \in Seq(Message)
    BY <1>4, PlayerListFact
  <2>2. ReadyList(reg[Host]) \in Seq(Message)
    BY <1>4, ReadyListFact
  <2>3. <<ColorMsg(c)>> \in Seq(Message)
    <3>1. ColorMsg(c) \in Message
      BY SentFact
    <3> QED BY <3>1, OneMessage
  <2>4. PlayerList(pool, f) \o <<ColorMsg(c)>> \in Seq(Message)
    BY <2>1, <2>3, ConcatProperties
  <2> QED BY <2>2, <2>4, ConcatProperties
<1> HIDE DEF f, pool
<1>8. ch1 \in Channels /\ \A a, b \in Machine : ch1[a][b] = Sent(Host, to, idMsg, Took(Host, n, a, b), a, b)
  <2> HIDE DEF to, idMsg
  <2> QED BY <1>3, <1>6, TakeSendFact
<1>9. ch2 \in Channels /\ \A a, b \in Machine : ch2[a][b] = Sent(Host, all, accept, ch1[a][b], a, b)
  <2> HIDE DEF all, accept, ch1
  <2> QED BY <1>6, <1>8, SendFact
<1>10. ch3(c) \in Channels /\ \A a, b \in Machine : ch3(c)[a][b] = Sent(Host, to, more(c), ch2[a][b], a, b)
  <2> DEFINE msgs == more(c)
  <2>1. msgs \in Seq(Message)
    BY <1>7
  <2> HIDE DEF to, msgs, ch2
  <2>2. /\ Push(ch2, Host, to, msgs) \in Channels
        /\ \A a, b \in Machine : Push(ch2, Host, to, msgs)[a][b] = Sent(Host, to, msgs, ch2[a][b], a, b)
    BY <1>9, <2>1, SendFact
  <2> QED BY <2>2 DEF msgs
<1> HIDE DEF ch1, ch2, ch3
<1>11. chan' \in Channels /\ \A a, b \in Machine : chan'[a][b] = Announced(n, f, c, a, b)
  <2>1. ASSUME NEW a \in Machine, NEW b \in Machine PROVE chan'[a][b] = Announced(n, f, c, a, b)
    <3>1. chan'[a][b] = Sent(Host, to, more(c), ch2[a][b], a, b)
      BY <1>2, <1>10
    <3>2. ch2[a][b] = Sent(Host, all, accept, ch1[a][b], a, b)
      BY <1>9
    <3>3. ch1[a][b] = Sent(Host, to, idMsg, Took(Host, n, a, b), a, b)
      BY <1>8
    <3>4. Announced(n, f, c, a, b) = Sent(Host, to, more(c), Sent(Host, all, accept,
                                        Sent(Host, to, idMsg, Took(Host, n, a, b), a, b), a, b), a, b)
      BY DEF Announced, pool
    <3> HIDE DEF more, all, accept, to, idMsg
    <3> QED BY <3>1, <3>2, <3>3, <3>4
  <2> QED BY <1>2, <1>10, <2>1
<1> HIDE DEF to, all, idMsg, accept, more
<1>12. Entry(f, c) \in RegEntry
  BY <1>5 DEF Entry, RegEntry
<1>13. Append(reg[Host], Entry(f, c)) \in Seq(RegEntry)
  BY <1>4, <1>12, AppendFact
<1>14. /\ DOMAIN pool \subseteq Slot /\ \A j \in DOMAIN pool : pool[j] \in Player
  BY <1>4, PoolFact
<1> DEFINE new == [pool EXCEPT ![f].authorized = TRUE]
<1>15. /\ DOMAIN new = DOMAIN pool /\ new[f] = [pool[f] EXCEPT !.authorized = TRUE]
       /\ \A i \in DOMAIN pool \ {f} : new[i] = pool[i]
  BY <1>5
<1>16. new \in [DOMAIN pool -> Player]
  <2>1. [pool[f] EXCEPT !.authorized = TRUE] \in Player
    BY <1>5, <1>14 DEF Player
  <2> QED BY <1>5, <1>14, <2>1
<1>17. new \in Pool
  BY <1>14, <1>16, PoolIntro
<1>18. player_pool' = [player_pool EXCEPT ![Host] = new]
  BY <1>1 DEF pool
<1> HIDE DEF new
<1>19. player_pool' \in [Machine -> Pool] /\ player_pool'[Host] = new
       /\ \A a \in Machine \ {Host} : player_pool'[a] = player_pool[a]
  BY <1>17, <1>18 DEF Types
<1>20. reg' \in [Machine -> Seq(RegEntry)] /\ reg'[Host] = Append(reg[Host], Entry(f, c))
       /\ \A a \in Machine \ {Host} : reg'[a] = reg[a]
  BY <1>2, <1>13 DEF Types
<1>21. colorAssigned' \in SUBSET Color
  BY <1>2 DEF Types
<1>22. Types' /\ \A a \in Machine \ {Host} : Unmoved(a)
  BY <1>1, <1>11, <1>19, <1>20, <1>21 DEF Types, Unmoved
<1>23. Enlisted(n, f, c)
  BY <1>2, <1>15, <1>19, <1>20 DEF Enlisted, pool
<1>24. EnlistedSent(n, f, c)
  BY <1>11, <1>23 DEF EnlistedSent
<1> QED BY <1>1, <1>5, <1>22, <1>24 DEF f, pool

\* A registered player of the host changes its colour to c, which is free.
Recolored(f, c) ==
    /\ f \in Ids(reg[Host]) /\ c \in Color \ colorAssigned
    /\ LET p == Position(reg[Host], f) IN
         /\ colorAssigned' = (colorAssigned \ {reg[Host][p].color}) \cup {c}
         /\ reg'[Host] \in Seq(RegEntry) /\ DOMAIN reg'[Host] = DOMAIN reg[Host]
         /\ reg'[Host][p].color = c /\ reg'[Host][p].id = f /\ reg'[Host][p].ready = reg[Host][p].ready
         /\ \A k \in DOMAIN reg[Host] \ {p} : reg'[Host][k] = reg[Host][k]

LEMMA RecolorFact ==
    ASSUME Types, Host \in Machine, NEW f \in Ids(reg[Host]), NEW c \in Color \ colorAssigned,
           Recolor(Position(reg[Host], f), c)
    PROVE  /\ Recolored(f, c) /\ reg' \in [Machine -> Seq(RegEntry)] /\ colorAssigned' \in SUBSET Color
           /\ \A a \in Machine \ {Host} : reg'[a] = reg[a]
<1> DEFINE p == Position(reg[Host], f)
           new == [reg[Host] EXCEPT ![p].color = c]
<1>1. reg[Host] \in Seq(RegEntry)
  BY DEF Types
<1>2. p \in DOMAIN reg[Host] /\ reg[Host][p].id = f
  BY <1>1, PositionFact
<1>3. /\ colorAssigned' = (colorAssigned \ {reg[Host][p].color}) \cup {c}
      /\ reg' = [reg EXCEPT ![Host] = new]
  BY DEF Recolor
<1> HIDE DEF p
<1>4. /\ new \in Seq(RegEntry) /\ DOMAIN new = DOMAIN reg[Host] /\ new[p].color = c
      /\ new[p].id = reg[Host][p].id /\ new[p].ready = reg[Host][p].ready
      /\ \A k \in DOMAIN reg[Host] \ {p} : new[k] = reg[Host][k]
  BY <1>1, <1>2, EntryFact
<1> HIDE DEF new
<1>5. reg'[Host] = new /\ \A a \in Machine \ {Host} : reg'[a] = reg[a]
  BY <1>3 DEF Types
<1>6. reg' \in [Machine -> Seq(RegEntry)]
  BY <1>3, <1>4 DEF Types
<1>7. colorAssigned' \in SUBSET Color
  BY <1>3 DEF Types
<1>8. Recolored(f, c)
  BY <1>2, <1>3, <1>4, <1>5 DEF Recolored, p
<1> QED BY <1>5, <1>6, <1>7, <1>8

LEMMA AcquireFact ==
    ASSUME Types, NEW m \in Machine, NEW n \in Machine, AcquireColor(m, n), Host \in Machine
    PROVE  LET f == From(m, n)
               c == Head(chan[n][m]).color IN
           /\ Types' /\ \A a \in Machine \ {Host} : reg'[a] = reg[a]
           /\ Got(m, n, "ACQUIRE_COLOR") /\ c \in Color
           /\ IF m = Host /\ c \notin colorAssigned /\ f \in Ids(reg[Host])
              THEN /\ Recolored(f, c)
                   /\ \A a, b \in Machine : chan'[a][b] =
                         Sent(m, {n}, <<ColorMsg(c)>>, Took(m, n, a, b), a, b)
              ELSE /\ \A a, b \in Machine : chan'[a][b] = Took(m, n, a, b)
                   /\ UNCHANGED <<colorAssigned, reg>>
           /\ UNCHANGED <<phase, link, data, player_pool, my_player_id, selfReadyFlag,
                          player_nation_color, clicks>>
<1> DEFINE f == From(m, n)
           c == Head(chan[n][m]).color
           does == m = Host /\ c \notin colorAssigned /\ f \in Ids(reg[Host])
           msgs == <<ColorMsg(c)>>
           to == {n}
<1>1. /\ Got(m, n, "ACQUIRE_COLOR")
      /\ IF does
         THEN /\ Recolor(Position(reg[Host], f), c)
              /\ chan' = Push(Taken(m, n), m, to, msgs)
         ELSE /\ chan' = Taken(m, n)
              /\ UNCHANGED <<colorAssigned, reg>>
      /\ UNCHANGED <<phase, link, data, player_pool, my_player_id, selfReadyFlag,
                     player_nation_color, clicks>>
  BY Zenon DEF AcquireColor
<1>2. Events(m, n) /\ Head(chan[n][m]).type = "ACQUIRE_COLOR"
  BY <1>1, GotFact
<1>3. Head(chan[n][m]) \in Message /\ Taken(m, n) \in Channels
      /\ \A a, b \in Machine : Taken(m, n)[a][b] = Took(m, n, a, b)
  BY <1>2, TakeFact
<1>4. c \in Color
  BY <1>2, <1>3, MessageFact
<1>5. msgs \in Seq(Message)
  <2>1. ColorMsg(c) \in Message
    BY <1>4, SentFact
  <2> QED BY <2>1, OneMessage
<1> HIDE DEF msgs, to, c, f
<1>6. /\ Push(Taken(m, n), m, to, msgs) \in Channels
      /\ \A a, b \in Machine : Push(Taken(m, n), m, to, msgs)[a][b] =
            Sent(m, to, msgs, Took(m, n, a, b), a, b)
  BY <1>2, <1>5, TakeSendFact
<1>7. CASE does
  <2>1. /\ Recolored(f, c) /\ reg' \in [Machine -> Seq(RegEntry)] /\ colorAssigned' \in SUBSET Color
        /\ \A a \in Machine \ {Host} : reg'[a] = reg[a]
    BY <1>1, <1>4, <1>7, RecolorFact
  <2>2. /\ chan' \in Channels
        /\ \A a, b \in Machine : chan'[a][b] = Sent(m, to, msgs, Took(m, n, a, b), a, b)
    BY <1>1, <1>6, <1>7
  <2>3. Types'
    BY <1>1, <2>1, <2>2 DEF Types
  <2> QED BY <1>1, <1>4, <1>7, <2>1, <2>2, <2>3 DEF f, c, to, msgs
<1>8. CASE ~does
  <2>1. Types'
    BY <1>1, <1>3, <1>8 DEF Types
  <2> QED BY <1>1, <1>3, <1>4, <1>8, <2>1 DEF f, c
<1> QED BY <1>7, <1>8

\* A click by m, if the lobby is open.
LEMMA ClickFact ==
    ASSUME Types, NEW m \in Machine, Click(m)
    PROVE  phase[m] = "lobby" /\ clicks' \in [Machine -> Nat]
BY DEF Click, Types

LEMMA HostColorFact ==
    ASSUME Types, NEW c \in Color, HostClicksColor(c), Host \in Machine, 1 \in Ids(reg[Host])
    PROVE  /\ Types' /\ \A a \in Machine \ {Host} : Unmoved(a)
           /\ phase[Host] = "lobby" /\ Recolored(1, c)
           /\ player_nation_color'[Host] = c
           /\ UNCHANGED <<phase, link, data, chan, player_pool, my_player_id, selfReadyFlag>>
<1>1. /\ Click(Host) /\ c \notin colorAssigned /\ Recolor(Position(reg[Host], 1), c)
      /\ player_nation_color' = [player_nation_color EXCEPT ![Host] = c]
      /\ UNCHANGED <<phase, link, data, chan, player_pool, my_player_id, selfReadyFlag>>
  BY DEF HostClicksColor
<1>2. /\ Recolored(1, c) /\ reg' \in [Machine -> Seq(RegEntry)] /\ colorAssigned' \in SUBSET Color
      /\ \A a \in Machine \ {Host} : reg'[a] = reg[a]
  BY <1>1, RecolorFact
<1>3. phase[Host] = "lobby" /\ clicks' \in [Machine -> Nat]
  BY <1>1, ClickFact
<1>4. player_nation_color' \in [Machine -> Color \cup {0}]
      /\ \A a \in Machine : player_nation_color'[a] = IF a = Host THEN c ELSE player_nation_color[a]
  BY <1>1 DEF Types
<1>5. Types' /\ \A a \in Machine \ {Host} : Unmoved(a)
  BY <1>1, <1>2, <1>3, <1>4 DEF Types, Unmoved
<1> QED BY <1>1, <1>2, <1>3, <1>4, <1>5

\* Where m sends its questions to the host.
Asked(m) == {n \in Peers(link, m) : data[m][n] = 1}

LEMMA AskFact ==
    ASSUME Types, NEW m \in Machine, NEW c \in Color, ClientClicksColor(m, c)
    PROVE  /\ Types' /\ m # Host /\ phase[m] = "lobby"
           /\ \A a, b \in Machine : chan'[a][b] =
                 Sent(m, Asked(m), <<[type |-> "ACQUIRE_COLOR", color |-> c]>>, chan[a][b], a, b)
           /\ UNCHANGED <<phase, link, data, lobby>>
<1> DEFINE msgs == <<[type |-> "ACQUIRE_COLOR", color |-> c]>>
           to == Asked(m)
<1>1. /\ m # Host /\ Click(m) /\ chan' = Push(chan, m, to, msgs)
      /\ UNCHANGED <<phase, link, data, lobby>>
  BY DEF ClientClicksColor, Asked
<1>2. phase[m] = "lobby" /\ clicks' \in [Machine -> Nat]
  BY <1>1, ClickFact
<1>3. msgs \in Seq(Message)
  BY SentFact, OneMessage
<1> HIDE DEF msgs, to
<1>4. chan \in Channels
  BY DEF Types
<1>5. chan' \in Channels /\ \A a, b \in Machine : chan'[a][b] = Sent(m, to, msgs, chan[a][b], a, b)
  BY <1>1, <1>3, <1>4, SendFact
<1>6. Types'
  BY <1>1, <1>2, <1>5 DEF Types, lobby
<1> QED BY <1>1, <1>2, <1>5, <1>6 DEF msgs, to

\* m has turned its own flag and told everybody.
LEMMA TurnFact ==
    ASSUME Types, NEW m \in Machine, ClickReady(m)
    PROVE  LET i == my_player_id[m]
               flag == ~selfReadyFlag[m] IN
           /\ Types' /\ \A a \in Machine \ {m} : Unmoved(a)
           /\ phase[m] = "lobby" /\ i \in Ids(reg[m]) /\ i \in Slot
           /\ selfReadyFlag'[m] = flag
           /\ reg'[m] \in Seq(RegEntry) /\ Reflagged(reg[m], reg'[m])
           /\ reg'[m][Position(reg[m], i)].ready = flag
           /\ \A k \in DOMAIN reg[m] \ {Position(reg[m], i)} : reg'[m][k] = reg[m][k]
           /\ \A a, b \in Machine : chan'[a][b] =
                 Sent(m, Peers(link, m), <<ReadyMsg(i, flag)>>, chan[a][b], a, b)
           /\ UNCHANGED <<phase, link, data, player_pool, my_player_id, colorAssigned,
                     player_nation_color>>
<1> DEFINE i == my_player_id[m]
           flag == ~selfReadyFlag[m]
           p == Position(reg[m], i)
           new == [reg[m] EXCEPT ![p].ready = flag]
           msgs == <<ReadyMsg(i, flag)>>
           to == Peers(link, m)
<1>1. /\ Click(m) /\ i \in Ids(reg[m]) /\ selfReadyFlag' = [selfReadyFlag EXCEPT ![m] = flag]
      /\ reg' = [reg EXCEPT ![m] = new]
      /\ chan' = Push(chan, m, to, msgs)
      /\ UNCHANGED <<phase, link, data, player_pool, my_player_id, colorAssigned,
                     player_nation_color>>
  <2>1. reg' = [reg EXCEPT ![m][p].ready = flag]
    BY Zenon DEF ClickReady
  <2> QED BY <2>1 DEF ClickReady
<1>2. phase[m] = "lobby" /\ clicks' \in [Machine -> Nat]
  BY <1>1, ClickFact
<1>3. reg[m] \in Seq(RegEntry) /\ flag \in BOOLEAN
  BY DEF Types
<1>4. p \in DOMAIN reg[m] /\ reg[m][p].id = i
  BY <1>1, <1>3, PositionFact
<1>5. i \in Slot
  <2>1. reg[m][p] \in RegEntry
    BY <1>3, <1>4, SeqFact
  <2> QED BY <1>4, <2>1 DEF RegEntry
<1>6. msgs \in Seq(Message)
  <2>1. ReadyMsg(i, flag) \in Message
    BY <1>3, <1>5, SentFact
  <2> QED BY <2>1, OneMessage
<1> HIDE DEF i, flag, p, msgs, to
<1>7. /\ new \in Seq(RegEntry) /\ Reflagged(reg[m], new) /\ new[p].ready = flag
      /\ \A k \in DOMAIN reg[m] \ {p} : new[k] = reg[m][k]
  BY <1>3, <1>4, EntryFact
<1> HIDE DEF new
<1>8. reg' \in [Machine -> Seq(RegEntry)] /\ reg'[m] = new /\ \A a \in Machine \ {m} : reg'[a] = reg[a]
  BY <1>1, <1>7 DEF Types
<1>9. chan \in Channels
  BY DEF Types
<1>10. chan' \in Channels /\ \A a, b \in Machine : chan'[a][b] = Sent(m, to, msgs, chan[a][b], a, b)
  BY <1>1, <1>6, <1>9, SendFact
<1>11. selfReadyFlag' \in [Machine -> BOOLEAN]
       /\ \A a \in Machine : selfReadyFlag'[a] = IF a = m THEN flag ELSE selfReadyFlag[a]
  BY <1>1, <1>3 DEF Types
<1>12. Types' /\ \A a \in Machine \ {m} : Unmoved(a)
  BY <1>1, <1>2, <1>8, <1>10, <1>11 DEF Types, Unmoved
<1> QED BY <1>1, <1>2, <1>5, <1>7, <1>8, <1>10, <1>11, <1>12 DEF i, flag, p, msgs, to

LEMMA JoinFact ==
    ASSUME Types, NEW c \in Machine, JoinSession(c), Host \in Machine
    PROVE  /\ Types' /\ \A a \in Machine \ {c} : Unmoved(a)
           /\ phase[c] = "away" /\ phase[Host] = "lobby" /\ phase'[c] = "joining"
           /\ DOMAIN player_pool'[c] = {1} /\ player_pool'[c][1] = Desc(Host)
           /\ \A b \in Machine : link'[c][b] = IF b = Host THEN "dialled" ELSE link[c][b]
           /\ \A b \in Machine : data'[c][b] = IF b = Host THEN 1 ELSE data[c][b]
           /\ \A a, b \in Machine : chan'[a][b] =
                 Sent(Host, {c}, <<[type |-> "CONNECT"]>>, chan[a][b], a, b)
           /\ UNCHANGED <<my_player_id, reg, selfReadyFlag, colorAssigned, player_nation_color, clicks>>
<1> DEFINE msgs == <<[type |-> "CONNECT"]>>
           to == {c}
           pool == <<Desc(Host)>>
<1>1. /\ phase[c] = "away" /\ phase[Host] = "lobby" /\ phase' = [phase EXCEPT ![c] = "joining"]
      /\ player_pool' = [player_pool EXCEPT ![c] = pool]
      /\ link' = [link EXCEPT ![c][Host] = "dialled"]
      /\ data' = [data EXCEPT ![c][Host] = 1]
      /\ chan' = Push(chan, Host, to, msgs)
      /\ UNCHANGED <<my_player_id, reg, selfReadyFlag, colorAssigned, player_nation_color, clicks>>
  BY DEF JoinSession, Dial
<1>2. msgs \in Seq(Message)
  BY SentFact, OneMessage
<1>3. DOMAIN pool = {1} /\ pool[1] = Desc(Host) /\ pool \in Pool
  <2>1. Desc(Host) \in Player
    BY DEF Desc, Player
  <2>2. DOMAIN pool = {1} /\ pool[1] = Desc(Host) /\ pool \in [{1} -> Player]
    BY <2>1
  <2>3. 1 \in Slot
    BY ColorAssumption DEF Slot
  <2> QED BY <2>2, <2>3, PoolIntro
<1> HIDE DEF msgs, to, pool
<1>4. chan \in Channels
  BY DEF Types
<1>5. chan' \in Channels /\ \A a, b \in Machine : chan'[a][b] = Sent(Host, to, msgs, chan[a][b], a, b)
  BY <1>1, <1>2, <1>4, SendFact
<1>6. /\ link' \in Links /\ \A a \in Machine \ {c} : link'[a] = link[a]
      /\ \A b \in Machine : link'[c][b] = IF b = Host THEN "dialled" ELSE link[c][b]
  BY <1>1 DEF Types, Links
<1>6a. 1 \in Slot
  BY ColorAssumption DEF Slot
<1>6b. /\ data' \in Pointers /\ \A a \in Machine \ {c} : data'[a] = data[a]
       /\ \A b \in Machine : data'[c][b] = IF b = Host THEN 1 ELSE data[c][b]
  BY <1>1, <1>6a DEF Types, Pointers
<1>7. Types' /\ \A a \in Machine \ {c} : Unmoved(a)
  BY <1>1, <1>3, <1>5, <1>6, <1>6b DEF Types, Unmoved
<1>8. phase'[c] = "joining" /\ player_pool'[c] = pool
  BY <1>1 DEF Types
<1> QED BY <1>1, <1>3, <1>5, <1>6, <1>6b, <1>7, <1>8 DEF msgs, to

LEMMA CancelFact ==
    ASSUME Types, NEW c \in Machine, CancelJoin(c)
    PROVE  /\ Types' /\ \A a \in Machine \ {c} : Unmoved(a)
           /\ c \in MayCancel /\ phase[c] = "joining" /\ phase'[c] = "lobby"
           /\ UNCHANGED <<link, data, chan, lobby, clicks>>
BY DEF CancelJoin, Types, Unmoved, lobby

LEMMA StartFact ==
    ASSUME Types, Start, Host \in Machine
    PROVE  /\ Types' /\ \A a \in Machine \ {Host} : Unmoved(a)
           /\ phase[Host] = "lobby" /\ phase'[Host] = "started"
           /\ UNCHANGED <<link, data, chan, lobby, clicks>>
BY DEF Start, Types, Unmoved, lobby

\* What is under way when m leaves.
LeftWord(m, a, b) ==
    IF m = Host THEN Sent(m, Peers(link, m), <<[type |-> "ABORT_GAME"]>>, chan[a][b], a, b)
    ELSE chan[a][b]

LEMMA LeaveFact ==
    ASSUME Types, NEW m \in Machine, Leave(m)
    PROVE  /\ Types' /\ \A a \in Machine \ {m} : Unmoved(a)
           /\ phase[m] \in {"joining", "lobby"} /\ clicks' = clicks
           /\ \E ch : Left(m, ch) /\ \A a, b \in Machine : ch[a][b] = LeftWord(m, a, b)
<1> DEFINE msgs == <<[type |-> "ABORT_GAME"]>>
           to == Peers(link, m)
           ch == IF m = Host THEN Push(chan, m, to, msgs) ELSE chan
<1>1. phase[m] \in {"joining", "lobby"} /\ clicks' = clicks /\ Quit(m, ch)
  BY DEF Leave
<1>2. msgs \in Seq(Message)
  BY SentFact, OneMessage
<1> HIDE DEF msgs, to
<1>3. chan \in Channels
  BY DEF Types
<1>4. Push(chan, m, to, msgs) \in Channels
      /\ \A a, b \in Machine : Push(chan, m, to, msgs)[a][b] = Sent(m, to, msgs, chan[a][b], a, b)
  BY <1>2, <1>3, SendFact
<1>5. ch \in Channels /\ \A a, b \in Machine : ch[a][b] =
        IF m = Host THEN Sent(m, to, msgs, chan[a][b], a, b) ELSE chan[a][b]
  BY <1>3, <1>4
<1> HIDE DEF ch
<1>6. \A a, b \in Machine : ch[a][b] = LeftWord(m, a, b)
  BY <1>5 DEF LeftWord, to, msgs
<1>7. clicks' \in [Machine -> Nat]
  BY <1>1 DEF Types
<1>8. Types' /\ Left(m, ch) /\ \A a \in Machine \ {m} : Unmoved(a)
  BY <1>1, <1>5, <1>7, QuitFact
<1> QED BY <1>1, <1>6, <1>8

-----------------------------------------------------------------------------
(* Who says what *)

\* What clients send.
FromClient == {"CONNECT", "NEW_PLAYER", "PLAYER_READY", "ACQUIRE_COLOR"}

\* The host sends the rest, and nothing to itself; it never has anybody
\* contact it, and number 1 is always its own.
Allowed(a, b, msg) ==
    /\ a # Host => msg.type \in FromClient
    /\ a = Host =>
        /\ b # Host /\ msg.type \notin {"NEW_PLAYER", "ACQUIRE_COLOR"}
        /\ msg.type = "ACCEPT_NEW_PLAYER" /\ msg.make_contact => msg.machine # Host
        /\ msg.type = "ACCEPT_NEW_PLAYER" /\ msg.id = 1 => msg.machine = Host
        /\ msg.type = "PLAYER_ID" => msg.id # 1

AllAllowed(s, a, b) == \A k \in DOMAIN s : Allowed(a, b, s[k])

Directions == \A a, b \in Machine : AllAllowed(chan[a][b], a, b)

LEMMA SentAllowed ==
    ASSUME NEW m, NEW to, NEW msgs \in Seq(Message), NEW old \in Seq(Message), NEW a, NEW b,
           AllAllowed(old, a, b), a = m /\ b \in to => AllAllowed(msgs, a, b)
    PROVE  Sent(m, to, msgs, old, a, b) \in Seq(Message) /\ AllAllowed(Sent(m, to, msgs, old, a, b), a, b)
<1>1. /\ old \o msgs \in Seq(Message)
      /\ \A k \in DOMAIN (old \o msgs) :
            \/ k \in DOMAIN old /\ (old \o msgs)[k] = old[k]
            \/ \E l \in DOMAIN msgs : (old \o msgs)[k] = msgs[l]
  <2> DEFINE new == old \o msgs
  <2>1. /\ new \in Seq(Message)
        /\ \A k \in DOMAIN old : new[k] = old[k]
        /\ \A k \in DOMAIN msgs : new[Len(old) + k] = msgs[k]
        /\ \A k \in DOMAIN new : k \in DOMAIN old \/ (k - Len(old) \in DOMAIN msgs /\ k = Len(old) + (k - Len(old)))
    BY ConcatFact
  <2> HIDE DEF new
  <2>2. \A k \in DOMAIN new : (k \in DOMAIN old /\ new[k] = old[k]) \/ \E l \in DOMAIN msgs : new[k] = msgs[l]
    BY <2>1
  <2> QED BY <2>1, <2>2 DEF new
<1> DEFINE new == old \o msgs
<1> HIDE DEF new
<1>2. new \in Seq(Message) /\ \A k \in DOMAIN new :
            (k \in DOMAIN old /\ new[k] = old[k]) \/ \E l \in DOMAIN msgs : new[k] = msgs[l]
  BY <1>1 DEF new
<1>3. Sent(m, to, msgs, old, a, b) = IF a = m /\ b \in to /\ link[b][a] # "closed" THEN new ELSE old
  BY DEF Sent, new
<1>4. CASE a = m /\ b \in to
  <2>1. AllAllowed(new, a, b)
    BY <1>2, <1>4 DEF AllAllowed
  <2> QED BY <1>2, <1>3, <2>1
<1>5. CASE ~(a = m /\ b \in to)
  BY <1>3, <1>5
<1> QED BY <1>4, <1>5

LEMMA TookAllowed ==
    ASSUME Types, Directions, NEW m \in Machine, NEW n \in Machine, Events(m, n),
           NEW a \in Machine, NEW b \in Machine
    PROVE  Took(m, n, a, b) \in Seq(Message) /\ AllAllowed(Took(m, n, a, b), a, b)
<1>1. chan[a][b] \in Seq(Message) /\ AllAllowed(chan[a][b], a, b)
  BY DEF Types, Channels, Directions
<1>2. CASE a = n /\ b = m
  <2> DEFINE s == chan[a][b]
             t == Tail(s)
  <2>1. s \in Seq(Message) /\ s # << >>
    BY <1>1, <1>2 DEF Events
  <2> HIDE DEF s
  <2>2. t \in Seq(Message) /\ \A k \in DOMAIN t : k + 1 \in DOMAIN s /\ t[k] = s[k + 1]
    BY <2>1, TailFact
  <2> HIDE DEF t
  <2>3. AllAllowed(s, a, b)
    BY <1>1 DEF s
  <2>4. AllAllowed(t, a, b)
    BY <2>2, <2>3 DEF AllAllowed
  <2>5. Took(m, n, a, b) = t
    BY <1>2 DEF Took, t, s
  <2> QED BY <2>2, <2>4, <2>5
<1>3. CASE ~(a = n /\ b = m)
  <2>1. Took(m, n, a, b) = chan[a][b]
    BY <1>3 DEF Took
  <2> QED BY <1>1, <2>1
<1> QED BY <1>2, <1>3

\* One message that may be sent.
LEMMA OneAllowed ==
    ASSUME NEW msg, NEW a, NEW b, Allowed(a, b, msg) PROVE AllAllowed(<<msg>>, a, b)
BY DEF AllAllowed

\* What is read has been allowed.
LEMMA HeadAllowed ==
    ASSUME Types, Directions, NEW m \in Machine, NEW n \in Machine, Events(m, n)
    PROVE  /\ Allowed(n, m, Head(chan[n][m])) /\ Head(chan[n][m]) \in Message
           /\ n = Host => m # Host
<1>1. Head(chan[n][m]) = chan[n][m][1] /\ 1 \in DOMAIN chan[n][m] /\ Head(chan[n][m]) \in Message
  BY TakeFact
<1>2. Allowed(n, m, Head(chan[n][m]))
  BY <1>1 DEF Directions, AllAllowed
<1> QED BY <1>1, <1>2 DEF Allowed

\* What only the host says, only the others hear, and the other way round.
LEMMA Speakers ==
    ASSUME Types, Directions, NEW m \in Machine, NEW n \in Machine, NEW type, Got(m, n, type)
    PROVE  /\ type \in {"PLAYER_ID", "ACCEPT_NEW_PLAYER", "ACCEPT_COLOR", "PLAYER_DISCONNECT",
                        "REFUSE_NEW_PLAYER", "ABORT_GAME"} => n = Host /\ m # Host
           /\ type \in {"NEW_PLAYER", "ACQUIRE_COLOR"} => n # Host
           /\ m = Host => n # Host
<1>1. Events(m, n) /\ Head(chan[n][m]).type = type
  BY GotFact
<1>2. Allowed(n, m, Head(chan[n][m]))
  BY <1>1, HeadAllowed
<1>3. n # Host => type \in FromClient
  BY <1>1, <1>2 DEF Allowed
<1>4. n = Host => m # Host /\ type \notin {"NEW_PLAYER", "ACQUIRE_COLOR"}
  BY <1>1, <1>2, HeadAllowed DEF Allowed
<1> QED BY <1>3, <1>4 DEF FromClient

-----------------------------------------------------------------------------
(* The host's books *)

\* The pool, the connections and the pointers of the host.  It never dials.  A
\* connection points to a player, each to another one and none to the host; a
\* pointer left in the peer of a closed connection is to a player that is not
\* marked connecting.  No machine is twice in the pool.  A player to whom the peer
\* of its own machine does not point has been taken over: its machine is gone and
\* it is not marked connecting.
Pointed(pool, lk, dt) ==
    /\ lk[Host][Host] \in {"none", "closed"}
    /\ \A n \in Machine : lk[Host][n] # "dialled"
    /\ \A n \in Machine : lk[Host][n] = "up" => dt[Host][n] # 0
    /\ \A n \in Machine : lk[Host][n] = "none" => dt[Host][n] = 0
    /\ \A n \in Machine : dt[Host][n] # 0 => dt[Host][n] \in DOMAIN pool \ {1}
    /\ \A n \in Machine : dt[Host][n] # 0 /\ lk[Host][n] = "closed" => ~pool[dt[Host][n]].connecting
    /\ \A n, x \in Machine : dt[Host][n] # 0 /\ dt[Host][n] = dt[Host][x] => n = x
    /\ \A i, j \in DOMAIN pool : pool[i].machine = pool[j].machine => i = j
    /\ \A i \in DOMAIN pool \ {1} :
        \/ dt[Host][pool[i].machine] = i
        \/ lk[Host][pool[i].machine] = "closed" /\ ~pool[i].connecting

HostLinks == Pointed(player_pool[Host], link, data)

\* The host is player 1 and in its own list until it leaves.
HostThere ==
    /\ phase[Host] \in {"lobby", "started", "gone"}
    /\ phase[Host] # "gone" =>
        /\ 1 \in DOMAIN player_pool[Host] /\ player_pool[Host][1].machine = Host
        /\ player_pool[Host][1].connecting
        /\ 1 \in Ids(reg[Host]) /\ my_player_id[Host] = 1
    /\ phase[Host] = "gone" =>
        /\ DOMAIN player_pool[Host] = {} /\ reg[Host] = << >> /\ colorAssigned = {}
        /\ \A n \in Machine : link[Host][n] = "closed" /\ data[Host][n] = 0

\* Who is in the list is in the pool and there is a connection that points to
\* it; authorized are those that have been entered; the colours marked are theirs.
HostList ==
    /\ UniqueIds(reg[Host])
    /\ \A i \in Ids(reg[Host]) :
        /\ i \in DOMAIN player_pool[Host]
        /\ i # 1 => \E n \in Machine : link[Host][n] = "up" /\ data[Host][n] = i
    /\ \A i \in DOMAIN player_pool[Host] :
        player_pool[Host][i].authorized <=> i # 1 /\ i \in Ids(reg[Host])
    /\ colorAssigned = {reg[Host][k].color : k \in DOMAIN reg[Host]}
    /\ \A k, l \in DOMAIN reg[Host] : reg[Host][k].color = reg[Host][l].color => k = l

HostInv == Types /\ Directions /\ HostLinks /\ HostThere /\ HostList

\* An action of another machine leaves the host's books alone.
LEMMA HostAlone ==
    ASSUME HostLinks, HostThere, HostList, Unmoved(Host), colorAssigned' = colorAssigned
    PROVE  HostLinks' /\ HostThere' /\ HostList'
BY DEF HostLinks, Pointed, HostThere, HostList, Unmoved, UniqueIds, Ids

\* An action that changes flags in the list only.
LEMMA HostFlags ==
    ASSUME HostLinks, HostThere, HostList, Types, Host \in Machine,
           UNCHANGED <<phase, link, data, player_pool, my_player_id, colorAssigned>>,
           reg'[Host] \in Seq(RegEntry), Reflagged(reg[Host], reg'[Host])
    PROVE  HostLinks' /\ HostThere' /\ HostList'
<1> DEFINE old == reg[Host]
           new == reg'[Host]
<1>1. DOMAIN new = DOMAIN old /\ \A k \in DOMAIN old : new[k].id = old[k].id /\ new[k].color = old[k].color
  BY DEF Reflagged
<1>2. Ids(new) = Ids(old)
  BY <1>1 DEF Ids
<1>3. UniqueIds(old) => UniqueIds(new)
  BY <1>1 DEF UniqueIds
<1>4. {new[k].color : k \in DOMAIN new} = {old[k].color : k \in DOMAIN old}
  BY <1>1
<1>5. HostLinks'
  BY DEF HostLinks, Pointed
<1>6. phase[Host] = "gone" => new = << >>
  BY <1>1 DEF HostThere
<1>7. HostThere'
  BY <1>2, <1>6 DEF HostThere
<1>8. HostList'
  BY <1>1, <1>2, <1>3, <1>4 DEF HostList
<1> QED BY <1>5, <1>7, <1>8

\* A player changes its colour.
LEMMA HostRecolors ==
    ASSUME HostLinks, HostThere, HostList, Types, Host \in Machine, NEW f, NEW c, Recolored(f, c),
           UNCHANGED <<phase, link, data, player_pool, my_player_id>>, phase[Host] # "gone"
    PROVE  HostLinks' /\ HostThere' /\ HostList'
<1> DEFINE old == reg[Host]
           new == reg'[Host]
           p == Position(old, f)
<1>1. old \in Seq(RegEntry)
  BY DEF Types
<1>2. f \in Ids(old) /\ c \in Color \ colorAssigned
  BY DEF Recolored
<1>3. p \in DOMAIN old /\ old[p].id = f
  BY <1>1, <1>2, PositionFact
<1>4. /\ colorAssigned' = (colorAssigned \ {old[p].color}) \cup {c}
      /\ DOMAIN new = DOMAIN old /\ new[p].color = c /\ new[p].id = f
      /\ \A k \in DOMAIN old \ {p} : new[k] = old[k]
  BY DEF Recolored
<1> HIDE DEF p
<1>5. \A k \in DOMAIN old : new[k].id = old[k].id /\ new[k].color = IF k = p THEN c ELSE old[k].color
  BY <1>3, <1>4
<1>6. Ids(new) = Ids(old)
  BY <1>4, <1>5 DEF Ids
<1>7. UniqueIds(new)
  BY <1>4, <1>5 DEF UniqueIds, HostList
<1>8. \A k \in DOMAIN old : old[k].color \in colorAssigned
  BY DEF HostList
<1>9. \A k, l \in DOMAIN old : old[k].color = old[l].color => k = l
  BY DEF HostList
<1>10. \A k, l \in DOMAIN new : new[k].color = new[l].color => k = l
  BY <1>2, <1>4, <1>5, <1>8, <1>9
<1>11. colorAssigned' = {new[k].color : k \in DOMAIN new}
  <2>1. ASSUME NEW d \in colorAssigned' PROVE \E k \in DOMAIN new : new[k].color = d
    <3>1. CASE d = c
      BY <1>3, <1>4, <3>1
    <3>2. CASE d # c
      <4>1. d \in colorAssigned /\ d # old[p].color
        BY <1>4, <2>1, <3>2
      <4>2. PICK k \in DOMAIN old : old[k].color = d
        BY <4>1 DEF HostList
      <4> QED BY <1>4, <1>5, <4>1, <4>2
    <3> QED BY <3>1, <3>2
  <2>2. ASSUME NEW k \in DOMAIN new PROVE new[k].color \in colorAssigned'
    BY <1>3, <1>4, <1>5, <1>8, <1>9
  <2> QED BY <2>1, <2>2
<1>12. HostLinks'
  BY DEF HostLinks, Pointed
<1>13. HostThere'
  BY <1>6 DEF HostThere
<1>14. HostList'
  BY <1>6, <1>7, <1>10, <1>11 DEF HostList
<1> QED BY <1>12, <1>13, <1>14

\* A player is entered in the list.
LEMMA HostEnlists ==
    ASSUME HostLinks, HostThere, HostList, Types, Host \in Machine, NEW n \in Machine \ {Host},
           NEW f \in DOMAIN player_pool[Host], data[Host][n] = f, f # 1,
           ~player_pool[Host][f].authorized, NEW c, Enlisted(n, f, c), phase[Host] # "gone",
           link[Host][n] = "up", UNCHANGED <<phase, link, data, my_player_id>>
    PROVE  HostLinks' /\ HostThere' /\ HostList'
<1> DEFINE old == reg[Host]
           new == reg'[Host]
           pool == player_pool[Host]
           pool2 == player_pool'[Host]
<1>1. old \in Seq(RegEntry)
  BY DEF Types
<1>2. /\ c \in Color \ colorAssigned /\ colorAssigned' = colorAssigned \cup {c}
      /\ new = Append(old, Entry(f, c)) /\ DOMAIN pool2 = DOMAIN pool
      /\ pool2[f] = [pool[f] EXCEPT !.authorized = TRUE]
      /\ \A i \in DOMAIN pool \ {f} : pool2[i] = pool[i]
  BY DEF Enlisted
<1>3. f # 1 /\ f \notin Ids(old)
  BY DEF HostList
<1>4. pool \in Pool
  BY DEF Types
<1>5. \A i \in DOMAIN pool : pool[i] \in Player
  BY <1>4, PoolFact
<1>6. /\ \A i \in DOMAIN pool : pool2[i].machine = pool[i].machine /\ pool2[i].connecting = pool[i].connecting
      /\ \A i \in DOMAIN pool : pool2[i].authorized = IF i = f THEN TRUE ELSE pool[i].authorized
  BY <1>2, <1>5 DEF Player
<1>7. Entry(f, c) \in RegEntry /\ Entry(f, c).id = f /\ Entry(f, c).color = c
  <2>1. f \in Slot
    BY <1>4, PoolFact
  <2> QED BY <1>2, <2>1 DEF Entry, RegEntry
<1>8. PICK p : /\ p \notin DOMAIN old /\ DOMAIN new = DOMAIN old \cup {p} /\ new[p] = Entry(f, c)
               /\ \A k \in DOMAIN old : new[k] = old[k]
  BY <1>1, <1>2, <1>7, AppendFact
<1>9. Ids(new) = Ids(old) \cup {f}
  BY <1>7, <1>8 DEF Ids
<1>10. UniqueIds(new)
  BY <1>3, <1>7, <1>8 DEF UniqueIds, HostList, Ids
<1>11. \A k, l \in DOMAIN new : new[k].color = new[l].color => k = l
  BY <1>2, <1>7, <1>8 DEF HostList
<1>12. colorAssigned' = {new[k].color : k \in DOMAIN new}
  BY <1>2, <1>7, <1>8 DEF HostList
<1> HIDE DEF pool, pool2, old, new
<1>15. HostLinks'
  BY <1>2, <1>6 DEF HostLinks, Pointed, pool, pool2
<1>16. HostThere'
  BY <1>2, <1>6, <1>9 DEF HostThere, pool, pool2, old, new
<1>17. \A i \in Ids(new) : i \in DOMAIN pool2
          /\ (i # 1 => \E b \in Machine : link'[Host][b] = "up" /\ data'[Host][b] = i)
  <2>1. \A i \in Ids(old) : i \in DOMAIN pool
          /\ (i # 1 => \E b \in Machine : link[Host][b] = "up" /\ data[Host][b] = i)
    BY DEF HostList, pool, old
  <2>2. f \in DOMAIN pool
    BY DEF pool
  <2> QED BY <1>2, <1>9, <2>1, <2>2
<1>18. \A i \in DOMAIN pool2 : pool2[i].authorized <=> i # 1 /\ i \in Ids(new)
  <2>1. \A i \in DOMAIN pool : pool[i].authorized <=> i # 1 /\ i \in Ids(old)
    BY DEF HostList, pool, old
  <2> QED BY <1>2, <1>3, <1>6, <1>9, <2>1
<1>19. HostList'
  BY <1>10, <1>11, <1>12, <1>17, <1>18 DEF HostList, pool, pool2, old, new
<1> QED BY <1>15, <1>16, <1>19

\* The pool, the connections and the pointers of the host after an event, before
\* it looks for who is lost.
Sound(pool, lk, dt) ==
    /\ pool \in Pool /\ lk \in Links /\ dt \in Pointers /\ Pointed(pool, lk, dt)
    /\ 1 \in DOMAIN pool /\ pool[1].machine = Host /\ pool[1].connecting
    /\ \A i \in Ids(reg[Host]) : i \in DOMAIN pool
        /\ (i # 1 /\ pool[i].connecting => \E n \in Machine : lk[Host][n] = "up" /\ dt[Host][n] = i)
    /\ \A i \in DOMAIN pool : pool[i].authorized <=> i # 1 /\ i \in Ids(reg[Host])

\* The host deletes whoever is lost, and its books are in order again.
LEMMA HostSweeps ==
    ASSUME HostLinks, HostThere, HostList, Types, Host \in Machine, NEW pool, NEW lk, NEW dt, NEW ch,
           Sound(pool, lk, dt), Swept(Host, pool, lk, dt, ch), phase[Host] = "lobby"
    PROVE  HostLinks' /\ HostThere' /\ HostList'
<1> DEFINE lost == Lost(Host, pool)
           cut == Cut(Host, pool, dt)
           old == reg[Host]
           new == reg'[Host]
           pool2 == player_pool'[Host]
<1>1. /\ pool2 = Without(pool, lost) /\ new = Unregister(old, lost)
      /\ \A b \in Machine : link'[Host][b] = IF b \in cut THEN "closed" ELSE lk[Host][b]
      /\ \A b \in Machine : data'[Host][b] = IF b \in cut THEN 0 ELSE dt[Host][b]
      /\ phase'[Host] = phase[Host] /\ my_player_id'[Host] = my_player_id[Host]
      /\ colorAssigned' = colorAssigned \ ColorsOf(old, lost)
  BY DEF Swept
<1>2. old \in Seq(RegEntry) /\ pool \in Pool
  BY DEF Types, Sound
<1>3. \A i : i \in lost <=> i \in Ids(old) /\ ~pool[i].connecting
  BY DEF Lost, Sound
<1>4. \A b \in Machine : b \in cut <=> dt[Host][b] \in lost
  BY DEF Cut, PeersOf
<1> HIDE DEF lost, cut, old
<1>5. DOMAIN pool2 = DOMAIN pool \ lost /\ \A i \in DOMAIN pool2 : pool2[i] = pool[i]
  <2> DEFINE w == Without(pool, lost)
  <2>1. DOMAIN w = DOMAIN pool \ lost /\ \A i \in DOMAIN pool \ lost : w[i] = pool[i]
    BY <1>2, WithoutFact
  <2>2. pool2 = w
    BY <1>1
  <2> HIDE DEF w, pool2
  <2> QED BY <2>1, <2>2
<1> HIDE DEF pool2
<1>6. /\ Ids(new) = Ids(old) \ lost
      /\ \A k \in DOMAIN new : \E j \in DOMAIN old : new[k] = old[j] /\ old[j].id \notin lost
      /\ \A j \in DOMAIN old : old[j].id \notin lost => \E k \in DOMAIN new : new[k] = old[j]
      /\ UniqueIds(old) => UniqueIds(new)
  BY <1>1, <1>2, UnregisterFact
<1> HIDE DEF new
<1>7. /\ UniqueIds(old) /\ \A k, l \in DOMAIN old : old[k].color = old[l].color => k = l
      /\ colorAssigned = {old[k].color : k \in DOMAIN old}
  BY DEF HostList, old
<1>8. 1 \notin lost
  BY <1>3 DEF Sound
<1>9. HostLinks'
  <2> DEFINE P == Pointed(pool, lk, dt)
  <2>0. P
    BY DEF Sound
  <2>1. link'[Host][Host] \in {"none", "closed"} /\ \A n \in Machine : link'[Host][n] # "dialled"
    BY <1>1, <2>0 DEF Pointed
  <2>2. \A n \in Machine : link'[Host][n] = "up" => data'[Host][n] # 0
    BY <1>1, <2>0 DEF Pointed
  <2>3. \A n \in Machine : link'[Host][n] = "none" => data'[Host][n] = 0
    BY <1>1, <2>0 DEF Pointed
  <2>4. \A n \in Machine : data'[Host][n] # 0 => data'[Host][n] = dt[Host][n] /\ dt[Host][n] \notin lost
                                                 /\ link'[Host][n] = lk[Host][n]
    BY <1>1, <1>4
  <2>5. \A n \in Machine : data'[Host][n] # 0 => data'[Host][n] \in DOMAIN pool2 \ {1}
    BY <1>5, <2>0, <2>4 DEF Pointed
  <2>6. \A n \in Machine : data'[Host][n] # 0 /\ link'[Host][n] = "closed" =>
                              ~pool2[data'[Host][n]].connecting
    BY <1>5, <2>0, <2>4, <2>5 DEF Pointed
  <2>7. \A n, x \in Machine : data'[Host][n] # 0 /\ data'[Host][n] = data'[Host][x] => n = x
    BY <2>0, <2>4 DEF Pointed
  <2>8. \A i, j \in DOMAIN pool2 : pool2[i].machine = pool2[j].machine => i = j
    BY <1>5, <2>0 DEF Pointed
  <2>9. ASSUME NEW i \in DOMAIN pool2 \ {1}
        PROVE  \/ data'[Host][pool2[i].machine] = i
               \/ link'[Host][pool2[i].machine] = "closed" /\ ~pool2[i].connecting
    <3>1. i \in DOMAIN pool \ {1} /\ i \notin lost /\ pool2[i] = pool[i]
      BY <1>5
    <3>2. pool[i].machine \in Machine
      BY <1>2, <3>1, PoolFact
    <3>3. CASE dt[Host][pool[i].machine] = i
      BY <1>1, <1>4, <3>1, <3>2, <3>3
    <3>4. CASE lk[Host][pool[i].machine] = "closed" /\ ~pool[i].connecting
      BY <1>1, <3>1, <3>2, <3>4
    <3> QED BY <2>0, <3>1, <3>3, <3>4 DEF Pointed
  <2> QED BY <2>1, <2>2, <2>3, <2>5, <2>6, <2>7, <2>8, <2>9 DEF HostLinks, Pointed, pool2
<1>10. HostThere'
  <2>1. 1 \in DOMAIN pool2 /\ pool2[1].machine = Host /\ pool2[1].connecting
    BY <1>5, <1>8 DEF Sound
  <2>2. 1 \in Ids(new) /\ my_player_id[Host] = 1
    BY <1>6, <1>8 DEF HostThere, old
  <2> QED BY <1>1, <2>1, <2>2 DEF HostThere, pool2, new
<1>11. \A i \in Ids(new) : i \in DOMAIN pool2
          /\ (i # 1 => \E n \in Machine : link'[Host][n] = "up" /\ data'[Host][n] = i)
  <2> SUFFICES ASSUME NEW i \in Ids(new)
               PROVE  i \in DOMAIN pool2
                      /\ (i # 1 => \E n \in Machine : link'[Host][n] = "up" /\ data'[Host][n] = i)
    OBVIOUS
  <2>1. i \in Ids(old) /\ i \notin lost /\ i \in DOMAIN pool
    BY <1>6 DEF Sound, old
  <2>2. pool[i].connecting
    BY <1>3, <2>1
  <2>3. i \in DOMAIN pool2
    BY <1>5, <2>1
  <2>4. ASSUME i # 1 PROVE \E n \in Machine : link'[Host][n] = "up" /\ data'[Host][n] = i
    <3>1. PICK n \in Machine : lk[Host][n] = "up" /\ dt[Host][n] = i
      BY <2>1, <2>2, <2>4 DEF Sound, old
    <3>2. n \notin cut
      BY <1>4, <2>1, <3>1
    <3> QED BY <1>1, <3>1, <3>2
  <2> QED BY <2>3, <2>4
<1>12. \A i \in DOMAIN pool2 : pool2[i].authorized <=> i # 1 /\ i \in Ids(new)
  BY <1>5, <1>6 DEF Sound, old
<1>13. colorAssigned' = {new[k].color : k \in DOMAIN new}
  <2>1. \A d : d \in ColorsOf(old, lost) <=> \E j \in DOMAIN old : old[j].id \in lost /\ old[j].color = d
    BY DEF ColorsOf
  <2>2. ASSUME NEW d \in colorAssigned' PROVE \E k \in DOMAIN new : new[k].color = d
    <3>1. d \in colorAssigned /\ d \notin ColorsOf(old, lost)
      BY <1>1, <2>2
    <3>2. PICK j \in DOMAIN old : old[j].color = d
      BY <1>7, <3>1
    <3>3. old[j].id \notin lost
      BY <2>1, <3>1, <3>2
    <3> QED BY <1>6, <3>2, <3>3
  <2>3. ASSUME NEW k \in DOMAIN new PROVE new[k].color \in colorAssigned'
    <3>1. PICK j \in DOMAIN old : new[k] = old[j] /\ old[j].id \notin lost
      BY <1>6
    <3>2. old[j].color \notin ColorsOf(old, lost)
      BY <1>7, <2>1, <3>1
    <3> QED BY <1>1, <1>7, <3>1, <3>2
  <2> QED BY <2>2, <2>3
<1>14. \A k, l \in DOMAIN new : new[k].color = new[l].color => k = l
  <2> SUFFICES ASSUME NEW k \in DOMAIN new, NEW l \in DOMAIN new, new[k].color = new[l].color
               PROVE  k = l
    OBVIOUS
  <2>1. PICK i \in DOMAIN old : new[k] = old[i]
    BY <1>6
  <2>2. PICK j \in DOMAIN old : new[l] = old[j]
    BY <1>6
  <2>3. i = j
    BY <1>7, <2>1, <2>2
  <2> QED BY <1>6, <1>7, <2>1, <2>2, <2>3 DEF UniqueIds
<1>15. HostList'
  BY <1>6, <1>7, <1>11, <1>12, <1>13, <1>14 DEF HostList, pool2, new
<1> QED BY <1>9, <1>10, <1>15

-----------------------------------------------------------------------------
(* What is said after an action *)

\* Nobody hears more than there was.
LEMMA SameWords ==
    ASSUME Directions, \A a, b \in Machine : chan'[a][b] = chan[a][b]
    PROVE  Directions'
BY DEF Directions, AllAllowed, Allowed

LEMMA OneLess ==
    ASSUME Types, Directions, NEW m \in Machine, NEW n \in Machine, Events(m, n),
           \A a, b \in Machine : chan'[a][b] = Took(m, n, a, b)
    PROVE  Directions'
<1>1. \A a, b \in Machine : AllAllowed(chan'[a][b], a, b)
  BY TookAllowed
<1> QED BY <1>1 DEF Directions

\* k has sent msgs, in the second case after m has taken a message of n.
Says(k, to, msgs) == \A a, b \in Machine : chan'[a][b] = Sent(k, to, msgs, chan[a][b], a, b)
Replies(k, to, msgs, m, n) ==
    \A a, b \in Machine : chan'[a][b] = Sent(k, to, msgs, Took(m, n, a, b), a, b)

LEMMA Reply ==
    ASSUME Types, Directions, NEW k \in Machine, NEW to, NEW msgs \in Seq(Message),
           \A b \in Machine : b \in to => AllAllowed(msgs, k, b),
           NEW m \in Machine, NEW n \in Machine, Events(m, n), Replies(k, to, msgs, m, n)
    PROVE  Directions'
<1>1. ASSUME NEW a \in Machine, NEW b \in Machine PROVE AllAllowed(chan'[a][b], a, b)
  <2> DEFINE old == Took(m, n, a, b)
  <2>1. old \in Seq(Message) /\ AllAllowed(old, a, b) /\ chan'[a][b] = Sent(k, to, msgs, old, a, b)
    BY TookAllowed DEF Replies
  <2> HIDE DEF old
  <2> QED BY <2>1, SentAllowed
<1> QED BY <1>1 DEF Directions

LEMMA Word ==
    ASSUME Types, Directions, NEW k \in Machine, NEW to, NEW msgs \in Seq(Message),
           \A b \in Machine : b \in to => AllAllowed(msgs, k, b),
           Says(k, to, msgs)
    PROVE  Directions'
<1>1. ASSUME NEW a \in Machine, NEW b \in Machine PROVE AllAllowed(chan'[a][b], a, b)
  <2> DEFINE old == chan[a][b]
  <2>1. old \in Seq(Message) /\ AllAllowed(old, a, b) /\ chan'[a][b] = Sent(k, to, msgs, old, a, b)
    BY DEF Types, Channels, Directions, Says
  <2> HIDE DEF old
  <2> QED BY <2>1, SentAllowed
<1> QED BY <1>1 DEF Directions

LEMMA LeftDirections ==
    ASSUME NEW m \in Machine, NEW ch, Left(m, ch),
           \A a, b \in Machine : AllAllowed(ch[a][b], a, b)
    PROVE  Directions'
<1>1. \A a, b \in Machine : chan'[a][b] = IF b = m THEN << >> ELSE ch[a][b]
  BY DEF Left
<1>2. \A a, b \in Machine : AllAllowed(<< >>, a, b)
  BY DEF AllAllowed
<1>3. \A a, b \in Machine : AllAllowed(chan'[a][b], a, b)
  BY <1>1, <1>2
<1> QED BY <1>3 DEF Directions

LEMMA EventDirections ==
    ASSUME Types, NEW m \in Machine, NEW pool, NEW lk, NEW dt, NEW ch, Event(m, pool, lk, dt, ch),
           \A a, b \in Machine : AllAllowed(ch[a][b], a, b),
           m = Host => lk[Host][Host] # "up"
    PROVE  Directions'
<1>1. CASE Left(m, ch)
  BY <1>1, LeftDirections
<1>2. CASE Swept(m, pool, lk, dt, ch)
  <2> DEFINE msgs == DisconnectNotice(Entries(reg[m], Lost(m, pool)))
             cut == Cut(m, pool, dt)
  <2>1. reg[m] \in Seq(RegEntry) /\ \A a, b \in Machine : ch[a][b] \in Seq(Message)
    BY DEF Types, Event, Channels
  <2>2. msgs \in Seq(Message) /\ \A k \in DOMAIN msgs : msgs[k].type = "PLAYER_DISCONNECT"
    BY <2>1, NoticeFact
  <2>3. \A a, b \in Machine : AllAllowed(<< >>, a, b)
    BY DEF AllAllowed
  <2>4. ASSUME NEW a \in Machine, NEW b \in Machine PROVE AllAllowed(chan'[a][b], a, b)
    <3>1. CASE m # Host
      <4>1. chan'[a][b] = IF a \in cut /\ b = m THEN << >> ELSE ch[a][b]
        BY <1>2, <3>1 DEF Swept
      <4> QED BY <2>3, <4>1
    <3>2. CASE m = Host
      <4>1. chan'[a][b] = IF a \in cut /\ b = m THEN << >>
                  ELSE IF a = m /\ lk[m][b] = "up" /\ b \notin cut /\ link[b][m] # "closed"
                       THEN ch[a][b] \o msgs ELSE ch[a][b]
        BY <1>2, <3>2 DEF Swept
      <4>2. CASE a = m /\ lk[m][b] = "up" /\ link[b][m] # "closed"
        <5> DEFINE to == {b}
                   old == ch[a][b]
        <5>1. AllAllowed(msgs, a, b)
          <6>1. a = Host /\ b # Host
            BY <3>2, <4>2
          <6> QED BY <2>2, <6>1 DEF AllAllowed, Allowed
        <5>2. old \in Seq(Message) /\ AllAllowed(old, a, b)
          BY <2>1
        <5>3. Sent(m, to, msgs, old, a, b) = old \o msgs
          BY <4>2 DEF Sent
        <5> HIDE DEF to, msgs, old
        <5>4. AllAllowed(Sent(m, to, msgs, old, a, b), a, b)
          BY <2>2, <5>1, <5>2, SentAllowed
        <5> QED BY <2>3, <4>1, <4>2, <5>2, <5>3, <5>4 DEF old
      <4>3. CASE ~(a = m /\ lk[m][b] = "up" /\ link[b][m] # "closed")
        BY <2>3, <4>1, <4>3
      <4> QED BY <4>2, <4>3
    <3> QED BY <3>1, <3>2
  <2> QED BY <2>4 DEF Directions
<1> QED BY <1>1, <1>2 DEF Event

\* What a connection or its loss leaves of the words under way.
LEMMA PartedAllowed ==
    ASSUME Types, Directions, NEW m \in Machine, NEW n \in Machine, NEW lk, NEW dt, NEW ch, Parted(m, n, lk, dt, ch)
    PROVE  \A a, b \in Machine : AllAllowed(ch[a][b], a, b)
<1>1. \A a, b \in Machine : AllAllowed(<< >>, a, b) /\ AllAllowed(chan[a][b], a, b)
  BY DEF AllAllowed, Directions
<1>2. \A a, b \in Machine : ch[a][b] = IF a = n /\ b = m THEN << >> ELSE chan[a][b]
  BY DEF Parted
<1> QED BY <1>1, <1>2

LEMMA WelcomedAllowed ==
    ASSUME Types, Directions, NEW m \in Machine, NEW n \in Machine, Events(m, n),
           NEW ch, \A a, b \in Machine : ch[a][b] = Sent(m, {n}, Answer(m, n), Took(m, n, a, b), a, b),
           link[Host][Host] # "dialled"
    PROVE  \A a, b \in Machine : AllAllowed(ch[a][b], a, b)
<1> SUFFICES ASSUME NEW a \in Machine, NEW b \in Machine PROVE AllAllowed(ch[a][b], a, b)
  OBVIOUS
<1> DEFINE msgs == Answer(m, n)
           old == Took(m, n, a, b)
           to == {n}
<1>1. msgs \in Seq(Message) /\ \A k \in DOMAIN msgs : msgs[k].type = "CONNECT" /\ link[m][n] = "dialled"
  BY AnswerFact
<1>2. old \in Seq(Message) /\ AllAllowed(old, a, b)
  BY TookAllowed
<1>3. ch[a][b] = Sent(m, to, msgs, old, a, b)
  OBVIOUS
<1>4. a = m /\ b \in to => AllAllowed(msgs, a, b)
  BY <1>1 DEF AllAllowed, Allowed, FromClient
<1> HIDE DEF msgs, old, to
<1> QED BY <1>1, <1>2, <1>3, <1>4, SentAllowed

-----------------------------------------------------------------------------
(* Every step keeps the host's books in order *)

LEMMA EnterKeeps ==
    ASSUME HostInv, NEW m \in Machine, NEW n \in Machine, EnterLobby(m, n)
    PROVE  HostInv'
<1> USE HostAssumption
<1> DEFINE msgs == Hello(m, n)
           to == {n}
<1>1. /\ Types' /\ \A a \in Machine \ {m} : Unmoved(a)
      /\ phase[m] = "joining" /\ UNCHANGED <<data, lobby, clicks>>
      /\ \A a, b \in Machine : chan'[a][b] = Sent(m, to, msgs, Took(m, n, a, b), a, b)
      /\ Events(m, n)
  <2>1. Types
    BY DEF HostInv
  <2>2. Types' /\ \A a \in Machine \ {m} : Unmoved(a)
    BY <2>1, EnterFact
  <2>3. phase[m] = "joining" /\ Events(m, n)
    BY DEF EnterLobby, Connect
  <2>4. UNCHANGED <<data, lobby, clicks>>
    BY Zenon DEF EnterLobby
  <2> HIDE DEF msgs, to
  <2>4a. SaysHello(m, n)
    BY <2>1, EnterFact
  <2>5. \A a, b \in Machine : chan'[a][b] = Sent(m, {n}, Hello(m, n), Took(m, n, a, b), a, b)
    BY <2>4a DEF SaysHello
  <2> QED BY <2>2, <2>3, <2>4, <2>5 DEF msgs, to
<1>2. m # Host
  BY <1>1 DEF HostInv, HostThere
<1>3. msgs \in Seq(Message) /\ \A b \in Machine : AllAllowed(msgs, m, b)
  <2> DEFINE s == Answer(m, n)
             new == [type |-> "NEW_PLAYER"]
  <2>1. s \in Seq(Message) /\ \A k \in DOMAIN s : s[k].type = "CONNECT"
    BY AnswerFact
  <2>2. new \in Message /\ new.type = "NEW_PLAYER"
    BY SentFact
  <2>3. <<new>> \in Seq(Message) /\ \A k \in DOMAIN <<new>> : <<new>>[k] = new
    BY <2>2, OneMessage
  <2> DEFINE t == <<new>>
  <2>4. t \in Seq(Message) /\ \A k \in DOMAIN t : t[k].type = "NEW_PLAYER"
    BY <2>2, <2>3
  <2> HIDE DEF s, t
  <2>5. s \o t \in Seq(Message) /\ \A k \in DOMAIN (s \o t) :
           (k \in DOMAIN s /\ (s \o t)[k] = s[k]) \/ (\E l \in DOMAIN t : (s \o t)[k] = t[l])
    BY <2>1, <2>4, ConcatFact
  <2>6. \A k \in DOMAIN (s \o t) : (s \o t)[k].type \in FromClient
    BY <2>1, <2>4, <2>5 DEF FromClient
  <2> QED BY <1>2, <2>5, <2>6 DEF s, t, AllAllowed, Allowed, Hello
<1> HIDE DEF msgs, to
<1>4. ASSUME NEW a \in Machine, NEW b \in Machine PROVE AllAllowed(chan'[a][b], a, b)
  <2> DEFINE old == Took(m, n, a, b)
  <2>1. old \in Seq(Message) /\ AllAllowed(old, a, b) /\ chan'[a][b] = Sent(m, to, msgs, old, a, b)
    BY <1>1, TookAllowed DEF HostInv
  <2>2. a = m /\ b \in to => AllAllowed(msgs, a, b)
    BY <1>3
  <2> HIDE DEF old
  <2> QED BY <1>3, <2>1, <2>2, SentAllowed
<1>5. Directions'
  BY <1>4 DEF Directions
<1>6. colorAssigned' = colorAssigned /\ Unmoved(Host)
  BY <1>1, <1>2 DEF lobby
<1>7. HostLinks' /\ HostThere' /\ HostList'
  BY <1>6, HostAlone DEF HostInv
<1> QED BY <1>1, <1>5, <1>7 DEF HostInv

\* An event at a client leaves the host's books alone.
LEMMA ClientEvent ==
    ASSUME HostLinks, HostThere, HostList, NEW m \in Machine, m # Host, Host \in Machine,
           NEW pool, NEW lk, NEW dt, NEW ch, Event(m, pool, lk, dt, ch),
           \A a \in Machine \ {m} : Unmoved(a)
    PROVE  HostLinks' /\ HostThere' /\ HostList'
<1>1. colorAssigned' = colorAssigned
  BY DEF Event, Left, Swept
<1>2. Unmoved(Host)
  OBVIOUS
<1> QED BY <1>1, <1>2, HostAlone

\* An event at the host, about n: its pool, connections, pointers and channels
\* before it looks for who is lost.
Sweeping(n, pool, lk, dt, ch) ==
    /\ Sound(pool, lk, dt) /\ Swept(Host, pool, lk, dt, ch)
    /\ \A i \in DOMAIN player_pool[Host] :
        i \in DOMAIN pool /\ pool[i].machine = player_pool[Host][i].machine
    /\ \A i \in DOMAIN pool \ DOMAIN player_pool[Host] :
        pool[i].machine = n /\ link[Host][n] = "none"
    /\ \A b \in Machine \ {n} : lk[Host][b] = link[Host][b]
    /\ \A b \in Machine \ {n} : link[Host][b] # "closed" => dt[Host][b] = data[Host][b]
    /\ link[Host][n] # "none" => dt[Host][n] = data[Host][n]
    /\ \A b \in Machine : ch[Host][b] = chan[Host][b] /\ (b # n => ch[b][Host] = chan[b][Host])
    /\ \/ lk[Host][n] = "closed" /\ ch[n][Host] = << >>
       \/ /\ lk[Host][n] = "up" /\ link[Host][n] \in {"none", "up"}
          /\ chan[n][Host] # << >> /\ Head(chan[n][Host]).type = "CONNECT"
          /\ ch[n][Host] = Tail(chan[n][Host])

\* How n comes to a player i at the host: it has a peer, or there is none yet and
\* the player is new, or the peer is one that was x's.
LEMMA HostAdmits ==
    ASSUME HostInv, NEW n \in Machine \ {Host}, phase[Host] = "lobby", link[Host][n] \in {"none", "up"},
           NEW x \in Machine, NEW i \in Slot, Admits(Host, n, x, i)
    PROVE  \/ x = n /\ link[Host][n] = "up" /\ data[Host][n] = i /\ i \in DOMAIN player_pool[Host]
           \/ x = n /\ link[Host][n] = "none" /\ i \notin DOMAIN player_pool[Host]
                    /\ \A j \in DOMAIN player_pool[Host] : player_pool[Host][j].machine # n
           \/ x # n /\ link[Host][n] = "none" /\ link[Host][x] = "closed" /\ data[Host][x] = i
                    /\ i \in DOMAIN player_pool[Host]
<1> USE HostAssumption
<1> DEFINE old == player_pool[Host]
<1>1. Pointed(old, link, data)
  BY DEF HostInv, HostLinks
<1>2. 1 \in DOMAIN old /\ old[1].machine = Host
  BY DEF HostInv, HostThere
<1>3. /\ data[Host][n] # 0 => Sender(Host, n) = {data[Host][n]}
      /\ data[Host][n] = 0 => Sender(Host, n) = IdsOf(old, n)
  BY SenderFact DEF HostInv
<1>3a. \A j \in DOMAIN old : j # 0
  <2>1. old \in Pool
    BY DEF HostInv, Types
  <2> QED BY <2>1, PoolFact DEF Slot
<1> HIDE DEF old
<1>4. CASE link[Host][n] = "up"
  <2>1. data[Host][n] # 0 /\ data[Host][n] \in DOMAIN old
    BY <1>1, <1>4 DEF Pointed
  <2>2. Sender(Host, n) = {data[Host][n]}
    BY <1>3, <2>1
  <2>2a. Sender(Host, n) # {} /\ (i \in Sender(Host, n) => i = data[Host][n])
    BY <2>2
  <2>3. x = n /\ i = data[Host][n]
    BY <1>4, <2>2a DEF Admits
  <2> QED BY <1>4, <2>1, <2>3 DEF old
<1>5. CASE link[Host][n] = "none"
  <2>1. data[Host][n] = 0
    BY <1>1, <1>5 DEF Pointed
  <2>2. \A j \in DOMAIN old : old[j].machine # n
    BY <1>1, <1>2, <1>3a, <1>5, <2>1 DEF Pointed
  <2>3. Sender(Host, n) = {}
    BY <1>3, <2>1, <2>2 DEF IdsOf
  <2>4. CASE x = n /\ i \notin DOMAIN old
    BY <1>5, <2>2, <2>4 DEF old
  <2>5. CASE x \in Leftover(Host) /\ i = data[Host][x]
    <3>1. link[Host][x] = "closed" /\ data[Host][x] # 0
      BY <2>5 DEF Leftover
    <3>2. i \in DOMAIN old /\ x # n
      BY <1>1, <1>5, <2>5, <3>1 DEF Pointed
    <3> QED BY <1>5, <2>5, <3>1, <3>2 DEF old
  <2> QED BY <2>3, <2>4, <2>5 DEF Admits, old
<1> QED BY <1>4, <1>5

LEMMA PeerSound ==
    ASSUME HostInv, NEW n \in Machine \ {Host}, phase[Host] = "lobby", link[Host][n] \in {"none", "up"},
           NEW pool \in Pool, NEW lk \in Links, NEW dt \in Pointers, NEW x \in Machine, NEW i \in Slot,
           Admits(Host, n, x, i), pool = Made(player_pool[Host], i, n), Pointing(Host, x, n, i, dt),
           \A b \in Machine : lk[Host][b] = IF b = n THEN "up" ELSE link[Host][b]
    PROVE  /\ Sound(pool, lk, dt)
           /\ \A j \in DOMAIN player_pool[Host] :
                 j \in DOMAIN pool /\ pool[j].machine = player_pool[Host][j].machine
           /\ \A j \in DOMAIN pool \ DOMAIN player_pool[Host] :
                 pool[j].machine = n /\ link[Host][n] = "none"
           /\ \A b \in Machine \ {n} : link[Host][b] # "closed" => dt[Host][b] = data[Host][b]
           /\ link[Host][n] # "none" => dt[Host][n] = data[Host][n]
<1> USE HostAssumption
<1> DEFINE old == player_pool[Host]
           list == reg[Host]
<1>1. old \in Pool /\ Pointed(old, link, data) /\ HostLinks
  BY DEF HostInv, HostLinks, Types
<1>2. 1 \in DOMAIN old /\ old[1].machine = Host /\ old[1].connecting /\ 1 \in Ids(list)
  BY DEF HostInv, HostThere
<1>3. /\ \A j \in Ids(list) : j \in DOMAIN old
            /\ (j # 1 => \E b \in Machine : link[Host][b] = "up" /\ data[Host][b] = j)
      /\ \A j \in DOMAIN old : old[j].authorized <=> j # 1 /\ j \in Ids(list)
  BY DEF HostInv, HostList
<1>4. \A b \in Machine : dt[Host][b] = IF b = n THEN i ELSE IF b = x THEN 0 ELSE data[Host][b]
  BY DEF Pointing
<1>5. /\ DOMAIN pool = DOMAIN old \cup {i} /\ \A j \in DOMAIN old : pool[j] = old[j]
      /\ i \notin DOMAIN old => pool[i] = Desc(n)
  BY <1>1, MadeFact
<1>6. \A j \in DOMAIN old : old[j].machine \in Machine /\ j # 0
  BY <1>1, PoolFact DEF Slot
<1>7. 1 \in Slot /\ i # 0 /\ \A b \in Machine : data[Host][b] \in Slot \cup {0}
  BY ColorAssumption DEF HostInv, Types, Pointers, Slot
<1> HIDE DEF old, list
<1>8. CASE x = n /\ link[Host][n] = "up" /\ data[Host][n] = i /\ i \in DOMAIN old
  <2>1. DOMAIN pool = DOMAIN old
    BY <1>5, <1>8
  <2>2. \A b \in Machine : lk[Host][b] = link[Host][b] /\ dt[Host][b] = data[Host][b]
    BY <1>4, <1>8
  <2>3. Pointed(pool, lk, dt)
    BY <1>1, <1>5, <1>6, <2>1, <2>2 DEF Pointed
  <2>4. Sound(pool, lk, dt)
    BY <1>2, <1>3, <1>5, <2>1, <2>2, <2>3 DEF Sound, list
  <2> QED BY <1>5, <2>1, <2>2, <2>4 DEF old
<1>9. CASE x = n /\ link[Host][n] = "none" /\ i \notin DOMAIN old /\ \A j \in DOMAIN old : old[j].machine # n
  <2>1. pool[i].machine = n /\ pool[i].connecting /\ ~pool[i].authorized
    BY <1>5, <1>9 DEF Desc
  <2>2. \A b \in Machine : /\ b # n => (lk[Host][b] = link[Host][b] /\ dt[Host][b] = data[Host][b])
                           /\ b = n => (lk[Host][b] = "up" /\ dt[Host][b] = i)
    BY <1>4, <1>9
  <2>3. \A b \in Machine : data[Host][b] # i
    BY <1>1, <1>7, <1>9 DEF Pointed
  <2>4. Pointed(pool, lk, dt)
    <3>1. lk[Host][Host] \in {"none", "closed"} /\ \A b \in Machine : lk[Host][b] # "dialled"
      BY <1>1, <2>2 DEF Pointed
    <3>2. /\ \A b \in Machine : lk[Host][b] = "up" => dt[Host][b] # 0
          /\ \A b \in Machine : lk[Host][b] = "none" => dt[Host][b] = 0
      BY <1>1, <1>7, <2>2 DEF Pointed
    <3>3. \A b \in Machine : dt[Host][b] # 0 => dt[Host][b] \in DOMAIN pool \ {1}
      BY <1>1, <1>2, <1>5, <1>9, <2>2 DEF Pointed
    <3>4. \A b \in Machine : dt[Host][b] # 0 /\ lk[Host][b] = "closed" => ~pool[dt[Host][b]].connecting
      BY <1>1, <1>5, <2>2 DEF Pointed
    <3>5. \A b, z \in Machine : dt[Host][b] # 0 /\ dt[Host][b] = dt[Host][z] => b = z
      BY <1>1, <2>2, <2>3 DEF Pointed
    <3>6. \A j, l \in DOMAIN pool : pool[j].machine = pool[l].machine => j = l
      BY <1>1, <1>5, <1>9, <2>1 DEF Pointed
    <3>7. ASSUME NEW j \in DOMAIN pool \ {1}
          PROVE  \/ dt[Host][pool[j].machine] = j
                 \/ lk[Host][pool[j].machine] = "closed" /\ ~pool[j].connecting
      <4>1. CASE j = i
        BY <2>1, <2>2, <4>1
      <4>2. CASE j # i
        <5>1. j \in DOMAIN old \ {1} /\ pool[j] = old[j] /\ old[j].machine \in Machine /\ old[j].machine # n
          BY <1>5, <1>6, <1>9, <4>2
        <5> QED BY <1>1, <2>2, <5>1 DEF Pointed
      <4> QED BY <4>1, <4>2
    <3> QED BY <3>1, <3>2, <3>3, <3>4, <3>5, <3>6, <3>7 DEF Pointed
  <2>5. \A j \in Ids(list) : j \in DOMAIN pool
          /\ (j # 1 => \E b \in Machine : lk[Host][b] = "up" /\ dt[Host][b] = j)
    BY <1>3, <1>5, <1>9, <2>2
  <2>6. \A j \in DOMAIN pool : pool[j].authorized <=> j # 1 /\ j \in Ids(list)
    BY <1>3, <1>5, <1>9, <2>1
  <2>7. Sound(pool, lk, dt)
    BY <1>2, <1>5, <2>4, <2>5, <2>6 DEF Sound, list
  <2> QED BY <1>5, <1>9, <2>1, <2>2, <2>7 DEF old
<1>10. CASE /\ x # n /\ link[Host][n] = "none" /\ link[Host][x] = "closed" /\ data[Host][x] = i
            /\ i \in DOMAIN old
  <2>1. DOMAIN pool = DOMAIN old /\ \A j \in DOMAIN pool : pool[j] = old[j]
    BY <1>5, <1>10
  <2>2. \A b \in Machine : /\ b # n => lk[Host][b] = link[Host][b]
                           /\ b \notin {n, x} => dt[Host][b] = data[Host][b]
                           /\ b = x => dt[Host][b] = 0
                           /\ b = n => (lk[Host][b] = "up" /\ dt[Host][b] = i)
    BY <1>4, <1>10
  <2>3. i # 1 /\ ~old[i].connecting /\ \A b \in Machine : data[Host][b] = i => b = x
    BY <1>1, <1>7, <1>10 DEF Pointed
  <2>4. Pointed(pool, lk, dt)
    <3>1. lk[Host][Host] \in {"none", "closed"} /\ \A b \in Machine : lk[Host][b] # "dialled"
      BY <1>1, <2>2 DEF Pointed
    <3>2. /\ \A b \in Machine : lk[Host][b] = "up" => dt[Host][b] # 0
          /\ \A b \in Machine : lk[Host][b] = "none" => dt[Host][b] = 0
      BY <1>1, <1>7, <1>10, <2>2 DEF Pointed
    <3>3. \A b \in Machine : dt[Host][b] # 0 => dt[Host][b] \in DOMAIN pool \ {1}
      BY <1>1, <1>10, <2>1, <2>2, <2>3 DEF Pointed
    <3>4. \A b \in Machine : dt[Host][b] # 0 /\ lk[Host][b] = "closed" => ~pool[dt[Host][b]].connecting
      BY <1>1, <2>1, <2>2, <3>3 DEF Pointed
    <3>5. \A b, z \in Machine : dt[Host][b] # 0 /\ dt[Host][b] = dt[Host][z] => b = z
      BY <1>1, <2>2, <2>3 DEF Pointed
    <3>6. \A j, l \in DOMAIN pool : pool[j].machine = pool[l].machine => j = l
      BY <1>1, <2>1 DEF Pointed
    <3>7. ASSUME NEW j \in DOMAIN pool \ {1}
          PROVE  \/ dt[Host][pool[j].machine] = j
                 \/ lk[Host][pool[j].machine] = "closed" /\ ~pool[j].connecting
      <4> DEFINE a == old[j].machine
      <4>1. j \in DOMAIN old \ {1} /\ pool[j] = old[j] /\ a \in Machine
        BY <1>6, <2>1
      <4>2. data[Host][a] = j \/ (link[Host][a] = "closed" /\ ~old[j].connecting)
        BY <1>1, <4>1 DEF Pointed
      <4>3. a # n
        <5>1. data[Host][n] = 0
          BY <1>1, <1>10 DEF Pointed
        <5>2. j # 0
          BY <1>6, <4>1
        <5> QED BY <1>10, <4>2, <5>1, <5>2
      <4> HIDE DEF a
      <4>4. CASE a = x
        <5>1. lk[Host][a] = "closed"
          BY <1>10, <2>2, <4>1, <4>3, <4>4
        <5>2. ~old[j].connecting
          BY <1>10, <2>3, <4>2, <4>4
        <5> QED BY <4>1, <5>1, <5>2 DEF a
      <4>5. CASE a # x
        <5>1. dt[Host][a] = data[Host][a] /\ lk[Host][a] = link[Host][a]
          BY <2>2, <4>1, <4>3, <4>5
        <5> QED BY <4>1, <4>2, <5>1 DEF a
      <4> QED BY <4>4, <4>5
    <3> QED BY <3>1, <3>2, <3>3, <3>4, <3>5, <3>6, <3>7 DEF Pointed
  <2>5. \A j \in Ids(list) : j \in DOMAIN pool
          /\ (j # 1 => \E b \in Machine : lk[Host][b] = "up" /\ dt[Host][b] = j)
    BY <1>3, <1>10, <2>1, <2>2
  <2>6. Sound(pool, lk, dt)
    BY <1>2, <1>3, <2>1, <2>4, <2>5 DEF Sound, list
  <2>7. \A b \in Machine \ {n} : link[Host][b] # "closed" => dt[Host][b] = data[Host][b]
    BY <1>10, <2>2
  <2> QED BY <1>10, <2>1, <2>6, <2>7 DEF old
<1> QED BY <1>8, <1>9, <1>10, HostAdmits DEF old

LEMMA PeerSweeps ==
    ASSUME HostInv, NEW n \in Machine, PeerConnects(Host, n)
    PROVE  n # Host /\ \E pool, lk, dt, ch : Sweeping(n, pool, lk, dt, ch)
<1> USE HostAssumption
<1>1. /\ Events(Host, n) /\ Head(chan[n][Host]).type = "CONNECT" /\ phase[Host] = "lobby"
      /\ \E pool, lk, dt, ch : Welcomed(Host, n, pool, lk, dt, ch)
  BY PeerFact DEF HostInv
<1>2. PICK pool, lk, dt, ch : Welcomed(Host, n, pool, lk, dt, ch)
  BY <1>1
<1>3. /\ Event(Host, pool, lk, dt, ch) /\ Admitted(Host, n, pool, dt)
      /\ \A b \in Machine : lk[Host][b] = IF b = n THEN "up" ELSE link[Host][b]
      /\ \A a, b \in Machine : ch[a][b] = Sent(Host, {n}, Answer(Host, n), Took(Host, n, a, b), a, b)
  BY <1>2 DEF Welcomed
<1>4. n # Host
  BY <1>1, HeadAllowed DEF HostInv
<1>5. /\ Swept(Host, pool, lk, dt, ch) /\ pool \in Pool /\ lk \in Links /\ dt \in Pointers
  BY <1>3 DEF Event
<1>6. PICK x \in Machine, i \in Slot :
         /\ Admits(Host, n, x, i) /\ pool = Made(player_pool[Host], i, n) /\ Pointing(Host, x, n, i, dt)
  BY <1>3 DEF Admitted
<1>7. \A b \in Machine : link[Host][b] # "dialled"
  BY DEF HostInv, HostLinks, Pointed
<1>8. link[Host][n] \in {"none", "up"} /\ chan[n][Host] # << >>
  <2>1. link[Host][n] \in {"none", "dialled", "up", "closed"}
    BY DEF HostInv, Types, Links
  <2> QED BY <1>1, <1>7, <2>1 DEF Events
<1>9. /\ Sound(pool, lk, dt)
      /\ \A j \in DOMAIN player_pool[Host] :
            j \in DOMAIN pool /\ pool[j].machine = player_pool[Host][j].machine
      /\ \A j \in DOMAIN pool \ DOMAIN player_pool[Host] :
            pool[j].machine = n /\ link[Host][n] = "none"
      /\ \A b \in Machine \ {n} : link[Host][b] # "closed" => dt[Host][b] = data[Host][b]
      /\ link[Host][n] # "none" => dt[Host][n] = data[Host][n]
  BY <1>1, <1>3, <1>4, <1>5, <1>6, <1>8, PeerSound
<1>13. ASSUME NEW b \in Machine
       PROVE  /\ ch[Host][b] = chan[Host][b]
              /\ ch[b][Host] = Took(Host, n, b, Host)
  <2> DEFINE s == chan[Host][b]
  <2>1. Answer(Host, n) = << >>
    BY <1>7 DEF Answer
  <2>2. Took(Host, n, Host, b) = s
    BY <1>4 DEF Took
  <2>3. s \in Seq(Message)
    BY DEF HostInv, Types, Channels
  <2> HIDE DEF s
  <2>4. s \o << >> = s
    BY <2>3, ConcatEmptySeq
  <2>5. ch[Host][b] = s
    BY <1>3, <2>1, <2>2, <2>4 DEF Sent
  <2>6. ch[b][Host] = Sent(Host, {n}, Answer(Host, n), Took(Host, n, b, Host), b, Host)
    BY <1>3
  <2>7. ch[b][Host] = Took(Host, n, b, Host)
    BY <1>4, <2>6 DEF Sent
  <2> QED BY <2>5, <2>7 DEF s
<1>14. Sweeping(n, pool, lk, dt, ch)
  <2>1. /\ \A b \in Machine \ {n} : lk[Host][b] = link[Host][b]
        /\ lk[Host][n] = "up"
    BY <1>3
  <2>2. /\ \A b \in Machine : ch[Host][b] = chan[Host][b] /\ (b # n => ch[b][Host] = chan[b][Host])
        /\ ch[n][Host] = Tail(chan[n][Host])
    BY <1>13 DEF Took
  <2> QED BY <1>1, <1>5, <1>8, <1>9, <2>1, <2>2 DEF Sweeping
<1> QED BY <1>4, <1>14

LEMMA StrangerSweeps ==
    ASSUME HostInv, NEW n \in Machine, StrangerConnects(Host, n)
    PROVE  n # Host /\ \E pool, lk, dt, ch : Sweeping(n, pool, lk, dt, ch)
<1> USE HostAssumption
<1>1. /\ Events(Host, n) /\ phase[Host] = "lobby" /\ Sender(Host, n) = {}
      /\ \E lk, dt, ch : Event(Host, player_pool[Host], lk, dt, ch) /\ Parted(Host, n, lk, dt, ch)
  BY StrangerFact DEF HostInv
<1>2. PICK lk, dt, ch : Event(Host, player_pool[Host], lk, dt, ch) /\ Parted(Host, n, lk, dt, ch)
  BY <1>1
<1>3. n # Host
  BY <1>1, HeadAllowed DEF HostInv
<1> DEFINE old == player_pool[Host]
           list == reg[Host]
<1>4. /\ Swept(Host, old, lk, dt, ch) /\ old \in Pool /\ lk \in Links /\ dt \in Pointers
      /\ \A b \in Machine : lk[Host][b] = IF b = n THEN "closed" ELSE link[Host][b]
      /\ \A b \in Machine : dt[Host][b] = data[Host][b]
      /\ \A a, b \in Machine : ch[a][b] = IF a = n /\ b = Host THEN << >> ELSE chan[a][b]
  BY <1>2 DEF Event, Parted
<1>5. Pointed(old, link, data)
  BY DEF HostInv, HostLinks
<1>6. /\ 1 \in DOMAIN old /\ old[1].machine = Host /\ old[1].connecting /\ 1 \in Ids(list)
  BY <1>1 DEF HostInv, HostThere
<1>7. /\ \A i \in Ids(list) : i \in DOMAIN old
            /\ (i # 1 => \E b \in Machine : link[Host][b] = "up" /\ data[Host][b] = i)
      /\ \A i \in DOMAIN old : old[i].authorized <=> i # 1 /\ i \in Ids(list)
  BY DEF HostInv, HostList
<1>8. data[Host][n] = 0
  <2>1. data[Host][n] # 0 => Sender(Host, n) = {data[Host][n]}
    BY DEF Sender
  <2> QED BY <1>1, <2>1
<1>8a. \A i \in DOMAIN old : old[i].machine \in Machine /\ i # 0
  BY <1>4, PoolFact DEF Slot
<1> HIDE DEF old, list
<1>9. Sound(old, lk, dt)
  <2>1. Pointed(old, lk, dt)
    BY <1>3, <1>4, <1>5, <1>8, <1>8a DEF Pointed
  <2>2. \A i \in Ids(list) : i \in DOMAIN old
             /\ (i # 1 => \E b \in Machine : lk[Host][b] = "up" /\ dt[Host][b] = i)
    BY <1>4, <1>7, <1>8, <1>8a
  <2> QED BY <1>4, <1>6, <1>7, <2>1, <2>2 DEF Sound, list
<1>10. Sweeping(n, old, lk, dt, ch)
  <2>1. /\ \A b \in Machine : ch[Host][b] = chan[Host][b] /\ (b # n => ch[b][Host] = chan[b][Host])
        /\ ch[n][Host] = << >>
    BY <1>3, <1>4
  <2>2. lk[Host][n] = "closed" /\ \A b \in Machine \ {n} : lk[Host][b] = link[Host][b]
    BY <1>4
  <2> QED BY <1>4, <1>9, <2>1, <2>2 DEF Sweeping, old
<1> QED BY <1>3, <1>10

LEMMA DisconnectSweeps ==
    ASSUME HostInv, NEW n \in Machine, Disconnect(Host, n)
    PROVE  n # Host /\ phase[Host] = "lobby" /\ \E pool, lk, dt, ch : Sweeping(n, pool, lk, dt, ch)
<1> USE HostAssumption
<1>1. /\ phase[Host] \in {"joining", "lobby"} /\ link[Host][n] \in {"dialled", "up"}
      /\ \E lk, dt, ch : /\ Parted(Host, n, lk, dt, ch)
                         /\ \/ phase[Host] = "joining" /\ Left(Host, ch)
                            \/ phase[Host] = "lobby" /\ Event(Host, Unmarked(Host, n), lk, dt, ch)
  BY DisconnectFact DEF HostInv
<1>2. phase[Host] = "lobby"
  BY <1>1 DEF HostInv, HostThere
<1>3. PICK lk, dt, ch : Parted(Host, n, lk, dt, ch) /\ Event(Host, Unmarked(Host, n), lk, dt, ch)
  BY <1>1, <1>2
<1> DEFINE old == player_pool[Host]
           list == reg[Host]
           pool == Unmarked(Host, n)
           f == data[Host][n]
<1>4. /\ Swept(Host, pool, lk, dt, ch) /\ lk \in Links /\ dt \in Pointers
      /\ \A b \in Machine : lk[Host][b] = IF b = n THEN "closed" ELSE link[Host][b]
      /\ \A b \in Machine : dt[Host][b] = data[Host][b]
      /\ \A a, b \in Machine : ch[a][b] = IF a = n /\ b = Host THEN << >> ELSE chan[a][b]
  BY <1>3 DEF Event, Parted
<1>5. Pointed(old, link, data)
  BY DEF HostInv, HostLinks
<1>6. /\ 1 \in DOMAIN old /\ old[1].machine = Host /\ old[1].connecting /\ 1 \in Ids(list)
  BY <1>2 DEF HostInv, HostThere
<1>7. /\ \A i \in Ids(list) : i \in DOMAIN old
            /\ (i # 1 => \E b \in Machine : link[Host][b] = "up" /\ data[Host][b] = i)
      /\ \A i \in DOMAIN old : old[i].authorized <=> i # 1 /\ i \in Ids(list)
  BY DEF HostInv, HostList
<1>8. link[Host][n] = "up" /\ f # 0 /\ f \in DOMAIN old /\ f # 1 /\ \A b \in Machine : data[Host][b] = f => b = n
  BY <1>1, <1>5 DEF Pointed
<1>8a. Sender(Host, n) = {f}
  BY <1>8 DEF Sender
<1>8b. /\ pool \in Pool /\ DOMAIN pool = DOMAIN old
       /\ \A i \in DOMAIN old : /\ pool[i].machine = old[i].machine
                                /\ pool[i].authorized = old[i].authorized
                                /\ pool[i].connecting <=> old[i].connecting /\ i # f
  BY <1>8a, UnmarkedFact DEF HostInv
<1>9. n # Host
  BY <1>5, <1>8 DEF Pointed
<1>10. \A i \in DOMAIN pool : pool[i].machine \in Machine
  BY <1>8b, PoolFact
<1> HIDE DEF old, list, pool, f
<1>12. Sound(pool, lk, dt)
  <2>1. Pointed(pool, lk, dt)
    <3>1. lk[Host][Host] \in {"none", "closed"} /\ \A b \in Machine : lk[Host][b] # "dialled"
      BY <1>4, <1>5 DEF Pointed
    <3>2. /\ \A b \in Machine : lk[Host][b] = "up" => dt[Host][b] # 0
          /\ \A b \in Machine : lk[Host][b] = "none" => dt[Host][b] = 0
      BY <1>4, <1>5 DEF Pointed
    <3>3. \A b \in Machine : dt[Host][b] # 0 => dt[Host][b] \in DOMAIN pool \ {1}
      BY <1>4, <1>5, <1>8b DEF Pointed
    <3>4. ASSUME NEW b \in Machine, dt[Host][b] # 0, lk[Host][b] = "closed"
          PROVE  ~pool[dt[Host][b]].connecting
      <4>1. dt[Host][b] = data[Host][b] /\ data[Host][b] \in DOMAIN old
        BY <1>4, <1>5, <3>4 DEF Pointed
      <4>2. CASE b = n
        BY <1>8b, <4>1, <4>2 DEF f
      <4>3. CASE b # n
        BY <1>4, <1>5, <1>8b, <3>4, <4>1, <4>3 DEF Pointed
      <4> QED BY <4>2, <4>3
    <3>5. \A b, z \in Machine : dt[Host][b] # 0 /\ dt[Host][b] = dt[Host][z] => b = z
      BY <1>4, <1>5 DEF Pointed
    <3>6. \A i, j \in DOMAIN pool : pool[i].machine = pool[j].machine => i = j
      BY <1>5, <1>8b DEF Pointed
    <3>7. \A i \in DOMAIN pool \ {1} :
             \/ dt[Host][pool[i].machine] = i
             \/ lk[Host][pool[i].machine] = "closed" /\ ~pool[i].connecting
      BY <1>4, <1>5, <1>8b, <1>10 DEF Pointed
    <3> QED BY <3>1, <3>2, <3>3, <3>4, <3>5, <3>6, <3>7 DEF Pointed
  <2>2. \A i \in Ids(list) : i \in DOMAIN pool
             /\ (i # 1 /\ pool[i].connecting => \E b \in Machine : lk[Host][b] = "up" /\ dt[Host][b] = i)
    <3> SUFFICES ASSUME NEW i \in Ids(list), i # 1, pool[i].connecting
                 PROVE  \E b \in Machine : lk[Host][b] = "up" /\ dt[Host][b] = i
      BY <1>7, <1>8b
    <3>1. PICK b \in Machine : link[Host][b] = "up" /\ data[Host][b] = i
      BY <1>7
    <3>2. b # n
      BY <1>7, <1>8b, <3>1 DEF f
    <3> QED BY <1>4, <3>1, <3>2
  <2>3. 1 \in DOMAIN pool /\ pool[1].machine = Host /\ pool[1].connecting
    BY <1>6, <1>8, <1>8b
  <2>4. \A i \in DOMAIN pool : pool[i].authorized <=> i # 1 /\ i \in Ids(list)
    BY <1>7, <1>8b
  <2> QED BY <1>4, <1>8b, <2>1, <2>2, <2>3, <2>4 DEF Sound, list
<1>13. Sweeping(n, pool, lk, dt, ch)
  <2>1. /\ \A b \in Machine : ch[Host][b] = chan[Host][b] /\ (b # n => ch[b][Host] = chan[b][Host])
        /\ ch[n][Host] = << >>
    BY <1>4, <1>9
  <2>2. lk[Host][n] = "closed" /\ \A b \in Machine \ {n} : lk[Host][b] = link[Host][b]
    BY <1>4
  <2> QED BY <1>4, <1>8b, <1>12, <2>1, <2>2 DEF Sweeping, old
<1> QED BY <1>2, <1>9, <1>13

LEMMA SweepingKeeps ==
    ASSUME HostInv, NEW n, NEW pool, NEW lk, NEW dt, NEW ch, Sweeping(n, pool, lk, dt, ch),
           phase[Host] = "lobby"
    PROVE  HostLinks' /\ HostThere' /\ HostList'
BY HostSweeps, HostAssumption DEF HostInv, Sweeping

LEMMA PeerKeeps ==
    ASSUME HostInv, NEW m \in Machine, NEW n \in Machine, PeerConnects(m, n)
    PROVE  HostInv'
<1> USE HostAssumption
<1>1. /\ Types' /\ \A a \in Machine \ {m} : Unmoved(a)
      /\ Events(m, n) /\ phase[m] = "lobby" /\ \E pool, lk, dt, ch : Welcomed(m, n, pool, lk, dt, ch)
  BY PeerFact DEF HostInv
<1>2. PICK pool, lk, dt, ch : Welcomed(m, n, pool, lk, dt, ch)
  BY <1>1
<1>3. /\ Event(m, pool, lk, dt, ch) /\ Admitted(m, n, pool, dt)
      /\ \A b \in Machine : lk[m][b] = IF b = n THEN "up" ELSE link[m][b]
      /\ \A a, b \in Machine : ch[a][b] = Sent(m, {n}, Answer(m, n), Took(m, n, a, b), a, b)
  BY <1>2 DEF Welcomed
<1>4. m = Host => n # Host
  BY <1>1, HeadAllowed DEF HostInv
<1>5. \A a, b \in Machine : AllAllowed(ch[a][b], a, b)
  <2>1. link[Host][Host] # "dialled"
    BY DEF HostInv, HostLinks, Pointed
  <2> QED BY <1>1, <1>3, <2>1, WelcomedAllowed DEF HostInv
<1>6. Directions'
  <2>1. m = Host => lk[Host][Host] # "up"
    BY <1>3, <1>4 DEF HostInv, HostLinks, Pointed
  <2> QED BY <1>3, <1>5, <2>1, EventDirections DEF HostInv
<1>7. HostLinks' /\ HostThere' /\ HostList'
  <2>1. CASE m = Host
    BY <1>1, <2>1, PeerSweeps, SweepingKeeps
  <2>2. CASE m # Host
    BY <1>1, <1>3, <2>2, ClientEvent DEF HostInv
  <2> QED BY <2>1, <2>2
<1> QED BY <1>1, <1>6, <1>7 DEF HostInv

LEMMA StrangerKeeps ==
    ASSUME HostInv, NEW m \in Machine, NEW n \in Machine, StrangerConnects(m, n)
    PROVE  HostInv'
<1> USE HostAssumption
<1>1. /\ Types' /\ \A a \in Machine \ {m} : Unmoved(a)
      /\ Events(m, n) /\ phase[m] = "lobby"
      /\ \E lk, dt, ch : Event(m, player_pool[m], lk, dt, ch) /\ Parted(m, n, lk, dt, ch)
  BY StrangerFact DEF HostInv
<1>2. PICK lk, dt, ch : Event(m, player_pool[m], lk, dt, ch) /\ Parted(m, n, lk, dt, ch)
  BY <1>1
<1>3. Directions'
  <2>1. \A a, b \in Machine : AllAllowed(ch[a][b], a, b)
    BY <1>2, PartedAllowed DEF HostInv
  <2>2. m = Host => lk[Host][Host] # "up"
    BY <1>2 DEF Parted, HostInv, HostLinks, Pointed
  <2> QED BY <1>2, <2>1, <2>2, EventDirections DEF HostInv
<1>4. HostLinks' /\ HostThere' /\ HostList'
  <2>1. CASE m = Host
    BY <1>1, <2>1, StrangerSweeps, SweepingKeeps
  <2>2. CASE m # Host
    BY <1>1, <1>2, <2>2, ClientEvent DEF HostInv
  <2> QED BY <2>1, <2>2
<1> QED BY <1>1, <1>3, <1>4 DEF HostInv

LEMMA DisconnectKeeps ==
    ASSUME HostInv, NEW m \in Machine, NEW n \in Machine, Disconnect(m, n)
    PROVE  HostInv'
<1> USE HostAssumption
<1>1. /\ Types' /\ \A a \in Machine \ {m} : Unmoved(a)
      /\ phase[m] \in {"joining", "lobby"} /\ link[m][n] \in {"dialled", "up"}
      /\ \E lk, dt, ch : /\ Parted(m, n, lk, dt, ch)
                         /\ \/ phase[m] = "joining" /\ Left(m, ch)
                            \/ phase[m] = "lobby" /\ Event(m, Unmarked(m, n), lk, dt, ch)
  BY DisconnectFact DEF HostInv
<1>2. PICK lk, dt, ch : /\ Parted(m, n, lk, dt, ch)
                        /\ \/ phase[m] = "joining" /\ Left(m, ch)
                           \/ phase[m] = "lobby" /\ Event(m, Unmarked(m, n), lk, dt, ch)
  BY <1>1
<1>3. \A a, b \in Machine : AllAllowed(ch[a][b], a, b)
  BY <1>2, PartedAllowed DEF HostInv
<1>4. CASE phase[m] = "joining" /\ Left(m, ch)
  <2>1. m # Host
    BY <1>4 DEF HostInv, HostThere
  <2>2. colorAssigned' = colorAssigned /\ Unmoved(Host)
    BY <1>1, <1>4, <2>1 DEF Left
  <2>3. HostLinks' /\ HostThere' /\ HostList'
    BY <2>2, HostAlone DEF HostInv
  <2>4. Directions'
    BY <1>3, <1>4, LeftDirections
  <2> QED BY <1>1, <2>3, <2>4 DEF HostInv
<1>5. CASE phase[m] = "lobby" /\ Event(m, Unmarked(m, n), lk, dt, ch)
  <2>1. Directions'
    <3>1. m = Host => lk[Host][Host] # "up"
      BY <1>2 DEF Parted, HostInv, HostLinks, Pointed
    <3> QED BY <1>3, <1>5, <3>1, EventDirections DEF HostInv
  <2>2. HostLinks' /\ HostThere' /\ HostList'
    <3>1. CASE m = Host
      BY <1>1, <3>1, DisconnectSweeps, SweepingKeeps
    <3>2. CASE m # Host
      BY <1>1, <1>5, <3>2, ClientEvent DEF HostInv
    <3> QED BY <3>1, <3>2
  <2> QED BY <1>1, <2>1, <2>2 DEF HostInv
<1> QED BY <1>2, <1>4, <1>5

LEMMA ReadyKeeps ==
    ASSUME HostInv, NEW m \in Machine, NEW n \in Machine, PlayerReady(m, n)
    PROVE  HostInv'
<1> USE HostAssumption
<1> DEFINE msg == Head(chan[n][m])
           msgs == <<msg>>
           to == Peers(link, m)
<1>1. /\ Types' /\ \A a \in Machine \ {m} : Unmoved(a)
      /\ Got(m, n, "PLAYER_READY") /\ Flags(m, msg.id, msg.flag)
      /\ \A a, b \in Machine : chan'[a][b] =
            IF m = Host THEN Sent(m, to, msgs, Took(m, n, a, b), a, b) ELSE Took(m, n, a, b)
      /\ UNCHANGED <<phase, link, data, player_pool, my_player_id, colorAssigned>>
  BY ReadyFact DEF HostInv
<1>2. Events(m, n) /\ msg.type = "PLAYER_READY" /\ msg \in Message
  BY <1>1, GotFact, HeadAllowed DEF HostInv
<1>3. Directions'
  <2>1. CASE m = Host
    <3>1. Host \notin to
      BY <2>1 DEF Peers, HostInv, HostLinks, Pointed
    <3>2. \A b \in Machine : b \in to => AllAllowed(msgs, m, b)
      BY <1>2, <2>1, <3>1, OneAllowed DEF Allowed
    <3>3. Replies(m, to, msgs, m, n)
      BY <1>1, <2>1 DEF Replies
    <3>4. msgs \in Seq(Message)
      BY <1>2, OneMessage
    <3>5. Events(m, n) /\ Types /\ Directions
      BY <1>2 DEF HostInv
    <3> HIDE DEF to, msgs
    <3> QED BY <3>2, <3>3, <3>4, <3>5, Reply
  <2>2. CASE m # Host
    <3>1. \A a, b \in Machine : chan'[a][b] = Took(m, n, a, b)
      BY <1>1, <2>2
    <3> QED BY <1>2, <3>1, OneLess DEF HostInv
  <2> QED BY <2>1, <2>2
<1>4. HostLinks' /\ HostThere' /\ HostList'
  <2>1. CASE m = Host
    BY <1>1, <2>1, HostFlags DEF Flags, HostInv
  <2>2. CASE m # Host
    BY <1>1, <2>2, HostAlone DEF HostInv
  <2> QED BY <2>1, <2>2
<1> QED BY <1>1, <1>3, <1>4 DEF HostInv

\* The host does not take what only a client may hear.
LEMMA PlayerIdKeeps ==
    ASSUME HostInv, NEW m \in Machine, NEW n \in Machine, PlayerId(m, n)
    PROVE  HostInv'
<1> USE HostAssumption
<1>1. /\ Types' /\ \A a \in Machine \ {m} : Unmoved(a)
      /\ Got(m, n, "PLAYER_ID")
      /\ \A a, b \in Machine : chan'[a][b] = Took(m, n, a, b)
      /\ colorAssigned' = colorAssigned
  BY PlayerIdFact DEF HostInv
<1>2. Events(m, n) /\ m # Host
  BY <1>1, GotFact, Speakers DEF HostInv
<1>3. Directions'
  BY <1>1, <1>2, OneLess DEF HostInv
<1>4. HostLinks' /\ HostThere' /\ HostList'
  BY <1>1, <1>2, HostAlone DEF HostInv
<1> QED BY <1>1, <1>3, <1>4 DEF HostInv

LEMMA AcceptKeeps ==
    ASSUME HostInv, NEW m \in Machine, NEW n \in Machine, AcceptNewPlayer(m, n)
    PROVE  HostInv'
<1> USE HostAssumption
<1> DEFINE msg == Head(chan[n][m])
           msgs == <<[type |-> "CONNECT"]>>
           k == msg.machine
           to == {m}
<1>1. /\ Types' /\ \A a \in Machine \ {m} : Unmoved(a)
      /\ Got(m, n, "ACCEPT_NEW_PLAYER") /\ k \in Machine
      /\ \A a, b \in Machine : chan'[a][b] =
            IF Dials(m, msg) THEN Sent(k, to, msgs, Took(m, n, a, b), a, b) ELSE Took(m, n, a, b)
      /\ colorAssigned' = colorAssigned
  BY AcceptFact DEF HostInv
<1>2. Events(m, n) /\ m # Host /\ n = Host /\ msg.type = "ACCEPT_NEW_PLAYER"
  BY <1>1, GotFact, Speakers DEF HostInv
<1>3. Dials(m, msg) => k # Host
  BY <1>2, HeadAllowed DEF HostInv, Allowed, Dials
<1>4. Directions'
  <2>1. CASE Dials(m, msg)
    <3>1. Replies(k, to, msgs, m, n)
      BY <1>1, <2>1 DEF Replies
    <3>2. msgs \in Seq(Message) /\ \A b \in Machine : b \in to => AllAllowed(msgs, k, b)
      <4> DEFINE new == [type |-> "CONNECT"]
      <4>1. new \in Message /\ new.type = "CONNECT"
        BY SentFact
      <4> HIDE DEF new
      <4>2. <<new>> \in Seq(Message) /\ \A b \in Machine : AllAllowed(<<new>>, k, b)
        BY <1>3, <2>1, <4>1, OneMessage, OneAllowed DEF Allowed, FromClient
      <4> QED BY <4>2 DEF new
    <3>3. Events(m, n) /\ Types /\ Directions /\ k \in Machine
      BY <1>1, <1>2 DEF HostInv
    <3> HIDE DEF k, to, msgs
    <3> QED BY <3>1, <3>2, <3>3, Reply
  <2>2. CASE ~Dials(m, msg)
    <3>1. \A a, b \in Machine : chan'[a][b] = Took(m, n, a, b)
      BY <1>1, <2>2
    <3> QED BY <1>2, <3>1, OneLess DEF HostInv
  <2> QED BY <2>1, <2>2
<1>5. HostLinks' /\ HostThere' /\ HostList'
  BY <1>1, <1>2, HostAlone DEF HostInv
<1> QED BY <1>1, <1>4, <1>5 DEF HostInv

LEMMA ColorKeeps ==
    ASSUME HostInv, NEW m \in Machine, NEW n \in Machine, AcceptColor(m, n)
    PROVE  HostInv'
<1> USE HostAssumption
<1>1. /\ Types' /\ Got(m, n, "ACCEPT_COLOR")
      /\ \A a \in Machine : player_nation_color'[a] =
            IF a = m THEN Head(chan[n][m]).color ELSE player_nation_color[a]
      /\ \A a, b \in Machine : chan'[a][b] = Took(m, n, a, b)
      /\ UNCHANGED <<phase, link, data, player_pool, my_player_id, reg, selfReadyFlag, colorAssigned>>
  BY ColorFact DEF HostInv
<1>2. Events(m, n) /\ m # Host
  BY <1>1, GotFact, Speakers DEF HostInv
<1>3. Directions'
  BY <1>1, <1>2, OneLess DEF HostInv
<1>4. Unmoved(Host)
  BY <1>1, <1>2 DEF Unmoved
<1>5. HostLinks' /\ HostThere' /\ HostList'
  BY <1>1, <1>4, HostAlone DEF HostInv
<1> QED BY <1>1, <1>3, <1>5 DEF HostInv

LEMMA GoneKeeps ==
    ASSUME HostInv, NEW m \in Machine, NEW n \in Machine, PlayerDisconnect(m, n)
    PROVE  HostInv'
<1> USE HostAssumption
<1> DEFINE cut == CutOff(m, Head(chan[n][m]).id)
<1>1. /\ Types' /\ \A a \in Machine \ {m} : Unmoved(a)
      /\ Got(m, n, "PLAYER_DISCONNECT")
      /\ \A a, b \in Machine : chan'[a][b] = IF a \in cut /\ b = m THEN << >> ELSE Took(m, n, a, b)
      /\ colorAssigned' = colorAssigned
  BY GoneFact DEF HostInv
<1>2. Events(m, n) /\ m # Host
  BY <1>1, GotFact, Speakers DEF HostInv
<1>3. Directions'
  <2>1. ASSUME NEW a \in Machine, NEW b \in Machine PROVE AllAllowed(chan'[a][b], a, b)
    <3>1. AllAllowed(Took(m, n, a, b), a, b)
      BY <1>2, TookAllowed DEF HostInv
    <3>2. AllAllowed(<< >>, a, b)
      BY DEF AllAllowed
    <3> QED BY <1>1, <3>1, <3>2
  <2> QED BY <2>1 DEF Directions
<1>4. HostLinks' /\ HostThere' /\ HostList'
  BY <1>1, <1>2, HostAlone DEF HostInv
<1> QED BY <1>1, <1>3, <1>4 DEF HostInv

LEMMA DismissedKeeps ==
    ASSUME HostInv, NEW m \in Machine, NEW n \in Machine, Dismissed(m, n)
    PROVE  HostInv'
<1> USE HostAssumption
<1> DEFINE ch == Taken(m, n)
<1>1. /\ Types' /\ \A a \in Machine \ {m} : Unmoved(a)
      /\ Got(m, n, "REFUSE_NEW_PLAYER") \/ Got(m, n, "ABORT_GAME")
      /\ Left(m, ch) /\ \A a, b \in Machine : ch[a][b] = Took(m, n, a, b)
  BY DismissedFact DEF HostInv
<1>2. Events(m, n) /\ m # Host
  BY <1>1, GotFact, Speakers DEF HostInv
<1> HIDE DEF ch
<1>3. \A a, b \in Machine : AllAllowed(ch[a][b], a, b)
  BY <1>1, <1>2, TookAllowed DEF HostInv
<1>4. Directions'
  BY <1>1, <1>3, LeftDirections
<1>5. colorAssigned' = colorAssigned
  BY <1>1, <1>2 DEF Left
<1>6. HostLinks' /\ HostThere' /\ HostList'
  BY <1>1, <1>2, <1>5, HostAlone DEF HostInv
<1> QED BY <1>1, <1>4, <1>6 DEF HostInv

LEMMA NewPlayerKeeps ==
    ASSUME HostInv, NEW n \in Machine, NewPlayer(n)
    PROVE  HostInv'
<1> USE HostAssumption
<1> DEFINE f == data[Host][n]
<1>1. Got(Host, n, "NEW_PLAYER")
  BY DEF NewPlayer
<1>2. Events(Host, n) /\ phase[Host] = "lobby" /\ link[Host][n] = "up" /\ n # Host
  BY <1>1, GotFact, Speakers DEF HostInv
<1>3. f # 0 /\ f # 1 /\ f \in DOMAIN player_pool[Host]
  BY <1>2 DEF HostInv, HostLinks, Pointed
<1>3a. player_pool[Host][f].machine # Host /\ player_pool[Host][f].machine \in Machine
  <2>1. player_pool[Host] \in Pool
    BY DEF HostInv, Types
  <2>2. player_pool[Host][f] \in Player
    BY <1>3, <2>1, PoolFact
  <2>3. 1 \in DOMAIN player_pool[Host] /\ player_pool[Host][1].machine = Host
    BY <1>2 DEF HostInv, HostThere
  <2>4. \A i, j \in DOMAIN player_pool[Host] :
           player_pool[Host][i].machine = player_pool[Host][j].machine => i = j
    BY DEF HostInv, HostLinks, Pointed
  <2> QED BY <1>3, <2>2, <2>3, <2>4 DEF Player
<1>4. /\ Types' /\ f \in Slot /\ ~player_pool[Host][f].authorized
      /\ \E c \in Color : EnlistedSent(n, f, c)
      /\ UNCHANGED <<phase, link, data, my_player_id>>
  BY <1>3, NewPlayerFact DEF HostInv
<1>5. PICK c \in Color : EnlistedSent(n, f, c)
  BY <1>4
<1> HIDE DEF f
<1>6. Enlisted(n, f, c) /\ \A a, b \in Machine : chan'[a][b] = Announced(n, f, c, a, b)
  BY <1>5 DEF EnlistedSent
<1>7. HostLinks' /\ HostThere' /\ HostList'
  BY <1>2, <1>3, <1>4, <1>6, HostEnlists DEF HostInv, f
<1>8. Directions'
  <2> DEFINE idMsg == <<[type |-> "PLAYER_ID", id |-> f]>>
             accept == <<AcceptMsg(f, player_pool[Host][f].machine, TRUE)>>
             list == PlayerList(player_pool[Host], f)
             flags == ReadyList(reg[Host])
             color == <<ColorMsg(c)>>
             more == list \o color \o flags
             to == {n}
             all == Peers(link, Host)
  <2>1. /\ idMsg \in Seq(Message) /\ \A b \in Machine \ {Host} : AllAllowed(idMsg, Host, b)
    <3> DEFINE msg == [type |-> "PLAYER_ID", id |-> f]
    <3>1. msg \in Message /\ msg.type = "PLAYER_ID" /\ msg.id # 1
      BY <1>3, <1>4, SentFact
    <3> HIDE DEF msg
    <3>2. <<msg>> \in Seq(Message) /\ \A b \in Machine \ {Host} : AllAllowed(<<msg>>, Host, b)
      BY <3>1, OneMessage, OneAllowed DEF Allowed
    <3> QED BY <3>2 DEF msg
  <2>2. accept \in Seq(Message) /\ \A b \in Machine \ {Host} : AllAllowed(accept, Host, b)
    <3> DEFINE z == player_pool[Host][f].machine
               msg == AcceptMsg(f, z, TRUE)
    <3>0. z \in Machine \ {Host}
      BY <1>3a
    <3> HIDE DEF z
    <3>1. msg \in Message /\ msg.type = "ACCEPT_NEW_PLAYER" /\ msg.machine = z /\ msg.id # 1
      BY <1>3, <1>4, <3>0, SentFact DEF AcceptMsg
    <3> HIDE DEF msg
    <3>2. <<msg>> \in Seq(Message) /\ \A b \in Machine \ {Host} : AllAllowed(<<msg>>, Host, b)
      BY <3>0, <3>1, OneMessage, OneAllowed DEF Allowed
    <3>3. accept = <<msg>>
      BY DEF accept, msg, z
    <3> QED BY <3>2, <3>3
  <2>3. color \in Seq(Message) /\ \A k \in DOMAIN color : color[k].type = "ACCEPT_COLOR"
    <3> DEFINE msg == ColorMsg(c)
    <3>1. msg \in Message /\ msg.type = "ACCEPT_COLOR"
      BY SentFact DEF ColorMsg
    <3> HIDE DEF msg
    <3>2. <<msg>> \in Seq(Message) /\ \A k \in DOMAIN <<msg>> : <<msg>>[k] = msg
      BY <3>1, OneMessage
    <3> QED BY <3>1, <3>2 DEF msg
  <2>4. player_pool[Host] \in Pool /\ reg[Host] \in Seq(RegEntry)
    BY DEF HostInv, Types
  <2>5. /\ list \in Seq(Message)
        /\ \A k \in DOMAIN list : list[k].type = "ACCEPT_NEW_PLAYER" /\ ~list[k].make_contact
                                  /\ (list[k].id = 1 => list[k].machine = Host)
    <3>1. player_pool[Host][1].machine = Host
      BY <1>2 DEF HostInv, HostThere
    <3> QED BY <2>4, <3>1, PlayerListWords
  <2>6. flags \in Seq(Message) /\ \A k \in DOMAIN flags : flags[k].type = "PLAYER_READY"
    BY <2>4, ReadyListFact
  <2> HIDE DEF list, flags, color
  <2>7. more \in Seq(Message) /\ \A b \in Machine \ {Host} : AllAllowed(more, Host, b)
    <3> DEFINE s == list \o color
    <3>1. s \in Seq(Message) /\ \A k \in DOMAIN s :
             (k \in DOMAIN list /\ s[k] = list[k]) \/ \E l \in DOMAIN color : s[k] = color[l]
      BY <2>3, <2>5, ConcatFact
    <3>2. \A k \in DOMAIN s : s[k].type = "ACCEPT_COLOR"
                              \/ (s[k].type = "ACCEPT_NEW_PLAYER" /\ ~s[k].make_contact
                                    /\ (s[k].id = 1 => s[k].machine = Host))
      BY <2>3, <2>5, <3>1
    <3> HIDE DEF s
    <3>3. s \o flags \in Seq(Message) /\ \A k \in DOMAIN (s \o flags) :
             (k \in DOMAIN s /\ (s \o flags)[k] = s[k]) \/ \E l \in DOMAIN flags : (s \o flags)[k] = flags[l]
      BY <2>6, <3>1, ConcatFact
    <3> DEFINE t == s \o flags
    <3>4. t \in Seq(Message) /\ \A k \in DOMAIN t :
             (k \in DOMAIN s /\ t[k] = s[k]) \/ \E l \in DOMAIN flags : t[k] = flags[l]
      BY <3>3
    <3>5. more = t
      BY DEF s
    <3> HIDE DEF t, more
    <3>6. \A k \in DOMAIN t : \/ t[k].type \in {"ACCEPT_COLOR", "PLAYER_READY"}
                              \/ t[k].type = "ACCEPT_NEW_PLAYER" /\ ~t[k].make_contact
                                   /\ (t[k].id = 1 => t[k].machine = Host)
      BY <2>6, <3>2, <3>4
    <3>7. \A b \in Machine \ {Host} : AllAllowed(t, Host, b)
      BY <3>6 DEF AllAllowed, Allowed
    <3> QED BY <3>4, <3>5, <3>7
  <2>8. n \in Machine \ {Host} /\ Host \notin all
    BY <1>2 DEF Peers, HostInv, HostLinks, Pointed
  <2>9. \A a, b \in Machine : chan'[a][b] =
          Sent(Host, to, more, Sent(Host, all, accept, Sent(Host, to, idMsg, Took(Host, n, a, b), a, b), a, b), a, b)
    BY <1>6 DEF Announced, list, flags, color
  <2> HIDE DEF idMsg, accept, more, all
  <2>10. ASSUME NEW a \in Machine, NEW b \in Machine PROVE AllAllowed(chan'[a][b], a, b)
    <3> DEFINE s0 == Took(Host, n, a, b)
               s1 == Sent(Host, to, idMsg, s0, a, b)
               s2 == Sent(Host, all, accept, s1, a, b)
               s3 == Sent(Host, to, more, s2, a, b)
    <3>1. chan'[a][b] = s3
      BY <2>9
    <3>2. s0 \in Seq(Message) /\ AllAllowed(s0, a, b)
      BY <1>2, TookAllowed DEF HostInv
    <3>3. /\ a = Host /\ b \in to => b \in Machine \ {Host}
          /\ a = Host /\ b \in all => b \in Machine \ {Host}
      BY <2>8
    <3> HIDE DEF to, s0
    <3>4. s1 \in Seq(Message) /\ AllAllowed(s1, a, b)
      BY <2>1, <3>2, <3>3, SentAllowed
    <3> HIDE DEF s1
    <3>5. s2 \in Seq(Message) /\ AllAllowed(s2, a, b)
      BY <2>2, <3>3, <3>4, SentAllowed
    <3> HIDE DEF s2
    <3>6. s3 \in Seq(Message) /\ AllAllowed(s3, a, b)
      BY <2>7, <3>3, <3>5, SentAllowed
    <3> QED BY <3>1, <3>6
  <2> QED BY <2>10 DEF Directions
<1> QED BY <1>4, <1>7, <1>8 DEF HostInv

LEMMA RefuseKeeps ==
    ASSUME HostInv, NEW n \in Machine, RefusePlayer(n)
    PROVE  HostInv'
<1> USE HostAssumption
<1> DEFINE msg == [type |-> "REFUSE_NEW_PLAYER"]
           msgs == <<msg>>
           to == {n}
<1>1. /\ Types' /\ Got(Host, n, "NEW_PLAYER")
      /\ \A a, b \in Machine : chan'[a][b] = Sent(Host, to, msgs, Took(Host, n, a, b), a, b)
      /\ UNCHANGED <<phase, link, data, lobby, clicks>>
  BY RefuseFact DEF HostInv
<1>2. Events(Host, n) /\ n # Host
  BY <1>1, GotFact, Speakers DEF HostInv
<1>3. msg \in Message /\ msg.type = "REFUSE_NEW_PLAYER"
  BY SentFact
<1> HIDE DEF msg
<1>4. msgs \in Seq(Message) /\ \A b \in Machine : b \in to => AllAllowed(msgs, Host, b)
  BY <1>2, <1>3, OneMessage, OneAllowed DEF Allowed
<1>5. Replies(Host, to, msgs, Host, n) /\ Types /\ Directions
  BY <1>1 DEF Replies, HostInv, msg
<1> HIDE DEF msgs, to
<1>6. Directions'
  BY <1>2, <1>4, <1>5, Reply
<1>7. Unmoved(Host) /\ colorAssigned' = colorAssigned
  BY <1>1 DEF Unmoved, lobby
<1>8. HostLinks' /\ HostThere' /\ HostList'
  BY <1>7, HostAlone DEF HostInv
<1> QED BY <1>1, <1>6, <1>8 DEF HostInv

LEMMA AcquireKeeps ==
    ASSUME HostInv, NEW m \in Machine, NEW n \in Machine, AcquireColor(m, n)
    PROVE  HostInv'
<1> USE HostAssumption
<1> DEFINE f == From(m, n)
           c == Head(chan[n][m]).color
           msg == ColorMsg(c)
           msgs == <<msg>>
           to == {n}
           does == m = Host /\ c \notin colorAssigned /\ f \in Ids(reg[Host])
<1>1. /\ Types' /\ \A a \in Machine \ {Host} : reg'[a] = reg[a]
      /\ Got(m, n, "ACQUIRE_COLOR") /\ c \in Color
      /\ IF does
         THEN /\ Recolored(f, c)
              /\ \A a, b \in Machine : chan'[a][b] = Sent(m, to, msgs, Took(m, n, a, b), a, b)
         ELSE /\ \A a, b \in Machine : chan'[a][b] = Took(m, n, a, b)
              /\ UNCHANGED <<colorAssigned, reg>>
      /\ UNCHANGED <<phase, link, data, player_pool, my_player_id, selfReadyFlag,
                     player_nation_color, clicks>>
  BY AcquireFact DEF HostInv
<1>2. Events(m, n) /\ n # Host /\ phase[m] = "lobby"
  BY <1>1, GotFact, Speakers DEF HostInv
<1>3. msg \in Message /\ msg.type = "ACCEPT_COLOR"
  BY <1>1, SentFact DEF ColorMsg
<1>4. CASE does
  <2>1. Replies(m, to, msgs, m, n) /\ Types /\ Directions /\ Recolored(f, c)
    BY <1>1, <1>4 DEF Replies, HostInv
  <2>1a. m = Host
    BY <1>4
  <2> HIDE DEF msg
  <2>2. msgs \in Seq(Message) /\ \A b \in Machine : b \in to => AllAllowed(msgs, m, b)
    BY <1>2, <1>3, <2>1a, OneMessage, OneAllowed DEF Allowed
  <2> HIDE DEF msgs, to, f, c
  <2>3. Directions'
    BY <1>2, <2>1, <2>2, Reply
  <2>3a. phase[Host] # "gone" /\ UNCHANGED <<phase, link, data, player_pool, my_player_id>>
    BY <1>1, <1>2, <2>1a
  <2>4. HostLinks' /\ HostThere' /\ HostList'
    BY <2>1, <2>3a, HostRecolors DEF HostInv
  <2> QED BY <1>1, <2>3, <2>4 DEF HostInv
<1>5. CASE ~does
  <2>1. Directions'
    BY <1>1, <1>2, <1>5, OneLess DEF HostInv
  <2>2. Unmoved(Host) /\ colorAssigned' = colorAssigned
    BY <1>1, <1>5 DEF Unmoved
  <2>3. HostLinks' /\ HostThere' /\ HostList'
    BY <2>2, HostAlone DEF HostInv
  <2> QED BY <1>1, <2>1, <2>3 DEF HostInv
<1> QED BY <1>4, <1>5

LEMMA HostColorKeeps ==
    ASSUME HostInv, NEW c \in Color, HostClicksColor(c)
    PROVE  HostInv'
<1> USE HostAssumption
<1>1. phase[Host] = "lobby"
  BY DEF HostClicksColor, Click
<1>2. 1 \in Ids(reg[Host])
  BY <1>1 DEF HostInv, HostThere
<1>3. /\ Types' /\ Recolored(1, c)
      /\ UNCHANGED <<phase, link, data, chan, player_pool, my_player_id>>
  BY <1>2, HostColorFact DEF HostInv
<1>4. Directions'
  BY <1>3, SameWords DEF HostInv
<1>5. HostLinks' /\ HostThere' /\ HostList'
  BY <1>1, <1>3, HostRecolors DEF HostInv
<1> QED BY <1>3, <1>4, <1>5 DEF HostInv

LEMMA AskKeeps ==
    ASSUME HostInv, NEW m \in Machine, NEW c \in Color, ClientClicksColor(m, c)
    PROVE  HostInv'
<1> USE HostAssumption
<1> DEFINE msg == [type |-> "ACQUIRE_COLOR", color |-> c]
           msgs == <<msg>>
           to == Asked(m)
<1>1. /\ Types' /\ m # Host /\ \A a, b \in Machine : chan'[a][b] = Sent(m, to, msgs, chan[a][b], a, b)
      /\ UNCHANGED <<phase, link, data, lobby>>
  BY AskFact DEF HostInv
<1>2. msg \in Message /\ msg.type = "ACQUIRE_COLOR"
  BY SentFact
<1>3. Says(m, to, msgs) /\ Types /\ Directions /\ m # Host
  BY <1>1 DEF Says, HostInv
<1> HIDE DEF msg
<1>4. msgs \in Seq(Message) /\ \A b \in Machine : b \in to => AllAllowed(msgs, m, b)
  BY <1>2, <1>3, OneMessage, OneAllowed DEF Allowed, FromClient
<1> HIDE DEF msgs, to
<1>5. Directions'
  BY <1>3, <1>4, Word
<1>6. Unmoved(Host) /\ colorAssigned' = colorAssigned
  BY <1>1 DEF Unmoved, lobby
<1>7. HostLinks' /\ HostThere' /\ HostList'
  BY <1>6, HostAlone DEF HostInv
<1> QED BY <1>1, <1>5, <1>7 DEF HostInv

LEMMA TurnKeeps ==
    ASSUME HostInv, NEW m \in Machine, ClickReady(m)
    PROVE  HostInv'
<1> USE HostAssumption
<1> DEFINE i == my_player_id[m]
           msg == ReadyMsg(i, ~selfReadyFlag[m])
           msgs == <<msg>>
           to == Peers(link, m)
<1>1. /\ Types' /\ \A a \in Machine \ {m} : Unmoved(a)
      /\ i \in Slot /\ reg'[m] \in Seq(RegEntry) /\ Reflagged(reg[m], reg'[m])
      /\ \A a, b \in Machine : chan'[a][b] = Sent(m, to, msgs, chan[a][b], a, b)
      /\ UNCHANGED <<phase, link, data, player_pool, my_player_id, colorAssigned>>
  BY TurnFact DEF HostInv
<1>2. msg \in Message /\ msg.type = "PLAYER_READY"
  <2>1. (~selfReadyFlag[m]) \in BOOLEAN
    BY DEF HostInv, Types
  <2> QED BY <1>1, <2>1, SentFact DEF ReadyMsg
<1>3. Says(m, to, msgs) /\ Types /\ Directions
  BY <1>1 DEF Says, HostInv
<1>4. m = Host => Host \notin to
  BY DEF Peers, HostInv, HostLinks, Pointed
<1> HIDE DEF msg, to
<1>5. msgs \in Seq(Message) /\ \A b \in Machine : b \in to => AllAllowed(msgs, m, b)
  BY <1>2, <1>4, OneMessage, OneAllowed DEF Allowed, FromClient
<1> HIDE DEF msgs
<1>6. Directions'
  BY <1>3, <1>5, Word
<1>7. HostLinks' /\ HostThere' /\ HostList'
  <2>1. CASE m = Host
    BY <1>1, <2>1, HostFlags DEF HostInv
  <2>2. CASE m # Host
    BY <1>1, <2>2, HostAlone DEF HostInv
  <2> QED BY <2>1, <2>2
<1> QED BY <1>1, <1>6, <1>7 DEF HostInv

LEMMA JoinKeeps ==
    ASSUME HostInv, NEW c \in Client, JoinSession(c)
    PROVE  HostInv'
<1> USE HostAssumption
<1> DEFINE msg == [type |-> "CONNECT"]
           msgs == <<msg>>
           to == {c}
<1>1. c \in Machine /\ c # Host
  BY DEF Client
<1>2. /\ Types' /\ \A a \in Machine \ {c} : Unmoved(a)
      /\ \A a, b \in Machine : chan'[a][b] = Sent(Host, to, msgs, chan[a][b], a, b)
      /\ colorAssigned' = colorAssigned
  BY <1>1, JoinFact DEF HostInv
<1>3. msg \in Message /\ msg.type = "CONNECT"
  BY SentFact
<1>4. Says(Host, to, msgs) /\ Types /\ Directions
  BY <1>2 DEF Says, HostInv
<1> HIDE DEF msg
<1>5. msgs \in Seq(Message) /\ \A b \in Machine : b \in to => AllAllowed(msgs, Host, b)
  BY <1>1, <1>3, OneMessage, OneAllowed DEF Allowed
<1> HIDE DEF msgs, to
<1>6. Directions'
  BY <1>4, <1>5, Word
<1>7. HostLinks' /\ HostThere' /\ HostList'
  BY <1>1, <1>2, HostAlone DEF HostInv
<1> QED BY <1>2, <1>6, <1>7 DEF HostInv

LEMMA CancelKeeps ==
    ASSUME HostInv, NEW c \in Client, CancelJoin(c)
    PROVE  HostInv'
<1> USE HostAssumption
<1>1. c \in Machine /\ c # Host
  BY DEF Client
<1>2. /\ Types' /\ \A a \in Machine \ {c} : Unmoved(a)
      /\ UNCHANGED <<link, data, chan, lobby, clicks>>
  BY <1>1, CancelFact DEF HostInv
<1>3. Directions'
  BY <1>2, SameWords DEF HostInv
<1>4. HostLinks' /\ HostThere' /\ HostList'
  BY <1>1, <1>2, HostAlone DEF HostInv, lobby
<1> QED BY <1>2, <1>3, <1>4 DEF HostInv

LEMMA LeaveKeeps ==
    ASSUME HostInv, NEW m \in Machine, Leave(m)
    PROVE  HostInv'
<1> USE HostAssumption
<1>1. /\ Types' /\ \A a \in Machine \ {m} : Unmoved(a)
      /\ \E ch : Left(m, ch) /\ \A a, b \in Machine : ch[a][b] = LeftWord(m, a, b)
  BY LeaveFact DEF HostInv
<1>2. PICK ch : Left(m, ch) /\ \A a, b \in Machine : ch[a][b] = LeftWord(m, a, b)
  BY <1>1
<1>3. ASSUME NEW a \in Machine, NEW b \in Machine PROVE AllAllowed(ch[a][b], a, b)
  <2> DEFINE msg == [type |-> "ABORT_GAME"]
             msgs == <<msg>>
             to == Peers(link, m)
             old == chan[a][b]
  <2>1. old \in Seq(Message) /\ AllAllowed(old, a, b)
    BY DEF HostInv, Types, Channels, Directions
  <2>2. ch[a][b] = IF m = Host THEN Sent(m, to, msgs, old, a, b) ELSE old
    BY <1>2 DEF LeftWord
  <2>3. msg \in Message /\ msg.type = "ABORT_GAME"
    BY SentFact
  <2>4. m = Host => Host \notin to
    BY DEF Peers, HostInv, HostLinks, Pointed
  <2> HIDE DEF msg, to, old
  <2>5. msgs \in Seq(Message) /\ (m = Host => (a = m /\ b \in to => AllAllowed(msgs, a, b)))
    BY <2>3, <2>4, OneMessage, OneAllowed DEF Allowed
  <2> HIDE DEF msgs
  <2>6. m = Host => AllAllowed(Sent(m, to, msgs, old, a, b), a, b)
    BY <2>1, <2>5, SentAllowed
  <2> QED BY <2>1, <2>2, <2>6
<1>4. Directions'
  BY <1>2, <1>3, LeftDirections
<1>5. HostLinks' /\ HostThere' /\ HostList'
  <2>1. CASE m # Host
    <3>1. colorAssigned' = colorAssigned
      BY <1>2, <2>1 DEF Left
    <3> QED BY <1>1, <2>1, <3>1, HostAlone DEF HostInv
  <2>2. CASE m = Host
    <3>1. /\ phase'[Host] = "gone" /\ player_pool'[Host] = << >> /\ reg'[Host] = << >>
          /\ colorAssigned' = {} /\ \A n \in Machine : link'[Host][n] = "closed" /\ data'[Host][n] = 0
      BY <1>2, <2>2 DEF Left
    <3>2. DOMAIN player_pool'[Host] = {} /\ DOMAIN reg'[Host] = {}
      BY <3>1
    <3>3. Ids(reg'[Host]) = {}
      BY <3>2 DEF Ids
    <3>4. HostLinks'
      BY <3>1, <3>2 DEF HostLinks, Pointed
    <3>5. HostThere'
      BY <3>1, <3>2 DEF HostThere
    <3>6. HostList'
      BY <3>1, <3>2, <3>3 DEF HostList, UniqueIds
    <3> QED BY <3>4, <3>5, <3>6
  <2> QED BY <2>1, <2>2
<1> QED BY <1>1, <1>4, <1>5 DEF HostInv

LEMMA StartKeeps ==
    ASSUME HostInv, Start
    PROVE  HostInv'
<1> USE HostAssumption
<1>1. /\ Types' /\ phase[Host] = "lobby" /\ phase'[Host] = "started"
      /\ UNCHANGED <<link, data, chan, lobby, clicks>>
  BY StartFact DEF HostInv
<1>2. Directions'
  BY <1>1, SameWords DEF HostInv
<1>3. HostLinks'
  BY <1>1 DEF HostInv, HostLinks, Pointed, lobby
<1>4. HostThere'
  BY <1>1 DEF HostInv, HostThere, lobby, Ids
<1>5. HostList'
  BY <1>1 DEF HostInv, HostList, lobby, UniqueIds, Ids
<1> QED BY <1>1, <1>2, <1>3, <1>4, <1>5 DEF HostInv

-----------------------------------------------------------------------------
(* The theorems about the host *)

LEMMA HostInit == Init => HostInv
<1> USE HostAssumption, ColorAssumption
<1> SUFFICES ASSUME Init PROVE HostInv
  OBVIOUS
<1>1. Entry(1, 1) \in RegEntry /\ Entry(1, 1).id = 1 /\ Entry(1, 1).color = 1
  BY DEF Entry, RegEntry, Slot, Color
<1>2. <<Entry(1, 1)>> \in Seq(RegEntry) /\ DOMAIN <<Entry(1, 1)>> = {1} /\ <<Entry(1, 1)>>[1] = Entry(1, 1)
  BY <1>1
<1>3. Desc(Host) \in Player /\ Desc(Host).machine = Host /\ Desc(Host).connecting /\ ~Desc(Host).authorized
  BY DEF Desc, Player
<1>4. /\ <<Desc(Host)>> \in [{1} -> Player] /\ DOMAIN <<Desc(Host)>> = {1}
      /\ <<Desc(Host)>>[1] = Desc(Host) /\ {1} \in SUBSET Slot
  BY <1>3 DEF Slot
<1>5. << >> \in [{} -> Player] /\ {} \in SUBSET Slot /\ << >> \in Seq(RegEntry) /\ << >> \in Seq(Message)
  OBVIOUS
<1>6. <<Desc(Host)>> \in Pool /\ << >> \in Pool
  BY <1>4, <1>5, PoolIntro
<1>7. 1 \in Slot /\ 1 \in Color
  BY DEF Slot, Color
<1> DEFINE list == <<Entry(1, 1)>>
           pool == <<Desc(Host)>>
<1>8. reg[Host] = list /\ player_pool[Host] = pool
  BY DEF Init
<1>9. /\ list \in Seq(RegEntry) /\ DOMAIN list = {1} /\ list[1].id = 1 /\ list[1].color = 1
      /\ pool \in Pool /\ DOMAIN pool = {1} /\ pool[1].machine = Host /\ pool[1].connecting
      /\ ~pool[1].authorized
  BY <1>1, <1>2, <1>3, <1>4, <1>6
<1> HIDE DEF list, pool
<1>10. Types
  <2>1. /\ phase \in [Machine -> {"away", "joining", "lobby", "started", "gone"}]
        /\ link \in Links /\ data \in Pointers /\ selfReadyFlag \in [Machine -> BOOLEAN]
        /\ my_player_id \in [Machine -> Slot \cup {0}]
        /\ player_nation_color \in [Machine -> Color \cup {0}]
        /\ clicks \in [Machine -> Nat] /\ colorAssigned \in SUBSET Color
    BY <1>7 DEF Init, Links, Pointers
  <2>2. chan \in Channels
    BY <1>5 DEF Init, Channels
  <2>3. player_pool \in [Machine -> Pool]
    BY <1>6, <1>9 DEF Init, pool
  <2>4. reg \in [Machine -> Seq(RegEntry)]
    BY <1>2, <1>5 DEF Init
  <2> QED BY <2>1, <2>2, <2>3, <2>4 DEF Types
<1>11. Directions
  <2>1. \A a, b \in Machine : chan[a][b] = << >>
    BY DEF Init
  <2> QED BY <2>1 DEF Directions, AllAllowed
<1>12. \A n \in Machine : link[Host][n] = "none" /\ data[Host][n] = 0
  BY DEF Init
<1>13. HostLinks
  BY <1>8, <1>9, <1>12 DEF HostLinks, Pointed
<1>14. Ids(list) = {1}
  BY <1>9 DEF Ids
<1>15. phase[Host] = "lobby" /\ my_player_id[Host] = 1 /\ colorAssigned = {1}
  BY DEF Init
<1>16. HostThere
  BY <1>8, <1>9, <1>14, <1>15 DEF HostThere
<1>17. HostList
  BY <1>8, <1>9, <1>14, <1>15 DEF HostList, UniqueIds
<1> QED BY <1>10, <1>11, <1>13, <1>16, <1>17 DEF HostInv

\* An event at m that comes from n.
LEMMA ReceiveKeeps ==
    ASSUME HostInv, NEW m \in Machine, NEW n \in Machine, Receive(m, n)
    PROVE  HostInv'
<1>1. CASE EnterLobby(m, n)
  BY <1>1, EnterKeeps
<1>2. CASE PeerConnects(m, n)
  BY <1>2, PeerKeeps
<1>3. CASE StrangerConnects(m, n)
  BY <1>3, StrangerKeeps
<1>4. CASE Disconnect(m, n)
  BY <1>4, DisconnectKeeps
<1>5. CASE PlayerReady(m, n)
  BY <1>5, ReadyKeeps
<1>6. CASE PlayerId(m, n)
  BY <1>6, PlayerIdKeeps
<1>7. CASE AcceptNewPlayer(m, n)
  BY <1>7, AcceptKeeps
<1>8. CASE AcceptColor(m, n)
  BY <1>8, ColorKeeps
<1>9. CASE PlayerDisconnect(m, n)
  BY <1>9, GoneKeeps
<1>10. CASE Dismissed(m, n)
  BY <1>10, DismissedKeeps
<1>11. CASE NewPlayer(n)
  BY <1>11, NewPlayerKeeps
<1>12. CASE RefusePlayer(n)
  BY <1>12, RefuseKeeps
<1>13. CASE AcquireColor(m, n)
  BY <1>13, AcquireKeeps
<1> QED BY <1>1, <1>2, <1>3, <1>4, <1>5, <1>6, <1>7, <1>8, <1>9, <1>10, <1>11, <1>12, <1>13 DEF Receive

LEMMA HostStep == HostInv /\ [Next]_vars => HostInv'
<1> SUFFICES ASSUME HostInv, [Next]_vars PROVE HostInv'
  OBVIOUS
<1>1. CASE UNCHANGED vars
  BY <1>1 DEF vars, lobby, HostInv, Types, Directions, AllAllowed, Allowed, HostLinks, Pointed, HostThere,
              HostList, UniqueIds, Ids
<1>2. ASSUME NEW m \in Machine, NEW n \in Machine, Receive(m, n) PROVE HostInv'
  BY <1>2, ReceiveKeeps
<1>3. ASSUME NEW m \in Machine, Play(m) PROVE HostInv'
  BY <1>3, AskKeeps, TurnKeeps, LeaveKeeps DEF Play
<1>4. ASSUME NEW c \in Color, HostClicksColor(c) PROVE HostInv'
  BY <1>4, HostColorKeeps
<1>5. ASSUME NEW c \in Client, JoinSession(c) \/ CancelJoin(c) PROVE HostInv'
  BY <1>5, JoinKeeps, CancelKeeps
<1>6. CASE Start
  BY <1>6, StartKeeps
<1> QED BY <1>1, <1>2, <1>3, <1>4, <1>5, <1>6 DEF Next

\* In every behaviour, with any machines, slots and colours, the host's books
\* are in order: what HostInv says.
THEOREM HostBooks == Spec => []HostInv
BY HostInit, HostStep, PTL DEF Spec

\* The colours marked at the host are those of the registered players, of whom
\* no two share a colour, an id or a machine, whatever messages come in whatever
\* order, whoever leaves, and whichever connections break.
THEOREM ColorsAlwaysExact == Spec => []ColorsExact
<1>1. HostInv => ColorsExact
  <2> SUFFICES ASSUME HostInv PROVE ColorsExact
    OBVIOUS
  <2> DEFINE list == reg[Host]
  <2>1. /\ colorAssigned = {list[k].color : k \in DOMAIN list} /\ UniqueIds(list)
        /\ \A k, l \in DOMAIN list : list[k].color = list[l].color => k = l
        /\ \A i \in Ids(list) : i \in DOMAIN player_pool[Host]
    BY DEF HostInv, HostList
  <2>2. ASSUME NEW k \in DOMAIN list, NEW l \in DOMAIN list, k # l
        PROVE  /\ list[k].color # list[l].color /\ list[k].id # list[l].id
               /\ Registered(k) # Registered(l)
    <3>1. list[k].color # list[l].color /\ list[k].id # list[l].id
      BY <2>1, <2>2 DEF UniqueIds
    <3>2. list[k].id \in DOMAIN player_pool[Host] /\ list[l].id \in DOMAIN player_pool[Host]
      BY <2>1 DEF Ids
    <3> QED BY <3>1, <3>2 DEF Registered, HostInv, HostLinks, Pointed
  <2> QED BY <2>1, <2>2 DEF ColorsExact
<1> QED BY <1>1, HostBooks, PTL
=============================================================================
