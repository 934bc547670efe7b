-------------------------- MODULE LobbyClientProofs --------------------------
(***************************************************************************)
(* Theorems about what the clients of module Lobby hold: ids mean the      *)
(* same machine at a client as at the host, and what the host has down for *)
(* a client is what that client sees, but for what is on its way.          *)
(*                                                                         *)
(* Everything here is about one client c and what lies between it and the  *)
(* host.  A step of a third machine changes none of it, a step of the host *)
(* is what the host tells c, and a step of c is what c takes or says.      *)
(***************************************************************************)
EXTENDS LobbyProofs, FiniteSetTheorems

-----------------------------------------------------------------------------
(* What lies between the host and a client *)

Down(c) == chan[Host][c]
Up(c) == chan[c][Host]

Holds(pool, i, m) == i \in DOMAIN pool /\ pool[i].machine = m
Has(s, type) == \E k \in DOMAIN s : s[k].type = type

\* Behind place k of s there is the notice that player i is gone.
Deleted(s, i, k) ==
    \E l \in DOMAIN s : k < l /\ s[l].type = "PLAYER_DISCONNECT" /\ s[l].id = i

\* What s says of addresses goes with the host's pool, or is taken back behind; the
\* id it gives is f.
Truthful(s, pool, f) ==
    \A k \in DOMAIN s :
        /\ s[k].type = "ACCEPT_NEW_PLAYER" =>
              Holds(pool, s[k].id, s[k].machine) \/ Deleted(s, s[k].id, k)
        /\ s[k].type = "PLAYER_ID" => s[k].id = f

\* So does the pool mine, but for the player me, whose address is one's own.
InStep(mine, me, s, pool) ==
    \A i \in DOMAIN mine \ {me} : Holds(pool, i, mine[i].machine) \/ Deleted(s, i, 0)

\* Messages that give the client an id that is new to it.
NewId(s, ids) ==
    \A k \in DOMAIN s : s[k].type = "PLAYER_ID" =>
        /\ s[k].id \notin ids
        /\ \A j \in DOMAIN s : j < k /\ s[j].type = "ACCEPT_NEW_PLAYER" => s[j].id # s[k].id

\* Messages of which none is about player f.
Silent(s, f) ==
    \A k \in DOMAIN s :
        s[k].type # "PLAYER_ID" /\ (s[k].type = "ACCEPT_NEW_PLAYER" => s[k].id # f)

\* The last message of its type.
Final(s, k, type) ==
    s[k].type = type /\ \A l \in DOMAIN s : k < l => s[l].type # type

LEMMA TailHas ==
    ASSUME NEW s \in Seq(Message), s # << >>, NEW type
    PROVE  /\ Has(Tail(s), type) => Has(s, type)
           /\ Has(s, type) => Has(Tail(s), type) \/ Head(s).type = type
<1> DEFINE t == Tail(s)
<1>1. /\ Head(s) = s[1]
      /\ \A k \in DOMAIN t : k + 1 \in DOMAIN s /\ t[k] = s[k + 1]
      /\ \A k \in DOMAIN s : k = 1 \/ (k - 1 \in DOMAIN t /\ t[k - 1] = s[k])
  BY TailFact
<1> HIDE DEF t
<1>2. Has(t, type) => Has(s, type)
  BY <1>1 DEF Has
<1>3. Has(s, type) => Has(t, type) \/ Head(s).type = type
  <2> SUFFICES ASSUME NEW k \in DOMAIN s, s[k].type = type PROVE Has(t, type) \/ Head(s).type = type
    BY DEF Has
  <2> QED BY <1>1 DEF Has
<1> QED BY <1>2, <1>3 DEF t

LEMMA ConcatHas ==
    ASSUME NEW s \in Seq(Message), NEW t \in Seq(Message), NEW type
    PROVE  Has(s \o t, type) <=> Has(s, type) \/ Has(t, type)
<1> DEFINE n == Len(s)
           st == s \o t
<1>1. /\ \A k \in DOMAIN s : k \in DOMAIN st /\ st[k] = s[k]
      /\ \A k \in DOMAIN t : n + k \in DOMAIN st /\ st[n + k] = t[k]
      /\ \A k \in DOMAIN st : k \in DOMAIN s \/ (k - n \in DOMAIN t /\ k = n + (k - n))
  BY ConcatFact
<1> HIDE DEF st, n
<1>2. ASSUME NEW k \in DOMAIN st, st[k].type = type PROVE Has(s, type) \/ Has(t, type)
  <2>1. CASE k \in DOMAIN s
    BY <1>1, <1>2, <2>1 DEF Has
  <2>2. CASE k - n \in DOMAIN t /\ k = n + (k - n)
    <3> DEFINE j == k - n
    <3>1. j \in DOMAIN t /\ k = n + j
      BY <2>2
    <3> HIDE DEF j
    <3>2. st[k] = t[j]
      BY <1>1, <3>1
    <3> QED BY <1>2, <3>1, <3>2 DEF Has
  <2> QED BY <1>1, <2>1, <2>2
<1>3. Has(s, type) => Has(st, type)
  BY <1>1 DEF Has
<1>4. Has(t, type) => Has(st, type)
  BY <1>1 DEF Has
<1>5. Has(st, type) => Has(s, type) \/ Has(t, type)
  BY <1>2 DEF Has
<1> QED BY <1>3, <1>4, <1>5 DEF st

LEMMA TailDeleted ==
    ASSUME NEW s \in Seq(Message), s # << >>, NEW i, NEW k \in DOMAIN Tail(s) \cup {0},
           Deleted(s, i, k + 1)
    PROVE  Deleted(Tail(s), i, k)
<1>1. /\ \A l \in DOMAIN Tail(s) : l \in Nat /\ 1 <= l
      /\ \A l \in DOMAIN s : l = 1 \/ (l - 1 \in DOMAIN Tail(s) /\ Tail(s)[l - 1] = s[l])
      /\ \A l \in DOMAIN s : l \in Nat /\ 1 <= l
  BY TailFact
<1>2. PICK l \in DOMAIN s : k + 1 < l /\ s[l].type = "PLAYER_DISCONNECT" /\ s[l].id = i
  BY DEF Deleted
<1>3. k \in Nat
  BY <1>1
<1>4. l - 1 \in DOMAIN Tail(s) /\ Tail(s)[l - 1] = s[l] /\ k < l - 1
  BY <1>1, <1>2, <1>3
<1> QED BY <1>2, <1>4 DEF Deleted

\* What is gone when the first message has been taken.
LEMMA FirstDeleted ==
    ASSUME NEW s \in Seq(Message), s # << >>, NEW i, Deleted(s, i, 0),
           ~(Head(s).type = "PLAYER_DISCONNECT" /\ Head(s).id = i)
    PROVE  Deleted(Tail(s), i, 0)
<1>1. /\ Head(s) = s[1]
      /\ \A l \in DOMAIN s : l \in Nat /\ 1 <= l
  BY TailFact
<1>2. PICK l \in DOMAIN s : 0 < l /\ s[l].type = "PLAYER_DISCONNECT" /\ s[l].id = i
  BY DEF Deleted
<1>3. l # 1 /\ 1 < l
  BY <1>1, <1>2
<1>4. Deleted(s, i, 0 + 1)
  BY <1>2, <1>3 DEF Deleted
<1> QED BY <1>4, TailDeleted

LEMMA ConcatDeleted ==
    ASSUME NEW s \in Seq(Message), NEW t \in Seq(Message), NEW i
    PROVE  /\ \A k : Deleted(s, i, k) => Deleted(s \o t, i, k)
           /\ \A k \in DOMAIN s \cup {0} : Deleted(t, i, 0) => Deleted(s \o t, i, k)
           /\ \A k \in DOMAIN t : Deleted(t, i, k) => Deleted(s \o t, i, Len(s) + k)
<1> DEFINE n == Len(s)
           st == s \o t
<1>1. /\ \A k \in DOMAIN s : k \in DOMAIN st /\ st[k] = s[k]
      /\ \A k \in DOMAIN t : n + k \in DOMAIN st /\ st[n + k] = t[k]
      /\ \A k \in DOMAIN s : k \in Nat /\ 1 <= k /\ k <= n
      /\ \A k \in DOMAIN t : k \in Nat /\ 1 <= k
  BY ConcatFact
<1>2. n \in Nat
  BY SeqFact
<1> HIDE DEF st, n
<1>3. \A k : Deleted(s, i, k) => Deleted(st, i, k)
  BY <1>1 DEF Deleted
<1>4. ASSUME NEW k \in DOMAIN s \cup {0}, Deleted(t, i, 0) PROVE Deleted(st, i, k)
  <2>1. PICK l \in DOMAIN t : 0 < l /\ t[l].type = "PLAYER_DISCONNECT" /\ t[l].id = i
    BY <1>4 DEF Deleted
  <2>2. n + l \in DOMAIN st /\ st[n + l] = t[l] /\ k < n + l
    BY <1>1, <1>2, <2>1
  <2> QED BY <2>1, <2>2 DEF Deleted
<1>5. ASSUME NEW k \in DOMAIN t, Deleted(t, i, k) PROVE Deleted(st, i, n + k)
  <2>1. PICK l \in DOMAIN t : k < l /\ t[l].type = "PLAYER_DISCONNECT" /\ t[l].id = i
    BY <1>5 DEF Deleted
  <2>2. n + l \in DOMAIN st /\ st[n + l] = t[l] /\ n + k < n + l
    BY <1>1, <1>2, <2>1
  <2> QED BY <2>1, <2>2 DEF Deleted
<1> QED BY <1>3, <1>4, <1>5 DEF st, n

LEMMA TailTruthful ==
    ASSUME NEW s \in Seq(Message), s # << >>, NEW pool, NEW f, Truthful(s, pool, f)
    PROVE  Truthful(Tail(s), pool, f)
<1> DEFINE t == Tail(s)
<1>1. \A k \in DOMAIN t : k \in Nat /\ k + 1 \in DOMAIN s /\ t[k] = s[k + 1]
  BY TailFact
<1>2. \A k \in DOMAIN t : Deleted(s, t[k].id, k + 1) => Deleted(t, t[k].id, k)
  BY TailDeleted
<1> HIDE DEF t
<1>3. Truthful(t, pool, f)
  BY <1>1, <1>2 DEF Truthful
<1> QED BY <1>3 DEF t

\* The host says t when its pool becomes new.
Announces(t, old, new, f) ==
    /\ \A i, m : Holds(old, i, m) => Holds(new, i, m) \/ Deleted(t, i, 0)
    /\ Truthful(t, new, f)

LEMMA ConcatTruthful ==
    ASSUME NEW s \in Seq(Message), NEW t \in Seq(Message), NEW old, NEW new, NEW f,
           Truthful(s, old, f), Announces(t, old, new, f)
    PROVE  Truthful(s \o t, new, f)
<1> DEFINE n == Len(s)
           st == s \o t
<1>1. /\ \A k \in DOMAIN s : k \in DOMAIN st /\ st[k] = s[k]
      /\ \A k \in DOMAIN st : k \in DOMAIN s \/ (k - n \in DOMAIN t /\ k = n + (k - n))
      /\ \A k \in DOMAIN t : n + k \in DOMAIN st /\ st[n + k] = t[k]
  BY ConcatFact
<1>2. \A i : /\ \A k : Deleted(s, i, k) => Deleted(st, i, k)
             /\ \A k \in DOMAIN s \cup {0} : Deleted(t, i, 0) => Deleted(st, i, k)
             /\ \A k \in DOMAIN t : Deleted(t, i, k) => Deleted(st, i, n + k)
  BY ConcatDeleted
<1> HIDE DEF st, n
<1>3. ASSUME NEW k \in DOMAIN s
      PROVE  /\ st[k].type = "ACCEPT_NEW_PLAYER" =>
                   Holds(new, st[k].id, st[k].machine) \/ Deleted(st, st[k].id, k)
             /\ st[k].type = "PLAYER_ID" => st[k].id = f
  BY <1>1, <1>2, Zenon DEF Truthful, Announces
<1>4. ASSUME NEW j \in DOMAIN t
      PROVE  /\ st[n + j].type = "ACCEPT_NEW_PLAYER" =>
                   Holds(new, st[n + j].id, st[n + j].machine) \/ Deleted(st, st[n + j].id, n + j)
             /\ st[n + j].type = "PLAYER_ID" => st[n + j].id = f
  <2>1. st[n + j] = t[j]
    BY <1>1
  <2> QED BY <1>2, <2>1, Zenon DEF Truthful, Announces
<1>5. Truthful(st, new, f)
  <2> SUFFICES ASSUME NEW k \in DOMAIN st
               PROVE  /\ st[k].type = "ACCEPT_NEW_PLAYER" =>
                            Holds(new, st[k].id, st[k].machine) \/ Deleted(st, st[k].id, k)
                      /\ st[k].type = "PLAYER_ID" => st[k].id = f
    BY DEF Truthful
  <2>1. CASE k \in DOMAIN s
    BY <2>1, <1>3
  <2>2. CASE k - n \in DOMAIN t /\ k = n + (k - n)
    <3> DEFINE j == k - n
    <3>1. j \in DOMAIN t /\ k = n + j
      BY <2>2
    <3> HIDE DEF j
    <3> QED BY <3>1, <1>4
  <2> QED BY <2>1, <2>2, <1>1
<1> QED BY <1>5 DEF st

LEMMA TailInStep ==
    ASSUME NEW s \in Seq(Message), s # << >>, NEW mine, NEW me, NEW less, NEW now, NEW pool,
           InStep(mine, me, s, pool),
           \A i \in DOMAIN less \ {now} :
              i \in DOMAIN mine \ {me} /\ less[i].machine = mine[i].machine,
           \A i \in DOMAIN less : ~(Head(s).type = "PLAYER_DISCONNECT" /\ Head(s).id = i)
    PROVE  InStep(less, now, Tail(s), pool)
<1> SUFFICES ASSUME NEW i \in DOMAIN less \ {now}
             PROVE  Holds(pool, i, less[i].machine) \/ Deleted(Tail(s), i, 0)
  BY DEF InStep
<1>1. Holds(pool, i, less[i].machine) \/ Deleted(s, i, 0)
  BY DEF InStep
<1> QED BY <1>1, FirstDeleted

LEMMA ConcatInStep ==
    ASSUME NEW s \in Seq(Message), NEW t \in Seq(Message), NEW mine, NEW me, NEW old, NEW new, NEW f,
           InStep(mine, me, s, old), Announces(t, old, new, f)
    PROVE  InStep(mine, me, s \o t, new)
<1> SUFFICES ASSUME NEW i \in DOMAIN mine \ {me}
             PROVE  Holds(new, i, mine[i].machine) \/ Deleted(s \o t, i, 0)
  BY DEF InStep
<1>1. Holds(old, i, mine[i].machine) \/ Deleted(s, i, 0)
  BY DEF InStep
<1>2. Deleted(s, i, 0) => Deleted(s \o t, i, 0)
  BY ConcatDeleted
<1>3. Deleted(t, i, 0) => Deleted(s \o t, i, 0)
  BY ConcatDeleted
<1> QED BY <1>1, <1>2, <1>3 DEF Announces

\* Messages give no id but one of W, and that comes first.
Names(t, W) ==
    \A k \in DOMAIN t : t[k].type = "PLAYER_ID" => k = 1 /\ t[k].id \in W

LEMMA OneHas ==
    ASSUME NEW msg \in Message, NEW type
    PROVE  Has(<<msg>>, type) <=> msg.type = type
BY OneMessage DEF Has

LEMMA SilentFact ==
    ASSUME NEW s \in Seq(Message), NEW f, Silent(s, f)
    PROVE  /\ s # << >> => Silent(Tail(s), f)
           /\ \A t \in Seq(Message) : Silent(t, f) => Silent(s \o t, f)
<1>1. ASSUME s # << >> PROVE Silent(Tail(s), f)
  <2>1. \A k \in DOMAIN Tail(s) : k + 1 \in DOMAIN s /\ Tail(s)[k] = s[k + 1]
    BY <1>1, TailFact
  <2> QED BY <2>1 DEF Silent
<1>2. ASSUME NEW t \in Seq(Message), Silent(t, f) PROVE Silent(s \o t, f)
  <2> DEFINE n == Len(s)
             st == s \o t
  <2>1. /\ \A k \in DOMAIN s : k \in DOMAIN st /\ st[k] = s[k]
        /\ \A k \in DOMAIN t : n + k \in DOMAIN st /\ st[n + k] = t[k]
        /\ \A k \in DOMAIN st : k \in DOMAIN s \/ (k - n \in DOMAIN t /\ k = n + (k - n))
    BY ConcatFact
  <2> HIDE DEF st, n
  <2>2. ASSUME NEW k \in DOMAIN st
        PROVE  st[k].type # "PLAYER_ID" /\ (st[k].type = "ACCEPT_NEW_PLAYER" => st[k].id # f)
    <3>1. CASE k \in DOMAIN s
      BY <2>1, <3>1 DEF Silent
    <3>2. CASE k - n \in DOMAIN t /\ k = n + (k - n)
      <4> DEFINE j == k - n
      <4>1. j \in DOMAIN t /\ k = n + j
        BY <3>2
      <4> HIDE DEF j
      <4>2. st[k] = t[j]
        BY <2>1, <4>1
      <4> QED BY <1>2, <4>1, <4>2 DEF Silent
    <3> QED BY <2>1, <3>1, <3>2
  <2> QED BY <2>2 DEF Silent, st
<1> QED BY <1>1, <1>2

\* When the first message has been taken, ids may have been added if it named them.
LEMMA TailNewId ==
    ASSUME NEW s \in Seq(Message), s # << >>, NEW ids, NEW more, NewId(s, ids),
           \A i \in more : i \in ids \/ (Head(s).type = "ACCEPT_NEW_PLAYER" /\ Head(s).id = i)
    PROVE  NewId(Tail(s), more)
<1> DEFINE t == Tail(s)
<1>1. /\ Head(s) = s[1] /\ 1 \in DOMAIN s
      /\ \A k \in DOMAIN t : k \in Nat /\ 1 <= k /\ k + 1 \in DOMAIN s /\ t[k] = s[k + 1]
  BY TailFact
<1> HIDE DEF t
<1>2. ASSUME NEW k \in DOMAIN t, t[k].type = "PLAYER_ID"
      PROVE  /\ t[k].id \notin more
             /\ \A j \in DOMAIN t : j < k /\ t[j].type = "ACCEPT_NEW_PLAYER" => t[j].id # t[k].id
  <2>1. /\ s[k + 1].id \notin ids
        /\ \A j \in DOMAIN s : j < k + 1 /\ s[j].type = "ACCEPT_NEW_PLAYER" => s[j].id # s[k + 1].id
    BY <1>1, <1>2 DEF NewId
  <2>2. 1 < k + 1
    BY <1>1
  <2>3. Head(s).type = "ACCEPT_NEW_PLAYER" => Head(s).id # t[k].id
    BY <1>1, <2>1, <2>2
  <2>4. t[k].id \notin more
    BY <1>1, <2>1, <2>3
  <2>5. ASSUME NEW j \in DOMAIN t, j < k, t[j].type = "ACCEPT_NEW_PLAYER" PROVE t[j].id # t[k].id
    <3>1. j + 1 < k + 1
      BY <1>1, <2>5
    <3> QED BY <1>1, <2>1, <2>5, <3>1
  <2> QED BY <2>4, <2>5
<1> QED BY <1>2 DEF NewId, t

LEMMA ConcatNewId ==
    ASSUME NEW s \in Seq(Message), NEW t \in Seq(Message), NEW ids, NEW W, NewId(s, ids),
           Names(t, W), \A f \in W : f \notin ids /\ Silent(s, f)
    PROVE  NewId(s \o t, ids)
<1> DEFINE n == Len(s)
           st == s \o t
<1>1. /\ \A k \in DOMAIN s : k \in DOMAIN st /\ st[k] = s[k]
      /\ \A k \in DOMAIN t : n + k \in DOMAIN st /\ st[n + k] = t[k]
      /\ \A k \in DOMAIN st : k \in DOMAIN s \/ (k - n \in DOMAIN t /\ k = n + (k - n))
      /\ \A k \in DOMAIN s : k \in Nat /\ 1 <= k /\ k <= n
      /\ \A k \in DOMAIN t : k \in Nat /\ 1 <= k
      /\ n \in Nat
  BY ConcatFact
<1> HIDE DEF st, n
<1>2. ASSUME NEW k \in DOMAIN st, st[k].type = "PLAYER_ID"
      PROVE  /\ st[k].id \notin ids
             /\ \A j \in DOMAIN st : j < k /\ st[j].type = "ACCEPT_NEW_PLAYER" => st[j].id # st[k].id
  <2>1. CASE k \in DOMAIN s
    <3>1. st[k] = s[k] /\ s[k].id \notin ids
      BY <1>1, <1>2, <2>1 DEF NewId
    <3>2. ASSUME NEW j \in DOMAIN st, j < k, st[j].type = "ACCEPT_NEW_PLAYER" PROVE st[j].id # st[k].id
      <4>1. j \in DOMAIN s
        <5>1. ~(j - n \in DOMAIN t /\ j = n + (j - n))
          <6> SUFFICES ASSUME j - n \in DOMAIN t, j = n + (j - n) PROVE FALSE
            OBVIOUS
          <6> DEFINE l == j - n
          <6>1. l \in Nat /\ 1 <= l /\ j = n + l
            BY <1>1
          <6> HIDE DEF l
          <6> QED BY <1>1, <2>1, <3>2, <6>1
        <5> QED BY <1>1, <5>1
      <4> QED BY <1>1, <1>2, <2>1, <3>1, <3>2, <4>1 DEF NewId
    <3> QED BY <3>1, <3>2
  <2>2. CASE k - n \in DOMAIN t /\ k = n + (k - n)
    <3> DEFINE l == k - n
    <3>1. l \in DOMAIN t /\ k = n + l
      BY <2>2
    <3> HIDE DEF l
    <3>2. st[k] = t[l]
      BY <1>1, <3>1
    <3>3. l = 1 /\ t[l].id \in W
      BY <1>2, <3>1, <3>2 DEF Names
    <3>4. st[k].id \notin ids /\ Silent(s, st[k].id)
      BY <3>2, <3>3
    <3>5. ASSUME NEW j \in DOMAIN st, j < k, st[j].type = "ACCEPT_NEW_PLAYER" PROVE st[j].id # st[k].id
      <4>1. j \in DOMAIN s
        <5>1. ~(j - n \in DOMAIN t /\ j = n + (j - n))
          <6> SUFFICES ASSUME j - n \in DOMAIN t, j = n + (j - n) PROVE FALSE
            OBVIOUS
          <6> DEFINE i == j - n
          <6>1. i \in Nat /\ 1 <= i /\ j = n + i
            BY <1>1
          <6> HIDE DEF i
          <6> QED BY <1>1, <3>1, <3>3, <3>5, <6>1
        <5> QED BY <1>1, <5>1
      <4>2. st[j] = s[j]
        BY <1>1, <4>1
      <4> QED BY <3>4, <3>5, <4>1, <4>2 DEF Silent
    <3> QED BY <3>4, <3>5
  <2> QED BY <1>1, <2>1, <2>2
<1> QED BY <1>2 DEF NewId, st

\* The last message of a type when the first one has been taken.
LEMMA TailFinal ==
    ASSUME NEW s \in Seq(Message), s # << >>, NEW type
    PROVE  /\ \A k \in DOMAIN Tail(s) : Final(Tail(s), k, type) =>
                 k + 1 \in DOMAIN s /\ Final(s, k + 1, type) /\ Tail(s)[k] = s[k + 1]
           /\ Head(s).type = type /\ ~Has(Tail(s), type) => Final(s, 1, type)
<1> DEFINE t == Tail(s)
<1>1. /\ Head(s) = s[1] /\ 1 \in DOMAIN s
      /\ \A k \in DOMAIN t : k \in Nat /\ 1 <= k /\ k + 1 \in DOMAIN s /\ t[k] = s[k + 1]
      /\ \A k \in DOMAIN s : k = 1 \/ (k - 1 \in DOMAIN t /\ t[k - 1] = s[k])
      /\ \A k \in DOMAIN s : k \in Nat /\ 1 <= k
  BY TailFact
<1> HIDE DEF t
<1>2. ASSUME NEW k \in DOMAIN t, Final(t, k, type)
      PROVE  k + 1 \in DOMAIN s /\ Final(s, k + 1, type) /\ t[k] = s[k + 1]
  <2>1. ASSUME NEW l \in DOMAIN s, k + 1 < l PROVE s[l].type # type
    <3>1. l - 1 \in DOMAIN t /\ t[l - 1] = s[l] /\ k < l - 1
      BY <1>1, <2>1
    <3> QED BY <1>2, <3>1 DEF Final
  <2> QED BY <1>1, <1>2, <2>1 DEF Final
<1>3. ASSUME Head(s).type = type, ~Has(t, type) PROVE Final(s, 1, type)
  <2>1. ASSUME NEW l \in DOMAIN s, 1 < l PROVE s[l].type # type
    <3>1. l - 1 \in DOMAIN t /\ t[l - 1] = s[l]
      BY <1>1, <2>1
    <3> QED BY <1>3, <3>1 DEF Has
  <2> QED BY <1>1, <1>3, <2>1 DEF Final
<1> QED BY <1>2, <1>3 DEF t

LEMMA ConcatFinal ==
    ASSUME NEW s \in Seq(Message), NEW t \in Seq(Message), NEW type,
           NEW k \in DOMAIN (s \o t), Final(s \o t, k, type)
    PROVE  \/ Has(t, type) /\ \E l \in DOMAIN t : Final(t, l, type) /\ (s \o t)[k] = t[l]
           \/ ~Has(t, type) /\ k \in DOMAIN s /\ Final(s, k, type) /\ (s \o t)[k] = s[k]
<1> DEFINE n == Len(s)
           st == s \o t
<1>1. /\ \A j \in DOMAIN s : j \in DOMAIN st /\ st[j] = s[j]
      /\ \A j \in DOMAIN t : n + j \in DOMAIN st /\ st[n + j] = t[j]
      /\ \A j \in DOMAIN st : j \in DOMAIN s \/ (j - n \in DOMAIN t /\ j = n + (j - n))
      /\ \A j \in DOMAIN s : j \in Nat /\ 1 <= j /\ j <= n
      /\ \A j \in DOMAIN t : j \in Nat /\ 1 <= j
      /\ n \in Nat
  BY ConcatFact
<1>2. k \in DOMAIN st /\ st[k].type = type /\ \A l \in DOMAIN st : k < l => st[l].type # type
  BY DEF Final
<1> HIDE DEF st, n
<1>3. CASE k \in DOMAIN s
  <2>1. st[k] = s[k]
    BY <1>1, <1>3
  <2>2. ASSUME NEW l \in DOMAIN t PROVE t[l].type # type
    <3>1. n + l \in DOMAIN st /\ st[n + l] = t[l] /\ k < n + l
      BY <1>1, <1>3
    <3> QED BY <1>2, <3>1
  <2>3. Final(s, k, type)
    BY <1>1, <1>2, <1>3 DEF Final
  <2> QED BY <1>3, <2>1, <2>2, <2>3 DEF Has, st
<1>4. CASE k - n \in DOMAIN t /\ k = n + (k - n)
  <2> DEFINE l == k - n
  <2>1. l \in DOMAIN t /\ k = n + l
    BY <1>4
  <2> HIDE DEF l
  <2>2. st[k] = t[l]
    BY <1>1, <2>1
  <2>3. ASSUME NEW j \in DOMAIN t, l < j PROVE t[j].type # type
    <3>1. n + j \in DOMAIN st /\ st[n + j] = t[j] /\ k < n + j
      BY <1>1, <2>1, <2>3
    <3> QED BY <1>2, <3>1
  <2>4. Final(t, l, type) /\ Has(t, type)
    BY <1>2, <2>1, <2>2, <2>3 DEF Final, Has
  <2> QED BY <2>1, <2>2, <2>4 DEF st
<1> QED BY <1>1, <1>2, <1>3, <1>4

-----------------------------------------------------------------------------
(* What holds of a client and of what lies between it and the host *)

\* The host has a connection only after the client, and takes nothing from a
\* connection it has closed.
Greeted(c) ==
    /\ phase[c] = "away" => link[c][Host] = "none"
    /\ Has(Up(c), "CONNECT") \/ link[Host][c] = "up" => link[c][Host] \in {"up", "closed"}
    /\ link[Host][c] = "closed" => Up(c) = << >>

\* Before the host has the connection there is nothing at the client.
Fresh(c) ==
    link[Host][c] = "none" =>
        /\ \A k \in DOMAIN Down(c) : Down(c)[k].type = "CONNECT"
        /\ reg[c] = << >> /\ my_player_id[c] = 0 /\ ~selfReadyFlag[c]
        /\ ~Has(Up(c), "PLAYER_READY")
        /\ \A i \in DOMAIN player_pool[c] : i = 1 /\ player_pool[c][i].machine = Host

\* The pool of the client is the host's, but for the notices on their way, and
\* the id it is given is the one its peer at the host points to.
Known(c) ==
    Linked(Host, c) =>
        /\ InStep(player_pool[c], my_player_id[c], Down(c), player_pool[Host])
        /\ Truthful(Down(c), player_pool[Host], data[Host][c])

\* No player is twice in the list, and the first id that comes is a new one.
Numbered(c) ==
    /\ UniqueIds(reg[c])
    /\ my_player_id[c] = 0 => NewId(Down(c), Ids(reg[c]))

\* The id kept for a machine that has not been given one.
Expected(c) == {data[Host][c]} \ Ids(reg[Host])

\* A client has heard nothing of the id kept for it.
Waiting(c) ==
    link[Host][c] = "up" =>
        \A f \in Expected(c) :
            my_player_id[c] = 0 /\ f \notin Ids(reg[c]) /\ Silent(Down(c), f)

\* Without an id a client cannot be ready.
Unready(c) ==
    my_player_id[c] = 0 /\ link[c][Host] # "closed" =>
        ~selfReadyFlag[c] /\ ~Has(Up(c), "PLAYER_READY")

\* The id of a client is its own, and it speaks for nobody else.
Own(c) ==
    link[Host][c] = "up" =>
        /\ my_player_id[c] # 0 => my_player_id[c] = data[Host][c]
        /\ \A k \in DOMAIN Up(c) : Up(c)[k].type = "PLAYER_READY" => Up(c)[k].id = data[Host][c]

\* The entry e is about a client with this id, colour and flag, or will be when
\* what is on its way down and up has been read.
Agreed(e, id, color, flag, down, up) ==
    /\ id = e.id \/ (id = 0 /\ Has(down, "PLAYER_ID"))
    /\ ~Has(down, "ACCEPT_COLOR") => color = e.color
    /\ \A k \in DOMAIN down : Final(down, k, "ACCEPT_COLOR") => down[k].color = e.color
    /\ ~Has(up, "PLAYER_READY") => flag = e.ready

\* The last flag sent is that of the client.
Tells(up, flag) == \A k \in DOMAIN up : Final(up, k, "PLAYER_READY") => up[k].flag = flag

Registers(c) ==
    Linked(Host, c) =>
        \A k \in DOMAIN reg[Host] :
            reg[Host][k].id = data[Host][c] =>
                Agreed(reg[Host][k], my_player_id[c], player_nation_color[c], selfReadyFlag[c],
                       Down(c), Up(c))

Flagged(c) == link[c][Host] # "closed" => Tells(Up(c), selfReadyFlag[c])

\* The peers of a client (lk, dt: its connections and pointers) point to players
\* in its pool, no two to the same.  Player 1 is the host, the others are in the
\* list (ids).  Only the host's pointer is left behind or taken over, when the
\* connection with the host is closed, and those of players that are lost.
Aims(pool, ids, lk, dt, lost) ==
    /\ DOMAIN pool \subseteq {1} \cup ids
    /\ 1 \in DOMAIN pool => pool[1].machine = Host
    /\ \A z \in Machine : dt[z] # 0 =>
          /\ dt[z] \in DOMAIN pool
          /\ pool[dt[z]].machine = z \/ (dt[z] = 1 /\ lk[Host] = "closed")
          /\ lk[z] = "closed" => (dt[z] = 1 /\ lk[Host] = "closed") \/ dt[z] \in lost
    /\ \A x, z \in Machine : dt[z] # 0 /\ dt[x] = dt[z] => x = z

Points(c) ==
    /\ phase[c] = "away" => \A z \in Machine : data[c][z] = 0
    /\ Aims(player_pool[c], Ids(reg[c]), link[c], data[c], {})

ClientInv(c) ==
    /\ Greeted(c) /\ Fresh(c) /\ Known(c) /\ Numbered(c) /\ Waiting(c) /\ Unready(c)
    /\ Own(c) /\ Registers(c) /\ Flagged(c)

-----------------------------------------------------------------------------
(* What the host does, as a client hears it *)

\* The host has no connection with c before and after.
Untold(c) ==
    /\ link[Host][c] # "up" /\ link'[Host][c] = link[Host][c]
    /\ chan'[Host][c] = chan[Host][c] /\ chan'[c][Host] = chan[c][Host]

LEMMA UntoldKeeps ==
    ASSUME NEW c \in Client, ClientInv(c), Unmoved(c), Untold(c)
    PROVE  ClientInv(c)'
<1>1. Greeted(c)' /\ Fresh(c)'
  BY DEF ClientInv, Greeted, Fresh, Unmoved, Untold, Down, Up, Has
<1>2. Numbered(c)' /\ Unready(c)' /\ Flagged(c)'
  BY DEF ClientInv, Numbered, Unready, Flagged, Unmoved, Untold, Down, Up, Has, UniqueIds, Ids, NewId,
         Tells, Final
<1>3. Known(c)' /\ Waiting(c)' /\ Own(c)' /\ Registers(c)'
  BY DEF Known, Waiting, Own, Registers, Untold, Linked
<1> QED BY <1>1, <1>2, <1>3 DEF ClientInv

\* The host has closed the connection; the word t may come through.
Forsaken(c, t) ==
    /\ link'[Host][c] = "closed" /\ chan'[c][Host] = << >>
    /\ t \in Seq(Message) /\ Names(t, {})
    /\ chan'[Host][c] \in {chan[Host][c], chan[Host][c] \o t}

LEMMA ForsakenKeeps ==
    ASSUME Types, NEW c \in Client, ClientInv(c), Unmoved(c), NEW t, Forsaken(c, t)
    PROVE  ClientInv(c)'
<1>1. Greeted(c)'
  BY DEF ClientInv, Greeted, Unmoved, Forsaken, Up, Has
<1>2. Fresh(c)' /\ Known(c)' /\ Waiting(c)' /\ Own(c)' /\ Registers(c)'
  BY DEF Fresh, Known, Waiting, Own, Registers, Forsaken, Linked
<1>3. Numbered(c)'
  <2> DEFINE s == chan[Host][c]
             s2 == chan'[Host][c]
             ids == Ids(reg[c])
  <2>1. s \in Seq(Message)
    BY HostAssumption DEF Types, Channels, Client
  <2>2. my_player_id[c] = 0 => NewId(s, ids)
    BY DEF ClientInv, Numbered, Down
  <2>3. t \in Seq(Message) /\ Names(t, {}) /\ s2 \in {s, s \o t}
    BY DEF Forsaken
  <2>4. UniqueIds(reg'[c]) /\ my_player_id'[c] = my_player_id[c] /\ Ids(reg'[c]) = ids
    BY DEF ClientInv, Numbered, Unmoved
  <2> HIDE DEF s, s2, ids
  <2>5. ASSUME my_player_id[c] = 0 PROVE NewId(s2, ids)
    <3>1. NewId(s, ids)
      BY <2>2, <2>5
    <3>2. NewId(s \o t, ids)
      <4>1. \A f \in {} : f \notin ids /\ Silent(s, f)
        OBVIOUS
      <4> QED BY <2>1, <2>3, <3>1, <4>1, ConcatNewId
    <3> QED BY <2>3, <3>1, <3>2
  <2> QED BY <2>4, <2>5 DEF Numbered, Down, s2
<1>4. Unready(c)' /\ Flagged(c)'
  BY DEF ClientInv, Unready, Flagged, Unmoved, Forsaken, Up, Has, Tells
<1> QED BY <1>1, <1>2, <1>3, <1>4 DEF ClientInv

\* The host now has the connection and has said t, that others are gone.
Met(c, t) ==
    /\ link[Host][c] = "none" /\ link'[Host][c] = "up"
    /\ chan[c][Host] # << >> /\ Head(chan[c][Host]).type = "CONNECT"
    /\ chan'[c][Host] = Tail(chan[c][Host])
    /\ t \in Seq(Message) /\ \A k \in DOMAIN t : t[k].type = "PLAYER_DISCONNECT"
    /\ chan'[Host][c] \in {chan[Host][c], chan[Host][c] \o t}
    /\ Holds(player_pool'[Host], 1, Host)
    /\ \A k \in DOMAIN reg'[Host] : reg'[Host][k].id # data'[Host][c]

LEMMA MetKeeps ==
    ASSUME Types, NEW c \in Client, ClientInv(c), Unmoved(c), NEW t, Met(c, t)
    PROVE  ClientInv(c)'
<1> DEFINE s == chan[Host][c]
           s2 == chan'[Host][c]
           u == chan[c][Host]
           u2 == chan'[c][Host]
<1>1. s \in Seq(Message) /\ u \in Seq(Message)
  BY HostAssumption DEF Types, Channels, Client
<1>2. /\ \A k \in DOMAIN s : s[k].type = "CONNECT"
      /\ reg[c] = << >> /\ my_player_id[c] = 0 /\ ~selfReadyFlag[c] /\ ~Has(u, "PLAYER_READY")
      /\ \A i \in DOMAIN player_pool[c] : i = 1 /\ player_pool[c][i].machine = Host
  BY DEF Met, ClientInv, Fresh, Down, Up
<1>3. /\ u # << >> /\ Head(u).type = "CONNECT" /\ u2 = Tail(u)
      /\ t \in Seq(Message) /\ \A k \in DOMAIN t : t[k].type = "PLAYER_DISCONNECT"
      /\ s2 \in {s, s \o t}
  BY DEF Met
<1>4. link'[Host][c] = "up" /\ link'[c] = link[c] /\ phase'[c] = phase[c]
  BY DEF Met, Unmoved
<1>5. reg'[c] = << >> /\ my_player_id'[c] = 0 /\ ~selfReadyFlag'[c] /\ player_pool'[c] = player_pool[c]
  BY <1>2 DEF Unmoved
<1>6. /\ phase[c] = "away" => link[c][Host] = "none"
      /\ Has(u, "CONNECT") => link[c][Host] \in {"up", "closed"}
  BY DEF ClientInv, Greeted, Up
<1> HIDE DEF s, s2, u, u2
<1>7. \A k \in DOMAIN s2 : s2[k].type \in {"CONNECT", "PLAYER_DISCONNECT"}
  <2>1. CASE s2 = s
    BY <1>2, <2>1
  <2>2. CASE s2 = s \o t
    <3>1. ASSUME NEW k \in DOMAIN s2 PROVE s2[k].type \in {"CONNECT", "PLAYER_DISCONNECT"}
      <4>1. /\ \A j \in DOMAIN s : s2[j] = s[j]
            /\ \A j \in DOMAIN t : s2[Len(s) + j] = t[j]
            /\ k \in DOMAIN s \/ (k - Len(s) \in DOMAIN t /\ k = Len(s) + (k - Len(s)))
        <5>1. s \in Seq(Message) /\ t \in Seq(Message) /\ k \in DOMAIN (s \o t)
          BY <1>1, <1>3, <2>2, <3>1
        <5> QED BY <5>1, <2>2, ConcatFact
      <4> QED BY <1>2, <1>3, <4>1
    <3> QED BY <3>1
  <2> QED BY <1>3, <2>1, <2>2
<1>8. ~Has(u2, "PLAYER_READY")
  BY <1>1, <1>2, <1>3, TailHas
<1>9. Greeted(c)'
  <2>1. Has(u, "CONNECT")
    <3>1. Head(u) = u[1] /\ 1 \in DOMAIN u
      BY <1>1, <1>3, TailFact
    <3> QED BY <1>3, <3>1 DEF Has
  <2> QED BY <1>4, <1>6, <2>1 DEF Greeted
<1>10. Fresh(c)'
  BY <1>4 DEF Fresh
<1>11. Known(c)'
  <2>1. InStep(player_pool'[c], my_player_id'[c], s2, player_pool'[Host])
    <3>1. Holds(player_pool'[Host], 1, Host)
      BY DEF Met
    <3> QED BY <1>2, <1>5, <3>1 DEF InStep
  <2>2. Truthful(s2, player_pool'[Host], data'[Host][c])
    BY <1>7 DEF Truthful
  <2> QED BY <2>1, <2>2 DEF Known, Down, s2
<1>12. Numbered(c)'
  <2>1. UniqueIds(reg'[c])
    BY <1>5 DEF UniqueIds
  <2>2. NewId(s2, Ids(reg'[c]))
    BY <1>7 DEF NewId
  <2> QED BY <2>1, <2>2 DEF Numbered, Down, s2
<1>13. Waiting(c)'
  <2>1. \A f : f \notin Ids(reg'[c]) /\ Silent(s2, f)
    BY <1>5, <1>7 DEF Ids, Silent
  <2> QED BY <1>5, <2>1 DEF Waiting, Down, s2
<1>14. Unready(c)' /\ Own(c)'
  BY <1>5, <1>8 DEF Unready, Own, Up, Has, u2
<1>15. Registers(c)'
  BY DEF Registers, Met
<1>16. Flagged(c)'
  BY <1>8 DEF Flagged, Tells, Final, Has, Up, u2
<1> QED BY <1>9, <1>10, <1>11, <1>12, <1>13, <1>14, <1>15, <1>16 DEF ClientInv

\* Colours in t are this one.
Colored(t, color) == \A k \in DOMAIN t : t[k].type = "ACCEPT_COLOR" => t[k].color = color

\* What becomes of the entry e of a player that is told t: a colour that
\* changes is told; the flag changes to that of a message taken from up.
Carried(e, new, t, up, up2) ==
    /\ new.id = e.id
    /\ IF Has(t, "ACCEPT_COLOR") THEN Colored(t, new.color) ELSE new.color = e.color
    /\ \/ up2 = up /\ new.ready = e.ready
       \/ /\ up # << >> /\ up2 = Tail(up)
          /\ new.ready = IF Head(up).type = "PLAYER_READY" THEN Head(up).flag ELSE e.ready

LEMMA CarriedAgreed ==
    ASSUME NEW down \in Seq(Message), NEW t \in Seq(Message), NEW up \in Seq(Message), NEW up2,
           NEW e, NEW new, NEW id, NEW color, NEW flag, Tells(up, flag),
           Agreed(e, id, color, flag, down, up), Carried(e, new, t, up, up2)
    PROVE  Agreed(new, id, color, flag, down \o t, up2)
<1> DEFINE st == down \o t
<1>1. \A type : Has(st, type) <=> Has(down, type) \/ Has(t, type)
  BY ConcatHas
<1>2. id = new.id \/ (id = 0 /\ Has(st, "PLAYER_ID"))
  BY <1>1 DEF Agreed, Carried
<1>3. ~Has(st, "ACCEPT_COLOR") => color = new.color
  BY <1>1 DEF Agreed, Carried
<1>4. ASSUME NEW k \in DOMAIN st, Final(st, k, "ACCEPT_COLOR") PROVE st[k].color = new.color
  <2>1. \/ Has(t, "ACCEPT_COLOR") /\ \E l \in DOMAIN t : Final(t, l, "ACCEPT_COLOR") /\ st[k] = t[l]
        \/ ~Has(t, "ACCEPT_COLOR") /\ k \in DOMAIN down /\ Final(down, k, "ACCEPT_COLOR") /\ st[k] = down[k]
    BY <1>4, ConcatFinal
  <2>2. CASE Has(t, "ACCEPT_COLOR") /\ \E l \in DOMAIN t : Final(t, l, "ACCEPT_COLOR") /\ st[k] = t[l]
    <3>1. PICK l \in DOMAIN t : Final(t, l, "ACCEPT_COLOR") /\ st[k] = t[l]
      BY <2>2
    <3>2. Colored(t, new.color)
      BY <2>2 DEF Carried
    <3> QED BY <3>1, <3>2 DEF Colored, Final
  <2>3. CASE ~Has(t, "ACCEPT_COLOR") /\ k \in DOMAIN down /\ Final(down, k, "ACCEPT_COLOR") /\ st[k] = down[k]
    <3>1. new.color = e.color
      BY <2>3 DEF Carried
    <3> QED BY <2>3, <3>1 DEF Agreed
  <2> QED BY <2>1, <2>2, <2>3
<1>5. ASSUME ~Has(up2, "PLAYER_READY") PROVE flag = new.ready
  <2>1. CASE up2 = up /\ new.ready = e.ready
    BY <1>5, <2>1 DEF Agreed
  <2>2. CASE up # << >> /\ up2 = Tail(up) /\ new.ready = e.ready /\ Head(up).type # "PLAYER_READY"
    <3>1. ~Has(up, "PLAYER_READY")
      BY <1>5, <2>2, TailHas
    <3> QED BY <2>2, <3>1 DEF Agreed
  <2>3. CASE up # << >> /\ up2 = Tail(up) /\ new.ready = Head(up).flag /\ Head(up).type = "PLAYER_READY"
    <3>1. up # << >> /\ up2 = Tail(up) /\ new.ready = Head(up).flag
      BY <2>3
    <3>2. Final(up, 1, "PLAYER_READY")
      BY <1>5, <2>3, <3>1, TailFinal
    <3>3. Head(up) = up[1] /\ 1 \in DOMAIN up
      BY <3>1, TailFact
    <3> QED BY <3>1, <3>2, <3>3 DEF Tells
  <2> QED BY <2>1, <2>2, <2>3 DEF Carried
<1> HIDE DEF st
<1>6. Agreed(new, id, color, flag, st, up2)
  BY <1>2, <1>3, <1>4, <1>5 DEF Agreed
<1> QED BY <1>6 DEF st

\* A new entry, of a player that is told its id and its colour.
Entered(new, t) ==
    /\ ~new.ready /\ Has(t, "PLAYER_ID") /\ Has(t, "ACCEPT_COLOR") /\ Colored(t, new.color)

LEMMA EnteredAgreed ==
    ASSUME NEW down \in Seq(Message), NEW t \in Seq(Message), NEW up2, NEW new, NEW color, NEW flag,
           flag = FALSE, new.ready = FALSE, Entered(new, t)
    PROVE  Agreed(new, 0, color, flag, down \o t, up2)
<1> DEFINE st == down \o t
<1>1. Has(st, "PLAYER_ID") /\ Has(st, "ACCEPT_COLOR")
  BY ConcatHas DEF Entered
<1>2. ASSUME NEW k \in DOMAIN st, Final(st, k, "ACCEPT_COLOR") PROVE st[k].color = new.color
  <2>1. \E l \in DOMAIN t : Final(t, l, "ACCEPT_COLOR") /\ st[k] = t[l]
    BY <1>2, ConcatFinal DEF Entered
  <2> QED BY <2>1 DEF Entered, Colored, Final
<1> HIDE DEF st
<1>3. Agreed(new, 0, color, flag, st, up2)
  BY <1>1, <1>2 DEF Agreed
<1> QED BY <1>3 DEF st

\* The connection stays, and the player it points to.  What the host says of ids is
\* true; an id goes to who has none; the entry of c changes with what c is told or
\* has said.
Told(c, t) ==
    /\ link[Host][c] = "up" /\ link'[Host][c] = "up" /\ data'[Host][c] = data[Host][c]
    /\ t \in Seq(Message)
    /\ chan'[Host][c] = IF link[c][Host] # "closed" THEN chan[Host][c] \o t ELSE chan[Host][c]
    /\ \/ chan'[c][Host] = chan[c][Host]
       \/ chan[c][Host] # << >> /\ chan'[c][Host] = Tail(chan[c][Host])
    /\ Announces(t, player_pool[Host], player_pool'[Host], data[Host][c])
    /\ Names(t, Expected(c))
    /\ \A f \in Expected(c)' : f \in Expected(c) /\ Silent(t, f)
    /\ \A k \in DOMAIN reg'[Host] : reg'[Host][k].id = data[Host][c] =>
          \/ Expected(c) # {} /\ Entered(reg'[Host][k], t)
          \/ \E j \in DOMAIN reg[Host] :
                /\ reg[Host][j].id = data[Host][c]
                /\ Carried(reg[Host][j], reg'[Host][k], t, chan[c][Host], chan'[c][Host])

LEMMA ToldKeeps ==
    ASSUME Types, Types', NEW c \in Client, ClientInv(c), Unmoved(c), NEW t, Told(c, t)
    PROVE  ClientInv(c)'
<1> DEFINE s == chan[Host][c]
           s2 == chan'[Host][c]
           u == chan[c][Host]
           u2 == chan'[c][Host]
           old == player_pool[Host]
           new == player_pool'[Host]
           id == my_player_id[c]
           W == Expected(c)
           me == data[Host][c]
<1>1. /\ s \in Seq(Message) /\ u \in Seq(Message) /\ t \in Seq(Message)
      /\ reg'[Host] \in Seq(RegEntry) /\ selfReadyFlag[c] \in BOOLEAN
  BY HostAssumption DEF Types, Channels, Client, Told
<1>2. /\ link[Host][c] = "up" /\ link'[Host][c] = "up"
      /\ s2 = IF link[c][Host] # "closed" THEN s \o t ELSE s
      /\ u2 = u \/ (u # << >> /\ u2 = Tail(u))
      /\ Announces(t, old, new, me) /\ Names(t, W) /\ data'[Host][c] = me
      /\ \A f \in Expected(c)' : f \in W /\ Silent(t, f)
  BY DEF Told
<1>3. /\ phase'[c] = phase[c] /\ link'[c] = link[c] /\ player_pool'[c] = player_pool[c]
      /\ my_player_id'[c] = id /\ reg'[c] = reg[c] /\ selfReadyFlag'[c] = selfReadyFlag[c]
      /\ player_nation_color'[c] = player_nation_color[c]
  BY DEF Unmoved
<1>4. \A f \in W : id = 0 /\ f \notin Ids(reg[c]) /\ Silent(s, f)
  BY <1>2 DEF ClientInv, Waiting, Down
<1> HIDE DEF s, s2, u, u2, old, new, id, W, me
<1>5. \A type : Has(u2, type) => Has(u, type)
  BY <1>1, <1>2, TailHas
<1>6. \A k \in DOMAIN u2 : \E j \in DOMAIN u : u2[k] = u[j]
  <2>1. CASE u2 = u
    BY <2>1
  <2>2. CASE u # << >> /\ u2 = Tail(u)
    BY <1>1, <2>2, TailFact
  <2> QED BY <1>2, <2>1, <2>2
<1>7. Greeted(c)'
  BY <1>2, <1>3 DEF ClientInv, Greeted
<1>8. Fresh(c)'
  BY <1>2 DEF Fresh
<1>9. Known(c)'
  <2> SUFFICES ASSUME link[c][Host] = "up"
               PROVE  InStep(player_pool[c], id, s2, new) /\ Truthful(s2, new, me)
    BY <1>2, <1>3 DEF Known, Linked, Down, s2, new
  <2>1. s2 = s \o t
    BY <1>2
  <2>2. InStep(player_pool[c], id, s, old) /\ Truthful(s, old, me)
    BY <1>2 DEF ClientInv, Known, Linked, Down, s, old, id, me
  <2> QED BY <1>1, <1>2, <2>1, <2>2, ConcatInStep, ConcatTruthful
<1>10. Numbered(c)'
  <2>1. UniqueIds(reg[c]) /\ (id = 0 => NewId(s, Ids(reg[c])))
    BY DEF ClientInv, Numbered, Down, s, id
  <2> DEFINE ids == Ids(reg[c])
  <2>2. \A f \in W : f \notin ids /\ Silent(s, f)
    BY <1>4
  <2> HIDE DEF ids
  <2>3. ASSUME id = 0 PROVE NewId(s2, ids)
    <3>1. NewId(s, ids)
      BY <2>1, <2>3 DEF ids
    <3>2. NewId(s \o t, ids)
      BY <1>1, <1>2, <2>2, <3>1, ConcatNewId
    <3> QED BY <1>2, <3>1, <3>2
  <2> QED BY <1>3, <2>1, <2>3 DEF Numbered, Down, s2, ids
<1>11. Waiting(c)'
  <2>1. ASSUME NEW f \in Expected(c)' PROVE id = 0 /\ f \notin Ids(reg[c]) /\ Silent(s2, f)
    <3>1. f \in W /\ Silent(t, f)
      BY <1>2, <2>1
    <3>2. id = 0 /\ f \notin Ids(reg[c]) /\ Silent(s, f)
      BY <1>4, <3>1
    <3>3. Silent(s \o t, f)
      BY <1>1, <3>1, <3>2, SilentFact
    <3> QED BY <1>2, <3>2, <3>3
  <2> QED BY <1>3, <2>1 DEF Waiting, Down, s2
<1>12. Unready(c)'
  <2>1. id = 0 /\ link[c][Host] # "closed" => ~selfReadyFlag[c] /\ ~Has(u, "PLAYER_READY")
    BY DEF ClientInv, Unready, Up, u, id
  <2> QED BY <1>3, <1>5, <2>1 DEF Unready, Up, u2
<1>13. Own(c)'
  <2>1. /\ id # 0 => id = me
        /\ \A k \in DOMAIN u : u[k].type = "PLAYER_READY" => u[k].id = me
    BY <1>2 DEF ClientInv, Own, Up, u, id, me
  <2>2. ASSUME NEW k \in DOMAIN u2, u2[k].type = "PLAYER_READY" PROVE u2[k].id = me
    BY <1>6, <2>1, <2>2
  <2> QED BY <1>2, <1>3, <2>1, <2>2 DEF Own, Up, u2
<1>14. Flagged(c)'
  <2> SUFFICES ASSUME link[c][Host] # "closed" PROVE Tells(u2, selfReadyFlag[c])
    BY <1>3 DEF Flagged, Up, u2
  <2>1. Tells(u, selfReadyFlag[c])
    BY DEF ClientInv, Flagged, Up, u
  <2>2. CASE u # << >> /\ u2 = Tail(u)
    BY <1>1, <2>1, <2>2, TailFinal DEF Tells
  <2> QED BY <1>2, <2>1, <2>2
<1>15. Registers(c)'
  <2> SUFFICES ASSUME link[c][Host] = "up", NEW k \in DOMAIN reg'[Host], reg'[Host][k].id = me
               PROVE  Agreed(reg'[Host][k], id, player_nation_color[c], selfReadyFlag[c], s2, u2)
    BY <1>2, <1>3 DEF Registers, Linked, Down, Up, s2, u2
  <2> DEFINE e2 == reg'[Host][k]
  <2>1. s2 = s \o t
    BY <1>2
  <2>2. \/ W # {} /\ Entered(e2, t)
        \/ \E j \in DOMAIN reg[Host] : /\ reg[Host][j].id = me
                                       /\ Carried(reg[Host][j], e2, t, u, u2)
    BY DEF Told, u, u2, W, me
  <2>3. e2.ready \in BOOLEAN
    <3>1. e2 \in RegEntry
      BY <1>1, SeqFact
    <3> QED BY <3>1 DEF RegEntry
  <2> HIDE DEF e2
  <2>4. CASE W # {} /\ Entered(e2, t)
    <3>1. id = 0
      BY <1>4, <2>4
    <3>2. selfReadyFlag[c] = FALSE
      BY <1>1, <3>1 DEF ClientInv, Unready, id
    <3>3. e2.ready = FALSE
      BY <2>3, <2>4 DEF Entered
    <3> QED BY <1>1, <2>1, <2>4, <3>1, <3>2, <3>3, EnteredAgreed DEF e2
  <2>5. ASSUME NEW j \in DOMAIN reg[Host], reg[Host][j].id = me,
               Carried(reg[Host][j], e2, t, u, u2)
        PROVE  Agreed(e2, id, player_nation_color[c], selfReadyFlag[c], s2, u2)
    <3> DEFINE e == reg[Host][j]
    <3>1. Agreed(e, id, player_nation_color[c], selfReadyFlag[c], s, u)
      BY <1>2, <2>5 DEF ClientInv, Registers, Linked, Down, Up, s, u, id, me
    <3>2. Tells(u, selfReadyFlag[c])
      BY DEF ClientInv, Flagged, Up, u
    <3> HIDE DEF e
    <3>3. Carried(e, e2, t, u, u2)
      BY <2>5 DEF e
    <3> QED BY <1>1, <2>1, <3>1, <3>2, <3>3, CarriedAgreed
  <2> QED BY <2>2, <2>4, <2>5 DEF e2
<1> QED BY <1>7, <1>8, <1>9, <1>10, <1>11, <1>12, <1>13, <1>14, <1>15 DEF ClientInv

\* What a step of the host is to c.
Hears(c) ==
    \/ Untold(c)
    \/ \E t : Forsaken(c, t) \/ Met(c, t) \/ Told(c, t)

LEMMA HeardKeeps ==
    ASSUME Types, Types', NEW c \in Client, ClientInv(c), Unmoved(c), Hears(c)
    PROVE  ClientInv(c)'
<1>1. CASE Untold(c)
  BY <1>1, UntoldKeeps
<1>2. ASSUME NEW t, Forsaken(c, t) \/ Met(c, t) \/ Told(c, t) PROVE ClientInv(c)'
  BY <1>2, ForsakenKeeps, MetKeeps, ToldKeeps
<1> QED BY <1>1, <1>2 DEF Hears

\* Words that are not about who has which id.
Plain(t) == \A k \in DOMAIN t : t[k].type \notin {"PLAYER_ID", "ACCEPT_NEW_PLAYER"}

LEMMA PlainFact ==
    ASSUME NEW t, Plain(t)
    PROVE  /\ \A pool, f : Truthful(t, pool, f)
           /\ \A W : Names(t, W)
           /\ \A f : Silent(t, f)
BY DEF Plain, Truthful, Names, Silent

LEMMA ClientFact ==
    ASSUME NEW c \in Client, Types
    PROVE  /\ c \in Machine /\ Host \in Machine /\ c # Host
           /\ chan[Host][c] \in Seq(Message) /\ chan[c][Host] \in Seq(Message)
           /\ player_pool[Host] \in Pool /\ player_pool[c] \in Pool
           /\ reg[Host] \in Seq(RegEntry) /\ reg[c] \in Seq(RegEntry)
           /\ link[Host][c] \in {"none", "dialled", "up", "closed"}
           /\ link[c][Host] \in {"none", "dialled", "up", "closed"}
BY HostAssumption DEF Types, Channels, Links, Client

\* The connections of the host point to players in its pool, other ones than its
\* own, each to another one.
LEMMA HostPeers ==
    ASSUME HostInv
    PROVE  /\ \A m, n \in Machine : data[Host][n] # 0 /\ data[Host][m] = data[Host][n] => m = n
           /\ \A n \in Machine : link[Host][n] = "up" =>
                  /\ data[Host][n] # 0 /\ data[Host][n] # 1 /\ data[Host][n] \in DOMAIN player_pool[Host]
                  /\ data[Host][n] \in Slot
<1>1. Pointed(player_pool[Host], link, data) /\ DOMAIN player_pool[Host] \subseteq Slot
  BY HostAssumption, PoolFact DEF HostInv, HostLinks, Types
<1>2. \A m, n \in Machine : data[Host][n] # 0 /\ data[Host][m] = data[Host][n] => m = n
  BY <1>1 DEF Pointed
<1>3. \A n \in Machine : link[Host][n] = "up" =>
         data[Host][n] # 0 /\ data[Host][n] \in DOMAIN player_pool[Host] \ {1}
  BY <1>1 DEF Pointed
<1> QED BY <1>1, <1>2, <1>3

\* The notices go to a client that stays, and it hears of all that go.
LEMMA SweepHeard ==
    ASSUME HostInv, HostInv', NEW n \in Machine, n # Host, NEW pool, NEW lk, NEW dt, NEW ch,
           Sweeping(n, pool, lk, dt, ch), phase[Host] = "lobby", NEW c \in Client
    PROVE  Hears(c)
<1> DEFINE old == player_pool[Host]
           new == player_pool'[Host]
           list == reg[Host]
           lost == Lost(Host, pool)
           t == DisconnectNotice(Entries(list, lost))
           s == chan[Host][c]
           u == chan[c][Host]
           cut == Cut(Host, pool, dt)
           me == data[Host][c]
<1>1. /\ c \in Machine /\ Host \in Machine /\ c # Host /\ s \in Seq(Message) /\ u \in Seq(Message)
      /\ old \in Pool /\ list \in Seq(RegEntry)
  BY ClientFact DEF HostInv
<1>2. /\ Swept(Host, pool, lk, dt, ch) /\ Sound(pool, lk, dt)
      /\ \A i \in DOMAIN old : i \in DOMAIN pool /\ pool[i].machine = old[i].machine
      /\ \A i \in DOMAIN pool \ DOMAIN old : pool[i].machine = n /\ link[Host][n] = "none"
      /\ \A b \in Machine \ {n} : lk[Host][b] = link[Host][b]
      /\ \A b \in Machine \ {n} : link[Host][b] # "closed" => dt[Host][b] = data[Host][b]
      /\ link[Host][n] # "none" => dt[Host][n] = data[Host][n]
      /\ \A b \in Machine : ch[Host][b] = chan[Host][b] /\ (b # n => ch[b][Host] = chan[b][Host])
      /\ \/ lk[Host][n] = "closed" /\ ch[n][Host] = << >>
         \/ /\ lk[Host][n] = "up" /\ link[Host][n] \in {"none", "up"}
            /\ chan[n][Host] # << >> /\ Head(chan[n][Host]).type = "CONNECT"
            /\ ch[n][Host] = Tail(chan[n][Host])
  BY DEF Sweeping
<1>3. /\ pool \in Pool /\ lk[Host][c] \in {"none", "up", "closed"}
      /\ \A i \in Ids(list) : i \in DOMAIN pool
      /\ Pointed(pool, lk, dt)
  <2>1. /\ pool \in Pool /\ lk \in Links /\ Pointed(pool, lk, dt)
        /\ \A i \in Ids(list) : i \in DOMAIN pool
    BY <1>2 DEF Sound
  <2>2. lk[Host][c] \in {"none", "dialled", "up", "closed"} /\ lk[Host][c] # "dialled"
    BY <1>1, <2>1 DEF Links, Pointed
  <2> QED BY <2>1, <2>2
<1>3a. /\ lk[Host][c] = "up" => dt[Host][c] # 0
       /\ lk[Host][c] = "none" => dt[Host][c] = 0
       /\ dt[Host][c] # 0 => dt[Host][c] # 1
       /\ \A b \in Machine : dt[Host][c] # 0 /\ dt[Host][b] = dt[Host][c] => b = c
  BY <1>1, <1>3 DEF Pointed
<1>3b. 0 \notin Ids(list)
  <2>1. DOMAIN pool \subseteq Slot /\ 0 \notin Slot
    BY <1>3, PoolFact DEF Slot
  <2> QED BY <1>3, <2>1
<1>4. /\ new = Without(pool, lost) /\ reg'[Host] = Unregister(list, lost)
      /\ link'[Host][c] = IF c \in cut THEN "closed" ELSE lk[Host][c]
      /\ data'[Host][c] = IF c \in cut THEN 0 ELSE dt[Host][c]
      /\ \A a, b \in Machine : chan'[a][b] =
            IF a \in cut /\ b = Host THEN << >>
            ELSE IF a = Host /\ lk[Host][b] = "up" /\ b \notin cut /\ link[b][Host] # "closed"
                 THEN ch[a][b] \o t ELSE ch[a][b]
  BY <1>1, <1>2 DEF Swept
<1>5. /\ t \in Seq(Message) /\ \A k \in DOMAIN t : t[k].type = "PLAYER_DISCONNECT"
      /\ \A i \in Ids(list) \cap lost : \E k \in DOMAIN t : t[k].id = i
  BY <1>1, NoticeFact
<1>6. /\ DOMAIN new = DOMAIN pool \ lost /\ \A i \in DOMAIN pool \ lost : new[i] = pool[i]
      /\ Ids(reg'[Host]) = Ids(list) \ lost
      /\ \A k \in DOMAIN reg'[Host] : \E j \in DOMAIN list :
            reg'[Host][k] = list[j] /\ list[j].id \notin lost
  <2>1. reg'[Host] = Unregister(list, lost) /\ new = Without(pool, lost)
    BY <1>4
  <2>2. /\ Ids(Unregister(list, lost)) = Ids(list) \ lost
        /\ \A k \in DOMAIN Unregister(list, lost) : \E j \in DOMAIN list :
              Unregister(list, lost)[k] = list[j] /\ list[j].id \notin lost
    BY <1>1, UnregisterFact
  <2>3. /\ DOMAIN Without(pool, lost) = DOMAIN pool \ lost
        /\ \A i \in DOMAIN pool \ lost : Without(pool, lost)[i] = pool[i]
    BY <1>3, WithoutFact
  <2> HIDE DEF new, lost, list
  <2> QED BY <2>1, <2>2, <2>3
<1>7. lost \subseteq Ids(list)
  BY DEF Lost
<1>8. \A i \in Ids(list) : i # 1 => \E b \in Machine : link[Host][b] = "up" /\ data[Host][b] = i
  BY DEF HostInv, HostList
<1>9. c \in cut <=> dt[Host][c] \in lost
  BY <1>1 DEF Cut, PeersOf
<1> HIDE DEF old, new, list, lost, t, s, u, cut, me
<1>10. /\ chan'[Host][c] = IF lk[Host][c] = "up" /\ c \notin cut /\ link[c][Host] # "closed"
                           THEN s \o t ELSE s
       /\ chan'[c][Host] = IF c \in cut THEN << >> ELSE ch[c][Host]
  BY <1>1, <1>2, <1>4 DEF s
<1>11. \A k \in DOMAIN t : 1 <= k
  BY <1>5, SeqFact
<1>12. Plain(t)
  BY <1>5 DEF Plain
<1>13. CASE lk[Host][c] = "closed" \/ c \in cut
  <2>1. link'[Host][c] = "closed" /\ chan'[Host][c] = s
    BY <1>4, <1>10, <1>13
  <2>2. CASE chan'[c][Host] = << >>
    <3>1. Forsaken(c, t)
      BY <1>5, <1>12, <2>1, <2>2, PlainFact DEF Forsaken, s
    <3> QED BY <3>1 DEF Hears
  <2>3. CASE chan'[c][Host] # << >>
    <3>1. c \notin cut /\ c # n
      BY <1>2, <1>10, <1>13, <2>3
    <3>2. link[Host][c] = "closed" /\ chan'[c][Host] = u
      BY <1>1, <1>2, <1>10, <1>13, <3>1 DEF u
    <3> QED BY <2>1, <3>2 DEF Hears, Untold, s, u
  <2> QED BY <2>2, <2>3
<1>14. CASE lk[Host][c] = "none"
  <2>1. c # n /\ c \notin cut
    BY <1>2, <1>3a, <1>3b, <1>7, <1>9, <1>14
  <2>2. link[Host][c] = "none" /\ link'[Host][c] = "none" /\ chan'[Host][c] = s /\ chan'[c][Host] = u
    BY <1>1, <1>2, <1>4, <1>10, <1>14, <2>1 DEF u
  <2> QED BY <2>2 DEF Hears, Untold, s, u
<1>15. CASE lk[Host][c] = "up" /\ c \notin cut /\ link[Host][c] # "up"
  <2>1. /\ c = n /\ link[Host][c] = "none" /\ u # << >> /\ Head(u).type = "CONNECT"
        /\ chan'[c][Host] = Tail(u)
    BY <1>1, <1>2, <1>10, <1>15 DEF u
  <2>2. chan'[Host][c] \in {s, s \o t} /\ link'[Host][c] = "up"
    BY <1>4, <1>10, <1>15
  <2>3. phase'[Host] = "lobby"
    BY <1>2 DEF Swept
  <2>4. Holds(new, 1, Host)
    BY <2>3 DEF HostInv, HostThere, Holds, new
  <2>5. ASSUME NEW k \in DOMAIN reg'[Host], reg'[Host][k].id = data'[Host][c] PROVE FALSE
    <3> DEFINE i == reg'[Host][k].id
    <3>1. i \in Ids(list) /\ i = dt[Host][c] /\ i # 0 /\ i # 1
      BY <1>3a, <1>4, <1>6, <1>15, <2>5 DEF Ids
    <3> HIDE DEF i
    <3>2. PICK b \in Machine : link[Host][b] = "up" /\ data[Host][b] = i
      BY <1>8, <3>1
    <3>3. b # c /\ dt[Host][b] = i
      BY <1>2, <2>1, <3>2
    <3> QED BY <1>3a, <3>1, <3>3
  <2>6. Met(c, t)
    BY <1>5, <2>1, <2>2, <2>4, <2>5 DEF Met, s, u, new
  <2> QED BY <2>6 DEF Hears
<1>16. CASE lk[Host][c] = "up" /\ c \notin cut /\ link[Host][c] = "up"
  <2>1. link'[Host][c] = "up" /\ chan'[Host][c] = IF link[c][Host] # "closed" THEN s \o t ELSE s
    BY <1>4, <1>10, <1>16
  <2>2. \/ c # n /\ chan'[c][Host] = u
        \/ u # << >> /\ Head(u).type = "CONNECT" /\ chan'[c][Host] = Tail(u)
    BY <1>1, <1>2, <1>10, <1>16 DEF u
  <2>3. dt[Host][c] = me /\ data'[Host][c] = me /\ me \notin lost
    BY <1>1, <1>2, <1>4, <1>9, <1>16 DEF me
  <2>4. \A i, m : Holds(old, i, m) => Holds(new, i, m) \/ Deleted(t, i, 0)
    <3> SUFFICES ASSUME NEW i, NEW m, Holds(old, i, m) PROVE Holds(new, i, m) \/ Deleted(t, i, 0)
      OBVIOUS
    <3>1. i \in DOMAIN pool /\ pool[i].machine = m
      BY <1>2 DEF Holds, old
    <3>2. CASE i \in lost
      <4>1. PICK k \in DOMAIN t : t[k].id = i
        BY <1>5, <1>7, <3>2
      <4>2. 0 < k
        BY <1>5, <4>1, SeqFact
      <4> QED BY <1>5, <4>1, <4>2 DEF Deleted
    <3>3. CASE i \notin lost
      BY <1>6, <3>1, <3>3 DEF Holds
    <3> QED BY <3>2, <3>3
  <2>6. Announces(t, old, new, me)
    BY <1>12, <2>4, PlainFact DEF Announces
  <2>8. \A f \in Expected(c)' : f \in Expected(c) /\ Silent(t, f)
    <3>1. me \notin Ids(reg'[Host]) => me \notin Ids(list)
      BY <1>6, <2>3
    <3>2. Expected(c)' = {me} \ Ids(reg'[Host]) /\ Expected(c) = {me} \ Ids(list)
      BY <2>3 DEF Expected, me, list
    <3> QED BY <1>12, <3>1, <3>2, PlainFact
  <2>9. ~Has(t, "ACCEPT_COLOR")
    BY <1>5 DEF Has
  <2>10. ASSUME NEW k \in DOMAIN reg'[Host], reg'[Host][k].id = me
         PROVE  \E j \in DOMAIN list : /\ list[j].id = me
                                       /\ Carried(list[j], reg'[Host][k], t, u, chan'[c][Host])
    <3>1. PICK j \in DOMAIN list : reg'[Host][k] = list[j]
      BY <1>6
    <3>2. Carried(list[j], reg'[Host][k], t, u, chan'[c][Host])
      BY <2>2, <2>9, <3>1 DEF Carried
    <3> QED BY <2>10, <3>1, <3>2
  <2>11. Names(t, Expected(c))
    BY <1>12, PlainFact
  <2>12. Told(c, t)
    BY <1>5, <1>16, <2>1, <2>2, <2>3, <2>6, <2>8, <2>10, <2>11 DEF Told, old, new, list, s, u, me
  <2> QED BY <2>12 DEF Hears
<1> QED BY <1>3, <1>13, <1>14, <1>15, <1>16

\* The host says t to c, which is not about ids, or is not connected with it.
Talk(c, t) ==
    /\ t \in Seq(Message) /\ Plain(t)
    /\ player_pool'[Host] = player_pool[Host] /\ link'[Host] = link[Host] /\ data'[Host] = data[Host]
    /\ DOMAIN reg'[Host] = DOMAIN reg[Host]
    /\ \A k \in DOMAIN reg[Host] : reg'[Host][k].id = reg[Host][k].id
    /\ IF link[Host][c] = "up"
       THEN /\ chan'[Host][c] = IF link[c][Host] # "closed" THEN chan[Host][c] \o t ELSE chan[Host][c]
            /\ \/ chan'[c][Host] = chan[c][Host]
               \/ chan[c][Host] # << >> /\ chan'[c][Host] = Tail(chan[c][Host])
            /\ \A k \in DOMAIN reg[Host] : reg[Host][k].id = data[Host][c] =>
                  Carried(reg[Host][k], reg'[Host][k], t, chan[c][Host], chan'[c][Host])
       ELSE chan'[Host][c] = chan[Host][c] /\ chan'[c][Host] = chan[c][Host]

LEMMA TalkHeard ==
    ASSUME NEW c \in Client, NEW t, Talk(c, t) PROVE Hears(c)
<1>1. CASE link[Host][c] # "up"
  BY <1>1 DEF Talk, Hears, Untold
<1>2. CASE link[Host][c] = "up"
  <2> DEFINE pool == player_pool[Host]
             me == data[Host][c]
  <2>1. t \in Seq(Message) /\ Truthful(t, pool, me) /\ Names(t, Expected(c)) /\ \A f : Silent(t, f)
    BY PlainFact DEF Talk
  <2>2. player_pool'[Host] = pool /\ link'[Host][c] = "up" /\ data'[Host][c] = me
    BY <1>2 DEF Talk
  <2>3. Announces(t, pool, player_pool'[Host], me)
    BY <2>1, <2>2 DEF Announces
  <2>4. Ids(reg'[Host]) = Ids(reg[Host])
    BY DEF Talk, Ids
  <2>5. Expected(c)' = Expected(c)
    BY <2>2, <2>4 DEF Expected
  <2>6. ASSUME NEW k \in DOMAIN reg'[Host], reg'[Host][k].id = me
        PROVE  \E j \in DOMAIN reg[Host] :
                  /\ reg[Host][j].id = me
                  /\ Carried(reg[Host][j], reg'[Host][k], t, chan[c][Host], chan'[c][Host])
    <3>1. k \in DOMAIN reg[Host] /\ reg[Host][k].id = me
      BY <2>6 DEF Talk
    <3>2. Carried(reg[Host][k], reg'[Host][k], t, chan[c][Host], chan'[c][Host])
      BY <1>2, <3>1 DEF Talk
    <3> QED BY <3>1, <3>2
  <2>7. /\ chan'[Host][c] = IF link[c][Host] # "closed" THEN chan[Host][c] \o t ELSE chan[Host][c]
        /\ \/ chan'[c][Host] = chan[c][Host]
           \/ chan[c][Host] # << >> /\ chan'[c][Host] = Tail(chan[c][Host])
    BY <1>2 DEF Talk
  <2> HIDE DEF pool, me
  <2>8. Told(c, t)
    BY <1>2, <2>1, <2>2, <2>3, <2>5, <2>6, <2>7 DEF Told, pool, me
  <2> QED BY <2>8 DEF Hears
<1> QED BY <1>1, <1>2

\* What the host has said to c when it has read a message of n and replied.
LEMMA HostReplied ==
    ASSUME HostInv, NEW n \in Machine, n # Host, NEW c \in Client, NEW to, NEW msgs,
           Replies(Host, to, msgs, Host, n)
    PROVE  /\ chan'[Host][c] = IF c \in to /\ link[c][Host] # "closed" THEN chan[Host][c] \o msgs
                               ELSE chan[Host][c]
           /\ chan'[c][Host] = IF c = n THEN Tail(chan[c][Host]) ELSE chan[c][Host]
<1>1. c \in Machine /\ Host \in Machine /\ c # Host
  BY ClientFact DEF HostInv
<1> QED BY <1>1 DEF Replies, Sent, Took

LEMMA ReadyHeard ==
    ASSUME HostInv, NEW n \in Machine, PlayerReady(Host, n), \A c \in Client : ClientInv(c),
           NEW c \in Client
    PROVE  Hears(c)
<1> DEFINE msg == Head(chan[n][Host])
           t == <<msg>>
           list == reg[Host]
<1>1. c \in Machine /\ Host \in Machine /\ c # Host
  BY ClientFact DEF HostInv
<1>2. /\ Got(Host, n, "PLAYER_READY") /\ Flags(Host, msg.id, msg.flag)
      /\ \A a, b \in Machine : chan'[a][b] = Sent(Host, Peers(link, Host), t, Took(Host, n, a, b), a, b)
      /\ UNCHANGED <<link, data, player_pool>>
  BY <1>1, ReadyFact DEF HostInv
<1>3. /\ Events(Host, n) /\ link[Host][n] = "up" /\ msg.type = "PLAYER_READY" /\ n # Host /\ msg \in Message
      /\ chan[n][Host] # << >> /\ 1 \in DOMAIN chan[n][Host] /\ msg = chan[n][Host][1]
  BY <1>1, <1>2, GotFact, Speakers, TakeFact DEF HostInv, Events
<1>4. t \in Seq(Message) /\ \A k \in DOMAIN t : t[k] = msg
  BY <1>3, OneMessage
<1>5. msg.id = data[Host][n]
  <2>1. n \in Client
    BY <1>3 DEF Client
  <2> QED BY <1>3, <2>1 DEF ClientInv, Own, Up
<1>6. /\ DOMAIN reg'[Host] = DOMAIN list
      /\ \A k \in DOMAIN list : /\ reg'[Host][k].id = list[k].id /\ reg'[Host][k].color = list[k].color
                                /\ reg'[Host][k].ready = IF list[k].id = msg.id THEN msg.flag ELSE list[k].ready
  BY <1>2 DEF Flags, Reflagged
<1> HIDE DEF t
<1>7. /\ chan'[Host][c] = IF link[Host][c] = "up" /\ link[c][Host] # "closed" THEN chan[Host][c] \o t
                          ELSE chan[Host][c]
      /\ chan'[c][Host] = IF c = n THEN Tail(chan[c][Host]) ELSE chan[c][Host]
  BY <1>1, <1>2, <1>3 DEF Sent, Took, Peers
<1>8. ASSUME link[Host][c] = "up", NEW k \in DOMAIN list, list[k].id = data[Host][c]
      PROVE  Carried(list[k], reg'[Host][k], t, chan[c][Host], chan'[c][Host])
  <2>1. ~Has(t, "ACCEPT_COLOR")
    BY <1>3, <1>4 DEF Has
  <2>2. CASE c = n
    <3>1. list[k].id = msg.id
      BY <1>5, <1>8, <2>2
    <3> QED BY <1>3, <1>6, <1>7, <2>1, <2>2, <3>1 DEF Carried
  <2>3. CASE c # n
    <3>1. list[k].id # msg.id
      BY <1>1, <1>3, <1>5, <1>8, <2>3, HostPeers
    <3> QED BY <1>6, <1>7, <2>1, <2>3, <3>1 DEF Carried
  <2> QED BY <2>2, <2>3
<1>9. Plain(t)
  BY <1>3, <1>4 DEF Plain
<1>10. Talk(c, t)
  <2>1. link[Host][c] # "up" => c # n
    BY <1>3
  <2> HIDE DEF msg
  <2> QED BY <1>2, <1>3, <1>4, <1>6, <1>7, <1>8, <1>9, <2>1 DEF Talk
<1> QED BY <1>10, TalkHeard

LEMMA RefuseHeard ==
    ASSUME HostInv, NEW n \in Machine, RefusePlayer(n), NEW c \in Client
    PROVE  Hears(c)
<1> DEFINE msg == [type |-> "REFUSE_NEW_PLAYER"]
           t == IF c = n THEN <<msg>> ELSE << >>
           s == chan[Host][c]
<1>1. c \in Machine /\ Host \in Machine /\ c # Host /\ s \in Seq(Message)
  BY ClientFact DEF HostInv
<1>2. /\ Got(Host, n, "NEW_PLAYER") /\ UNCHANGED <<link, data, player_pool, reg>>
      /\ Replies(Host, {n}, <<msg>>, Host, n)
  BY <1>1, RefuseFact DEF HostInv, Replies, lobby
<1>3. /\ link[Host][n] = "up" /\ Head(chan[n][Host]).type = "NEW_PLAYER" /\ n # Host
      /\ chan[n][Host] # << >>
  BY <1>1, <1>2, GotFact, Speakers DEF HostInv, Events
<1>4. msg \in Message /\ msg.type = "REFUSE_NEW_PLAYER"
  BY SentFact
<1> HIDE DEF msg
<1>5. t \in Seq(Message) /\ Plain(t) /\ ~Has(t, "ACCEPT_COLOR")
  BY <1>4, OneMessage, NoMessage DEF Plain, Has
<1>6. /\ chan'[Host][c] = IF c \in {n} /\ link[c][Host] # "closed" THEN s \o <<msg>> ELSE s
      /\ chan'[c][Host] = IF c = n THEN Tail(chan[c][Host]) ELSE chan[c][Host]
  BY <1>2, <1>3, HostReplied
<1>7. s \o << >> = s
  BY <1>1, ConcatEmptySeq
<1> HIDE DEF s
<1>8. chan'[Host][c] = IF link[c][Host] # "closed" THEN s \o t ELSE s
  BY <1>6, <1>7
<1> HIDE DEF t
<1>9. \A k \in DOMAIN reg[Host] : Carried(reg[Host][k], reg'[Host][k], t, chan[c][Host], chan'[c][Host])
  BY <1>2, <1>3, <1>5, <1>6 DEF Carried
<1>10. Talk(c, t)
  <2>1. CASE link[Host][c] = "up"
    BY <1>2, <1>3, <1>5, <1>6, <1>8, <1>9, <2>1 DEF Talk, s
  <2>2. CASE link[Host][c] # "up"
    BY <1>2, <1>3, <1>5, <1>6, <2>2 DEF Talk, s
  <2> QED BY <2>1, <2>2
<1> QED BY <1>10, TalkHeard

\* Who has an entry that is given a colour is told so.
LEMMA AcquireHeard ==
    ASSUME HostInv, NEW n \in Machine, AcquireColor(Host, n), NEW c \in Client
    PROVE  Hears(c)
<1> DEFINE f == data[Host][n]
           d == Head(chan[n][Host]).color
           given == d \notin colorAssigned /\ f \in Ids(reg[Host])
           msg == ColorMsg(d)
           t == IF given /\ c = n THEN <<msg>> ELSE << >>
           s == chan[Host][c]
           list == reg[Host]
<1>1. c \in Machine /\ Host \in Machine /\ c # Host /\ s \in Seq(Message) /\ list \in Seq(RegEntry)
  BY ClientFact DEF HostInv
<1>2. /\ Got(Host, n, "ACQUIRE_COLOR") /\ d \in Color
      /\ IF given
         THEN /\ Recolored(f, d)
              /\ Replies(Host, {n}, <<msg>>, Host, n)
         ELSE /\ \A a, b \in Machine : chan'[a][b] = Took(Host, n, a, b)
              /\ reg' = reg
      /\ UNCHANGED <<link, data, player_pool>>
  <2>1. Got(Host, n, "ACQUIRE_COLOR")
    BY DEF AcquireColor
  <2>2. link[Host][n] = "up"
    BY <2>1 DEF Got
  <2>3. f # 0
    BY <2>2, HostPeers
  <2>4. From(Host, n) = f
    BY <2>3, FromFact
  <2>5. LET i == From(Host, n) IN
        /\ d \in Color
        /\ IF d \notin colorAssigned /\ i \in Ids(reg[Host])
           THEN /\ Recolored(i, d)
                /\ \A a, b \in Machine : chan'[a][b] = Sent(Host, {n}, <<msg>>, Took(Host, n, a, b), a, b)
           ELSE /\ \A a, b \in Machine : chan'[a][b] = Took(Host, n, a, b)
                /\ reg' = reg
        /\ UNCHANGED <<link, data, player_pool>>
    BY <1>1, AcquireFact DEF HostInv
  <2> HIDE DEF d, msg, f
  <2> QED BY <2>1, <2>4, <2>5 DEF Replies
<1>3. /\ link[Host][n] = "up" /\ Head(chan[n][Host]).type = "ACQUIRE_COLOR" /\ n # Host
      /\ chan[n][Host] # << >>
  BY <1>1, <1>2, GotFact, Speakers DEF HostInv, Events
<1>4. \A b \in Machine : data[Host][b] = f => b = n
  BY <1>3, HostPeers
<1>5. msg \in Message /\ msg.type = "ACCEPT_COLOR" /\ msg.color = d
  BY <1>2, SentFact DEF ColorMsg
<1> HIDE DEF msg, f, d, given
<1>6. t \in Seq(Message) /\ Plain(t)
  BY <1>5, OneMessage, NoMessage DEF Plain
<1>7. /\ given /\ c = n => Has(t, "ACCEPT_COLOR") /\ Colored(t, d)
      /\ ~(given /\ c = n) => ~Has(t, "ACCEPT_COLOR")
  BY <1>5, OneMessage, NoMessage DEF Has, Colored
<1>8. /\ chan'[Host][c] = IF given /\ c = n /\ link[c][Host] # "closed" THEN s \o <<msg>> ELSE s
      /\ chan'[c][Host] = IF c = n THEN Tail(chan[c][Host]) ELSE chan[c][Host]
  <2>1. CASE given
    <3>1. /\ chan'[Host][c] = IF c \in {n} /\ link[c][Host] # "closed" THEN s \o <<msg>> ELSE s
          /\ chan'[c][Host] = IF c = n THEN Tail(chan[c][Host]) ELSE chan[c][Host]
      BY <1>2, <1>3, <2>1, HostReplied
    <3> QED BY <2>1, <3>1
  <2>2. CASE ~given
    BY <1>1, <1>2, <1>3, <2>2 DEF Took
  <2> QED BY <2>1, <2>2
<1>9. s \o << >> = s
  BY <1>1, ConcatEmptySeq
<1> HIDE DEF s, list
<1>10. chan'[Host][c] = IF link[c][Host] # "closed" THEN s \o t ELSE s
  BY <1>8, <1>9
<1> HIDE DEF t
<1>11. /\ DOMAIN reg'[Host] = DOMAIN list
       /\ \A k \in DOMAIN list :
            /\ reg'[Host][k].id = list[k].id /\ reg'[Host][k].ready = list[k].ready
            /\ reg'[Host][k].color = IF given /\ list[k].id = f THEN d ELSE list[k].color
  <2>1. CASE given
    <3>1. Recolored(f, d)
      BY <1>2, <2>1
    <3>2. f \in Ids(list) /\ UniqueIds(list)
      BY <3>1 DEF Recolored, HostInv, HostList, list
    <3>3. Position(list, f) \in DOMAIN list /\ list[Position(list, f)].id = f
      BY <1>1, <3>2, PositionFact
    <3> DEFINE p == Position(list, f)
    <3>4. /\ DOMAIN reg'[Host] = DOMAIN list
          /\ reg'[Host][p].color = d /\ reg'[Host][p].id = f /\ reg'[Host][p].ready = list[p].ready
          /\ \A k \in DOMAIN list \ {p} : reg'[Host][k] = list[k]
      BY <3>1 DEF Recolored, list
    <3> HIDE DEF p
    <3>5. p \in DOMAIN list /\ list[p].id = f
      BY <3>3 DEF p
    <3>6. \A k \in DOMAIN list : list[k].id = f => k = p
      BY <3>2, <3>5 DEF UniqueIds
    <3> QED BY <2>1, <3>4, <3>5, <3>6
  <2>2. CASE ~given
    BY <1>2, <2>2 DEF list
  <2> QED BY <2>1, <2>2
<1>12. ASSUME NEW k \in DOMAIN list, list[k].id = data[Host][c]
       PROVE  Carried(list[k], reg'[Host][k], t, chan[c][Host], chan'[c][Host])
  <2>1. c = n <=> list[k].id = f
    BY <1>1, <1>4, <1>12 DEF f
  <2>2. \/ chan'[c][Host] = chan[c][Host]
        \/ /\ chan[c][Host] # << >> /\ chan'[c][Host] = Tail(chan[c][Host])
           /\ Head(chan[c][Host]).type # "PLAYER_READY"
    BY <1>3, <1>8
  <2>3. IF Has(t, "ACCEPT_COLOR") THEN Colored(t, reg'[Host][k].color) ELSE reg'[Host][k].color = list[k].color
    BY <1>7, <1>11, <2>1
  <2> QED BY <1>11, <2>2, <2>3 DEF Carried
<1>13. Talk(c, t)
  <2>1. CASE link[Host][c] = "up"
    BY <1>2, <1>3, <1>6, <1>8, <1>10, <1>11, <1>12, <2>1 DEF Talk, s, list
  <2>2. CASE link[Host][c] # "up"
    BY <1>2, <1>3, <1>6, <1>8, <1>11, <2>2 DEF Talk, s, list
  <2> QED BY <2>1, <2>2
<1> QED BY <1>13, TalkHeard

\* What the player at the host does, but for leaving.
LEMMA HostPlayHeard ==
    ASSUME HostInv, (\E d \in Color : HostClicksColor(d)) \/ ClickReady(Host) \/ Start, NEW c \in Client
    PROVE  Hears(c)
<1> DEFINE s == chan[Host][c]
           list == reg[Host]
<1>1. c \in Machine /\ Host \in Machine /\ c # Host /\ s \in Seq(Message) /\ list \in Seq(RegEntry)
  BY ClientFact DEF HostInv
<1>2. s \o << >> = s
  BY <1>1, ConcatEmptySeq
<1>3. << >> \in Seq(Message) /\ Plain(<< >>) /\ ~Has(<< >>, "ACCEPT_COLOR")
  BY NoMessage DEF Plain, Has
<1>4. ASSUME NEW d \in Color, HostClicksColor(d) PROVE Hears(c)
  <2>1. phase[Host] = "lobby"
    BY <1>4 DEF HostClicksColor, Click
  <2>2. 1 \in Ids(list)
    BY <2>1 DEF HostInv, HostThere
  <2>3. Recolored(1, d) /\ UNCHANGED <<link, data, chan, player_pool>>
    BY <1>1, <1>4, <2>2, HostColorFact DEF HostInv
  <2>4. Position(list, 1) \in DOMAIN list /\ list[Position(list, 1)].id = 1
    BY <1>1, <2>2, PositionFact
  <2> DEFINE p == Position(list, 1)
  <2>5. /\ DOMAIN reg'[Host] = DOMAIN list /\ reg'[Host][p].id = 1
        /\ \A k \in DOMAIN list \ {p} : reg'[Host][k] = list[k]
    BY <2>3 DEF Recolored
  <2>6. p \in DOMAIN list /\ list[p].id = 1
    BY <2>4
  <2> HIDE DEF p, s
  <2>7. ASSUME link[Host][c] = "up", NEW k \in DOMAIN list, list[k].id = data[Host][c]
        PROVE  Carried(list[k], reg'[Host][k], << >>, chan[c][Host], chan'[c][Host])
    <3>1. list[k].id # 1
      BY <1>1, <2>7, HostPeers
    <3>2. reg'[Host][k] = list[k]
      BY <2>5, <2>6, <3>1
    <3> QED BY <1>3, <2>3, <3>2 DEF Carried
  <2>8. \A k \in DOMAIN list : reg'[Host][k].id = list[k].id
    BY <2>5, <2>6
  <2>9. Talk(c, << >>)
    BY <1>2, <1>3, <2>3, <2>5, <2>7, <2>8 DEF Talk, s
  <2> QED BY <2>9, TalkHeard
<1>5. ASSUME ClickReady(Host) PROVE Hears(c)
  <2> DEFINE i == my_player_id[Host]
             flag == ~selfReadyFlag[Host]
             msg == ReadyMsg(i, flag)
             t == <<msg>>
             p == Position(list, i)
  <2>1. /\ phase[Host] = "lobby" /\ i \in Ids(list) /\ i \in Slot
        /\ Reflagged(list, reg'[Host])
        /\ \A k \in DOMAIN list \ {p} : reg'[Host][k] = list[k]
        /\ \A a, b \in Machine : chan'[a][b] = Sent(Host, Peers(link, Host), t, chan[a][b], a, b)
        /\ UNCHANGED <<link, data, player_pool>>
    BY <1>1, <1>5, TurnFact DEF HostInv
  <2>2. i = 1
    BY <2>1 DEF HostInv, HostThere
  <2>3. p \in DOMAIN list /\ list[p].id = i
    BY <1>1, <2>1, PositionFact
  <2>4. msg \in Message /\ msg.type = "PLAYER_READY"
    <3>1. flag \in BOOLEAN
      OBVIOUS
    <3> HIDE DEF flag
    <3> QED BY <2>1, <3>1, SentFact DEF ReadyMsg
  <2> HIDE DEF msg, p
  <2>5. t \in Seq(Message) /\ Plain(t) /\ ~Has(t, "ACCEPT_COLOR")
    BY <2>4, OneMessage DEF Plain, Has
  <2> HIDE DEF t
  <2>6. /\ chan'[Host][c] = IF link[Host][c] = "up" /\ link[c][Host] # "closed" THEN s \o t ELSE s
        /\ chan'[c][Host] = chan[c][Host]
    BY <1>1, <2>1 DEF Sent, Peers
  <2> HIDE DEF s
  <2>7. ASSUME link[Host][c] = "up", NEW k \in DOMAIN list, list[k].id = data[Host][c]
        PROVE  Carried(list[k], reg'[Host][k], t, chan[c][Host], chan'[c][Host])
    <3>1. list[k].id # 1
      BY <1>1, <2>7, HostPeers
    <3>2. reg'[Host][k] = list[k]
      BY <2>1, <2>2, <2>3, <3>1
    <3> QED BY <2>5, <2>6, <3>2 DEF Carried
  <2>8. DOMAIN reg'[Host] = DOMAIN list /\ \A k \in DOMAIN list : reg'[Host][k].id = list[k].id
    BY <2>1 DEF Reflagged
  <2>9. Talk(c, t)
    BY <2>1, <2>5, <2>6, <2>7, <2>8 DEF Talk, s
  <2> QED BY <2>9, TalkHeard
<1>6. ASSUME Start PROVE Hears(c)
  <2>1. UNCHANGED <<link, data, chan, player_pool, reg>>
    BY <1>1, <1>6, StartFact DEF HostInv, lobby
  <2> HIDE DEF s
  <2>2. \A k \in DOMAIN list : Carried(list[k], reg'[Host][k], << >>, chan[c][Host], chan'[c][Host])
    BY <1>3, <2>1 DEF Carried
  <2>3. Talk(c, << >>)
    BY <1>2, <1>3, <2>1, <2>2 DEF Talk, s
  <2> QED BY <2>3, TalkHeard
<1> QED BY <1>4, <1>5, <1>6

LEMMA HostLeaveHeard ==
    ASSUME HostInv, Leave(Host), NEW c \in Client
    PROVE  Hears(c)
<1> DEFINE msg == [type |-> "ABORT_GAME"]
           t == <<msg>>
<1>1. c \in Machine /\ Host \in Machine /\ c # Host
  BY ClientFact DEF HostInv
<1>2. PICK ch : Left(Host, ch) /\ \A a, b \in Machine : ch[a][b] = LeftWord(Host, a, b)
  BY <1>1, LeaveFact DEF HostInv
<1>3. msg \in Message /\ msg.type = "ABORT_GAME"
  BY SentFact
<1> HIDE DEF msg
<1>4. t \in Seq(Message) /\ Names(t, {})
  BY <1>3, OneMessage DEF Names
<1>5. ch[Host][c] \in {chan[Host][c], chan[Host][c] \o t}
  BY <1>1, <1>2 DEF LeftWord, Sent, msg
<1> HIDE DEF t
<1>6. Forsaken(c, t)
  BY <1>1, <1>2, <1>4, <1>5 DEF Left, Forsaken
<1> QED BY <1>6 DEF Hears

LEMMA ConcatElements ==
    ASSUME NEW s \in Seq(Message), NEW t \in Seq(Message), NEW k \in DOMAIN (s \o t)
    PROVE  \/ k \in DOMAIN s /\ (s \o t)[k] = s[k]
           \/ \E j \in DOMAIN t : (s \o t)[k] = t[j]
<1> DEFINE n == Len(s)
           st == s \o t
<1>1. /\ \A i \in DOMAIN s : st[i] = s[i]
      /\ \A i \in DOMAIN t : st[n + i] = t[i]
      /\ k \in DOMAIN s \/ (k - n \in DOMAIN t /\ k = n + (k - n))
  BY ConcatFact
<1> HIDE DEF st, n
<1>2. CASE k \in DOMAIN s
  BY <1>1, <1>2 DEF st
<1>3. CASE k - n \in DOMAIN t /\ k = n + (k - n)
  <2> DEFINE j == k - n
  <2>1. j \in DOMAIN t /\ k = n + j
    BY <1>3
  <2> HIDE DEF j
  <2>2. st[k] = t[j]
    BY <1>1, <2>1
  <2> QED BY <2>1, <2>2 DEF st
<1> QED BY <1>1, <1>2, <1>3

LEMMA ConcatNames ==
    ASSUME NEW s \in Seq(Message), NEW t \in Seq(Message), NEW W, Names(s, W), ~Has(t, "PLAYER_ID")
    PROVE  Names(s \o t, W)
BY ConcatElements DEF Names, Has

LEMMA ConcatColored ==
    ASSUME NEW s \in Seq(Message), NEW t \in Seq(Message), NEW color, Colored(s, color), Colored(t, color)
    PROVE  Colored(s \o t, color)
BY ConcatElements DEF Colored

\* A true word after a true word.
LEMMA BothTruthful ==
    ASSUME NEW s \in Seq(Message), NEW t \in Seq(Message), NEW pool, NEW f,
           Truthful(s, pool, f), Truthful(t, pool, f)
    PROVE  Truthful(s \o t, pool, f)
<1>1. Announces(t, pool, pool, f)
  BY DEF Announces
<1> QED BY <1>1, ConcatTruthful

\* What a new player of id f, address z and colour d is told at a time.
Welcome(f, z, d) ==
    <<[type |-> "PLAYER_ID", id |-> f]>>
        \o (<<AcceptMsg(f, z, TRUE)>>
                \o (PlayerList(player_pool[Host], f) \o <<ColorMsg(d)>> \o ReadyList(reg[Host])))

LEMMA WelcomeFact ==
    ASSUME HostInv, NEW z \in Machine, NEW f \in Slot, NEW d \in Color, NEW new,
           \A i \in DOMAIN player_pool[Host] : Holds(new, i, player_pool[Host][i].machine),
           Holds(new, f, z)
    PROVE  LET t == Welcome(f, z, d) IN
           /\ t \in Seq(Message) /\ Truthful(t, new, f) /\ Names(t, {f})
           /\ Has(t, "PLAYER_ID") /\ Has(t, "ACCEPT_COLOR") /\ Colored(t, d)
<1> DEFINE id == [type |-> "PLAYER_ID", id |-> f]
           accept == AcceptMsg(f, z, TRUE)
           color == ColorMsg(d)
           list == PlayerList(player_pool[Host], f)
           flags == ReadyList(reg[Host])
           t1 == <<id>>
           t2 == <<accept>>
           t4 == <<color>>
<1>1. player_pool[Host] \in Pool /\ reg[Host] \in Seq(RegEntry) /\ Host \in Machine
  BY HostAssumption DEF HostInv, Types
<1>2. /\ id \in Message /\ id.type = "PLAYER_ID" /\ id.id = f
      /\ color \in Message /\ color.type = "ACCEPT_COLOR" /\ color.color = d
  BY SentFact DEF ColorMsg
<1>3. accept \in Message /\ accept.type = "ACCEPT_NEW_PLAYER" /\ accept.id = f /\ accept.machine = z
  BY SentFact DEF AcceptMsg
<1>4. /\ list \in Seq(Message)
      /\ \A k \in DOMAIN list : \E i \in DOMAIN player_pool[Host] :
            list[k].type = "ACCEPT_NEW_PLAYER" /\ list[k].id = i
            /\ list[k].machine = player_pool[Host][i].machine
  BY <1>1, PlayerListFact DEF AcceptMsg
<1>5. flags \in Seq(Message) /\ \A k \in DOMAIN flags : flags[k].type = "PLAYER_READY"
  BY <1>1, ReadyListFact
<1> HIDE DEF id, accept, color, list, flags
<1>6. /\ t1 \in Seq(Message) /\ Truthful(t1, new, f) /\ Names(t1, {f}) /\ Has(t1, "PLAYER_ID")
      /\ Colored(t1, d)
  BY <1>2, OneMessage DEF Truthful, Names, Has, Colored
<1>7. t2 \in Seq(Message) /\ Truthful(t2, new, f) /\ ~Has(t2, "PLAYER_ID") /\ Colored(t2, d)
  BY <1>3, OneMessage DEF Truthful, Has, Colored
<1>8. Truthful(list, new, f) /\ ~Has(list, "PLAYER_ID") /\ Colored(list, d)
  BY <1>4 DEF Truthful, Has, Colored
<1>9. /\ t4 \in Seq(Message) /\ Truthful(t4, new, f) /\ ~Has(t4, "PLAYER_ID")
      /\ Has(t4, "ACCEPT_COLOR") /\ Colored(t4, d)
  BY <1>2, OneMessage DEF Truthful, Has, Colored
<1>10. Truthful(flags, new, f) /\ ~Has(flags, "PLAYER_ID") /\ Colored(flags, d)
  BY <1>5 DEF Truthful, Has, Colored
<1> HIDE DEF t1, t2, t4
<1> DEFINE a == list \o t4
<1>11. a \in Seq(Message) /\ Truthful(a, new, f) /\ ~Has(a, "PLAYER_ID") /\ Colored(a, d) /\ Has(a, "ACCEPT_COLOR")
  BY <1>4, <1>8, <1>9, ConcatFact, BothTruthful, ConcatHas, ConcatColored
<1> HIDE DEF a
<1> DEFINE b == a \o flags
<1>12. b \in Seq(Message) /\ Truthful(b, new, f) /\ ~Has(b, "PLAYER_ID") /\ Colored(b, d) /\ Has(b, "ACCEPT_COLOR")
  BY <1>5, <1>10, <1>11, ConcatFact, BothTruthful, ConcatHas, ConcatColored
<1> HIDE DEF b
<1> DEFINE e == t2 \o b
<1>13. e \in Seq(Message) /\ Truthful(e, new, f) /\ ~Has(e, "PLAYER_ID") /\ Colored(e, d) /\ Has(e, "ACCEPT_COLOR")
  BY <1>7, <1>12, ConcatFact, BothTruthful, ConcatHas, ConcatColored
<1> HIDE DEF e
<1> DEFINE t == t1 \o e
<1>14. t \in Seq(Message) /\ Truthful(t, new, f) /\ Names(t, {f}) /\ Has(t, "PLAYER_ID")
  BY <1>6, <1>13, ConcatFact, BothTruthful, ConcatHas, ConcatNames
<1>15. Colored(t, d) /\ Has(t, "ACCEPT_COLOR")
  BY <1>6, <1>13, ConcatHas, ConcatColored
<1>16. t = Welcome(f, z, d)
  BY DEF Welcome, e, b, a, t1, t2, t4, list, flags, id, accept, color
<1> QED BY <1>14, <1>15, <1>16

\* What c hears when n is given the id f and the colour d.
LEMMA AnnouncedFact ==
    ASSUME HostInv, NEW n \in Machine, n # Host, link[Host][n] = "up", NEW f \in Slot, NEW d \in Color,
           EnlistedSent(n, f, d), NEW c \in Client, NEW z \in Machine, z = player_pool[Host][f].machine
    PROVE  /\ chan'[c][Host] = IF c = n THEN Tail(chan[c][Host]) ELSE chan[c][Host]
           /\ chan'[Host][c] =
                 IF link[c][Host] = "closed" THEN chan[Host][c]
                 ELSE IF c = n THEN chan[Host][c] \o Welcome(f, z, d)
                 ELSE IF link[Host][c] = "up" THEN chan[Host][c] \o <<AcceptMsg(f, z, TRUE)>>
                 ELSE chan[Host][c]
<1> DEFINE s == chan[Host][c]
           t1 == <<[type |-> "PLAYER_ID", id |-> f]>>
           t2 == <<AcceptMsg(f, z, TRUE)>>
           t3 == PlayerList(player_pool[Host], f) \o <<ColorMsg(d)>> \o ReadyList(reg[Host])
<1>1. c \in Machine /\ Host \in Machine /\ c # Host /\ s \in Seq(Message)
  BY ClientFact DEF HostInv
<1>2. t1 \in Seq(Message) /\ t2 \in Seq(Message) /\ t3 \in Seq(Message)
  <2>1. t1 \in Seq(Message) /\ t2 \in Seq(Message) /\ <<ColorMsg(d)>> \in Seq(Message)
    BY SentFact, OneMessage
  <2>2. PlayerList(player_pool[Host], f) \in Seq(Message) /\ ReadyList(reg[Host]) \in Seq(Message)
    BY <1>1, PlayerListFact, ReadyListFact DEF HostInv, Types
  <2> QED BY <2>1, <2>2, ConcatFact
<1>3. \A a, b \in Machine : chan'[a][b] =
         Sent(Host, {n}, t3, Sent(Host, Peers(link, Host), t2,
              Sent(Host, {n}, t1, Took(Host, n, a, b), a, b), a, b), a, b)
  BY DEF EnlistedSent, Announced
<1>4. t1 \o (t2 \o t3) = Welcome(f, z, d)
  BY DEF Welcome
<1> HIDE DEF t1, t2, t3
<1>5. ((s \o t1) \o t2) \o t3 = s \o (t1 \o (t2 \o t3))
  <2>1. s \in Seq(Message)
    BY <1>1
  <2>2. (s \o t1) \o (t2 \o t3) = s \o (t1 \o (t2 \o t3))
    <3> DEFINE t == t2 \o t3
    <3>1. t \in Seq(Message)
      BY <1>2, ConcatFact
    <3> HIDE DEF s, t
    <3>2. (s \o t1) \o t = s \o (t1 \o t)
      BY <2>1, <3>1, <1>2, ConcatAssociative
    <3> QED BY <3>2 DEF t
  <2>3. ((s \o t1) \o t2) \o t3 = (s \o t1) \o (t2 \o t3)
    <3> DEFINE t == s \o t1
    <3>1. t \in Seq(Message)
      BY <1>2, <2>1, ConcatFact
    <3> HIDE DEF s, t
    <3>2. (t \o t2) \o t3 = t \o (t2 \o t3)
      BY <3>1, <1>2, ConcatAssociative
    <3> QED BY <3>2 DEF t
  <2> QED BY <2>2, <2>3
<1>6. chan'[c][Host] = IF c = n THEN Tail(chan[c][Host]) ELSE chan[c][Host]
  <2>1. \A to, msgs, old : Sent(Host, to, msgs, old, c, Host) = old
    BY <1>1 DEF Sent
  <2>2. chan'[c][Host] = Took(Host, n, c, Host)
    BY <1>1, <1>3, <2>1
  <2> QED BY <2>2 DEF Took
<1>7. Took(Host, n, Host, c) = s
  BY <1>1 DEF Took
<1> HIDE DEF s
<1>8. chan'[Host][c] =
         Sent(Host, {n}, t3, Sent(Host, Peers(link, Host), t2,
              Sent(Host, {n}, t1, s, Host, c), Host, c), Host, c)
  BY <1>1, <1>3, <1>7
<1>9. CASE link[c][Host] = "closed"
  BY <1>6, <1>8, <1>9 DEF Sent, s
<1>10. CASE link[c][Host] # "closed" /\ c = n
  <2>1. c \in Peers(link, Host)
    BY <1>1, <1>10 DEF Peers
  <2>2. chan'[Host][c] = ((s \o t1) \o t2) \o t3
    BY <1>8, <1>10, <2>1 DEF Sent
  <2> QED BY <1>4, <1>5, <1>6, <1>10, <2>2 DEF s
<1>11. CASE link[c][Host] # "closed" /\ c # n
  <2>1. c \in Peers(link, Host) <=> link[Host][c] = "up"
    BY <1>1 DEF Peers
  <2>2. chan'[Host][c] = IF link[Host][c] = "up" THEN s \o t2 ELSE s
    BY <1>8, <1>11, <2>1 DEF Sent
  <2> QED BY <1>6, <1>11, <2>2 DEF s, t2
<1> QED BY <1>9, <1>10, <1>11

LEMMA NewPlayerHeard ==
    ASSUME HostInv, NEW n \in Machine, NewPlayer(n), NEW c \in Client
    PROVE  Hears(c)
<1> DEFINE f == data[Host][n]
           me == data[Host][c]
           pool == player_pool[Host]
           new == player_pool'[Host]
           list == reg[Host]
<1>1. c \in Machine /\ Host \in Machine /\ c # Host /\ pool \in Pool /\ list \in Seq(RegEntry)
  BY ClientFact DEF HostInv
<1>2. Got(Host, n, "NEW_PLAYER")
  BY DEF NewPlayer
<1>3. /\ link[Host][n] = "up" /\ Head(chan[n][Host]).type = "NEW_PLAYER" /\ n # Host
      /\ chan[n][Host] # << >>
  BY <1>1, <1>2, GotFact, Speakers DEF HostInv, Events
<1>4. /\ f # 0 /\ f # 1 /\ f \in DOMAIN pool /\ f \in Slot
      /\ me = f => c = n
  BY <1>1, <1>3, HostPeers
<1>5. /\ ~pool[f].authorized
      /\ \E d \in Color : EnlistedSent(n, f, d)
      /\ link' = link /\ data' = data
  BY <1>1, <1>4, NewPlayerFact DEF HostInv
<1>5a. f = me <=> c = n
  BY <1>4
<1>6. PICK d \in Color : EnlistedSent(n, f, d)
  BY <1>5
<1>7. f \notin Ids(list)
  BY <1>4, <1>5 DEF HostInv, HostList
<1> DEFINE z == pool[f].machine
<1>7a. z \in Machine /\ Holds(pool, f, z) /\ z = player_pool[Host][f].machine
  BY <1>1, <1>4, PoolFact DEF Holds
<1> HIDE DEF f, me, z
<1>8. /\ chan'[c][Host] = IF c = n THEN Tail(chan[c][Host]) ELSE chan[c][Host]
      /\ chan'[Host][c] =
            IF link[c][Host] = "closed" THEN chan[Host][c]
            ELSE IF c = n THEN chan[Host][c] \o Welcome(f, z, d)
            ELSE IF link[Host][c] = "up" THEN chan[Host][c] \o <<AcceptMsg(f, z, TRUE)>>
            ELSE chan[Host][c]
  BY <1>3, <1>4, <1>6, <1>7a, AnnouncedFact
<1>9. /\ reg'[Host] = Append(list, Entry(f, d))
      /\ DOMAIN new = DOMAIN pool
      /\ new[f] = [pool[f] EXCEPT !.authorized = TRUE]
      /\ \A i \in DOMAIN pool \ {f} : new[i] = pool[i]
  BY <1>6 DEF EnlistedSent, Enlisted
<1>10. \A i \in DOMAIN pool : i \in DOMAIN new /\ new[i].machine = pool[i].machine
  <2>1. new[f].machine = pool[f].machine
    <3>1. pool[f] \in Player
      BY <1>1, <1>4, PoolFact
    <3> QED BY <1>9, <3>1 DEF Player
  <2> QED BY <1>9, <2>1
<1>11. \A i, m : Holds(new, i, m) <=> Holds(pool, i, m)
  BY <1>9, <1>10 DEF Holds
<1>12. Holds(new, f, z) /\ Holds(pool, f, z)
  BY <1>7a, <1>11
<1> DEFINE e == Entry(f, d)
<1>13. e.id = f /\ ~e.ready /\ e.color = d /\ e \in RegEntry
  BY <1>4 DEF Entry, RegEntry
<1> HIDE DEF e
<1>14. /\ DOMAIN reg'[Host] = DOMAIN list \cup {Len(list) + 1}
       /\ \A k \in DOMAIN list : reg'[Host][k] = list[k]
       /\ reg'[Host][Len(list) + 1] = e
  BY <1>1, <1>9, <1>13, AppendFact DEF e
<1>15. Ids(reg'[Host]) = Ids(list) \cup {f}
  <2>1. \A i \in Ids(reg'[Host]) : i \in Ids(list) \cup {f}
    BY <1>13, <1>14 DEF Ids
  <2>2. \A i \in Ids(list) \cup {f} : i \in Ids(reg'[Host])
    BY <1>13, <1>14 DEF Ids
  <2> QED BY <2>1, <2>2
<1>16. Expected(c)' = {me} \ (Ids(list) \cup {f}) /\ Expected(c) = {me} \ Ids(list)
  BY <1>5, <1>15 DEF Expected, me
<1> HIDE DEF pool, new, list
<1>18. CASE c = n
  <2> DEFINE t == Welcome(f, z, d)
  <2>1. /\ t \in Seq(Message) /\ Truthful(t, new, f) /\ Names(t, {f})
        /\ Has(t, "PLAYER_ID") /\ Has(t, "ACCEPT_COLOR") /\ Colored(t, d)
    <3>1. \A i \in DOMAIN player_pool[Host] : Holds(new, i, player_pool[Host][i].machine)
      BY <1>10 DEF Holds, pool
    <3> QED BY <1>4, <1>7a, <1>12, <3>1, WelcomeFact
  <2> HIDE DEF t
  <2>2. f \in Expected(c)
    BY <1>5a, <1>7, <1>16, <1>18
  <2>3. Names(t, Expected(c))
    BY <2>1, <2>2 DEF Names
  <2>4. ASSUME NEW i \in Expected(c)' PROVE FALSE
    BY <1>5a, <1>16, <1>18, <2>4
  <2>5. ASSUME NEW k \in DOMAIN reg'[Host], reg'[Host][k].id = me
        PROVE  Expected(c) # {} /\ Entered(reg'[Host][k], t)
    <3>1. reg'[Host][k].id = f
      BY <1>5a, <1>18, <2>5
    <3>2. reg'[Host][k] = e
      BY <1>7, <1>14, <3>1 DEF Ids
    <3> QED BY <1>13, <2>1, <2>2, <3>2 DEF Entered
  <2>6. Announces(t, pool, new, me)
    BY <1>5a, <1>11, <1>18, <2>1 DEF Announces
  <2>7. Told(c, t)
    BY <1>3, <1>5, <1>8, <1>18, <2>1, <2>3, <2>4, <2>5, <2>6 DEF Told, pool, new, list, t, me
  <2> QED BY <2>7 DEF Hears
<1>19. CASE c # n /\ link[Host][c] # "up"
  BY <1>5, <1>8, <1>19 DEF Hears, Untold
<1>20. CASE c # n /\ link[Host][c] = "up"
  <2> DEFINE msg == AcceptMsg(f, z, TRUE)
             t == <<msg>>
  <2>1. msg \in Message /\ msg.type = "ACCEPT_NEW_PLAYER" /\ msg.id = f /\ msg.machine = z
    BY <1>4, <1>7a, SentFact DEF AcceptMsg
  <2> HIDE DEF msg
  <2>2. t \in Seq(Message) /\ \A k \in DOMAIN t : t[k] = msg
    BY <2>1, OneMessage
  <2> HIDE DEF t
  <2>3. Truthful(t, new, me) /\ Names(t, Expected(c)) /\ ~Has(t, "ACCEPT_COLOR")
    BY <1>12, <2>1, <2>2 DEF Truthful, Names, Has
  <2>4. Announces(t, pool, new, me)
    BY <1>11, <2>3 DEF Announces
  <2>5. ASSUME NEW i \in Expected(c)' PROVE i \in Expected(c) /\ Silent(t, i)
    BY <1>16, <2>1, <2>2, <2>5 DEF Silent
  <2>6. ASSUME NEW k \in DOMAIN reg'[Host], reg'[Host][k].id = me
        PROVE  \E j \in DOMAIN list :
                  /\ list[j].id = me
                  /\ Carried(list[j], reg'[Host][k], t, chan[c][Host], chan'[c][Host])
    <3>1. reg'[Host][k].id # f
      BY <1>5a, <1>20, <2>6
    <3>2. k \in DOMAIN list /\ reg'[Host][k] = list[k]
      BY <1>13, <1>14, <3>1
    <3>3. list[k].id = me
      BY <2>6, <3>2
    <3>4. Carried(list[k], reg'[Host][k], t, chan[c][Host], chan'[c][Host])
      BY <1>8, <1>20, <2>3, <3>2 DEF Carried
    <3> QED BY <3>2, <3>3, <3>4
  <2>7. Told(c, t)
    BY <1>5, <1>8, <1>20, <2>2, <2>3, <2>4, <2>5, <2>6 DEF Told, pool, new, list, t, msg, me
  <2> QED BY <2>7 DEF Hears
<1> QED BY <1>18, <1>19, <1>20

-----------------------------------------------------------------------------
(* What a client does *)

LEMMA NoIds ==
    ASSUME NEW list \in Seq(RegEntry), Ids(list) = {} PROVE list = << >>
<1>1. DOMAIN list = {}
  BY DEF Ids
<1>2. Len(list) = 0
  BY <1>1, SeqFact
<1> QED BY <1>2

\* The client keeps fewer players, or the same.
Shrinks(c) ==
    /\ \A i \in DOMAIN player_pool'[c] :
          i \in DOMAIN player_pool[c] /\ player_pool'[c][i].machine = player_pool[c][i].machine
    /\ Ids(reg'[c]) \subseteq Ids(reg[c]) /\ (UniqueIds(reg[c]) => UniqueIds(reg'[c]))

\* It says u to the host, or nothing, and is not ready now.
Utters(c, u) ==
    /\ u \in Seq(Message) /\ ~Has(u, "PLAYER_READY")
    /\ Has(u, "CONNECT") => link'[c][Host] \in {"up", "closed"}
    /\ \/ chan'[c][Host] = chan[c][Host]
       \/ link[Host][c] # "closed" /\ chan'[c][Host] = chan[c][Host] \o u

\* The connection with the host is closed.
Parts(c, u) ==
    /\ link'[c][Host] = "closed" /\ chan'[Host][c] = << >> /\ Utters(c, u)
    /\ phase'[c] # "away" /\ Shrinks(c)
    /\ my_player_id'[c] \in {my_player_id[c], 0}
    /\ selfReadyFlag'[c] \in {selfReadyFlag[c], FALSE}

LEMMA UttersFact ==
    ASSUME Types, NEW c \in Client, ClientInv(c), NEW u, Utters(c, u)
    PROVE  /\ \A k \in DOMAIN chan'[c][Host] : chan'[c][Host][k].type = "PLAYER_READY" =>
                 \E j \in DOMAIN chan[c][Host] : chan'[c][Host][k] = chan[c][Host][j]
           /\ Has(chan'[c][Host], "PLAYER_READY") <=> Has(chan[c][Host], "PLAYER_READY")
           /\ Has(chan'[c][Host], "CONNECT") =>
                 Has(chan[c][Host], "CONNECT") \/ link'[c][Host] \in {"up", "closed"}
           /\ \A flag : Tells(chan[c][Host], flag) => Tells(chan'[c][Host], flag)
           /\ link[Host][c] = "closed" => chan'[c][Host] = << >>
<1> DEFINE s == chan[c][Host]
           s2 == chan'[c][Host]
<1>1. s \in Seq(Message)
  BY ClientFact
<1>2. /\ u \in Seq(Message) /\ ~Has(u, "PLAYER_READY")
      /\ Has(u, "CONNECT") => link'[c][Host] \in {"up", "closed"}
      /\ s2 = s \/ (link[Host][c] # "closed" /\ s2 = s \o u)
  BY DEF Utters
<1>3. link[Host][c] = "closed" => s = << >>
  BY DEF ClientInv, Greeted, Up
<1> HIDE DEF s, s2
<1>4. CASE s2 = s
  BY <1>2, <1>3, <1>4 DEF s, s2
<1>5. CASE link[Host][c] # "closed" /\ s2 = s \o u
  <2>1. \A k \in DOMAIN s2 : s2[k].type = "PLAYER_READY" => \E j \in DOMAIN s : s2[k] = s[j]
    BY <1>1, <1>2, <1>5, ConcatElements DEF Has
  <2>2. \A type : Has(s2, type) <=> Has(s, type) \/ Has(u, type)
    BY <1>1, <1>2, <1>5, ConcatHas
  <2>3. ASSUME NEW flag, Tells(s, flag) PROVE Tells(s2, flag)
    BY <1>1, <1>2, <1>5, <2>3, ConcatFinal DEF Tells
  <2> QED BY <1>2, <1>5, <2>1, <2>2, <2>3 DEF s, s2
<1> QED BY <1>2, <1>4, <1>5

LEMMA PartsKeeps ==
    ASSUME Types, Types', NEW c \in Client, ClientInv(c), Unmoved(Host), NEW u, Parts(c, u)
    PROVE  ClientInv(c)'
<1>1. /\ link'[c][Host] = "closed" /\ chan'[Host][c] = << >> /\ Utters(c, u)
      /\ phase'[c] # "away" /\ Shrinks(c)
      /\ my_player_id'[c] \in {my_player_id[c], 0}
      /\ selfReadyFlag'[c] \in {selfReadyFlag[c], FALSE}
      /\ link'[Host] = link[Host] /\ player_pool'[Host] = player_pool[Host] /\ reg'[Host] = reg[Host]
      /\ data'[Host] = data[Host]
  BY DEF Parts, Unmoved
<1>2. /\ \A k \in DOMAIN chan'[c][Host] : chan'[c][Host][k].type = "PLAYER_READY" =>
            \E j \in DOMAIN chan[c][Host] : chan'[c][Host][k] = chan[c][Host][j]
      /\ Has(chan'[c][Host], "PLAYER_READY") <=> Has(chan[c][Host], "PLAYER_READY")
      /\ link[Host][c] = "closed" => chan'[c][Host] = << >>
  BY <1>1, UttersFact
<1>3. Greeted(c)'
  BY <1>1, <1>2 DEF Greeted, Up
<1>4. Fresh(c)'
  <2> SUFFICES ASSUME link[Host][c] = "none"
               PROVE  /\ \A k \in DOMAIN chan'[Host][c] : chan'[Host][c][k].type = "CONNECT"
                      /\ reg'[c] = << >> /\ my_player_id'[c] = 0 /\ ~selfReadyFlag'[c]
                      /\ ~Has(chan'[c][Host], "PLAYER_READY")
                      /\ \A i \in DOMAIN player_pool'[c] : i = 1 /\ player_pool'[c][i].machine = Host
    BY <1>1 DEF Fresh, Down, Up
  <2>1. /\ reg[c] = << >> /\ my_player_id[c] = 0 /\ ~selfReadyFlag[c] /\ ~Has(chan[c][Host], "PLAYER_READY")
        /\ \A i \in DOMAIN player_pool[c] : i = 1 /\ player_pool[c][i].machine = Host
    BY DEF ClientInv, Fresh, Up
  <2>2. reg'[c] = << >>
    <3>1. Ids(reg[c]) = {}
      BY <2>1 DEF Ids
    <3>2. Ids(reg'[c]) \subseteq Ids(reg[c])
      BY <1>1 DEF Shrinks
    <3>3. reg'[c] \in Seq(RegEntry)
      BY DEF Types, Client
    <3> QED BY <3>1, <3>2, <3>3, NoIds
  <2>3. \A i \in DOMAIN player_pool'[c] : i = 1 /\ player_pool'[c][i].machine = Host
    BY <1>1, <2>1 DEF Shrinks
  <2>4. ~selfReadyFlag'[c] /\ my_player_id'[c] = 0
    BY <1>1, <2>1
  <2> QED BY <1>1, <1>2, <2>1, <2>2, <2>3, <2>4
<1>5. Known(c)' /\ Registers(c)'
  BY <1>1 DEF Known, Registers, Linked
<1>6. Numbered(c)'
  BY <1>1 DEF ClientInv, Numbered, Shrinks, NewId, Down
<1>7. Waiting(c)'
  <2>1. Expected(c)' = Expected(c)
    BY <1>1 DEF Expected
  <2> QED BY <1>1, <2>1 DEF ClientInv, Waiting, Shrinks, Silent, Down
<1>8. Unready(c)' /\ Flagged(c)'
  BY <1>1 DEF Unready, Flagged
<1>9. Own(c)'
  BY <1>1, <1>2 DEF ClientInv, Own, Up
<1> QED BY <1>3, <1>4, <1>5, <1>6, <1>7, <1>8, <1>9 DEF ClientInv

LEMMA TailAgreed ==
    ASSUME NEW e, NEW id, NEW color, NEW flag, NEW down \in Seq(Message), NEW up, down # << >>,
           Agreed(e, id, color, flag, down, up), Head(down).type # "ACCEPT_COLOR",
           Head(down).type = "PLAYER_ID" => id # 0
    PROVE  Agreed(e, id, color, flag, Tail(down), up)
<1>1. id = e.id \/ (id = 0 /\ Has(Tail(down), "PLAYER_ID"))
  BY TailHas DEF Agreed
<1>2. ~Has(Tail(down), "ACCEPT_COLOR") => color = e.color
  BY TailHas DEF Agreed
<1>3. \A k \in DOMAIN Tail(down) : Final(Tail(down), k, "ACCEPT_COLOR") => Tail(down)[k].color = e.color
  BY TailFinal DEF Agreed
<1> QED BY <1>1, <1>2, <1>3 DEF Agreed

\* The connection with the host stays, or comes up; a message of the host may
\* have been taken that changes neither id nor colour.
Goes(c, u) ==
    /\ phase'[c] # "away" /\ Shrinks(c) /\ Utters(c, u)
    /\ my_player_id'[c] = my_player_id[c] /\ selfReadyFlag'[c] = selfReadyFlag[c]
    /\ player_nation_color'[c] = player_nation_color[c]
    /\ \/ link'[c][Host] = link[c][Host]
       \/ link'[c][Host] = "up" /\ link[c][Host] # "closed"
    /\ \/ chan'[Host][c] = chan[Host][c]
       \/ LET msg == Head(chan[Host][c])
          IN  /\ chan[Host][c] # << >> /\ chan'[Host][c] = Tail(chan[Host][c])
              /\ msg.type # "ACCEPT_COLOR"
              /\ msg.type = "PLAYER_ID" => my_player_id[c] # 0
              /\ msg.type = "PLAYER_DISCONNECT" => msg.id \notin DOMAIN player_pool'[c]

LEMMA GoesKeeps ==
    ASSUME Types, Types', NEW c \in Client, ClientInv(c), Unmoved(Host), NEW u, Goes(c, u)
    PROVE  ClientInv(c)'
<1> DEFINE s == chan[Host][c]
           s2 == chan'[Host][c]
           v == chan[c][Host]
           v2 == chan'[c][Host]
           id == my_player_id[c]
           pool == player_pool[Host]
           mine == player_pool[c]
           less == player_pool'[c]
           me == data[Host][c]
           Taking == /\ s # << >> /\ s2 = Tail(s) /\ Head(s).type # "ACCEPT_COLOR"
                     /\ Head(s).type = "PLAYER_ID" => id # 0
                     /\ Head(s).type = "PLAYER_DISCONNECT" => Head(s).id \notin DOMAIN less
<1>1. /\ phase'[c] # "away" /\ Shrinks(c) /\ Utters(c, u)
      /\ my_player_id'[c] = id /\ selfReadyFlag'[c] = selfReadyFlag[c]
      /\ player_nation_color'[c] = player_nation_color[c]
      /\ link'[c][Host] = link[c][Host] \/ (link'[c][Host] = "up" /\ link[c][Host] # "closed")
      /\ s2 = s \/ Taking
  BY DEF Goes
<1>2. /\ link'[Host] = link[Host] /\ player_pool'[Host] = pool /\ reg'[Host] = reg[Host]
      /\ data'[Host] = data[Host]
  BY DEF Unmoved
<1>3. /\ \A k \in DOMAIN v2 : v2[k].type = "PLAYER_READY" => \E j \in DOMAIN v : v2[k] = v[j]
      /\ Has(v2, "PLAYER_READY") <=> Has(v, "PLAYER_READY")
      /\ Has(v2, "CONNECT") => Has(v, "CONNECT") \/ link'[c][Host] \in {"up", "closed"}
      /\ \A flag : Tells(v, flag) => Tells(v2, flag)
      /\ link[Host][c] = "closed" => v2 = << >>
  BY <1>1, UttersFact
<1>4. /\ s \in Seq(Message) /\ reg'[c] \in Seq(RegEntry) /\ c \in Machine
  BY ClientFact DEF Types, Client
<1>5. /\ \A i \in DOMAIN less : i \in DOMAIN mine /\ less[i].machine = mine[i].machine
      /\ Ids(reg'[c]) \subseteq Ids(reg[c])
  BY <1>1 DEF Shrinks
<1> HIDE DEF s, s2, v, v2, id, pool, mine, less, me
<1>6. Greeted(c)'
  <2>1. Has(v, "CONNECT") \/ link[Host][c] = "up" => link[c][Host] \in {"up", "closed"}
    BY DEF ClientInv, Greeted, Up, v
  <2> QED BY <1>1, <1>2, <1>3, <2>1 DEF Greeted, Up, v2
<1>7. Fresh(c)'
  <2> SUFFICES ASSUME link[Host][c] = "none"
               PROVE  /\ \A k \in DOMAIN s2 : s2[k].type = "CONNECT"
                      /\ reg'[c] = << >> /\ id = 0 /\ ~selfReadyFlag[c] /\ ~Has(v2, "PLAYER_READY")
                      /\ \A i \in DOMAIN less : i = 1 /\ less[i].machine = Host
    BY <1>1, <1>2 DEF Fresh, Down, Up, s2, v2, less
  <2>1. /\ \A k \in DOMAIN s : s[k].type = "CONNECT"
        /\ reg[c] = << >> /\ id = 0 /\ ~selfReadyFlag[c] /\ ~Has(v, "PLAYER_READY")
        /\ \A i \in DOMAIN mine : i = 1 /\ mine[i].machine = Host
    BY DEF ClientInv, Fresh, Down, Up, s, v, mine, id
  <2>2. reg'[c] = << >>
    <3>1. Ids(reg[c]) = {}
      BY <2>1 DEF Ids
    <3>2. Ids(reg'[c]) = {}
      BY <1>5, <3>1
    <3> QED BY <1>4, <3>2, NoIds
  <2>3. \A k \in DOMAIN s2 : s2[k].type = "CONNECT"
    <3>1. CASE Taking
      <4>1. \A k \in DOMAIN s2 : k + 1 \in DOMAIN s /\ s2[k] = s[k + 1]
        BY <1>4, <3>1, TailFact
      <4> QED BY <2>1, <4>1
    <3> HIDE DEF Taking
    <3> QED BY <1>1, <2>1, <3>1
  <2> QED BY <1>3, <1>5, <2>1, <2>2, <2>3
<1>8. Linked(Host, c)' => Linked(Host, c)
  BY <1>1, <1>2 DEF Linked, ClientInv, Greeted
<1>9. Known(c)'
  <2> SUFFICES ASSUME Linked(Host, c) PROVE InStep(less, id, s2, pool) /\ Truthful(s2, pool, me)
    BY <1>1, <1>2, <1>8 DEF Known, Down, s2, less, me
  <2>1. InStep(mine, id, s, pool) /\ Truthful(s, pool, me)
    BY DEF ClientInv, Known, Down, s, mine, pool, id, me
  <2>2. CASE s2 = s
    BY <1>5, <2>1, <2>2 DEF InStep
  <2>3. CASE Taking
    <3>1. \A i \in DOMAIN less : ~(Head(s).type = "PLAYER_DISCONNECT" /\ Head(s).id = i)
      BY <2>3
    <3>2. \A i \in DOMAIN less \ {id} : i \in DOMAIN mine \ {id} /\ less[i].machine = mine[i].machine
      BY <1>5
    <3> QED BY <1>4, <2>1, <2>3, <3>1, <3>2, TailInStep, TailTruthful
  <2> HIDE DEF Taking
  <2> QED BY <1>1, <2>2, <2>3
<1>10. Numbered(c)'
  <2> DEFINE ids == Ids(reg[c])
             fewer == Ids(reg'[c])
  <2>1. UniqueIds(reg'[c]) /\ (id = 0 => NewId(s, ids))
    BY <1>1 DEF ClientInv, Numbered, Shrinks, Down, s, id
  <2>2. \A i \in fewer : i \in ids
    BY <1>5
  <2> HIDE DEF ids, fewer
  <2>3. ASSUME id = 0 PROVE NewId(s2, fewer)
    <3>1. NewId(s, ids)
      BY <2>1, <2>3
    <3>2. CASE s2 = s
      BY <2>2, <3>1, <3>2 DEF NewId
    <3>3. CASE Taking
      BY <1>4, <2>2, <3>1, <3>3, TailNewId
    <3> HIDE DEF Taking
    <3> QED BY <1>1, <3>2, <3>3
  <2> QED BY <1>1, <2>1, <2>3 DEF Numbered, Down, s2, fewer
<1>11. Waiting(c)'
  <2> SUFFICES ASSUME link[Host][c] = "up", NEW f \in Expected(c)
               PROVE  id = 0 /\ f \notin Ids(reg'[c]) /\ Silent(s2, f)
    <3>1. Expected(c)' = Expected(c)
      BY <1>2 DEF Expected
    <3> QED BY <1>1, <1>2, <3>1 DEF Waiting, Down, s2
  <2>1. id = 0 /\ f \notin Ids(reg[c]) /\ Silent(s, f)
    BY DEF ClientInv, Waiting, Down, s, id
  <2>2. Taking => Silent(s2, f)
    BY <1>4, <2>1, SilentFact
  <2> HIDE DEF Taking
  <2> QED BY <1>1, <1>5, <2>1, <2>2
<1>12. Unready(c)'
  <2>1. link'[c][Host] # "closed" => link[c][Host] # "closed"
    BY <1>1
  <2> QED BY <1>1, <1>3, <2>1 DEF ClientInv, Unready, Up, v, v2, id
<1>13. Own(c)'
  <2> SUFFICES ASSUME link[Host][c] = "up"
               PROVE  /\ id # 0 => id = me
                      /\ \A k \in DOMAIN v2 : v2[k].type = "PLAYER_READY" => v2[k].id = me
    BY <1>1, <1>2 DEF Own, Up, v2, me
  <2>1. /\ id # 0 => id = me
        /\ \A k \in DOMAIN v : v[k].type = "PLAYER_READY" => v[k].id = me
    BY DEF ClientInv, Own, Up, v, id, me
  <2> QED BY <1>3, <2>1
<1>14. Flagged(c)'
  BY <1>1, <1>3 DEF ClientInv, Flagged, Up, v, v2
<1>15. Registers(c)'
  <2> SUFFICES ASSUME Linked(Host, c), NEW k \in DOMAIN reg[Host], reg[Host][k].id = me
               PROVE  Agreed(reg[Host][k], id, player_nation_color[c], selfReadyFlag[c], s2, v2)
    BY <1>1, <1>2, <1>8 DEF Registers, Down, Up, s2, v2, me
  <2> DEFINE e == reg[Host][k]
             color == player_nation_color[c]
             flag == selfReadyFlag[c]
  <2>1. Agreed(e, id, color, flag, s, v)
    BY DEF ClientInv, Registers, Down, Up, s, v, id, me
  <2> HIDE DEF e, color, flag
  <2>2. Agreed(e, id, color, flag, s, v2)
    BY <1>3, <2>1 DEF Agreed
  <2>3. Taking => Agreed(e, id, color, flag, s2, v2)
    BY <1>4, <2>2, TailAgreed
  <2> HIDE DEF Taking
  <2>4. Agreed(e, id, color, flag, s2, v2)
    BY <1>1, <2>2, <2>3
  <2> QED BY <2>4 DEF e, color, flag
<1> QED BY <1>6, <1>7, <1>9, <1>10, <1>11, <1>12, <1>13, <1>14, <1>15 DEF ClientInv

LEMMA NoWord == << >> \in Seq(Message) /\ \A type : ~Has(<< >>, type)
BY NoMessage DEF Has

\* What is on its way between the host and a client that takes and sends.
LEMMA ClientWords ==
    ASSUME NEW c \in Client, NEW n, NEW to, NEW msgs, NEW old
    PROVE  /\ Took(c, n, Host, c) = IF n = Host THEN Tail(chan[Host][c]) ELSE chan[Host][c]
           /\ Took(c, n, c, Host) = chan[c][Host]
           /\ Sent(c, to, msgs, old, Host, c) = old
           /\ Sent(c, to, msgs, old, c, Host) =
                 IF Host \in to /\ link[Host][c] # "closed" THEN old \o msgs ELSE old
<1>1. c # Host
  BY DEF Client
<1> QED BY <1>1 DEF Took, Sent

LEMMA ClientReplies ==
    ASSUME NEW c \in Client, NEW n, NEW to, NEW msgs, NEW ch,
           \A a, b \in Machine : ch[a][b] = Sent(c, to, msgs, Took(c, n, a, b), a, b)
    PROVE  /\ ch[Host][c] = IF n = Host THEN Tail(chan[Host][c]) ELSE chan[Host][c]
           /\ ch[c][Host] = IF Host \in to /\ link[Host][c] # "closed" THEN chan[c][Host] \o msgs
                            ELSE chan[c][Host]
<1>1. c \in Machine /\ Host \in Machine
  BY HostAssumption DEF Client
<1>2. ch[Host][c] = Sent(c, to, msgs, Took(c, n, Host, c), Host, c)
  BY <1>1
<1>3. ch[c][Host] = Sent(c, to, msgs, Took(c, n, c, Host), c, Host)
  BY <1>1
<1>4. ch[Host][c] = Took(c, n, Host, c)
  BY <1>2, ClientWords
<1>5. Took(c, n, Host, c) = IF n = Host THEN Tail(chan[Host][c]) ELSE chan[Host][c]
  BY ClientWords
<1>6. Took(c, n, c, Host) = chan[c][Host]
  BY ClientWords
<1>7. ch[c][Host] = Sent(c, to, msgs, chan[c][Host], c, Host)
  BY <1>3, <1>6
<1>8. ch[c][Host] = IF Host \in to /\ link[Host][c] # "closed" THEN chan[c][Host] \o msgs
                    ELSE chan[c][Host]
  BY <1>7 DEF Sent
<1> QED BY <1>4, <1>5, <1>8

LEMMA ReflaggedFact ==
    ASSUME NEW list, NEW new, Reflagged(list, new)
    PROVE  Ids(new) = Ids(list) /\ (UniqueIds(list) => UniqueIds(new))
<1>1. DOMAIN new = DOMAIN list /\ \A k \in DOMAIN list : new[k].id = list[k].id
  BY DEF Reflagged
<1>2. Ids(new) = Ids(list)
  BY <1>1 DEF Ids
<1>3. UniqueIds(list) => UniqueIds(new)
  BY <1>1 DEF UniqueIds
<1> QED BY <1>2, <1>3

\* ch has u besides on its way to the host.
Said(c, u, ch) ==
    /\ u \in Seq(Message) /\ ~Has(u, "PLAYER_READY")
    /\ \/ ch[c][Host] = chan[c][Host]
       \/ link[Host][c] # "closed" /\ ch[c][Host] = chan[c][Host] \o u

LEMMA LeftParts ==
    ASSUME NEW c \in Client, NEW ch, Left(c, ch), NEW u, Said(c, u, ch)
    PROVE  Parts(c, u)
<1>1. c \in Machine /\ c # Host /\ Host \in Machine
  BY HostAssumption DEF Client
<1>2. /\ phase'[c] = "gone" /\ player_pool'[c] = << >> /\ my_player_id'[c] = 0 /\ reg'[c] = << >>
      /\ selfReadyFlag'[c] = FALSE /\ link'[c][Host] = "closed"
      /\ chan'[Host][c] = << >> /\ chan'[c][Host] = ch[c][Host]
  BY <1>1 DEF Left
<1>3. Utters(c, u)
  BY <1>2 DEF Utters, Said
<1>4. Shrinks(c)
  <2>1. \A i \in DOMAIN player_pool'[c] : FALSE
    BY <1>2
  <2>2. Ids(reg'[c]) \subseteq Ids(reg[c])
    BY <1>2 DEF Ids
  <2>3. UniqueIds(reg'[c])
    BY <1>2 DEF UniqueIds
  <2> QED BY <2>1, <2>2, <2>3 DEF Shrinks
<1>5. phase'[c] # "away" /\ my_player_id'[c] \in {my_player_id[c], 0}
  BY <1>2
<1>6. selfReadyFlag'[c] \in {selfReadyFlag[c], FALSE}
  BY <1>2, Zenon
<1> QED BY <1>2, <1>3, <1>4, <1>5, <1>6, Zenon DEF Parts

\* The client has deleted who is lost: it still has the host, or not.
LEMMA SweptHeard ==
    ASSUME Types, NEW c \in Client, NEW pool \in Pool, NEW lk, NEW dt, NEW ch, Swept(c, pool, lk, dt, ch),
           phase[c] = "lobby", NEW u, Said(c, u, ch),
           Has(u, "CONNECT") => lk[c][Host] \in {"up", "closed"},
           \A i \in DOMAIN pool : i \in DOMAIN player_pool[c] /\ pool[i].machine = player_pool[c][i].machine,
           \/ lk[c][Host] = "closed" /\ ch[Host][c] = << >>
           \/ /\ lk[c][Host] = link[c][Host] \/ (lk[c][Host] = "up" /\ link[c][Host] # "closed")
              /\ \/ ch[Host][c] = chan[Host][c]
                 \/ /\ chan[Host][c] # << >> /\ ch[Host][c] = Tail(chan[Host][c])
                    /\ Head(chan[Host][c]).type = "CONNECT"
    PROVE  Parts(c, u) \/ Goes(c, u)
<1> DEFINE lost == Lost(c, pool)
           cut == Cut(c, pool, dt)
<1>1. c \in Machine /\ c # Host /\ Host \in Machine
  BY HostAssumption DEF Client
<1>2. /\ player_pool'[c] = Without(pool, lost) /\ reg'[c] = Unregister(reg[c], lost)
      /\ link'[c][Host] = IF Host \in cut THEN "closed" ELSE lk[c][Host]
      /\ phase'[c] = "lobby" /\ my_player_id'[c] = my_player_id[c]
      /\ player_nation_color'[c] = player_nation_color[c]
  BY <1>1 DEF Swept
<1>3. selfReadyFlag'[c] = selfReadyFlag[c]
  BY Zenon DEF Swept
<1>4. /\ chan'[Host][c] = IF Host \in cut THEN << >> ELSE ch[Host][c]
      /\ chan'[c][Host] = ch[c][Host]
  BY <1>1 DEF Swept
<1> HIDE DEF lost, cut
<1>5. Shrinks(c)
  <2>1. reg[c] \in Seq(RegEntry)
    BY <1>1 DEF Types
  <2>2. DOMAIN player_pool'[c] = DOMAIN pool \ lost /\ \A i \in DOMAIN pool \ lost : player_pool'[c][i] = pool[i]
    <3>1. /\ DOMAIN Without(pool, lost) = DOMAIN pool \ lost
          /\ \A i \in DOMAIN pool \ lost : Without(pool, lost)[i] = pool[i]
      BY WithoutFact
    <3> QED BY <1>2, <3>1
  <2>3. Ids(reg'[c]) = Ids(reg[c]) \ lost /\ (UniqueIds(reg[c]) => UniqueIds(reg'[c]))
    BY <1>2, <2>1, UnregisterFact
  <2> QED BY <2>2, <2>3 DEF Shrinks
<1>6. Utters(c, u)
  BY <1>2, <1>4 DEF Said, Utters
<1>7. CASE Host \in cut \/ (lk[c][Host] = "closed" /\ ch[Host][c] = << >>)
  <2>1. link'[c][Host] = "closed" /\ chan'[Host][c] = << >>
    BY <1>2, <1>4, <1>7
  <2>2. phase'[c] # "away" /\ my_player_id'[c] \in {my_player_id[c], 0}
    BY <1>2
  <2>3. selfReadyFlag'[c] \in {selfReadyFlag[c], FALSE}
    BY <1>3, Zenon
  <2> QED BY <1>5, <1>6, <2>1, <2>2, <2>3, Zenon DEF Parts
<1>8. CASE Host \notin cut /\ ~(lk[c][Host] = "closed" /\ ch[Host][c] = << >>)
  <2>1. link'[c][Host] = lk[c][Host] /\ chan'[Host][c] = ch[Host][c]
    BY <1>2, <1>4, <1>8
  <2>2. /\ link'[c][Host] = link[c][Host] \/ (link'[c][Host] = "up" /\ link[c][Host] # "closed")
        /\ \/ chan'[Host][c] = chan[Host][c]
           \/ /\ chan[Host][c] # << >> /\ chan'[Host][c] = Tail(chan[Host][c])
              /\ Head(chan[Host][c]).type = "CONNECT"
    BY <1>8, <2>1
  <2> QED BY <1>2, <1>3, <1>5, <1>6, <2>2 DEF Goes
<1> QED BY <1>7, <1>8

LEMMA EventHeard ==
    ASSUME Types, Types', NEW c \in Client, ClientInv(c), Unmoved(Host),
           NEW pool, NEW lk, NEW dt, NEW ch, Event(c, pool, lk, dt, ch),
           phase[c] = "lobby", NEW u, Said(c, u, ch),
           Has(u, "CONNECT") => lk[c][Host] \in {"up", "closed"},
           \A i \in DOMAIN pool : i \in DOMAIN player_pool[c] /\ pool[i].machine = player_pool[c][i].machine,
           \/ lk[c][Host] = "closed" /\ ch[Host][c] = << >>
           \/ /\ lk[c][Host] = link[c][Host] \/ (lk[c][Host] = "up" /\ link[c][Host] # "closed")
              /\ \/ ch[Host][c] = chan[Host][c]
                 \/ /\ chan[Host][c] # << >> /\ ch[Host][c] = Tail(chan[Host][c])
                    /\ Head(chan[Host][c]).type = "CONNECT"
    PROVE  ClientInv(c)'
<1>1. pool \in Pool /\ (Left(c, ch) \/ Swept(c, pool, lk, dt, ch))
  BY DEF Event
<1>2. Parts(c, u) \/ Goes(c, u)
  <2>1. CASE Left(c, ch)
    BY <2>1, LeftParts
  <2>2. CASE Swept(c, pool, lk, dt, ch)
    BY <1>1, <2>2, SweptHeard
  <2> QED BY <1>1, <2>1, <2>2
<1>3. CASE Parts(c, u)
  BY <1>3, PartsKeeps
<1>4. CASE Goes(c, u)
  BY <1>4, GoesKeeps
<1> QED BY <1>2, <1>3, <1>4

LEMMA EnterHeard ==
    ASSUME HostInv, NEW c \in Client, ClientInv(c), NEW n \in Machine, EnterLobby(c, n)
    PROVE  ClientInv(c)'
<1>1. /\ Types /\ c \in Machine /\ c # Host /\ Host \in Machine
  BY HostAssumption DEF HostInv, Client
<1>2. /\ Types' /\ \A a \in Machine \ {c} : Unmoved(a)
      /\ phase'[c] = "lobby"
      /\ \A b \in Machine : link'[c][b] = IF b = n THEN "up" ELSE link[c][b]
      /\ UNCHANGED <<data, lobby, clicks>>
      /\ \A a, b \in Machine : chan'[a][b] = Sent(c, {n}, Hello(c, n), Took(c, n, a, b), a, b)
      /\ Events(c, n) /\ Head(chan[n][c]).type = "CONNECT"
  <2>1. Types' /\ \A a \in Machine \ {c} : Unmoved(a)
    BY <1>1, EnterFact
  <2>2. phase'[c] = "lobby" /\ \A b \in Machine : link'[c][b] = IF b = n THEN "up" ELSE link[c][b]
    BY <1>1, EnterFact
  <2>3. UNCHANGED <<data, lobby, clicks>>
    BY <1>1, EnterFact
  <2>4. \A a, b \in Machine : chan'[a][b] = Sent(c, {n}, Hello(c, n), Took(c, n, a, b), a, b)
    <3>1. SaysHello(c, n)
      BY <1>1, EnterFact
    <3> QED BY <3>1 DEF SaysHello
  <2>5. Events(c, n) /\ Head(chan[n][c]).type = "CONNECT"
    BY <1>1, EnterFact
  <2> QED BY <2>1, <2>2, <2>3, <2>4, <2>5
<1>3. /\ chan'[Host][c] = IF n = Host THEN Tail(chan[Host][c]) ELSE chan[Host][c]
      /\ chan'[c][Host] = IF Host \in {n} /\ link[Host][c] # "closed" THEN chan[c][Host] \o Hello(c, n)
                          ELSE chan[c][Host]
  BY <1>1, <1>2, ClientReplies
<1>4. chan[n][c] # << >> /\ link[c][n] # "closed"
  BY <1>2 DEF Events
<1>5. Shrinks(c)
  BY <1>2 DEF Shrinks, lobby
<1>6. /\ my_player_id'[c] = my_player_id[c] /\ player_nation_color'[c] = player_nation_color[c]
      /\ phase'[c] # "away"
  BY <1>2 DEF lobby
<1>7. selfReadyFlag'[c] = selfReadyFlag[c]
  BY <1>2, Zenon DEF lobby
<1>8. Unmoved(Host)
  BY <1>1, <1>2
<1>9. CASE n = Host
  <2> DEFINE u == Hello(c, n)
  <2>1. u \in Seq(Message) /\ ~Has(u, "PLAYER_READY")
    <3>1. /\ Answer(c, n) \in Seq(Message)
          /\ \A k \in DOMAIN Answer(c, n) : Answer(c, n)[k].type = "CONNECT"
      BY <1>1, AnswerFact
    <3> DEFINE msg == [type |-> "NEW_PLAYER"]
    <3>2. msg \in Message /\ msg.type # "PLAYER_READY"
      BY SentFact
    <3> HIDE DEF msg
    <3>3. <<msg>> \in Seq(Message)
      BY <3>2, OneMessage
    <3>4. ~Has(<<msg>>, "PLAYER_READY")
      BY <3>2, OneHas
    <3>5. ~Has(Answer(c, n), "PLAYER_READY")
      BY <3>1 DEF Has
    <3>6. Answer(c, n) \o <<msg>> \in Seq(Message)
      BY <3>1, <3>3, ConcatFact
    <3>7. ~Has(Answer(c, n) \o <<msg>>, "PLAYER_READY")
      BY <3>1, <3>3, <3>4, <3>5, ConcatHas
    <3> QED BY <3>6, <3>7 DEF Hello, msg
  <2> HIDE DEF u
  <2>2. link'[c][Host] = "up" /\ link[c][Host] # "closed"
    BY <1>1, <1>2, <1>4, <1>9
  <2>3. Utters(c, u)
    BY <1>3, <1>9, <2>1, <2>2 DEF Utters, u
  <2>4. /\ chan[Host][c] # << >> /\ chan'[Host][c] = Tail(chan[Host][c])
        /\ Head(chan[Host][c]).type = "CONNECT"
    BY <1>2, <1>3, <1>4, <1>9
  <2>5. Goes(c, u)
    BY <1>5, <1>6, <1>7, <2>2, <2>3, <2>4 DEF Goes
  <2> QED BY <1>1, <1>2, <1>8, <2>5, GoesKeeps
<1>10. CASE n # Host
  <2>1. Utters(c, << >>)
    BY <1>3, <1>10, NoWord DEF Utters
  <2>2. link'[c][Host] = link[c][Host] /\ chan'[Host][c] = chan[Host][c]
    BY <1>1, <1>2, <1>3, <1>10
  <2>3. Goes(c, << >>)
    BY <1>5, <1>6, <1>7, <2>1, <2>2 DEF Goes
  <2> QED BY <1>1, <1>2, <1>8, <2>3, GoesKeeps
<1> QED BY <1>9, <1>10

\* The player of a connection is one that a client knows.
LEMMA AdmitsKnown ==
    ASSUME Types, NEW c \in Client, Points(c), NEW n \in Machine, NEW x \in Machine, NEW i,
           Admits(c, n, x, i)
    PROVE  i \in DOMAIN player_pool[c]
<1>1. c \in Machine /\ c # Host
  BY DEF Client
<1>2. \A z \in Machine : data[c][z] # 0 => data[c][z] \in DOMAIN player_pool[c]
  BY DEF Points, Aims
<1>3. CASE i \in Sender(c, n)
  BY <1>1, <1>2, <1>3 DEF Sender, IdsOf
<1>4. CASE x \in Leftover(c) /\ i = data[c][x]
  BY <1>2, <1>4 DEF Leftover
<1> QED BY <1>1, <1>3, <1>4 DEF Admits

\* A client admits whom it has in its pool.
LEMMA AdmittedSame ==
    ASSUME Types, NEW c \in Client, Points(c), NEW n \in Machine, NEW pool, NEW dt, Admitted(c, n, pool, dt)
    PROVE  \A i \in DOMAIN pool : i \in DOMAIN player_pool[c] /\ pool[i].machine = player_pool[c][i].machine
<1>1. c \in Machine /\ c # Host /\ player_pool[c] \in Pool
  BY DEF Types, Client
<1>2. PICK x \in Machine, i \in Slot : Admits(c, n, x, i) /\ pool = Made(player_pool[c], i, n)
  BY DEF Admitted
<1>3. i \in DOMAIN player_pool[c]
  BY <1>1, <1>2, AdmitsKnown
<1>4. DOMAIN pool = DOMAIN player_pool[c] \cup {i} /\ \A j \in DOMAIN player_pool[c] : pool[j] = player_pool[c][j]
  BY <1>1, <1>2, MadeFact
<1> QED BY <1>3, <1>4

LEMMA PeerHeard ==
    ASSUME HostInv, NEW c \in Client, ClientInv(c), Points(c), NEW n \in Machine, PeerConnects(c, n)
    PROVE  ClientInv(c)'
<1>1. /\ Types /\ c \in Machine /\ c # Host /\ Host \in Machine
  BY HostAssumption DEF HostInv, Client
<1>2. /\ Types' /\ \A a \in Machine \ {c} : Unmoved(a)
      /\ Events(c, n) /\ Head(chan[n][c]).type = "CONNECT" /\ phase[c] = "lobby"
      /\ \E pool, lk, dt, ch : Welcomed(c, n, pool, lk, dt, ch)
  BY <1>1, PeerFact
<1>3. PICK pool, lk, dt, ch : Welcomed(c, n, pool, lk, dt, ch)
  BY <1>2
<1>4. /\ Event(c, pool, lk, dt, ch) /\ Admitted(c, n, pool, dt)
      /\ lk[c][Host] = IF Host = n THEN "up" ELSE link[c][Host]
      /\ \A a, b \in Machine : ch[a][b] = Sent(c, {n}, Answer(c, n), Took(c, n, a, b), a, b)
  BY <1>1, <1>3 DEF Welcomed
<1>5. /\ ch[Host][c] = IF n = Host THEN Tail(chan[Host][c]) ELSE chan[Host][c]
      /\ ch[c][Host] = IF Host \in {n} /\ link[Host][c] # "closed" THEN chan[c][Host] \o Answer(c, n)
                       ELSE chan[c][Host]
  BY <1>1, <1>4, ClientReplies
<1>6. chan[n][c] # << >> /\ link[c][n] # "closed"
  BY <1>2 DEF Events
<1>7. Unmoved(Host)
  BY <1>1, <1>2
<1>8. \A i \in DOMAIN pool : i \in DOMAIN player_pool[c] /\ pool[i].machine = player_pool[c][i].machine
  BY <1>1, <1>4, AdmittedSame
<1>9. CASE n = Host
  <2>1. /\ Answer(c, n) \in Seq(Message)
        /\ \A k \in DOMAIN Answer(c, n) : Answer(c, n)[k].type = "CONNECT"
    BY <1>1, AnswerFact
  <2>2. Said(c, Answer(c, n), ch)
    BY <1>5, <1>9, <2>1 DEF Said, Has
  <2>3. lk[c][Host] = "up" /\ link[c][Host] # "closed"
    BY <1>4, <1>6, <1>9
  <2>4. /\ chan[Host][c] # << >> /\ ch[Host][c] = Tail(chan[Host][c])
        /\ Head(chan[Host][c]).type = "CONNECT"
    BY <1>2, <1>5, <1>6, <1>9
  <2> QED BY <1>1, <1>2, <1>4, <1>7, <1>8, <2>2, <2>3, <2>4, EventHeard
<1>10. CASE n # Host
  <2>1. Said(c, << >>, ch)
    BY <1>5, <1>10, NoWord DEF Said
  <2>2. lk[c][Host] = link[c][Host] /\ ch[Host][c] = chan[Host][c]
    BY <1>4, <1>5, <1>10
  <2>3. ~Has(<< >>, "CONNECT")
    BY NoWord
  <2> QED BY <1>1, <1>2, <1>4, <1>7, <1>8, <2>1, <2>2, <2>3, EventHeard
<1> QED BY <1>9, <1>10

\* What is left when the connection with n is gone.
LEMMA PartedWords ==
    ASSUME NEW c \in Client, NEW n, NEW lk, NEW dt, NEW ch, Parted(c, n, lk, dt, ch)
    PROVE  /\ Said(c, << >>, ch)
           /\ IF n = Host THEN lk[c][Host] = "closed" /\ ch[Host][c] = << >>
              ELSE lk[c][Host] = link[c][Host] /\ ch[Host][c] = chan[Host][c]
<1>1. /\ c \in Machine /\ c # Host /\ Host \in Machine
  BY HostAssumption DEF Client
<1>2. ch[c][Host] = chan[c][Host]
  BY <1>1 DEF Parted
<1>3. Said(c, << >>, ch)
  BY <1>2, NoWord DEF Said
<1>4. IF n = Host THEN lk[c][Host] = "closed" /\ ch[Host][c] = << >>
      ELSE lk[c][Host] = link[c][Host] /\ ch[Host][c] = chan[Host][c]
  BY <1>1 DEF Parted
<1> QED BY <1>3, <1>4

LEMMA StrangerHeard ==
    ASSUME HostInv, NEW c \in Client, ClientInv(c), NEW n \in Machine, StrangerConnects(c, n)
    PROVE  ClientInv(c)'
<1>1. /\ Types /\ c \in Machine /\ c # Host /\ Host \in Machine
  BY HostAssumption DEF HostInv, Client
<1>2. /\ Types' /\ \A a \in Machine \ {c} : Unmoved(a)
      /\ phase[c] = "lobby"
      /\ \E lk, dt, ch : Event(c, player_pool[c], lk, dt, ch) /\ Parted(c, n, lk, dt, ch)
  BY <1>1, StrangerFact
<1>3. PICK lk, dt, ch : Event(c, player_pool[c], lk, dt, ch) /\ Parted(c, n, lk, dt, ch)
  BY <1>2
<1>4. Unmoved(Host) /\ phase[c] = "lobby"
  BY <1>1, <1>2
<1>5. /\ Said(c, << >>, ch)
      /\ IF n = Host THEN lk[c][Host] = "closed" /\ ch[Host][c] = << >>
         ELSE lk[c][Host] = link[c][Host] /\ ch[Host][c] = chan[Host][c]
  BY <1>3, PartedWords
<1>6. ~Has(<< >>, "CONNECT")
  BY NoWord
<1> QED BY <1>1, <1>2, <1>3, <1>4, <1>5, <1>6, EventHeard

LEMMA DisconnectHeard ==
    ASSUME HostInv, NEW c \in Client, ClientInv(c), NEW n \in Machine, Disconnect(c, n)
    PROVE  ClientInv(c)'
<1>1. /\ Types /\ c \in Machine /\ c # Host /\ Host \in Machine
  BY HostAssumption DEF HostInv, Client
<1>2. /\ Types' /\ \A a \in Machine \ {c} : Unmoved(a)
      /\ \E lk, dt, ch : /\ Parted(c, n, lk, dt, ch)
                         /\ \/ phase[c] = "joining" /\ Left(c, ch)
                            \/ phase[c] = "lobby" /\ Event(c, Unmarked(c, n), lk, dt, ch)
  BY <1>1, DisconnectFact
<1>3. PICK lk, dt, ch : /\ Parted(c, n, lk, dt, ch)
                        /\ \/ phase[c] = "joining" /\ Left(c, ch)
                           \/ phase[c] = "lobby" /\ Event(c, Unmarked(c, n), lk, dt, ch)
  BY <1>2
<1>4. Unmoved(Host)
  BY <1>1, <1>2
<1>5. /\ Said(c, << >>, ch)
      /\ IF n = Host THEN lk[c][Host] = "closed" /\ ch[Host][c] = << >>
         ELSE lk[c][Host] = link[c][Host] /\ ch[Host][c] = chan[Host][c]
  BY <1>3, PartedWords
<1>6. ~Has(<< >>, "CONNECT")
  BY NoWord
<1>7. CASE Left(c, ch)
  <2>1. Parts(c, << >>)
    BY <1>5, <1>7, LeftParts
  <2> QED BY <1>1, <1>2, <1>4, <2>1, PartsKeeps
<1>8. CASE phase[c] = "lobby" /\ Event(c, Unmarked(c, n), lk, dt, ch)
  <2> DEFINE pool == Unmarked(c, n)
  <2>1. \A i \in DOMAIN pool : i \in DOMAIN player_pool[c] /\ pool[i].machine = player_pool[c][i].machine
    BY <1>1, UnmarkedFact
  <2> HIDE DEF pool
  <2>2. Event(c, pool, lk, dt, ch) /\ phase[c] = "lobby"
    BY <1>8 DEF pool
  <2> QED BY <1>1, <1>2, <1>4, <1>5, <1>6, <2>1, <2>2, EventHeard
<1> QED BY <1>3, <1>7, <1>8

\* A client that takes a message and says nothing.
LEMMA ClientTakes ==
    ASSUME NEW c \in Client, NEW n, NEW ch, \A a, b \in Machine : ch[a][b] = Took(c, n, a, b)
    PROVE  /\ ch[Host][c] = IF n = Host THEN Tail(chan[Host][c]) ELSE chan[Host][c]
           /\ ch[c][Host] = chan[c][Host] /\ Said(c, << >>, ch)
<1>1. c \in Machine /\ Host \in Machine
  BY HostAssumption DEF Client
<1>2. ch[Host][c] = Took(c, n, Host, c) /\ ch[c][Host] = Took(c, n, c, Host)
  BY <1>1
<1>3. ch[Host][c] = IF n = Host THEN Tail(chan[Host][c]) ELSE chan[Host][c]
  BY <1>2, ClientWords
<1>4. ch[c][Host] = chan[c][Host]
  BY <1>2, ClientWords
<1> QED BY <1>3, <1>4, NoWord DEF Said

LEMMA FlagHeard ==
    ASSUME HostInv, NEW c \in Client, ClientInv(c), NEW n \in Machine, PlayerReady(c, n)
    PROVE  ClientInv(c)'
<1> DEFINE msg == Head(chan[n][c])
<1>1. /\ Types /\ c \in Machine /\ c # Host /\ Host \in Machine
  BY HostAssumption DEF HostInv, Client
<1>2. /\ Types' /\ \A a \in Machine \ {c} : Unmoved(a)
      /\ Got(c, n, "PLAYER_READY") /\ Flags(c, msg.id, msg.flag)
      /\ \A a, b \in Machine : chan'[a][b] = Took(c, n, a, b)
      /\ UNCHANGED <<phase, link, data, player_pool, my_player_id, selfReadyFlag, colorAssigned,
                     player_nation_color, clicks>>
  BY <1>1, ReadyFact
<1>3. /\ chan'[Host][c] = IF n = Host THEN Tail(chan[Host][c]) ELSE chan[Host][c]
      /\ Utters(c, << >>)
  BY <1>2, ClientTakes, NoWord DEF Said, Utters
<1>4. Events(c, n) /\ phase[c] = "lobby" /\ msg.type = "PLAYER_READY"
  BY <1>2, GotFact
<1>5. chan[n][c] # << >>
  BY <1>4 DEF Events
<1>6. Shrinks(c)
  <2>1. Reflagged(reg[c], reg'[c])
    BY <1>2 DEF Flags
  <2>2. Ids(reg'[c]) = Ids(reg[c]) /\ (UniqueIds(reg[c]) => UniqueIds(reg'[c]))
    BY <2>1, ReflaggedFact
  <2> QED BY <1>2, <2>2 DEF Shrinks
<1>7. \/ chan'[Host][c] = chan[Host][c]
      \/ /\ chan[Host][c] # << >> /\ chan'[Host][c] = Tail(chan[Host][c])
         /\ Head(chan[Host][c]).type = "PLAYER_READY"
  BY <1>3, <1>4, <1>5
<1>8. Goes(c, << >>)
  BY <1>2, <1>3, <1>4, <1>6, <1>7 DEF Goes
<1>9. Unmoved(Host)
  BY <1>1, <1>2
<1> QED BY <1>1, <1>2, <1>8, <1>9, GoesKeeps

LEMMA GoneHeard ==
    ASSUME HostInv, NEW c \in Client, ClientInv(c), NEW n \in Machine, PlayerDisconnect(c, n)
    PROVE  ClientInv(c)'
<1> DEFINE i == Head(chan[n][c]).id
           cut == CutOff(c, i)
<1>1. /\ Types /\ Directions /\ c \in Machine /\ c # Host /\ Host \in Machine
  BY HostAssumption DEF HostInv, Client
<1>2. /\ Types' /\ \A a \in Machine \ {c} : Unmoved(a)
      /\ Got(c, n, "PLAYER_DISCONNECT")
      /\ player_pool'[c] = Without(player_pool[c], {i}) /\ reg'[c] = Unregister(reg[c], {i})
      /\ \A b \in Machine : link'[c][b] = IF b \in cut THEN "closed" ELSE link[c][b]
      /\ \A a, b \in Machine : chan'[a][b] = IF a \in cut /\ b = c THEN << >> ELSE Took(c, n, a, b)
      /\ UNCHANGED <<phase, my_player_id, selfReadyFlag, colorAssigned, player_nation_color, clicks>>
  BY <1>1, GoneFact
<1>3. n = Host
  BY <1>1, <1>2, Speakers
<1>4. Events(c, n) /\ phase[c] = "lobby" /\ Head(chan[n][c]).type = "PLAYER_DISCONNECT"
  BY <1>2, GotFact
<1>5. chan[n][c] # << >>
  BY <1>4 DEF Events
<1> HIDE DEF i, cut
<1>6. Shrinks(c) /\ i \notin DOMAIN player_pool'[c]
  <2>1. reg[c] \in Seq(RegEntry) /\ player_pool[c] \in Pool
    BY <1>1 DEF Types
  <2>2. /\ DOMAIN Without(player_pool[c], {i}) = DOMAIN player_pool[c] \ {i}
        /\ \A j \in DOMAIN player_pool[c] \ {i} : Without(player_pool[c], {i})[j] = player_pool[c][j]
    BY <2>1, WithoutFact
  <2>3. /\ Ids(Unregister(reg[c], {i})) = Ids(reg[c]) \ {i}
        /\ UniqueIds(reg[c]) => UniqueIds(Unregister(reg[c], {i}))
    BY <2>1, UnregisterFact
  <2> QED BY <1>2, <2>2, <2>3 DEF Shrinks
<1>7. /\ link'[c][Host] = IF Host \in cut THEN "closed" ELSE link[c][Host]
      /\ chan'[Host][c] = IF Host \in cut THEN << >> ELSE Tail(chan[Host][c])
      /\ chan'[c][Host] = chan[c][Host]
  BY <1>1, <1>2, <1>3 DEF Took
<1>8. Utters(c, << >>)
  BY <1>7, NoWord DEF Utters
<1>9. Unmoved(Host)
  BY <1>1, <1>2
<1>10. selfReadyFlag'[c] = selfReadyFlag[c] /\ selfReadyFlag'[c] \in {selfReadyFlag[c], FALSE}
  BY <1>2, Zenon
<1>11. /\ phase'[c] # "away" /\ my_player_id'[c] = my_player_id[c]
       /\ player_nation_color'[c] = player_nation_color[c]
  BY <1>2, <1>4
<1>12. CASE Host \in cut
  <2>1. Parts(c, << >>)
    BY <1>6, <1>7, <1>8, <1>10, <1>11, <1>12, Zenon DEF Parts
  <2> QED BY <1>1, <1>2, <1>9, <2>1, PartsKeeps
<1>13. CASE Host \notin cut
  <2>1. link'[c][Host] = link[c][Host]
    BY <1>7, <1>13
  <2>2. LET msg == Head(chan[Host][c])
        IN  /\ chan[Host][c] # << >> /\ chan'[Host][c] = Tail(chan[Host][c])
            /\ msg.type = "PLAYER_DISCONNECT" /\ msg.id \notin DOMAIN player_pool'[c]
    BY <1>3, <1>4, <1>5, <1>6, <1>7, <1>13 DEF i
  <2>3. Goes(c, << >>)
    BY <1>6, <1>8, <1>10, <1>11, <2>1, <2>2 DEF Goes
  <2> QED BY <1>1, <1>2, <1>9, <2>3, GoesKeeps
<1> QED BY <1>12, <1>13

LEMMA DismissedHeard ==
    ASSUME HostInv, NEW c \in Client, ClientInv(c), NEW n \in Machine, Dismissed(c, n)
    PROVE  ClientInv(c)'
<1>1. /\ Types /\ c \in Machine /\ c # Host /\ Host \in Machine
  BY HostAssumption DEF HostInv, Client
<1> DEFINE ch == Taken(c, n)
<1>2. /\ Types' /\ \A a \in Machine \ {c} : Unmoved(a)
      /\ Left(c, ch) /\ \A a, b \in Machine : ch[a][b] = Took(c, n, a, b)
  BY <1>1, DismissedFact
<1> HIDE DEF ch
<1>3. Said(c, << >>, ch)
  BY <1>2, ClientTakes
<1>4. Parts(c, << >>)
  BY <1>2, <1>3, LeftParts
<1>5. Unmoved(Host)
  BY <1>1, <1>2
<1> QED BY <1>1, <1>2, <1>4, <1>5, PartsKeeps

LEMMA AskHeard ==
    ASSUME HostInv, NEW c \in Client, ClientInv(c), NEW color \in Color, ClientClicksColor(c, color)
    PROVE  ClientInv(c)'
<1> DEFINE msg == [type |-> "ACQUIRE_COLOR", color |-> color]
           u == <<msg>>
<1>1. /\ Types /\ c \in Machine /\ c # Host /\ Host \in Machine
  BY HostAssumption DEF HostInv, Client
<1>2. /\ Types' /\ phase[c] = "lobby"
      /\ \A a, b \in Machine : chan'[a][b] = Sent(c, Asked(c), u, chan[a][b], a, b)
      /\ UNCHANGED <<phase, link, data, lobby>>
  BY <1>1, AskFact
<1>3. msg \in Message /\ msg.type = "ACQUIRE_COLOR"
  BY SentFact
<1> HIDE DEF msg
<1>4. u \in Seq(Message) /\ ~Has(u, "PLAYER_READY") /\ ~Has(u, "CONNECT")
  BY <1>3, OneMessage, OneHas
<1> HIDE DEF u
<1>5. chan'[Host][c] = chan[Host][c]
  BY <1>1, <1>2, ClientWords
<1>6. Utters(c, u)
  BY <1>1, <1>2, <1>4 DEF Utters, Sent
<1>7. Shrinks(c) /\ Unmoved(Host)
  BY <1>2 DEF Shrinks, Unmoved, lobby
<1>8. /\ phase'[c] # "away" /\ link'[c][Host] = link[c][Host] /\ my_player_id'[c] = my_player_id[c]
      /\ player_nation_color'[c] = player_nation_color[c]
  BY <1>2 DEF lobby
<1>9. selfReadyFlag'[c] = selfReadyFlag[c]
  BY <1>2, Zenon DEF lobby
<1>10. Goes(c, u)
  BY <1>5, <1>6, <1>7, <1>8, <1>9 DEF Goes
<1> QED BY <1>1, <1>2, <1>7, <1>10, GoesKeeps

\* A step of which neither the client nor the host knows.
LEMMA OthersKeep ==
    ASSUME NEW c \in Client, ClientInv(c), Unmoved(c), Unmoved(Host),
           chan'[Host][c] = chan[Host][c], chan'[c][Host] = chan[c][Host]
    PROVE  ClientInv(c)'
<1>1. Greeted(c)' /\ Fresh(c)' /\ Known(c)'
  BY DEF ClientInv, Greeted, Fresh, Known, Linked, Unmoved, Down, Up
<1>2. Numbered(c)' /\ Waiting(c)' /\ Unready(c)'
  BY DEF ClientInv, Numbered, Waiting, Expected, Unready, Unmoved, Down, Up
<1>3. Own(c)' /\ Registers(c)' /\ Flagged(c)'
  BY DEF ClientInv, Own, Registers, Flagged, Linked, Unmoved, Down, Up
<1> QED BY <1>1, <1>2, <1>3 DEF ClientInv

\* A question about a colour is not for a client.
LEMMA HearsayHeard ==
    ASSUME HostInv, NEW c \in Client, ClientInv(c), NEW n \in Machine, AcquireColor(c, n)
    PROVE  ClientInv(c)'
<1>1. /\ Types /\ Directions /\ c \in Machine /\ c # Host /\ Host \in Machine
  BY HostAssumption DEF HostInv, Client
<1>2. /\ Types' /\ Got(c, n, "ACQUIRE_COLOR")
      /\ \A a, b \in Machine : chan'[a][b] = Took(c, n, a, b)
      /\ UNCHANGED <<phase, link, data, player_pool, my_player_id, reg, player_nation_color>>
  BY <1>1, AcquireFact
<1>3. UNCHANGED selfReadyFlag
  BY <1>1, AcquireFact
<1>4. n # Host
  BY <1>1, <1>2, Speakers
<1>5. chan'[Host][c] = chan[Host][c] /\ chan'[c][Host] = chan[c][Host]
  BY <1>2, <1>4, ClientTakes
<1>6. Unmoved(c) /\ Unmoved(Host)
  <2>1. \A a : selfReadyFlag'[a] = selfReadyFlag[a]
    BY <1>3, Zenon
  <2> QED BY <1>2, <2>1 DEF Unmoved
<1> QED BY <1>5, <1>6, OthersKeep

LEMMA CancelHeard ==
    ASSUME HostInv, NEW c \in Client, ClientInv(c), CancelJoin(c)
    PROVE  ClientInv(c)'
<1>1. /\ Types /\ c \in Machine /\ c # Host /\ Host \in Machine
  BY HostAssumption DEF HostInv, Client
<1>2. /\ Types' /\ \A a \in Machine \ {c} : Unmoved(a)
      /\ phase'[c] = "lobby" /\ UNCHANGED <<link, data, chan, lobby, clicks>>
  BY <1>1, CancelFact
<1>3. Utters(c, << >>)
  BY <1>2, NoWord DEF Utters
<1>4. Shrinks(c)
  BY <1>2 DEF Shrinks, lobby
<1>5. selfReadyFlag'[c] = selfReadyFlag[c]
  BY <1>2, Zenon DEF lobby
<1>6. Goes(c, << >>)
  BY <1>2, <1>3, <1>4, <1>5 DEF Goes, lobby
<1>7. Unmoved(Host)
  BY <1>1, <1>2
<1> QED BY <1>1, <1>2, <1>6, <1>7, GoesKeeps

LEMMA LeaveHeard ==
    ASSUME HostInv, NEW c \in Client, ClientInv(c), Leave(c)
    PROVE  ClientInv(c)'
<1>1. /\ Types /\ c \in Machine /\ c # Host /\ Host \in Machine
  BY HostAssumption DEF HostInv, Client
<1>2. /\ Types' /\ \A a \in Machine \ {c} : Unmoved(a)
      /\ \E ch : Left(c, ch) /\ \A a, b \in Machine : ch[a][b] = LeftWord(c, a, b)
  BY <1>1, LeaveFact
<1>3. PICK ch : Left(c, ch) /\ \A a, b \in Machine : ch[a][b] = LeftWord(c, a, b)
  BY <1>2
<1>4. ch[c][Host] = chan[c][Host]
  BY <1>1, <1>3 DEF LeftWord
<1>5. Said(c, << >>, ch)
  BY <1>4, NoWord DEF Said
<1>6. Parts(c, << >>)
  BY <1>3, <1>5, LeftParts
<1>7. Unmoved(Host)
  BY <1>1, <1>2
<1> QED BY <1>1, <1>2, <1>6, <1>7, PartsKeeps

\* A list with one more entry.
LEMMA LongerFact ==
    ASSUME NEW list \in Seq(RegEntry), NEW i \in Slot, NEW new, new = Append(list, Entry(i, 0))
    PROVE  /\ Ids(new) = Ids(list) \cup {i}
           /\ UniqueIds(list) /\ i \notin Ids(list) => UniqueIds(new)
<1> DEFINE e == Entry(i, 0)
           n == Len(list) + 1
<1>1. e \in RegEntry /\ e.id = i
  BY EntryType DEF Entry
<1> HIDE DEF e
<1>2. /\ DOMAIN new = DOMAIN list \cup {n} /\ n \notin DOMAIN list
      /\ \A k \in DOMAIN list : new[k] = list[k]
      /\ new[n] = e
  BY <1>1, AppendFact DEF e
<1> HIDE DEF n
<1>3. Ids(new) = Ids(list) \cup {i}
  <2>1. \A k \in DOMAIN list : k \in DOMAIN new /\ new[k].id = list[k].id
    BY <1>2
  <2>2. n \in DOMAIN new /\ new[n].id = i
    BY <1>1, <1>2
  <2>3. \A k \in DOMAIN new : new[k].id \in Ids(list) \cup {i}
    BY <1>1, <1>2 DEF Ids
  <2>4. \A j \in Ids(list) : j \in Ids(new)
    BY <2>1 DEF Ids
  <2>5. i \in Ids(new)
    BY <2>2 DEF Ids
  <2>6. \A j \in Ids(new) : j \in Ids(list) \cup {i}
    BY <2>3 DEF Ids
  <2> QED BY <2>4, <2>5, <2>6
<1>4. ASSUME UniqueIds(list), i \notin Ids(list) PROVE UniqueIds(new)
  <2>1. \A k \in DOMAIN list : list[k].id # i
    BY <1>4 DEF Ids
  <2> QED BY <1>1, <1>2, <1>4, <2>1 DEF UniqueIds
<1> QED BY <1>3, <1>4

\* The client has taken a message of the host and says nothing.
Takes(c) ==
    /\ link[c][Host] = "up" /\ link'[c][Host] = "up"
    /\ chan[Host][c] # << >> /\ chan'[Host][c] = Tail(chan[Host][c])
    /\ chan'[c][Host] = chan[c][Host] /\ phase'[c] = phase[c]
    /\ selfReadyFlag'[c] = selfReadyFlag[c] /\ Head(chan[Host][c]).type # "CONNECT"

LEMMA TakesFact ==
    ASSUME Types, NEW c \in Client, ClientInv(c), Unmoved(Host), Takes(c)
    PROVE  Greeted(c)' /\ Fresh(c)' /\ Flagged(c)' /\ link[Host][c] # "none"
<1>1. chan[Host][c] \in Seq(Message)
  BY ClientFact
<1>2. chan[Host][c] # << >> /\ Head(chan[Host][c]).type # "CONNECT"
  BY DEF Takes
<1>3. 1 \in DOMAIN chan[Host][c] /\ Head(chan[Host][c]) = chan[Host][c][1]
  BY <1>1, <1>2, TailFact
<1>4. link[Host][c] # "none"
  BY <1>2, <1>3 DEF ClientInv, Fresh, Down
<1>5. Greeted(c)' /\ Flagged(c)'
  BY DEF ClientInv, Greeted, Flagged, Takes, Up, Unmoved
<1>6. Fresh(c)'
  BY <1>4 DEF Fresh, Unmoved
<1> QED BY <1>4, <1>5, <1>6

LEMMA ColorHeard ==
    ASSUME HostInv, NEW c \in Client, ClientInv(c), NEW n \in Machine, AcceptColor(c, n)
    PROVE  ClientInv(c)'
<1> DEFINE s == chan[Host][c]
           t == Tail(s)
           id == my_player_id[c]
           flag == selfReadyFlag[c]
           up == chan[c][Host]
           pool == player_pool[Host]
           mine == player_pool[c]
           ids == Ids(reg[c])
           me == data[Host][c]
<1>1. /\ Types /\ Directions /\ c \in Machine /\ c # Host /\ Host \in Machine
      /\ s \in Seq(Message)
  BY HostAssumption, ClientFact DEF HostInv, Client
<1>2. /\ Types' /\ Got(c, n, "ACCEPT_COLOR")
      /\ player_nation_color'[c] = Head(chan[n][c]).color
      /\ player_nation_color'[Host] = player_nation_color[Host]
      /\ \A a, b \in Machine : chan'[a][b] = Took(c, n, a, b)
      /\ UNCHANGED <<phase, link, data, player_pool, my_player_id, reg, selfReadyFlag, colorAssigned,
                     clicks>>
  BY <1>1, ColorFact
<1>3. n = Host
  BY <1>1, <1>2, Speakers
<1>4. Events(c, n) /\ link[c][n] = "up" /\ Head(chan[n][c]).type = "ACCEPT_COLOR"
  BY <1>2, GotFact
<1>5. s # << >> /\ Head(s).type = "ACCEPT_COLOR" /\ link[c][Host] = "up"
  BY <1>3, <1>4 DEF Events
<1>6. chan'[Host][c] = t /\ chan'[c][Host] = up
  BY <1>2, <1>3, ClientTakes
<1>7. Unmoved(Host)
  BY <1>2 DEF Unmoved
<1>8. Takes(c)
  BY <1>2, <1>5, <1>6 DEF Takes
<1>9. Greeted(c)' /\ Fresh(c)' /\ Flagged(c)'
  BY <1>1, <1>7, <1>8, TakesFact
<1>10. /\ Known(c) /\ Numbered(c) /\ Waiting(c) /\ Unready(c) /\ Own(c) /\ Registers(c)
  BY DEF ClientInv
<1> HIDE DEF s, t, id, flag, up, pool, mine, ids, me
<1>11. Known(c)'
  <2> SUFFICES ASSUME Linked(Host, c) PROVE InStep(mine, id, t, pool) /\ Truthful(t, pool, me)
    BY <1>2, <1>6 DEF Known, Linked, Down, mine, pool, id, me
  <2>1. InStep(mine, id, s, pool) /\ Truthful(s, pool, me)
    BY <1>10 DEF Known, Down, s, mine, pool, id, me
  <2>2. InStep(mine, id, t, pool)
    <3>1. \A i \in DOMAIN mine : ~(Head(s).type = "PLAYER_DISCONNECT" /\ Head(s).id = i)
      BY <1>5
    <3> QED BY <1>1, <1>5, <2>1, <3>1, TailInStep DEF t
  <2>3. Truthful(t, pool, me)
    BY <1>1, <1>5, <2>1, TailTruthful DEF t
  <2> QED BY <2>2, <2>3
<1>12. Numbered(c)'
  <2>1. UniqueIds(reg[c]) /\ (id = 0 => NewId(s, ids))
    BY <1>10 DEF Numbered, Down, s, id, ids
  <2>2. id = 0 => NewId(t, ids)
    BY <1>1, <1>5, <2>1, TailNewId DEF t
  <2> QED BY <1>2, <1>6, <2>1, <2>2 DEF Numbered, Down, id, ids
<1>13. Waiting(c)'
  <2> SUFFICES ASSUME link[Host][c] = "up", NEW f \in Expected(c)
               PROVE  id = 0 /\ f \notin ids /\ Silent(t, f)
    BY <1>2, <1>6 DEF Waiting, Expected, Down, id, ids
  <2>1. id = 0 /\ f \notin ids /\ Silent(s, f)
    BY <1>10 DEF Waiting, Down, s, id, ids
  <2>2. Silent(t, f)
    BY <1>1, <1>5, <2>1, SilentFact DEF t
  <2> QED BY <2>1, <2>2
<1>14. Unready(c)' /\ Own(c)'
  BY <1>2, <1>6, <1>10 DEF Unready, Own, Up, up
<1>15. Registers(c)'
  <2> DEFINE color == player_nation_color'[c]
  <2> SUFFICES ASSUME Linked(Host, c), NEW k \in DOMAIN reg[Host], reg[Host][k].id = me
               PROVE  Agreed(reg[Host][k], id, color, flag, t, up)
    BY <1>2, <1>6 DEF Registers, Linked, Down, Up, me, id, flag
  <2> DEFINE e == reg[Host][k]
  <2>1. Agreed(e, id, player_nation_color[c], flag, s, up)
    BY <1>10 DEF Registers, Down, Up, s, up, id, me, flag
  <2> HIDE DEF e
  <2>2. color = Head(s).color
    BY <1>2, <1>3 DEF s
  <2> HIDE DEF color
  <2>3. id = e.id \/ (id = 0 /\ Has(t, "PLAYER_ID"))
    <3>1. Has(s, "PLAYER_ID") => Has(t, "PLAYER_ID")
      BY <1>1, <1>5, TailHas DEF t
    <3> QED BY <2>1, <3>1 DEF Agreed
  <2>4. ~Has(t, "ACCEPT_COLOR") => color = e.color
    <3>1. ~Has(t, "ACCEPT_COLOR") => Final(s, 1, "ACCEPT_COLOR")
      BY <1>1, <1>5, TailFinal DEF t
    <3>2. 1 \in DOMAIN s /\ Head(s) = s[1]
      BY <1>1, <1>5, TailFact
    <3> QED BY <2>1, <2>2, <3>1, <3>2 DEF Agreed
  <2>5. \A j \in DOMAIN t : Final(t, j, "ACCEPT_COLOR") => t[j].color = e.color
    <3>1. \A j \in DOMAIN t : Final(t, j, "ACCEPT_COLOR") =>
             j + 1 \in DOMAIN s /\ Final(s, j + 1, "ACCEPT_COLOR") /\ t[j] = s[j + 1]
      BY <1>1, <1>5, TailFinal DEF t
    <3> QED BY <2>1, <3>1 DEF Agreed
  <2>6. ~Has(up, "PLAYER_READY") => flag = e.ready
    BY <2>1 DEF Agreed
  <2>7. Agreed(e, id, color, flag, t, up)
    BY <2>3, <2>4, <2>5, <2>6 DEF Agreed
  <2> QED BY <2>7 DEF e
<1> QED BY <1>9, <1>11, <1>12, <1>13, <1>14, <1>15 DEF ClientInv

\* A client that has no id gets one.
LEMMA NumberHeard ==
    ASSUME HostInv, NEW c \in Client, ClientInv(c), NEW n \in Machine, PlayerId(c, n)
    PROVE  ClientInv(c)'
<1> DEFINE s == chan[Host][c]
           t == Tail(s)
           i == Head(s).id
           id == my_player_id[c]
           flag == selfReadyFlag[c]
           color == player_nation_color[c]
           up == chan[c][Host]
           pool == player_pool[Host]
           mine == player_pool[c]
           more == player_pool'[c]
           ids == Ids(reg[c])
           me == data[Host][c]
<1>1. /\ Types /\ Directions /\ c \in Machine /\ c # Host /\ Host \in Machine
      /\ s \in Seq(Message)
  BY HostAssumption, ClientFact DEF HostInv, Client
<1>2. /\ Types' /\ \A a \in Machine \ {c} : Unmoved(a)
      /\ Got(c, n, "PLAYER_ID") /\ Head(chan[n][c]).id \in Slot
      /\ NumberedAs(c, Head(chan[n][c]).id)
      /\ \A a, b \in Machine : chan'[a][b] = Took(c, n, a, b)
      /\ UNCHANGED <<phase, link, data, selfReadyFlag, colorAssigned, player_nation_color, clicks>>
  BY <1>1, PlayerIdFact
<1>3. n = Host
  BY <1>1, <1>2, Speakers
<1>4. Events(c, n) /\ phase[c] = "lobby" /\ link[c][n] = "up" /\ Head(chan[n][c]).type = "PLAYER_ID"
  BY <1>2, GotFact
<1>5. s # << >> /\ Head(s).type = "PLAYER_ID" /\ link[c][Host] = "up" /\ i \in Slot /\ NumberedAs(c, i)
  BY <1>2, <1>3, <1>4 DEF Events
<1>6. chan'[Host][c] = t /\ chan'[c][Host] = up /\ Said(c, << >>, chan')
  BY <1>2, <1>3, ClientTakes
<1>7. Unmoved(Host)
  BY <1>1, <1>2
<1>8. Takes(c)
  BY <1>2, <1>5, <1>6 DEF Takes
<1>9. Greeted(c)' /\ Fresh(c)' /\ Flagged(c)'
  BY <1>1, <1>7, <1>8, TakesFact
<1>10. /\ Known(c) /\ Numbered(c) /\ Waiting(c) /\ Unready(c) /\ Own(c) /\ Registers(c)
  BY DEF ClientInv
<1>11. player_pool'[Host] = pool /\ reg'[Host] = reg[Host] /\ data'[Host] = data[Host]
  BY <1>7 DEF Unmoved
<1>12. CASE id # 0
  <2>1. my_player_id'[c] = id /\ player_pool'[c] = player_pool[c] /\ reg'[c] = reg[c]
    BY <1>5, <1>12 DEF NumberedAs
  <2>2. Shrinks(c)
    BY <2>1 DEF Shrinks
  <2>3. Utters(c, << >>)
    BY <1>6, NoWord DEF Utters
  <2>4. Goes(c, << >>)
    BY <1>2, <1>4, <1>5, <1>6, <1>12, <2>1, <2>2, <2>3 DEF Goes
  <2> QED BY <1>1, <1>2, <1>7, <2>4, GoesKeeps
<1>13. CASE id = 0
  <2>1. /\ my_player_id'[c] = i /\ i # 0
        /\ DOMAIN more = DOMAIN mine \cup {i} /\ more[i] = Desc(c)
        /\ \A j \in DOMAIN mine \ {i} : more[j] = mine[j]
        /\ reg'[c] = Append(reg[c], Entry(i, 0))
    BY <1>5, <1>13 DEF NumberedAs, Slot
  <2>2. 1 \in DOMAIN s /\ Head(s) = s[1]
    BY <1>1, <1>5, TailFact
  <2>3. reg[c] \in Seq(RegEntry)
    BY <1>1 DEF Types
  <2> HIDE DEF s, t, id, flag, up, pool, mine, ids, i, more, color, me
  <2>4. Linked(Host, c) => i = me
    BY <1>5, <1>10, <2>2 DEF Known, Truthful, Down, s, i, me
  <2>5. Known(c)'
    <3> SUFFICES ASSUME Linked(Host, c) PROVE InStep(more, i, t, pool) /\ Truthful(t, pool, me)
      BY <1>2, <1>6, <1>11, <2>1 DEF Known, Linked, Down, more, me
    <3>1. InStep(mine, id, s, pool) /\ Truthful(s, pool, me)
      BY <1>10 DEF Known, Down, s, mine, pool, id, me
    <3>2. Truthful(t, pool, me)
      BY <1>1, <1>5, <3>1, TailTruthful DEF t
    <3>3. \A j \in DOMAIN more \ {i} : j \in DOMAIN mine \ {id} /\ more[j].machine = mine[j].machine
      <4>1. DOMAIN mine \subseteq Slot
        BY <1>1, ClientFact, PoolFact DEF mine
      <4> QED BY <1>13, <2>1, <4>1 DEF Slot
    <3>4. \A j \in DOMAIN more : ~(Head(s).type = "PLAYER_DISCONNECT" /\ Head(s).id = j)
      BY <1>5
    <3>5. InStep(more, i, t, pool)
      BY <1>1, <1>5, <3>1, <3>3, <3>4, TailInStep DEF t
    <3> QED BY <3>2, <3>5
  <2>6. Numbered(c)'
    <3>1. UniqueIds(reg[c]) /\ i \notin ids
      BY <1>5, <1>10, <1>13, <2>2 DEF Numbered, NewId, Down, s, i, id, ids
    <3>2. UniqueIds(reg'[c])
      BY <1>5, <2>1, <2>3, <3>1, LongerFact DEF ids
    <3> QED BY <2>1, <3>2 DEF Numbered
  <2>7. Waiting(c)'
    <3>1. link[Host][c] = "up" => \A f \in Expected(c) : FALSE
      BY <1>5, <1>10, <2>2 DEF Waiting, Silent, Down, s
    <3> QED BY <1>2, <1>11, <3>1 DEF Waiting, Expected
  <2>8. Unready(c)'
    BY <2>1 DEF Unready
  <2>9. Own(c)'
    <3>1. link[Host][c] = "up" => Linked(Host, c)
      BY <1>5 DEF Linked
    <3> QED BY <1>2, <1>6, <1>10, <1>11, <2>1, <2>4, <3>1 DEF Own, Up, up, me
  <2>10. Registers(c)'
    <3> SUFFICES ASSUME Linked(Host, c), NEW k \in DOMAIN reg[Host], reg[Host][k].id = me
                 PROVE  Agreed(reg[Host][k], i, color, flag, t, up)
      BY <1>2, <1>6, <1>11, <2>1 DEF Registers, Linked, Down, Up, flag, color, me
    <3> DEFINE e == reg[Host][k]
    <3>1. Agreed(e, id, color, flag, s, up)
      BY <1>10 DEF Registers, Down, Up, s, up, id, me, flag, color
    <3>2. e.id = i
      BY <2>4
    <3> HIDE DEF e
    <3>3. ~Has(t, "ACCEPT_COLOR") => ~Has(s, "ACCEPT_COLOR")
      BY <1>1, <1>5, TailHas DEF t
    <3>4. \A j \in DOMAIN t : Final(t, j, "ACCEPT_COLOR") => t[j].color = e.color
      <4>1. \A j \in DOMAIN t : Final(t, j, "ACCEPT_COLOR") =>
               j + 1 \in DOMAIN s /\ Final(s, j + 1, "ACCEPT_COLOR") /\ t[j] = s[j + 1]
        BY <1>1, <1>5, TailFinal DEF t
      <4> QED BY <3>1, <4>1 DEF Agreed
    <3>5. Agreed(e, i, color, flag, t, up)
      BY <3>1, <3>2, <3>3, <3>4 DEF Agreed
    <3> QED BY <3>5 DEF e
  <2> QED BY <1>9, <2>5, <2>6, <2>7, <2>8, <2>9, <2>10 DEF ClientInv
<1> QED BY <1>12, <1>13

\* A client hears of a player and makes an entry for it.
LEMMA AddHeard ==
    ASSUME HostInv, NEW c \in Client, ClientInv(c), NEW n \in Machine, AcceptNewPlayer(c, n)
    PROVE  ClientInv(c)'
<1> DEFINE s == chan[Host][c]
           t == Tail(s)
           msg == Head(s)
           id == my_player_id[c]
           flag == selfReadyFlag[c]
           color == player_nation_color[c]
           up == chan[c][Host]
           pool == player_pool[Host]
           mine == player_pool[c]
           more == player_pool'[c]
           ids == Ids(reg[c])
           ids2 == Ids(reg'[c])
           me == data[Host][c]
           Room == Len(reg[c]) < MAX_NATION /\ msg.id # id
           dial == Dials(c, msg)
<1>1. /\ Types /\ Directions /\ c \in Machine /\ c # Host /\ Host \in Machine
      /\ s \in Seq(Message) /\ reg[c] \in Seq(RegEntry)
  BY HostAssumption, ClientFact DEF HostInv, Client
<1>2. AcceptNewPlayer(c, n) => Got(c, n, "ACCEPT_NEW_PLAYER")
  BY <1>1, AcceptFact
<1>3. n = Host
  BY <1>1, <1>2, Speakers
<1>4. /\ Types' /\ \A a \in Machine \ {c} : Unmoved(a)
      /\ Got(c, Host, "ACCEPT_NEW_PLAYER") /\ msg.id \in Slot /\ msg.machine \in Machine
      /\ Adds(c, msg)
  BY <1>1, <1>3, AcceptFact
<1>5. UNCHANGED <<phase, my_player_id, selfReadyFlag, colorAssigned, player_nation_color, clicks>>
  BY <1>1, <1>3, AcceptFact
<1>6. /\ Events(c, Host) /\ phase[c] = "lobby" /\ link[c][Host] = "up" /\ msg.type = "ACCEPT_NEW_PLAYER"
  BY <1>4, GotFact
<1>7. s # << >> /\ 1 \in DOMAIN s /\ msg = s[1]
  <2>1. s # << >>
    BY <1>6 DEF Events
  <2> QED BY <1>1, <2>1, TailFact
<1>8. dial => msg.machine # Host
  <2>1. Allowed(Host, c, msg)
    BY <1>1, <1>6, HeadAllowed
  <2> QED BY <1>6, <2>1 DEF Allowed, Dials
<1>9. link'[c][Host] = "up"
  <2>1. AcceptNewPlayer(c, Host)
    BY <1>3
  <2>2. link'[c][Host] = IF dial /\ Host = msg.machine THEN "dialled" ELSE link[c][Host]
    BY <1>1, <2>1, AcceptFact, Zenon
  <2> QED BY <1>6, <1>8, <2>2
<1>10. chan'[Host][c] = t /\ chan'[c][Host] = up
  <2>1. \A a, b \in Machine : chan'[a][b] =
           IF dial THEN Sent(msg.machine, {c}, <<[type |-> "CONNECT"]>>, Took(c, Host, a, b), a, b)
           ELSE Took(c, Host, a, b)
    <3>1. AcceptNewPlayer(c, Host)
      BY <1>3
    <3> QED BY <1>1, <3>1, AcceptFact, Zenon
  <2>2. Took(c, Host, Host, c) = t /\ Took(c, Host, c, Host) = up
    BY ClientWords
  <2>3. CASE dial
    <3>1. chan'[Host][c] = Sent(msg.machine, {c}, <<[type |-> "CONNECT"]>>, t, Host, c)
      BY <1>1, <2>1, <2>2, <2>3
    <3>2. chan'[c][Host] = Sent(msg.machine, {c}, <<[type |-> "CONNECT"]>>, up, c, Host)
      BY <1>1, <2>1, <2>2, <2>3
    <3> QED BY <1>1, <1>8, <2>3, <3>1, <3>2 DEF Sent
  <2>4. CASE ~dial
    BY <1>1, <2>1, <2>2, <2>4
  <2> QED BY <2>3, <2>4
<1>11. Unmoved(Host)
  BY <1>1, <1>4
<1>12. Takes(c)
  BY <1>5, <1>6, <1>7, <1>9, <1>10 DEF Takes
<1>13. Greeted(c)' /\ Fresh(c)' /\ Flagged(c)'
  BY <1>1, <1>11, <1>12, TakesFact
<1>14. /\ Known(c) /\ Numbered(c) /\ Waiting(c) /\ Unready(c) /\ Own(c) /\ Registers(c)
  BY DEF ClientInv
<1>15. /\ player_pool'[Host] = pool /\ reg'[Host] = reg[Host] /\ link'[Host] = link[Host]
       /\ data'[Host] = data[Host]
  BY <1>11 DEF Unmoved
<1>16. CASE ~Room
  <2>1. player_pool'[c] = player_pool[c] /\ reg'[c] = reg[c]
    BY <1>4, <1>16 DEF Adds
  <2>2. Shrinks(c)
    BY <2>1 DEF Shrinks
  <2>3. Utters(c, << >>)
    BY <1>10, NoWord DEF Utters
  <2>4. /\ phase'[c] # "away" /\ my_player_id'[c] = my_player_id[c]
        /\ player_nation_color'[c] = player_nation_color[c]
    BY <1>5, <1>6
  <2>5. selfReadyFlag'[c] = selfReadyFlag[c]
    BY <1>5, Zenon
  <2>6. Goes(c, << >>)
    BY <1>6, <1>7, <1>9, <1>10, <2>2, <2>3, <2>4, <2>5 DEF Goes
  <2> QED BY <1>1, <1>4, <1>11, <2>6, GoesKeeps
<1>17. CASE Room
  <2>1. /\ DOMAIN more = DOMAIN mine \cup {msg.id}
        /\ \A j \in DOMAIN mine : more[j] = mine[j]
        /\ msg.id \notin DOMAIN mine => more[msg.id] = Desc(msg.machine)
        /\ Accepted(reg[c], msg.id, reg'[c])
    BY <1>4, <1>17 DEF Adds
  <2>2. my_player_id'[c] = id /\ player_nation_color'[c] = color
    BY <1>5
  <2>3. selfReadyFlag'[c] = flag
    BY <1>5, Zenon
  <2>4. msg.id \in Slot
    BY <1>4
  <2> HIDE DEF s, t, msg, id, flag, color, up, pool, mine, more, ids, ids2, me, Room, dial
  <2>5. /\ \A j \in ids2 : j \in ids \/ j = msg.id
        /\ UniqueIds(reg[c]) => UniqueIds(reg'[c])
    <3>1. CASE msg.id \in ids
      <4>1. Reflagged(reg[c], reg'[c])
        BY <2>1, <3>1 DEF Accepted, ids
      <4> QED BY <4>1, ReflaggedFact DEF ids, ids2
    <3>2. CASE msg.id \notin ids
      <4>1. reg'[c] = Append(reg[c], Entry(msg.id, 0))
        BY <2>1, <3>2 DEF Accepted, ids
      <4>2. /\ Ids(reg'[c]) = Ids(reg[c]) \cup {msg.id}
            /\ UniqueIds(reg[c]) /\ msg.id \notin Ids(reg[c]) => UniqueIds(reg'[c])
        BY <1>1, <2>4, <4>1, LongerFact
      <4> QED BY <3>2, <4>2 DEF ids, ids2
    <3> QED BY <3>1, <3>2
  <2>6. Known(c)'
    <3> SUFFICES ASSUME Linked(Host, c) PROVE InStep(more, id, t, pool) /\ Truthful(t, pool, me)
      BY <1>6, <1>9, <1>10, <1>15, <2>2 DEF Known, Linked, Down, more, me
    <3>1. InStep(mine, id, s, pool) /\ Truthful(s, pool, me)
      BY <1>14 DEF Known, Down, s, mine, pool, id, me
    <3>2. Truthful(t, pool, me)
      BY <1>1, <1>7, <3>1, TailTruthful DEF t
    <3>3. ASSUME NEW j \in DOMAIN more \ {id} PROVE Holds(pool, j, more[j].machine) \/ Deleted(t, j, 0)
      <4>1. CASE j \in DOMAIN mine
        <5>1. Holds(pool, j, more[j].machine) \/ Deleted(s, j, 0)
          BY <2>1, <3>1, <4>1 DEF InStep
        <5>2. Deleted(s, j, 0) => Deleted(t, j, 0)
          BY <1>1, <1>6, <1>7, FirstDeleted DEF t, msg
        <5> QED BY <5>1, <5>2
      <4>2. CASE j \notin DOMAIN mine
        <5>1. j = msg.id /\ more[j].machine = msg.machine
          BY <2>1, <4>2 DEF Desc
        <5>2. Holds(pool, j, msg.machine) \/ Deleted(s, j, 1)
          BY <1>6, <1>7, <3>1, <5>1 DEF Truthful
        <5>3. Deleted(s, j, 0 + 1) => Deleted(t, j, 0)
          BY <1>1, <1>7, TailDeleted DEF t
        <5> QED BY <5>1, <5>2, <5>3
      <4> QED BY <4>1, <4>2
    <3> QED BY <3>2, <3>3 DEF InStep
  <2>7. Numbered(c)'
    <3>1. UniqueIds(reg[c]) /\ (id = 0 => NewId(s, ids))
      BY <1>14 DEF Numbered, Down, s, id, ids
    <3>2. \A j \in ids2 : j \in ids \/ (Head(s).type = "ACCEPT_NEW_PLAYER" /\ Head(s).id = j)
      BY <1>6, <2>5 DEF msg
    <3>3. id = 0 => NewId(t, ids2)
      BY <1>1, <1>7, <3>1, <3>2, TailNewId DEF t
    <3> QED BY <1>10, <2>2, <2>5, <3>1, <3>3 DEF Numbered, Down, ids2
  <2>8. Waiting(c)'
    <3> SUFFICES ASSUME link[Host][c] = "up", NEW f \in Expected(c)
                 PROVE  id = 0 /\ f \notin ids2 /\ Silent(t, f)
      BY <1>10, <1>15, <2>2 DEF Waiting, Expected, Down, ids2
    <3>1. id = 0 /\ f \notin ids /\ Silent(s, f)
      BY <1>14 DEF Waiting, Down, s, id, ids
    <3>2. Silent(t, f)
      BY <1>1, <1>7, <3>1, SilentFact DEF t
    <3>3. f # msg.id
      BY <1>6, <1>7, <3>1 DEF Silent
    <3> QED BY <2>5, <3>1, <3>2, <3>3
  <2>9. Unready(c)'
    BY <1>6, <1>10, <1>14, <2>2, <2>3 DEF Unready, Up, id, flag, up
  <2>10. Own(c)'
    BY <1>10, <1>14, <1>15, <2>2 DEF Own, Up, id, up, me
  <2>11. Registers(c)'
    <3> SUFFICES ASSUME Linked(Host, c), NEW k \in DOMAIN reg[Host], reg[Host][k].id = me
                 PROVE  Agreed(reg[Host][k], id, color, flag, t, up)
      BY <1>6, <1>10, <1>15, <2>2, <2>3 DEF Registers, Linked, Down, Up, me
    <3> DEFINE e == reg[Host][k]
    <3>1. Agreed(e, id, color, flag, s, up)
      BY <1>14 DEF Registers, Down, Up, s, up, id, me, flag, color
    <3> HIDE DEF e
    <3>2. Agreed(e, id, color, flag, t, up)
      BY <1>1, <1>6, <1>7, <3>1, TailAgreed DEF t, msg
    <3> QED BY <3>2 DEF e
  <2> QED BY <1>13, <2>6, <2>7, <2>8, <2>9, <2>10, <2>11 DEF ClientInv
<1> QED BY <1>16, <1>17

\* A client turns its flag.
LEMMA TurnHeard ==
    ASSUME HostInv, NEW c \in Client, ClientInv(c), ClickReady(c)
    PROVE  ClientInv(c)'
<1> DEFINE s == chan[Host][c]
           id == my_player_id[c]
           flag == selfReadyFlag'[c]
           up == chan[c][Host]
           up2 == chan'[c][Host]
           msg == ReadyMsg(id, flag)
           me == data[Host][c]
<1>1. /\ Types /\ HostLinks /\ c \in Machine /\ c # Host /\ Host \in Machine
      /\ s \in Seq(Message) /\ up \in Seq(Message)
      /\ link[Host][c] \in {"none", "dialled", "up", "closed"}
  BY HostAssumption, ClientFact DEF HostInv, Client
<1>2. /\ Types' /\ \A a \in Machine \ {c} : Unmoved(a)
      /\ id \in Ids(reg[c]) /\ id \in Slot /\ Reflagged(reg[c], reg'[c])
      /\ UNCHANGED <<phase, link, data, player_pool, my_player_id, colorAssigned, player_nation_color>>
  BY <1>1, TurnFact
<1>3. \A a, b \in Machine : chan'[a][b] = Sent(c, Peers(link, c), <<msg>>, chan[a][b], a, b)
  <2>1. /\ \A a, b \in Machine : chan'[a][b] =
             Sent(c, Peers(link, c), <<ReadyMsg(id, ~selfReadyFlag[c])>>, chan[a][b], a, b)
        /\ selfReadyFlag'[c] = ~selfReadyFlag[c]
    BY <1>1, TurnFact
  <2> QED BY <2>1, Zenon
<1>4. flag \in BOOLEAN
  BY <1>1, <1>2 DEF Types
<1>5. msg \in Message /\ msg.type = "PLAYER_READY" /\ msg.id = id /\ msg.flag = flag
  BY <1>2, <1>4, SentFact DEF ReadyMsg
<1>6. Unmoved(Host)
  BY <1>1, <1>2
<1> HIDE DEF msg
<1>7. /\ <<msg>> \in Seq(Message) /\ \A k \in DOMAIN <<msg>> : <<msg>>[k] = msg
      /\ \A type : Has(<<msg>>, type) <=> msg.type = type
  BY <1>5, OneMessage, OneHas
<1> DEFINE word == <<msg>>
<1> HIDE DEF word
<1>8. chan'[Host][c] = s
  BY <1>1, <1>3, ClientWords
<1>9. up2 = IF link[c][Host] = "up" /\ link[Host][c] # "closed" THEN up \o word ELSE up
  BY <1>1, <1>3 DEF Sent, Peers, word
<1>10. link[Host][c] \in {"up", "closed"} /\ id # 0
  <2>1. reg[c] # << >>
    BY <1>2 DEF Ids
  <2> QED BY <1>1, <1>2, <2>1 DEF ClientInv, Fresh, HostLinks, Pointed, Slot
<1>11. /\ link[Host][c] = "up" => link[c][Host] \in {"up", "closed"}
       /\ link[Host][c] = "closed" => up = << >>
       /\ Has(up, "CONNECT") => link[c][Host] \in {"up", "closed"}
       /\ phase[c] = "away" => link[c][Host] = "none"
  BY DEF ClientInv, Greeted, Up
<1>12. Ids(reg'[c]) = Ids(reg[c]) /\ (UniqueIds(reg[c]) => UniqueIds(reg'[c]))
  BY <1>2, ReflaggedFact
<1>13. /\ Known(c) /\ Numbered(c) /\ Waiting(c) /\ Unready(c) /\ Own(c) /\ Registers(c)
  BY DEF ClientInv
<1> HIDE DEF s, id, flag, up, up2, me
<1>14. \A type : Has(up2, type) <=> Has(up, type) \/ (up2 = up \o word /\ type = "PLAYER_READY")
  <2>1. \A type : Has(up \o word, type) <=> Has(up, type) \/ Has(word, type)
    BY <1>1, <1>7, ConcatHas DEF word
  <2> QED BY <1>5, <1>7, <1>9, <2>1 DEF word
<1>15. Greeted(c)' /\ Fresh(c)'
  BY <1>2, <1>9, <1>10, <1>11, <1>14 DEF Greeted, Fresh, Up, up2
<1>16. Known(c)' /\ Waiting(c)'
  BY <1>2, <1>6, <1>8, <1>12, <1>13
     DEF Known, Waiting, Linked, Down, Expected, Unmoved, s
<1>17. Numbered(c)' /\ Unready(c)'
  BY <1>2, <1>8, <1>10, <1>12, <1>13 DEF Numbered, Unready, Down, s, id
<1>18. Own(c)'
  <2> SUFFICES ASSUME link[Host][c] = "up"
               PROVE  /\ id = me
                      /\ \A k \in DOMAIN up2 : up2[k].type = "PLAYER_READY" => up2[k].id = me
    BY <1>2, <1>6 DEF Own, Up, Unmoved, id, up2, me
  <2>1. /\ id = me
        /\ \A k \in DOMAIN up : up[k].type = "PLAYER_READY" => up[k].id = me
    BY <1>10, <1>13 DEF Own, Up, id, up, me
  <2>2. ASSUME up2 = up \o word, NEW k \in DOMAIN up2, up2[k].type = "PLAYER_READY"
        PROVE  up2[k].id = me
    <3>1. \/ \E j \in DOMAIN up : up2[k] = up[j]
          \/ \E j \in DOMAIN word : up2[k] = word[j]
      BY <1>1, <1>7, <2>2, ConcatElements DEF word
    <3>2. \A j \in DOMAIN word : word[j].id = id
      BY <1>5, <1>7 DEF word
    <3> QED BY <2>1, <2>2, <3>1, <3>2
  <2> QED BY <1>9, <2>1, <2>2
<1>19. Registers(c)'
  <2> SUFFICES ASSUME Linked(Host, c), NEW k \in DOMAIN reg[Host], reg[Host][k].id = me
               PROVE  Agreed(reg[Host][k], id, player_nation_color[c], flag, s, up2)
    BY <1>2, <1>6, <1>8 DEF Registers, Linked, Down, Up, Unmoved, id, flag, up2, me
  <2> DEFINE e == reg[Host][k]
             color == player_nation_color[c]
             was == selfReadyFlag[c]
  <2>1. Agreed(e, id, color, was, s, up)
    BY <1>13 DEF Registers, Down, Up, s, up, id, me
  <2> HIDE DEF e, color, was
  <2>2. Has(up2, "PLAYER_READY")
    BY <1>9, <1>14 DEF Linked
  <2>3. Agreed(e, id, color, flag, s, up2)
    BY <2>1, <2>2 DEF Agreed
  <2> QED BY <2>3 DEF e, color
<1>20. Flagged(c)'
  <2> SUFFICES ASSUME link[c][Host] # "closed", NEW k \in DOMAIN up2, Final(up2, k, "PLAYER_READY")
               PROVE  up2[k].flag = flag
    BY <1>2 DEF Flagged, Tells, Up, up2, flag
  <2>1. CASE up2 = up \o word
    <3>1. Has(word, "PLAYER_READY")
      BY <1>5, <1>7 DEF word
    <3>2. \E l \in DOMAIN word : up2[k] = word[l]
      BY <1>1, <1>7, <2>1, <3>1, ConcatFinal DEF word
    <3> QED BY <1>5, <1>7, <3>2 DEF word
  <2>2. CASE up2 = up /\ link[Host][c] = "closed"
    BY <1>11, <2>2, NoMessage
  <2> QED BY <1>9, <1>10, <1>11, <2>1, <2>2
<1> QED BY <1>15, <1>16, <1>17, <1>18, <1>19, <1>20 DEF ClientInv

\* A client sets out to join.
LEMMA JoinHeard ==
    ASSUME HostInv, NEW c \in Client, ClientInv(c), JoinSession(c)
    PROVE  ClientInv(c)'
<1> DEFINE s == chan[Host][c]
           s2 == chan'[Host][c]
           msg == [type |-> "CONNECT"]
           t == <<msg>>
           ids == Ids(reg[c])
<1>1. /\ Types /\ c \in Machine /\ c # Host /\ Host \in Machine /\ s \in Seq(Message)
  BY HostAssumption, ClientFact DEF HostInv, Client
<1>2. /\ Types' /\ \A a \in Machine \ {c} : Unmoved(a)
      /\ phase[c] = "away" /\ phase'[c] = "joining"
      /\ DOMAIN player_pool'[c] = {1} /\ player_pool'[c][1] = Desc(Host)
      /\ \A b \in Machine : link'[c][b] = IF b = Host THEN "dialled" ELSE link[c][b]
      /\ \A a, b \in Machine : chan'[a][b] = Sent(Host, {c}, t, chan[a][b], a, b)
      /\ UNCHANGED <<my_player_id, reg, selfReadyFlag, colorAssigned, player_nation_color, clicks>>
  BY <1>1, JoinFact
<1>3. Unmoved(Host)
  BY <1>1, <1>2
<1>4. link[c][Host] = "none" /\ link[Host][c] # "up" /\ ~Has(chan[c][Host], "CONNECT")
  BY <1>2 DEF ClientInv, Greeted, Up
<1>5. link'[c][Host] = "dialled" /\ link'[Host][c] = link[Host][c]
  BY <1>1, <1>2, <1>3 DEF Unmoved
<1>6. s2 = s \o t /\ chan'[c][Host] = chan[c][Host]
  BY <1>1, <1>2, <1>4 DEF Sent
<1>7. msg \in Message /\ msg.type = "CONNECT"
  BY SentFact
<1> HIDE DEF msg
<1>8. t \in Seq(Message) /\ \A k \in DOMAIN t : t[k].type = "CONNECT"
  BY <1>7, OneMessage
<1> HIDE DEF t, s, s2, ids
<1>9. Greeted(c)'
  BY <1>2, <1>4, <1>5, <1>6 DEF ClientInv, Greeted, Up
<1>10. Fresh(c)'
  <2> SUFFICES ASSUME link[Host][c] = "none" PROVE Fresh(c)'
    BY <1>5 DEF Fresh
  <2>1. /\ \A k \in DOMAIN s : s[k].type = "CONNECT"
        /\ reg[c] = << >> /\ my_player_id[c] = 0 /\ ~selfReadyFlag[c]
        /\ ~Has(chan[c][Host], "PLAYER_READY")
    BY DEF ClientInv, Fresh, Down, Up, s
  <2>2. ASSUME NEW k \in DOMAIN s2 PROVE s2[k].type = "CONNECT"
    <3>1. (\E j \in DOMAIN s : s2[k] = s[j]) \/ (\E j \in DOMAIN t : s2[k] = t[j])
      BY <1>1, <1>6, <1>8, <2>2, ConcatElements
    <3> QED BY <1>8, <2>1, <3>1
  <2>3. \A i \in DOMAIN player_pool'[c] : i = 1 /\ player_pool'[c][i].machine = Host
    BY <1>2 DEF Desc
  <2>4. reg'[c] = << >> /\ my_player_id'[c] = 0 /\ ~selfReadyFlag'[c]
    BY <1>2, <2>1
  <2> QED BY <1>6, <2>1, <2>2, <2>3, <2>4 DEF Fresh, Down, Up, s2
<1>11. Known(c)' /\ Registers(c)' /\ Waiting(c)' /\ Own(c)'
  BY <1>4, <1>5 DEF Known, Registers, Waiting, Own, Linked
<1>12. Numbered(c)'
  <2>1. UniqueIds(reg[c]) /\ (my_player_id[c] = 0 => NewId(s, ids))
    BY DEF ClientInv, Numbered, Down, s, ids
  <2>2. Names(t, {}) /\ \A f \in {} : f \notin ids /\ Silent(s, f)
    BY <1>8 DEF Names
  <2>3. my_player_id[c] = 0 => NewId(s2, ids)
    BY <1>1, <1>6, <1>8, <2>1, <2>2, ConcatNewId
  <2> QED BY <1>2, <2>1, <2>3 DEF Numbered, Down, s2, ids
<1>13. Unready(c)' /\ Flagged(c)'
  BY <1>2, <1>4, <1>6 DEF ClientInv, Unready, Flagged, Up
<1> QED BY <1>9, <1>10, <1>11, <1>12, <1>13 DEF ClientInv

-----------------------------------------------------------------------------
(* Every step *)

\* Channels other than those from and to m are as they were.
Apart(m, ch) == \A a, b \in Machine : a # m /\ b # m => ch[a][b] = chan[a][b]

LEMMA ApartFact ==
    ASSUME NEW m \in Machine, NEW ch
    PROVE  /\ \A n : (\A a, b \in Machine : ch[a][b] = Took(m, n, a, b)) => Apart(m, ch)
           /\ \A n, to, msgs :
                 (\A a, b \in Machine : ch[a][b] = Sent(m, to, msgs, Took(m, n, a, b), a, b)) => Apart(m, ch)
           /\ \A to, msgs :
                 (\A a, b \in Machine : ch[a][b] = Sent(m, to, msgs, chan[a][b], a, b)) => Apart(m, ch)
           /\ \A n, lk, dt : Parted(m, n, lk, dt, ch) => Apart(m, ch)
<1>1. \A n : (\A a, b \in Machine : ch[a][b] = Took(m, n, a, b)) => Apart(m, ch)
  BY DEF Took, Apart
<1>2. \A n, to, msgs :
         (\A a, b \in Machine : ch[a][b] = Sent(m, to, msgs, Took(m, n, a, b), a, b)) => Apart(m, ch)
  BY DEF Took, Sent, Apart
<1>3. \A to, msgs :
         (\A a, b \in Machine : ch[a][b] = Sent(m, to, msgs, chan[a][b], a, b)) => Apart(m, ch)
  BY DEF Sent, Apart
<1>4. \A n, lk, dt : Parted(m, n, lk, dt, ch) => Apart(m, ch)
  BY DEF Parted, Apart
<1> QED BY <1>1, <1>2, <1>3, <1>4

LEMMA ApartEvent ==
    ASSUME NEW m \in Client, NEW pool, NEW lk, NEW dt, NEW ch, Apart(m, ch),
           Left(m, ch) \/ Swept(m, pool, lk, dt, ch)
    PROVE  Apart(m, chan')
<1>1. m # Host /\ m \in Machine
  BY DEF Client
<1>2. CASE Left(m, ch)
  BY <1>2 DEF Left, Apart
<1>3. CASE Swept(m, pool, lk, dt, ch)
  BY <1>1, <1>3 DEF Swept, Apart
<1> QED BY <1>2, <1>3

\* What a client does moves no other machine, and what it touches on the way
\* is from or to it.
LEMMA ClientApart ==
    ASSUME HostInv, NEW m \in Client,
           \/ \E n \in Machine :
                 \/ EnterLobby(m, n) \/ PeerConnects(m, n) \/ StrangerConnects(m, n) \/ Disconnect(m, n)
                 \/ PlayerReady(m, n) \/ PlayerId(m, n) \/ AcceptNewPlayer(m, n) \/ AcceptColor(m, n)
                 \/ PlayerDisconnect(m, n) \/ Dismissed(m, n) \/ AcquireColor(m, n)
           \/ (\E color \in Color : ClientClicksColor(m, color)) \/ ClickReady(m) \/ Leave(m)
           \/ JoinSession(m) \/ CancelJoin(m)
    PROVE  Types' /\ Apart(m, chan') /\ \A a \in Machine \ {m} : Unmoved(a)
<1>1. /\ Types /\ m \in Machine /\ m # Host /\ Host \in Machine
  BY HostAssumption DEF HostInv, Client
<1>2. ASSUME NEW n \in Machine, EnterLobby(m, n)
      PROVE  Types' /\ Apart(m, chan') /\ \A a \in Machine \ {m} : Unmoved(a)
  <2>1. Types' /\ \A a \in Machine \ {m} : Unmoved(a)
    BY <1>1, <1>2, EnterFact
  <2>2. \A a, b \in Machine : chan'[a][b] = Sent(m, {n}, Hello(m, n), Took(m, n, a, b), a, b)
    <3>1. SaysHello(m, n)
      BY <1>1, <1>2, EnterFact
    <3> QED BY <3>1 DEF SaysHello
  <2>3. Apart(m, chan')
    BY <1>1, <2>2, ApartFact
  <2> QED BY <2>1, <2>3
<1>3. ASSUME NEW n \in Machine, PeerConnects(m, n)
      PROVE  Types' /\ Apart(m, chan') /\ \A a \in Machine \ {m} : Unmoved(a)
  <2>1. /\ Types' /\ \A a \in Machine \ {m} : Unmoved(a)
        /\ \E pool, lk, dt, ch : Welcomed(m, n, pool, lk, dt, ch)
    BY <1>1, <1>3, PeerFact
  <2>2. PICK pool, lk, dt, ch : Welcomed(m, n, pool, lk, dt, ch)
    BY <2>1
  <2>3. /\ Left(m, ch) \/ Swept(m, pool, lk, dt, ch)
        /\ \A a, b \in Machine : ch[a][b] = Sent(m, {n}, Answer(m, n), Took(m, n, a, b), a, b)
    BY <2>2 DEF Welcomed, Event
  <2>4. Apart(m, ch)
    BY <1>1, <2>3, ApartFact
  <2> QED BY <2>1, <2>3, <2>4, ApartEvent
<1>4. ASSUME NEW n \in Machine, StrangerConnects(m, n)
      PROVE  Types' /\ Apart(m, chan') /\ \A a \in Machine \ {m} : Unmoved(a)
  <2>1. /\ Types' /\ \A a \in Machine \ {m} : Unmoved(a)
        /\ \E lk, dt, ch : Event(m, player_pool[m], lk, dt, ch) /\ Parted(m, n, lk, dt, ch)
    BY <1>1, <1>4, StrangerFact
  <2>2. PICK lk, dt, ch : Event(m, player_pool[m], lk, dt, ch) /\ Parted(m, n, lk, dt, ch)
    BY <2>1
  <2>3. Left(m, ch) \/ Swept(m, player_pool[m], lk, dt, ch)
    BY <2>2 DEF Event
  <2>4. Apart(m, ch)
    BY <1>1, <2>2, ApartFact
  <2> QED BY <2>1, <2>3, <2>4, ApartEvent
<1>5. ASSUME NEW n \in Machine, Disconnect(m, n)
      PROVE  Types' /\ Apart(m, chan') /\ \A a \in Machine \ {m} : Unmoved(a)
  <2>1. /\ Types' /\ \A a \in Machine \ {m} : Unmoved(a)
        /\ \E lk, dt, ch : /\ Parted(m, n, lk, dt, ch)
                           /\ \/ phase[m] = "joining" /\ Left(m, ch)
                              \/ phase[m] = "lobby" /\ Event(m, Unmarked(m, n), lk, dt, ch)
    BY <1>1, <1>5, DisconnectFact
  <2>2. PICK lk, dt, ch : /\ Parted(m, n, lk, dt, ch)
                          /\ \/ phase[m] = "joining" /\ Left(m, ch)
                             \/ phase[m] = "lobby" /\ Event(m, Unmarked(m, n), lk, dt, ch)
    BY <2>1
  <2>3. Left(m, ch) \/ Swept(m, Unmarked(m, n), lk, dt, ch)
    BY <2>2 DEF Event
  <2>4. Apart(m, ch)
    BY <1>1, <2>2, ApartFact
  <2> QED BY <2>1, <2>3, <2>4, ApartEvent
<1>6. ASSUME NEW n \in Machine, PlayerReady(m, n)
      PROVE  Types' /\ Apart(m, chan') /\ \A a \in Machine \ {m} : Unmoved(a)
  <2>1. /\ Types' /\ \A a \in Machine \ {m} : Unmoved(a)
        /\ \A a, b \in Machine : chan'[a][b] = Took(m, n, a, b)
    BY <1>1, <1>6, ReadyFact
  <2> QED BY <1>1, <2>1, ApartFact
<1>7. ASSUME NEW n \in Machine, PlayerId(m, n)
      PROVE  Types' /\ Apart(m, chan') /\ \A a \in Machine \ {m} : Unmoved(a)
  <2>1. /\ Types' /\ \A a \in Machine \ {m} : Unmoved(a)
        /\ \A a, b \in Machine : chan'[a][b] = Took(m, n, a, b)
    BY <1>1, <1>7, PlayerIdFact
  <2> QED BY <1>1, <2>1, ApartFact
<1>8. ASSUME NEW n \in Machine, AcceptNewPlayer(m, n)
      PROVE  Types' /\ Apart(m, chan') /\ \A a \in Machine \ {m} : Unmoved(a)
  <2> DEFINE msg == Head(chan[n][m])
             dial == Dials(m, msg)
  <2>1. Types' /\ \A a \in Machine \ {m} : Unmoved(a)
    BY <1>1, <1>8, AcceptFact
  <2>2. \A a, b \in Machine : chan'[a][b] =
           IF dial THEN Sent(msg.machine, {m}, <<[type |-> "CONNECT"]>>, Took(m, n, a, b), a, b)
           ELSE Took(m, n, a, b)
    BY <1>1, <1>8, AcceptFact, Zenon
  <2> HIDE DEF msg, dial
  <2>3. Apart(m, chan')
    BY <2>2 DEF Took, Sent, Apart
  <2> QED BY <2>1, <2>3
<1>9. ASSUME NEW n \in Machine, AcceptColor(m, n)
      PROVE  Types' /\ Apart(m, chan') /\ \A a \in Machine \ {m} : Unmoved(a)
  <2>1. /\ Types'
        /\ \A a \in Machine : player_nation_color'[a] =
              IF a = m THEN Head(chan[n][m]).color ELSE player_nation_color[a]
        /\ \A a, b \in Machine : chan'[a][b] = Took(m, n, a, b)
        /\ UNCHANGED <<phase, link, data, player_pool, my_player_id, reg, selfReadyFlag, colorAssigned,
                       clicks>>
    BY <1>1, <1>9, ColorFact
  <2>2. \A a \in Machine \ {m} : Unmoved(a)
    BY <2>1 DEF Unmoved
  <2> QED BY <1>1, <2>1, <2>2, ApartFact
<1>10. ASSUME NEW n \in Machine, PlayerDisconnect(m, n)
       PROVE  Types' /\ Apart(m, chan') /\ \A a \in Machine \ {m} : Unmoved(a)
  <2> DEFINE cut == CutOff(m, Head(chan[n][m]).id)
  <2>1. /\ Types' /\ \A a \in Machine \ {m} : Unmoved(a)
        /\ \A a, b \in Machine : chan'[a][b] = IF a \in cut /\ b = m THEN << >> ELSE Took(m, n, a, b)
    BY <1>1, <1>10, GoneFact
  <2> HIDE DEF cut
  <2>2. Apart(m, chan')
    BY <2>1 DEF Took, Apart
  <2> QED BY <2>1, <2>2
<1>11. ASSUME NEW n \in Machine, Dismissed(m, n)
       PROVE  Types' /\ Apart(m, chan') /\ \A a \in Machine \ {m} : Unmoved(a)
  <2> DEFINE ch == Taken(m, n)
  <2>1. /\ Types' /\ \A a \in Machine \ {m} : Unmoved(a)
        /\ Left(m, ch) /\ \A a, b \in Machine : ch[a][b] = Took(m, n, a, b)
    BY <1>1, <1>11, DismissedFact
  <2> HIDE DEF ch
  <2>2. Apart(m, ch)
    BY <1>1, <2>1, ApartFact
  <2> QED BY <2>1, <2>2 DEF Left, Apart
<1>12. ASSUME NEW color \in Color, ClientClicksColor(m, color)
       PROVE  Types' /\ Apart(m, chan') /\ \A a \in Machine \ {m} : Unmoved(a)
  <2>1. /\ Types'
        /\ \A a, b \in Machine : chan'[a][b] =
              Sent(m, Asked(m), <<[type |-> "ACQUIRE_COLOR", color |-> color]>>, chan[a][b], a, b)
        /\ UNCHANGED <<phase, link, data, lobby>>
    BY <1>1, <1>12, AskFact
  <2>2. \A a \in Machine \ {m} : Unmoved(a)
    BY <2>1 DEF Unmoved, lobby
  <2> QED BY <1>1, <2>1, <2>2, ApartFact
<1>13. CASE ClickReady(m)
  <2>1. /\ Types' /\ \A a \in Machine \ {m} : Unmoved(a)
        /\ \A a, b \in Machine : chan'[a][b] =
              Sent(m, Peers(link, m), <<ReadyMsg(my_player_id[m], ~selfReadyFlag[m])>>, chan[a][b], a, b)
    BY <1>1, <1>13, TurnFact
  <2> QED BY <1>1, <2>1, ApartFact
<1>14. CASE Leave(m)
  <2>1. /\ Types' /\ \A a \in Machine \ {m} : Unmoved(a)
        /\ \E ch : Left(m, ch) /\ \A a, b \in Machine : ch[a][b] = LeftWord(m, a, b)
    BY <1>1, <1>14, LeaveFact
  <2>2. PICK ch : Left(m, ch) /\ \A a, b \in Machine : ch[a][b] = LeftWord(m, a, b)
    BY <2>1
  <2> QED BY <1>1, <2>1, <2>2 DEF Left, LeftWord, Apart
<1>15. CASE JoinSession(m)
  <2>1. /\ Types' /\ \A a \in Machine \ {m} : Unmoved(a)
        /\ \A a, b \in Machine : chan'[a][b] =
              Sent(Host, {m}, <<[type |-> "CONNECT"]>>, chan[a][b], a, b)
    BY <1>1, <1>15, JoinFact
  <2> QED BY <2>1 DEF Sent, Apart
<1>16. CASE CancelJoin(m)
  BY <1>1, <1>16, CancelFact DEF Apart
<1>17. ASSUME NEW n \in Machine, AcquireColor(m, n)
       PROVE  Types' /\ Apart(m, chan') /\ \A a \in Machine \ {m} : Unmoved(a)
  <2>1. /\ Types' /\ UNCHANGED <<phase, link, data, player_pool, my_player_id, selfReadyFlag,
                                  player_nation_color, clicks>>
    BY <1>1, <1>17, AcquireFact
  <2>2. (\A a, b \in Machine : chan'[a][b] = Took(m, n, a, b)) /\ reg' = reg
    BY <1>1, <1>17, AcquireFact
  <2>3. \A a \in Machine \ {m} : Unmoved(a)
    BY <2>1, <2>2 DEF Unmoved
  <2> QED BY <1>1, <2>1, <2>2, <2>3, ApartFact
<1> QED BY <1>2, <1>3, <1>4, <1>5, <1>6, <1>7, <1>8, <1>9, <1>10, <1>11, <1>12, <1>13, <1>14, <1>15, <1>16,
         <1>17

\* What the host does, every client hears; it has that of a client itself.
LEMMA HostActs ==
    ASSUME HostInv, HostInv', \A c \in Client : ClientInv(c), NEW c \in Client,
           \/ \E n \in Machine :
                 \/ PeerConnects(Host, n) \/ StrangerConnects(Host, n) \/ Disconnect(Host, n)
                 \/ PlayerReady(Host, n)
                 \/ NewPlayer(n) \/ RefusePlayer(n) \/ AcquireColor(Host, n)
           \/ (\E color \in Color : HostClicksColor(color)) \/ ClickReady(Host) \/ Leave(Host) \/ Start
    PROVE  Hears(c) /\ Unmoved(c)
<1>1. /\ Types /\ c \in Machine \ {Host} /\ Host \in Machine
  BY HostAssumption DEF HostInv, Client
<1>2. ASSUME NEW n \in Machine, PeerConnects(Host, n) PROVE Hears(c) /\ Unmoved(c)
  <2>1. n # Host /\ \E pool, lk, dt, ch : Sweeping(n, pool, lk, dt, ch)
    BY <1>2, PeerSweeps
  <2>2. phase[Host] = "lobby" /\ \A a \in Machine \ {Host} : Unmoved(a)
    BY <1>1, <1>2, PeerFact
  <2> QED BY <1>1, <2>1, <2>2, SweepHeard
<1>3. ASSUME NEW n \in Machine, StrangerConnects(Host, n) PROVE Hears(c) /\ Unmoved(c)
  <2>1. n # Host /\ \E pool, lk, dt, ch : Sweeping(n, pool, lk, dt, ch)
    BY <1>3, StrangerSweeps
  <2>2. phase[Host] = "lobby" /\ \A a \in Machine \ {Host} : Unmoved(a)
    BY <1>1, <1>3, StrangerFact
  <2> QED BY <1>1, <2>1, <2>2, SweepHeard
<1>4. ASSUME NEW n \in Machine, Disconnect(Host, n) PROVE Hears(c) /\ Unmoved(c)
  <2>1. n # Host /\ phase[Host] = "lobby" /\ \E pool, lk, dt, ch : Sweeping(n, pool, lk, dt, ch)
    BY <1>4, DisconnectSweeps
  <2>2. \A a \in Machine \ {Host} : Unmoved(a)
    BY <1>1, <1>4, DisconnectFact
  <2> QED BY <1>1, <2>1, <2>2, SweepHeard
<1>5. ASSUME NEW n \in Machine, PlayerReady(Host, n) PROVE Hears(c) /\ Unmoved(c)
  <2>1. \A a \in Machine \ {Host} : Unmoved(a)
    BY <1>1, <1>5, ReadyFact
  <2>2. Hears(c)
    BY <1>5, ReadyHeard
  <2> QED BY <1>1, <2>1, <2>2
<1>6. ASSUME NEW n \in Machine, NewPlayer(n) PROVE Hears(c) /\ Unmoved(c)
  <2>1. data[Host][n] # 0 /\ data[Host][n] \in DOMAIN player_pool[Host]
    BY <1>6, HostPeers DEF NewPlayer, Got
  <2>2. \A a \in Machine \ {Host} : Unmoved(a)
    BY <1>1, <1>6, <2>1, NewPlayerFact
  <2>3. Hears(c)
    BY <1>6, NewPlayerHeard
  <2> QED BY <1>1, <2>2, <2>3
<1>7. ASSUME NEW n \in Machine, RefusePlayer(n) PROVE Hears(c) /\ Unmoved(c)
  <2>1. UNCHANGED <<phase, link, data, lobby, clicks>>
    BY <1>1, <1>7, RefuseFact
  <2>2. Hears(c)
    BY <1>7, RefuseHeard
  <2> QED BY <2>1, <2>2 DEF Unmoved, lobby
<1>8. ASSUME NEW n \in Machine, AcquireColor(Host, n) PROVE Hears(c) /\ Unmoved(c)
  <2>1. \A a \in Machine \ {Host} : reg'[a] = reg[a]
    BY <1>1, <1>8, AcquireFact
  <2>2. UNCHANGED <<phase, link, data, player_pool, my_player_id, selfReadyFlag, player_nation_color,
                    clicks>>
    BY <1>1, <1>8, AcquireFact
  <2>3. Hears(c)
    BY <1>8, AcquireHeard
  <2> QED BY <1>1, <2>1, <2>2, <2>3 DEF Unmoved
<1>9. ASSUME NEW color \in Color, HostClicksColor(color) PROVE Hears(c) /\ Unmoved(c)
  <2>1. 1 \in Ids(reg[Host])
    BY <1>9 DEF HostClicksColor, Click, HostInv, HostThere
  <2>2. \A a \in Machine \ {Host} : Unmoved(a)
    BY <1>1, <1>9, <2>1, HostColorFact
  <2>3. Hears(c)
    BY <1>9, HostPlayHeard
  <2> QED BY <1>1, <2>2, <2>3
<1>10. CASE ClickReady(Host)
  <2>1. \A a \in Machine \ {Host} : Unmoved(a)
    BY <1>1, <1>10, TurnFact
  <2>2. Hears(c)
    BY <1>10, HostPlayHeard
  <2> QED BY <1>1, <2>1, <2>2
<1>11. CASE Leave(Host)
  <2>1. \A a \in Machine \ {Host} : Unmoved(a)
    BY <1>1, <1>11, LeaveFact
  <2>2. Hears(c)
    BY <1>11, HostLeaveHeard
  <2> QED BY <1>1, <2>1, <2>2
<1>12. CASE Start
  <2>1. \A a \in Machine \ {Host} : Unmoved(a)
    BY <1>1, <1>12, StartFact
  <2>2. Hears(c)
    BY <1>12, HostPlayHeard
  <2> QED BY <1>1, <2>1, <2>2
<1> QED BY <1>2, <1>3, <1>4, <1>5, <1>6, <1>7, <1>8, <1>9, <1>10, <1>11, <1>12

\* What the host receives is one of these.
LEMMA HostReceives ==
    ASSUME HostInv, NEW n \in Machine, Receive(Host, n)
    PROVE  \/ PeerConnects(Host, n) \/ StrangerConnects(Host, n) \/ Disconnect(Host, n)
           \/ PlayerReady(Host, n)
           \/ NewPlayer(n) \/ RefusePlayer(n) \/ AcquireColor(Host, n)
<1>1. /\ Types /\ Directions /\ Host \in Machine /\ phase[Host] \in {"lobby", "started", "gone"}
  BY HostAssumption DEF HostInv, HostThere
<1>2. ~EnterLobby(Host, n)
  BY <1>1, EnterFact
<1>3. \A type \in {"PLAYER_ID", "ACCEPT_NEW_PLAYER", "ACCEPT_COLOR", "PLAYER_DISCONNECT",
                   "REFUSE_NEW_PLAYER", "ABORT_GAME"} : ~Got(Host, n, type)
  BY <1>1, Speakers
<1>4. ~PlayerId(Host, n) /\ ~AcceptNewPlayer(Host, n) /\ ~AcceptColor(Host, n)
  BY <1>3 DEF PlayerId, AcceptNewPlayer, AcceptColor
<1>5. ~PlayerDisconnect(Host, n) /\ ~Dismissed(Host, n)
  BY <1>3 DEF PlayerDisconnect, Dismissed
<1> QED BY <1>2, <1>4, <1>5 DEF Receive

\* A step of a client that it takes itself.
LEMMA OwnStep ==
    ASSUME HostInv, NEW c \in Client, ClientInv(c), Points(c),
           \/ \E n \in Machine :
                 \/ EnterLobby(c, n) \/ PeerConnects(c, n) \/ StrangerConnects(c, n) \/ Disconnect(c, n)
                 \/ PlayerReady(c, n) \/ PlayerId(c, n) \/ AcceptNewPlayer(c, n) \/ AcceptColor(c, n)
                 \/ PlayerDisconnect(c, n) \/ Dismissed(c, n) \/ AcquireColor(c, n)
           \/ (\E color \in Color : ClientClicksColor(c, color)) \/ ClickReady(c) \/ Leave(c)
           \/ JoinSession(c) \/ CancelJoin(c)
    PROVE  ClientInv(c)'
<1>1. ASSUME NEW n \in Machine, EnterLobby(c, n) \/ PeerConnects(c, n) \/ StrangerConnects(c, n)
      PROVE  ClientInv(c)'
  BY <1>1, EnterHeard, PeerHeard, StrangerHeard
<1>2. ASSUME NEW n \in Machine, Disconnect(c, n) \/ PlayerReady(c, n) \/ PlayerId(c, n)
      PROVE  ClientInv(c)'
  BY <1>2, DisconnectHeard, FlagHeard, NumberHeard
<1>3. ASSUME NEW n \in Machine, AcceptNewPlayer(c, n) \/ AcceptColor(c, n) \/ PlayerDisconnect(c, n)
                                \/ Dismissed(c, n)
      PROVE  ClientInv(c)'
  BY <1>3, AddHeard, ColorHeard, GoneHeard, DismissedHeard
<1>4. ASSUME NEW color \in Color, ClientClicksColor(c, color) PROVE ClientInv(c)'
  BY <1>4, AskHeard
<1>5. ASSUME ClickReady(c) \/ Leave(c) PROVE ClientInv(c)'
  BY <1>5, TurnHeard, LeaveHeard
<1>6. ASSUME JoinSession(c) \/ CancelJoin(c) PROVE ClientInv(c)'
  BY <1>6, JoinHeard, CancelHeard
<1>7. ASSUME NEW n \in Machine, AcquireColor(c, n) PROVE ClientInv(c)'
  BY <1>7, HearsayHeard
<1> QED BY <1>1, <1>2, <1>3, <1>4, <1>5, <1>6, <1>7

-----------------------------------------------------------------------------
(* The pointers of a client *)

\* The players lost go from pool and list, and their peers are closed.
Forgets(pool, ids, lk, dt, lost, pool2, ids2, lk2, dt2) ==
    /\ DOMAIN pool2 = DOMAIN pool \ lost /\ \A i \in DOMAIN pool \ lost : pool2[i] = pool[i]
    /\ ids2 = ids \ lost
    /\ \A b \in Machine : dt[b] \in lost => lk2[b] = "closed" /\ dt2[b] = 0
    /\ \A b \in Machine : dt[b] \notin lost => lk2[b] = lk[b] /\ dt2[b] = dt[b]

LEMMA SweepAims ==
    ASSUME NEW pool, NEW ids, NEW lk, NEW dt, NEW lost, Aims(pool, ids, lk, dt, lost),
           NEW pool2, NEW ids2, NEW lk2, NEW dt2, Host \in Machine,
           Forgets(pool, ids, lk, dt, lost, pool2, ids2, lk2, dt2)
    PROVE  Aims(pool2, ids2, lk2, dt2, {})
<1> USE DEF Forgets
<1>1. DOMAIN pool2 \subseteq {1} \cup ids2 /\ (1 \in DOMAIN pool2 => pool2[1].machine = Host)
  BY DEF Aims
<1>2. ASSUME NEW z \in Machine, dt2[z] # 0
      PROVE  /\ dt2[z] \in DOMAIN pool2
             /\ pool2[dt2[z]].machine = z \/ (dt2[z] = 1 /\ lk2[Host] = "closed")
             /\ lk2[z] = "closed" => dt2[z] = 1 /\ lk2[Host] = "closed"
  <2>1. dt[z] \notin lost /\ dt2[z] = dt[z] /\ lk2[z] = lk[z]
    BY <1>2
  <2>2. /\ dt[z] \in DOMAIN pool
        /\ pool[dt[z]].machine = z \/ (dt[z] = 1 /\ lk[Host] = "closed")
        /\ lk[z] = "closed" => dt[z] = 1 /\ lk[Host] = "closed"
    BY <1>2, <2>1 DEF Aims
  <2>3. lk[Host] = "closed" => lk2[Host] = "closed"
    OBVIOUS
  <2> QED BY <2>1, <2>2, <2>3
<1>3. ASSUME NEW x \in Machine, NEW z \in Machine, dt2[z] # 0, dt2[x] = dt2[z] PROVE x = z
  <2>1. dt2[z] = dt[z] /\ dt2[x] = dt[x]
    BY <1>3
  <2> QED BY <1>3, <2>1 DEF Aims
<1> QED BY <1>1, <1>2, <1>3 DEF Aims

\* Fewer pointers, more players, and no connection closed.
LEMMA MoreAims ==
    ASSUME NEW pool, NEW ids, NEW lk, NEW dt, Aims(pool, ids, lk, dt, {}), Host \in Machine,
           NEW pool2, NEW ids2, NEW lk2, NEW dt2,
           DOMAIN pool2 \subseteq {1} \cup ids2, 1 \in DOMAIN pool2 => pool2[1].machine = Host,
           \A z \in Machine : dt2[z] # 0 => /\ dt2[z] = dt[z] /\ dt[z] \in DOMAIN pool2
                                            /\ pool2[dt[z]].machine = pool[dt[z]].machine
                                            /\ lk2[z] = "closed" => lk[z] = "closed",
           lk[Host] = "closed" => lk2[Host] = "closed"
    PROVE  Aims(pool2, ids2, lk2, dt2, {})
BY DEF Aims

LEMMA LeftPoints ==
    ASSUME NEW c \in Client, NEW ch, Left(c, ch) PROVE Points(c)'
<1>1. /\ c \in Machine /\ phase'[c] = "gone" /\ player_pool'[c] = << >>
      /\ \A z \in Machine : data'[c][z] = 0
  BY DEF Left, Client
<1>2. DOMAIN player_pool'[c] = {}
  BY <1>1
<1>3. Aims(player_pool'[c], Ids(reg'[c]), link'[c], data'[c], {})
  BY <1>1, <1>2 DEF Aims
<1> QED BY <1>1, <1>3 DEF Points

\* After an event the players that are found lost are cleared away.
LEMMA EventPoints ==
    ASSUME Types, NEW c \in Client, phase[c] = "lobby", NEW pool, NEW lk, NEW dt, NEW ch,
           Event(c, pool, lk, dt, ch), Aims(pool, Ids(reg[c]), lk[c], dt[c], Lost(c, pool))
    PROVE  Points(c)'
<1>1. c \in Machine /\ c # Host /\ Host \in Machine /\ pool \in Pool /\ reg[c] \in Seq(RegEntry)
  BY HostAssumption DEF Client, Event, Types
<1>2. CASE Left(c, ch)
  BY <1>2, LeftPoints
<1>3. CASE Swept(c, pool, lk, dt, ch)
  <2> DEFINE lost == Lost(c, pool)
             ids == Ids(reg[c])
             pool2 == player_pool'[c]
             ids2 == Ids(reg'[c])
             lk2 == link'[c]
             dt2 == data'[c]
             lk1 == lk[c]
             dt1 == dt[c]
  <2>1. /\ pool2 = Without(pool, lost) /\ reg'[c] = Unregister(reg[c], lost) /\ phase'[c] = "lobby"
    BY <1>3 DEF Swept
  <2>2. \A b \in Machine : b \in Cut(c, pool, dt) <=> dt1[b] \in lost
    BY DEF Cut, PeersOf
  <2>3. /\ \A b \in Machine : lk2[b] = IF dt1[b] \in lost THEN "closed" ELSE lk1[b]
        /\ \A b \in Machine : dt2[b] = IF dt1[b] \in lost THEN 0 ELSE dt1[b]
    BY <1>3, <2>2 DEF Swept
  <2>4. DOMAIN pool2 = DOMAIN pool \ lost /\ \A i \in DOMAIN pool \ lost : pool2[i] = pool[i]
    <3>1. DOMAIN Without(pool, lost) = DOMAIN pool \ lost
          /\ \A i \in DOMAIN pool \ lost : Without(pool, lost)[i] = pool[i]
      BY <1>1, WithoutFact
    <3> QED BY <2>1, <3>1
  <2>5. ids2 = ids \ lost
    BY <1>1, <2>1, UnregisterFact
  <2>6. Aims(pool, ids, lk1, dt1, lost)
    OBVIOUS
  <2> HIDE DEF lost, ids, pool2, ids2, lk2, dt2, lk1, dt1
  <2>7. Forgets(pool, ids, lk1, dt1, lost, pool2, ids2, lk2, dt2)
    BY <2>3, <2>4, <2>5 DEF Forgets
  <2>8. Aims(pool2, ids2, lk2, dt2, {})
    BY <1>1, <2>6, <2>7, SweepAims
  <2> QED BY <2>1, <2>8 DEF Points, pool2, ids2, lk2, dt2
<1> QED BY <1>2, <1>3 DEF Event

\* A connection that comes up takes a peer that points to its player, or one that
\* still points to the host that is gone.
LEMMA PeerPoints ==
    ASSUME Types, NEW c \in Client, Points(c), NEW n \in Machine, PeerConnects(c, n)
    PROVE  Points(c)'
<1>1. c \in Machine /\ c # Host /\ Host \in Machine /\ player_pool[c] \in Pool
  BY HostAssumption DEF Client, Types
<1>2. /\ Events(c, n) /\ phase[c] = "lobby"
      /\ \E pool, lk, dt, ch : Welcomed(c, n, pool, lk, dt, ch)
  BY <1>1, PeerFact
<1>3. PICK pool, lk, dt, ch : Welcomed(c, n, pool, lk, dt, ch)
  BY <1>2
<1>4. /\ Event(c, pool, lk, dt, ch) /\ Admitted(c, n, pool, dt)
      /\ \A b \in Machine : lk[c][b] = IF b = n THEN "up" ELSE link[c][b]
  BY <1>3 DEF Welcomed
<1>5. PICK x \in Machine, i \in Slot :
         Admits(c, n, x, i) /\ pool = Made(player_pool[c], i, n) /\ Pointing(c, x, n, i, dt)
  BY <1>4 DEF Admitted
<1> DEFINE mine == player_pool[c]
           ids == Ids(reg[c])
           lk0 == link[c]
           dt0 == data[c]
           lk1 == lk[c]
           dt1 == dt[c]
           lost == Lost(c, pool)
<1>6. i \in DOMAIN mine
  BY <1>1, <1>5, AdmitsKnown
<1>7. DOMAIN pool = DOMAIN mine /\ \A j \in DOMAIN mine : pool[j] = mine[j]
  <2>1. DOMAIN pool = DOMAIN mine \cup {i} /\ \A j \in DOMAIN mine : pool[j] = mine[j]
    BY <1>1, <1>5, MadeFact
  <2> QED BY <1>6, <2>1
<1>8. /\ lk0[n] # "closed" /\ i # 0
      /\ \A b \in Machine : lk1[b] = IF b = n THEN "up" ELSE lk0[b]
      /\ \A b \in Machine : dt1[b] = IF b = n THEN i ELSE IF b = x THEN 0 ELSE dt0[b]
  BY <1>2, <1>4, <1>5 DEF Events, Pointing, Slot
<1>9. \/ x = n /\ dt0[n] = i
      \/ x = n /\ dt0[n] = 0 /\ mine[i].machine = n
      \/ lk0[n] = "none" /\ lk0[x] = "closed" /\ dt0[x] = i
  <2>1. CASE x = n /\ i \in Sender(c, n)
    BY <2>1 DEF Sender, IdsOf
  <2>2. CASE link[c][n] = "none" /\ x \in Leftover(c) /\ i = data[c][x]
    BY <2>2 DEF Leftover
  <2> QED BY <1>1, <1>5, <2>1, <2>2 DEF Admits
<1>10. Aims(mine, ids, lk0, dt0, {})
  BY DEF Points
<1> HIDE DEF mine, ids, lk0, dt0, lk1, dt1, lost
<1>11. lk0[Host] = "closed" => Host # n /\ lk1[Host] = "closed"
  BY <1>1, <1>8
<1>12. ASSUME NEW z \in Machine, z # n, dt1[z] # 0
       PROVE  /\ dt1[z] = dt0[z] /\ z # x /\ dt0[z] \in DOMAIN mine
              /\ mine[dt0[z]].machine = z \/ (dt0[z] = 1 /\ lk1[Host] = "closed")
              /\ lk1[z] = "closed" => dt0[z] = 1 /\ lk1[Host] = "closed"
              /\ dt0[z] # i
  <2>1. dt1[z] = dt0[z] /\ z # x /\ lk1[z] = lk0[z]
    BY <1>8, <1>12
  <2>2. /\ dt0[z] \in DOMAIN mine
        /\ mine[dt0[z]].machine = z \/ (dt0[z] = 1 /\ lk0[Host] = "closed")
        /\ lk0[z] = "closed" => dt0[z] = 1 /\ lk0[Host] = "closed"
    BY <1>10, <1>12, <2>1 DEF Aims
  <2>3. ASSUME dt0[z] = i PROVE FALSE
    <3>1. CASE dt0[x] = i
      BY <1>8, <1>10, <2>1, <2>3, <3>1 DEF Aims
    <3>2. CASE mine[i].machine = n
      BY <1>6, <1>10, <1>11, <1>12, <2>2, <2>3, <3>2 DEF Aims
    <3> QED BY <1>9, <3>1, <3>2
  <2> QED BY <1>11, <2>1, <2>2, <2>3
<1>13. /\ dt1[n] = i /\ lk1[n] = "up"
       /\ mine[i].machine = n \/ (i = 1 /\ lk1[Host] = "closed")
  <2>1. CASE dt0[n] = i
    BY <1>8, <1>10, <1>11, <2>1 DEF Aims
  <2>2. CASE lk0[x] = "closed" /\ dt0[x] = i
    BY <1>8, <1>10, <1>11, <2>2 DEF Aims
  <2> QED BY <1>8, <1>9, <2>1, <2>2
<1>14. DOMAIN pool \subseteq {1} \cup ids /\ (1 \in DOMAIN pool => pool[1].machine = Host)
  BY <1>7, <1>10 DEF Aims
<1>15. ASSUME NEW z \in Machine, dt1[z] # 0
       PROVE  /\ dt1[z] \in DOMAIN pool
              /\ pool[dt1[z]].machine = z \/ (dt1[z] = 1 /\ lk1[Host] = "closed")
              /\ lk1[z] = "closed" => (dt1[z] = 1 /\ lk1[Host] = "closed") \/ dt1[z] \in lost
  <2>1. CASE z = n
    BY <1>6, <1>7, <1>13, <2>1
  <2>2. CASE z # n
    BY <1>7, <1>12, <1>15, <2>2
  <2> QED BY <2>1, <2>2
<1>16. ASSUME NEW y \in Machine, NEW z \in Machine, dt1[z] # 0, dt1[y] = dt1[z] PROVE y = z
  <2>1. CASE z = n \/ y = n
    BY <1>12, <1>13, <1>16, <2>1
  <2>2. CASE z # n /\ y # n
    BY <1>10, <1>12, <1>16, <2>2 DEF Aims
  <2> QED BY <2>1, <2>2
<1>17. Aims(pool, ids, lk1, dt1, lost)
  BY <1>14, <1>15, <1>16 DEF Aims
<1> QED BY <1>2, <1>4, <1>17, EventPoints DEF ids, lk1, dt1, lost

LEMMA StrangerPoints ==
    ASSUME Types, NEW c \in Client, Points(c), NEW n \in Machine, StrangerConnects(c, n)
    PROVE  Points(c)'
<1>1. c \in Machine /\ c # Host /\ Host \in Machine
  BY HostAssumption DEF Client
<1>2. /\ phase[c] = "lobby" /\ Sender(c, n) = {}
      /\ \E lk, dt, ch : Event(c, player_pool[c], lk, dt, ch) /\ Parted(c, n, lk, dt, ch)
  BY <1>1, StrangerFact
<1>3. PICK lk, dt, ch : Event(c, player_pool[c], lk, dt, ch) /\ Parted(c, n, lk, dt, ch)
  BY <1>2
<1>4. data[c][n] = 0
  BY <1>2 DEF Sender
<1>5. /\ \A b \in Machine : lk[c][b] = IF b = n THEN "closed" ELSE link[c][b]
      /\ \A b \in Machine : dt[c][b] = data[c][b]
  BY <1>3 DEF Parted
<1>6. Aims(player_pool[c], Ids(reg[c]), link[c], data[c], {})
  BY DEF Points
<1>7. Aims(player_pool[c], Ids(reg[c]), lk[c], dt[c], Lost(c, player_pool[c]))
  BY <1>1, <1>4, <1>5, <1>6 DEF Aims
<1> QED BY <1>2, <1>3, <1>7, EventPoints

\* The player whose connection is gone is lost, or not in the list: then it is the
\* host.
LEMMA DisconnectPoints ==
    ASSUME Types, NEW c \in Client, Points(c), NEW n \in Machine, Disconnect(c, n)
    PROVE  Points(c)'
<1>1. c \in Machine /\ c # Host /\ Host \in Machine
  BY HostAssumption DEF Client
<1>2. \E lk, dt, ch : /\ Parted(c, n, lk, dt, ch)
                      /\ \/ phase[c] = "joining" /\ Left(c, ch)
                         \/ phase[c] = "lobby" /\ Event(c, Unmarked(c, n), lk, dt, ch)
  BY <1>1, DisconnectFact
<1>3. PICK lk, dt, ch : /\ Parted(c, n, lk, dt, ch)
                        /\ \/ phase[c] = "joining" /\ Left(c, ch)
                           \/ phase[c] = "lobby" /\ Event(c, Unmarked(c, n), lk, dt, ch)
  BY <1>2
<1>4. CASE Left(c, ch)
  BY <1>4, LeftPoints
<1>5. CASE phase[c] = "lobby" /\ Event(c, Unmarked(c, n), lk, dt, ch)
  <2> DEFINE mine == player_pool[c]
             pool == Unmarked(c, n)
             ids == Ids(reg[c])
             lk0 == link[c]
             dt0 == data[c]
             lk1 == lk[c]
             dt1 == dt[c]
             lost == Lost(c, pool)
  <2>1. /\ \A b \in Machine : lk1[b] = IF b = n THEN "closed" ELSE lk0[b]
        /\ \A b \in Machine : dt1[b] = dt0[b]
    BY <1>3 DEF Parted
  <2>2. /\ DOMAIN pool = DOMAIN mine
        /\ \A i \in DOMAIN mine : pool[i].machine = mine[i].machine
        /\ \A i \in DOMAIN mine : i \in Sender(c, n) => ~pool[i].connecting
    BY <1>1, UnmarkedFact
  <2>3. Aims(mine, ids, lk0, dt0, {})
    BY DEF Points
  <2>4. dt0[n] # 0 => dt0[n] \in Sender(c, n)
    BY DEF Sender
  <2>5. \A i \in ids : i \in DOMAIN pool /\ ~pool[i].connecting => i \in lost
    BY DEF Lost
  <2>6. Event(c, pool, lk, dt, ch) /\ phase[c] = "lobby"
    BY <1>5
  <2> HIDE DEF mine, pool, ids, lk0, dt0, lk1, dt1, lost
  <2>7. lk0[Host] = "closed" => lk1[Host] = "closed"
    BY <1>1, <2>1
  <2>8. DOMAIN pool \subseteq {1} \cup ids /\ (1 \in DOMAIN pool => pool[1].machine = Host)
    BY <2>2, <2>3 DEF Aims
  <2>9. ASSUME NEW z \in Machine, dt1[z] # 0
        PROVE  /\ dt1[z] \in DOMAIN pool
               /\ pool[dt1[z]].machine = z \/ (dt1[z] = 1 /\ lk1[Host] = "closed")
               /\ lk1[z] = "closed" => (dt1[z] = 1 /\ lk1[Host] = "closed") \/ dt1[z] \in lost
    <3>1. /\ dt1[z] = dt0[z] /\ dt0[z] \in DOMAIN mine
          /\ mine[dt0[z]].machine = z \/ (dt0[z] = 1 /\ lk0[Host] = "closed")
          /\ lk0[z] = "closed" => dt0[z] = 1 /\ lk0[Host] = "closed"
      BY <2>1, <2>3, <2>9 DEF Aims
    <3>2. ASSUME z = n, dt0[z] \notin lost PROVE dt0[z] = 1 /\ lk1[Host] = "closed"
      <4>1. dt0[z] \in DOMAIN pool /\ ~pool[dt0[z]].connecting
        BY <2>2, <2>4, <2>9, <3>1, <3>2
      <4>2. dt0[z] = 1
        BY <2>5, <2>8, <3>2, <4>1
      <4>3. z = Host \/ lk0[Host] = "closed"
        BY <2>3, <3>1, <4>2 DEF Aims
      <4> QED BY <2>1, <2>7, <3>2, <4>2, <4>3
    <3>3. z # n => lk1[z] = lk0[z]
      BY <2>1
    <3> QED BY <2>2, <2>7, <3>1, <3>2, <3>3
  <2>10. ASSUME NEW y \in Machine, NEW z \in Machine, dt1[z] # 0, dt1[y] = dt1[z] PROVE y = z
    BY <2>1, <2>3, <2>10 DEF Aims
  <2>11. Aims(pool, ids, lk1, dt1, lost)
    BY <2>8, <2>9, <2>10 DEF Aims
  <2> QED BY <2>6, <2>11, EventPoints DEF ids, lk1, dt1, lost
<1> QED BY <1>3, <1>4, <1>5

\* What leaves pool, connections, pointers and the ids in the list as they are.
LEMMA SamePoints ==
    ASSUME NEW c \in Client, Points(c), phase'[c] # "away" \/ phase'[c] = phase[c],
           player_pool'[c] = player_pool[c], link'[c] = link[c], data'[c] = data[c],
           Ids(reg'[c]) = Ids(reg[c])
    PROVE  Points(c)'
BY DEF Points

LEMMA EnterPoints ==
    ASSUME Types, NEW c \in Client, Points(c), NEW n \in Machine, EnterLobby(c, n)
    PROVE  Points(c)'
<1>1. c \in Machine /\ Host \in Machine
  BY HostAssumption DEF Client
<1>2. /\ phase'[c] = "lobby" /\ Events(c, n)
      /\ \A b \in Machine : link'[c][b] = IF b = n THEN "up" ELSE link[c][b]
      /\ UNCHANGED <<data, lobby, clicks>>
  BY <1>1, EnterFact
<1>3. link[c][n] # "closed"
  BY <1>2 DEF Events
<1>4. Aims(player_pool[c], Ids(reg[c]), link[c], data[c], {})
  BY DEF Points
<1>5. Aims(player_pool[c], Ids(reg[c]), link'[c], data[c], {})
  BY <1>1, <1>2, <1>3, <1>4 DEF Aims
<1> QED BY <1>2, <1>5 DEF Points, lobby

\* The own number is a new one, and not the host's.
LEMMA NumberPoints ==
    ASSUME HostInv, NEW c \in Client, ClientInv(c), Points(c), NEW n \in Machine, PlayerId(c, n)
    PROVE  Points(c)'
<1> DEFINE s == chan[Host][c]
           i == Head(s).id
           mine == player_pool[c]
           more == player_pool'[c]
           ids == Ids(reg[c])
           ids2 == Ids(reg'[c])
           lk == link[c]
           dt == data[c]
<1>1. /\ Types /\ Directions /\ c \in Machine /\ c # Host /\ Host \in Machine
      /\ s \in Seq(Message) /\ reg[c] \in Seq(RegEntry)
  BY HostAssumption, ClientFact DEF HostInv, Client
<1>2. /\ Got(c, n, "PLAYER_ID") /\ Head(chan[n][c]).id \in Slot
      /\ NumberedAs(c, Head(chan[n][c]).id)
      /\ UNCHANGED <<phase, link, data>>
  BY <1>1, PlayerIdFact
<1>3. n = Host
  BY <1>1, <1>2, Speakers
<1>4. Events(c, n) /\ phase[c] = "lobby" /\ Head(chan[n][c]).type = "PLAYER_ID"
  BY <1>2, GotFact
<1>5. Allowed(Host, c, Head(s))
  BY <1>1, <1>3, <1>4, HeadAllowed
<1>6. s # << >> /\ Head(s).type = "PLAYER_ID" /\ i \in Slot /\ NumberedAs(c, i) /\ i # 1
  BY <1>2, <1>3, <1>4, <1>5 DEF Events, Allowed
<1>7. 1 \in DOMAIN s /\ Head(s) = s[1]
  BY <1>1, <1>6, TailFact
<1>8. CASE my_player_id[c] # 0
  <2>1. player_pool'[c] = player_pool[c] /\ Ids(reg'[c]) = Ids(reg[c])
    BY <1>6, <1>8 DEF NumberedAs
  <2> QED BY <1>2, <2>1, SamePoints
<1>9. CASE my_player_id[c] = 0
  <2>1. /\ DOMAIN more = DOMAIN mine \cup {i} /\ \A j \in DOMAIN mine \ {i} : more[j] = mine[j]
        /\ reg'[c] = Append(reg[c], Entry(i, 0))
    BY <1>6, <1>9 DEF NumberedAs
  <2>2. i \notin ids
    BY <1>6, <1>7, <1>9 DEF ClientInv, Numbered, NewId, Down
  <2>3. ids2 = ids \cup {i}
    BY <1>1, <1>6, <2>1, LongerFact
  <2>4. Aims(mine, ids, lk, dt, {})
    BY DEF Points
  <2>5. link'[c] = lk /\ data'[c] = dt /\ phase'[c] # "away"
    BY <1>2, <1>4
  <2> HIDE DEF s, i, mine, more, ids, ids2, lk, dt
  <2>6. i \notin DOMAIN mine
    BY <1>6, <2>2, <2>4 DEF Aims
  <2>7. /\ DOMAIN more \subseteq {1} \cup ids2 /\ (1 \in DOMAIN more => more[1].machine = Host)
    BY <1>6, <2>1, <2>3, <2>4 DEF Aims
  <2>8. \A z \in Machine : dt[z] # 0 => dt[z] \in DOMAIN more /\ more[dt[z]] = mine[dt[z]]
    BY <2>1, <2>4, <2>6 DEF Aims
  <2>9. Aims(more, ids2, lk, dt, {})
    BY <1>1, <2>4, <2>7, <2>8, MoreAims
  <2> QED BY <2>5, <2>9 DEF Points, more, ids2
<1> QED BY <1>8, <1>9

\* Number 1 is the host's, and the peer that is dialled points to nobody.
LEMMA AddPoints ==
    ASSUME HostInv, NEW c \in Client, Points(c), NEW n \in Machine, AcceptNewPlayer(c, n)
    PROVE  Points(c)'
<1> DEFINE msg == Head(chan[n][c])
           mine == player_pool[c]
           more == player_pool'[c]
           ids == Ids(reg[c])
           ids2 == Ids(reg'[c])
           lk == link[c]
           dt == data[c]
           lk2 == link'[c]
           dt2 == data'[c]
           dial == Dials(c, msg)
<1>1. /\ Types /\ Directions /\ c \in Machine /\ c # Host /\ Host \in Machine
      /\ reg[c] \in Seq(RegEntry)
  BY HostAssumption, ClientFact DEF HostInv, Client
<1>2. Got(c, n, "ACCEPT_NEW_PLAYER") /\ msg.id \in Slot /\ msg.machine \in Machine /\ Adds(c, msg)
  BY <1>1, AcceptFact
<1>3. \A b \in Machine : lk2[b] = IF dial /\ b = msg.machine THEN "dialled" ELSE lk[b]
  BY <1>1, AcceptFact, Zenon
<1>4. phase' = phase
  BY <1>1, AcceptFact
<1>5. \A b \in Machine : dt2[b] # 0 => dt2[b] = dt[b] /\ ~(dial /\ b = msg.machine)
  <2>1. \/ dial /\ \E x \in {msg.machine} \cup Leftover(c) : Pointing(c, x, msg.machine, 0, data')
        \/ ~dial /\ data' = data
    BY <1>1, AcceptFact
  <2>2. ASSUME NEW x, Pointing(c, x, msg.machine, 0, data')
        PROVE  \A b \in Machine : dt2[b] # 0 => dt2[b] = dt[b] /\ b # msg.machine
    BY <2>2 DEF Pointing
  <2> QED BY <2>1, <2>2
<1>6. n = Host
  BY <1>1, <1>2, Speakers
<1>7. Events(c, n) /\ phase[c] = "lobby" /\ msg.type = "ACCEPT_NEW_PLAYER"
  BY <1>2, GotFact
<1>8. (dial => msg.machine # Host) /\ (msg.id = 1 => msg.machine = Host)
  <2>1. Allowed(Host, c, msg)
    BY <1>1, <1>6, <1>7, HeadAllowed
  <2> QED BY <1>7, <2>1 DEF Allowed, Dials
<1>9. Aims(mine, ids, lk, dt, {})
  BY DEF Points
<1>10. /\ DOMAIN more \subseteq {1} \cup ids2 /\ (1 \in DOMAIN more => more[1].machine = Host)
       /\ \A j \in DOMAIN mine : j \in DOMAIN more /\ more[j] = mine[j]
  <2>1. CASE ~(Len(reg[c]) < MAX_NATION /\ msg.id # my_player_id[c])
    <3>1. more = mine /\ ids2 = ids
      BY <1>2, <2>1 DEF Adds
    <3> QED BY <1>9, <3>1 DEF Aims
  <2>2. CASE Len(reg[c]) < MAX_NATION /\ msg.id # my_player_id[c]
    <3>1. /\ DOMAIN more = DOMAIN mine \cup {msg.id}
          /\ \A j \in DOMAIN mine : more[j] = mine[j]
          /\ msg.id \notin DOMAIN mine => more[msg.id].machine = msg.machine
          /\ Accepted(reg[c], msg.id, reg'[c])
      BY <1>2, <2>2 DEF Adds, Desc
    <3>2. ids2 = ids \cup {msg.id}
      <4>1. CASE msg.id \in ids
        <5>1. Reflagged(reg[c], reg'[c])
          BY <3>1, <4>1 DEF Accepted
        <5> QED BY <4>1, <5>1, ReflaggedFact
      <4>2. CASE msg.id \notin ids
        <5>1. reg'[c] = Append(reg[c], Entry(msg.id, 0))
          BY <3>1, <4>2 DEF Accepted
        <5> QED BY <1>1, <1>2, <5>1, LongerFact
      <4> QED BY <4>1, <4>2
    <3> HIDE DEF msg, mine, more, ids, ids2
    <3> QED BY <1>8, <1>9, <3>1, <3>2 DEF Aims
  <2> QED BY <2>1, <2>2
<1> HIDE DEF msg, mine, more, ids, ids2, lk, dt, lk2, dt2, dial
<1>11. \A z \in Machine : dt2[z] # 0 =>
          /\ dt2[z] = dt[z] /\ dt[z] \in DOMAIN more /\ more[dt[z]].machine = mine[dt[z]].machine
          /\ lk2[z] = "closed" => lk[z] = "closed"
  BY <1>3, <1>5, <1>9, <1>10 DEF Aims
<1>12. lk[Host] = "closed" => lk2[Host] = "closed"
  BY <1>1, <1>3, <1>8
<1>13. Aims(more, ids2, lk2, dt2, {})
  BY <1>1, <1>9, <1>10, <1>11, <1>12, MoreAims
<1> QED BY <1>4, <1>7, <1>13 DEF Points, more, ids2, lk2, dt2

LEMMA GonePoints ==
    ASSUME Types, NEW c \in Client, Points(c), NEW n \in Machine, PlayerDisconnect(c, n)
    PROVE  Points(c)'
<1> DEFINE i == Head(chan[n][c]).id
           lost == {i}
           mine == player_pool[c]
           less == player_pool'[c]
           ids == Ids(reg[c])
           ids2 == Ids(reg'[c])
           lk == link[c]
           dt == data[c]
           lk2 == link'[c]
           dt2 == data'[c]
<1>1. c \in Machine /\ Host \in Machine /\ mine \in Pool /\ reg[c] \in Seq(RegEntry)
  BY HostAssumption DEF Client, Types
<1>2. /\ Got(c, n, "PLAYER_DISCONNECT")
      /\ less = Without(mine, lost) /\ reg'[c] = Unregister(reg[c], lost)
      /\ \A b \in Machine : lk2[b] = IF b \in CutOff(c, i) THEN "closed" ELSE lk[b]
      /\ \A b \in Machine : dt2[b] = IF b \in CutOff(c, i) THEN 0 ELSE dt[b]
      /\ phase' = phase
  BY <1>1, GoneFact
<1>3. phase[c] = "lobby"
  BY <1>2, GotFact
<1>4. \A b \in Machine : b \in CutOff(c, i) <=> dt[b] \in lost
  BY DEF CutOff, PeersOf
<1>5. DOMAIN less = DOMAIN mine \ lost /\ \A j \in DOMAIN mine \ lost : less[j] = mine[j]
  <2>1. DOMAIN Without(mine, lost) = DOMAIN mine \ lost
        /\ \A j \in DOMAIN mine \ lost : Without(mine, lost)[j] = mine[j]
    BY <1>1, WithoutFact
  <2> QED BY <1>2, <2>1
<1>6. ids2 = ids \ lost
  BY <1>1, <1>2, UnregisterFact
<1>7. Aims(mine, ids, lk, dt, lost)
  BY DEF Points, Aims
<1> HIDE DEF i, lost, mine, less, ids, ids2, lk, dt, lk2, dt2
<1>8. /\ \A b \in Machine : lk2[b] = IF dt[b] \in lost THEN "closed" ELSE lk[b]
      /\ \A b \in Machine : dt2[b] = IF dt[b] \in lost THEN 0 ELSE dt[b]
  BY <1>2, <1>4
<1>9. Forgets(mine, ids, lk, dt, lost, less, ids2, lk2, dt2)
  BY <1>5, <1>6, <1>8 DEF Forgets
<1>10. Aims(less, ids2, lk2, dt2, {})
  BY <1>1, <1>7, <1>9, SweepAims
<1> QED BY <1>2, <1>3, <1>10 DEF Points, less, ids2, lk2, dt2

LEMMA JoinPoints ==
    ASSUME Types, NEW c \in Client, Points(c), JoinSession(c)
    PROVE  Points(c)'
<1>1. c \in Machine /\ Host \in Machine
  BY HostAssumption DEF Client
<1>2. /\ phase[c] = "away" /\ phase'[c] = "joining"
      /\ DOMAIN player_pool'[c] = {1} /\ player_pool'[c][1] = Desc(Host)
      /\ \A b \in Machine : link'[c][b] = IF b = Host THEN "dialled" ELSE link[c][b]
      /\ \A b \in Machine : data'[c][b] = IF b = Host THEN 1 ELSE data[c][b]
  BY <1>1, JoinFact
<1>3. \A b \in Machine : data'[c][b] = IF b = Host THEN 1 ELSE 0
  BY <1>2 DEF Points
<1>4. player_pool'[c][1].machine = Host
  BY <1>2 DEF Desc
<1>5. Aims(player_pool'[c], Ids(reg'[c]), link'[c], data'[c], {})
  BY <1>1, <1>2, <1>3, <1>4 DEF Aims
<1> QED BY <1>2, <1>5 DEF Points

LEMMA OwnPoints ==
    ASSUME HostInv, NEW c \in Client, ClientInv(c), Points(c),
           \/ \E n \in Machine :
                 \/ EnterLobby(c, n) \/ PeerConnects(c, n) \/ StrangerConnects(c, n) \/ Disconnect(c, n)
                 \/ PlayerReady(c, n) \/ PlayerId(c, n) \/ AcceptNewPlayer(c, n) \/ AcceptColor(c, n)
                 \/ PlayerDisconnect(c, n) \/ Dismissed(c, n) \/ AcquireColor(c, n)
           \/ (\E color \in Color : ClientClicksColor(c, color)) \/ ClickReady(c) \/ Leave(c)
           \/ JoinSession(c) \/ CancelJoin(c)
    PROVE  Points(c)'
<1>1. Types /\ c \in Machine /\ c # Host /\ Host \in Machine
  BY HostAssumption DEF HostInv, Client
<1>2. ASSUME NEW n \in Machine, EnterLobby(c, n) \/ PeerConnects(c, n) \/ StrangerConnects(c, n)
      PROVE  Points(c)'
  BY <1>1, <1>2, EnterPoints, PeerPoints, StrangerPoints
<1>3. ASSUME NEW n \in Machine, Disconnect(c, n) \/ PlayerId(c, n) PROVE Points(c)'
  BY <1>1, <1>3, DisconnectPoints, NumberPoints
<1>4. ASSUME NEW n \in Machine, AcceptNewPlayer(c, n) \/ PlayerDisconnect(c, n) PROVE Points(c)'
  BY <1>1, <1>4, AddPoints, GonePoints
<1>5. ASSUME NEW n \in Machine, PlayerReady(c, n) PROVE Points(c)'
  <2>1. /\ Flags(c, Head(chan[n][c]).id, Head(chan[n][c]).flag)
        /\ UNCHANGED <<phase, link, data, player_pool>>
    BY <1>1, <1>5, ReadyFact
  <2>2. Ids(reg'[c]) = Ids(reg[c])
    BY <2>1, ReflaggedFact DEF Flags
  <2> QED BY <2>1, <2>2, SamePoints
<1>6. ASSUME NEW n \in Machine, AcceptColor(c, n) PROVE Points(c)'
  BY <1>1, <1>6, ColorFact, SamePoints
<1>7. ASSUME NEW n \in Machine, Dismissed(c, n) PROVE Points(c)'
  BY <1>1, <1>7, DismissedFact, LeftPoints
<1>8. ASSUME NEW n \in Machine, AcquireColor(c, n) PROVE Points(c)'
  <2>1. UNCHANGED <<phase, link, data, player_pool>> /\ reg'[c] = reg[c]
    BY <1>1, <1>8, AcquireFact
  <2> QED BY <2>1, SamePoints
<1>9. ASSUME NEW color \in Color, ClientClicksColor(c, color) PROVE Points(c)'
  BY <1>1, <1>9, AskFact, SamePoints DEF lobby
<1>10. CASE ClickReady(c)
  <2>1. Reflagged(reg[c], reg'[c]) /\ UNCHANGED <<phase, link, data, player_pool>>
    BY <1>1, <1>10, TurnFact
  <2>2. Ids(reg'[c]) = Ids(reg[c])
    BY <2>1, ReflaggedFact
  <2> QED BY <2>1, <2>2, SamePoints
<1>11. CASE Leave(c)
  BY <1>1, <1>11, LeaveFact, LeftPoints
<1>12. CASE JoinSession(c)
  BY <1>1, <1>12, JoinPoints
<1>13. CASE CancelJoin(c)
  BY <1>1, <1>13, CancelFact, SamePoints DEF lobby
<1> QED BY <1>2, <1>3, <1>4, <1>5, <1>6, <1>7, <1>8, <1>9, <1>10, <1>11, <1>12, <1>13

\* Everybody's books.
LobbyInv == HostInv /\ \A c \in Client : ClientInv(c) /\ Points(c)

LEMMA UnmovedPoints ==
    ASSUME NEW c \in Client, Points(c), Unmoved(c) PROVE Points(c)'
BY SamePoints DEF Unmoved

\* A step of a client, whichever, leaves every client's books in order.
LEMMA ClientActs ==
    ASSUME LobbyInv, NEW m \in Client,
           \/ \E n \in Machine :
                 \/ EnterLobby(m, n) \/ PeerConnects(m, n) \/ StrangerConnects(m, n) \/ Disconnect(m, n)
                 \/ PlayerReady(m, n) \/ PlayerId(m, n) \/ AcceptNewPlayer(m, n) \/ AcceptColor(m, n)
                 \/ PlayerDisconnect(m, n) \/ Dismissed(m, n) \/ AcquireColor(m, n)
           \/ (\E color \in Color : ClientClicksColor(m, color)) \/ ClickReady(m) \/ Leave(m)
           \/ JoinSession(m) \/ CancelJoin(m),
           NEW c \in Client
    PROVE  ClientInv(c)' /\ Points(c)'
<1>1. HostInv /\ ClientInv(c) /\ ClientInv(m) /\ Points(c) /\ Points(m)
  BY DEF LobbyInv
<1>2. CASE c = m
  <2>1. ClientInv(m)'
    BY <1>1, OwnStep
  <2>2. Points(m)'
    BY <1>1, OwnPoints
  <2> QED BY <1>2, <2>1, <2>2
<1>3. CASE c # m
  <2>1. Apart(m, chan') /\ \A a \in Machine \ {m} : Unmoved(a)
    BY <1>1, ClientApart
  <2>2. /\ c \in Machine \ {m} /\ Host \in Machine \ {m}
    BY <1>3, HostAssumption DEF Client
  <2>3. chan'[Host][c] = chan[Host][c] /\ chan'[c][Host] = chan[c][Host]
    BY <2>1, <2>2 DEF Apart
  <2>4. ClientInv(c)'
    BY <1>1, <2>1, <2>2, <2>3, OthersKeep
  <2> QED BY <1>1, <2>1, <2>2, <2>4, UnmovedPoints
<1> QED BY <1>2, <1>3

LEMMA LobbyInit == Init => LobbyInv
<1> SUFFICES ASSUME Init PROVE LobbyInv
  OBVIOUS
<1>1. HostInv
  BY HostInit
<1>2. ASSUME NEW c \in Client PROVE ClientInv(c) /\ Points(c)
  <2>1. c \in Machine /\ c # Host /\ Host \in Machine
    BY HostAssumption DEF Client
  <2>2. /\ phase[c] = "away" /\ link[c][Host] = "none" /\ link[Host][c] = "none"
        /\ chan[Host][c] = << >> /\ chan[c][Host] = << >>
    BY <2>1 DEF Init
  <2>3. /\ player_pool[c] = << >> /\ my_player_id[c] = 0 /\ reg[c] = << >>
    BY <2>1 DEF Init
  <2>4. ~selfReadyFlag[c]
    BY <2>1 DEF Init
  <2>5. Greeted(c) /\ Fresh(c)
    BY <2>2, <2>3, <2>4, NoWord, NoMessage DEF Greeted, Fresh, Down, Up
  <2>6. Known(c) /\ Waiting(c) /\ Own(c) /\ Registers(c)
    BY <2>2 DEF Known, Waiting, Own, Registers, Linked
  <2>7. Numbered(c)
    BY <2>2, <2>3, NoMessage DEF Numbered, UniqueIds, NewId, Down
  <2>8. Unready(c) /\ Flagged(c)
    BY <2>2, <2>4, NoWord, NoMessage DEF Unready, Flagged, Tells, Up
  <2>9. (\A z \in Machine : data[c][z] = 0) /\ DOMAIN player_pool[c] = {}
    BY <2>1, <2>3 DEF Init
  <2>10. Points(c)
    BY <2>9 DEF Points, Aims
  <2> QED BY <2>5, <2>6, <2>7, <2>8, <2>10 DEF ClientInv
<1> QED BY <1>1, <1>2 DEF LobbyInv

LEMMA LobbyStep == LobbyInv /\ [Next]_vars => LobbyInv'
<1> SUFFICES ASSUME LobbyInv, [Next]_vars PROVE LobbyInv'
  OBVIOUS
<1>1. HostInv /\ HostInv' /\ Types /\ Types'
  BY HostStep DEF LobbyInv, HostInv
<1> SUFFICES ASSUME NEW c \in Client PROVE ClientInv(c)' /\ Points(c)'
  BY <1>1 DEF LobbyInv
<1>2. ClientInv(c) /\ Points(c) /\ \A m \in Client : ClientInv(m)
  BY DEF LobbyInv
<1>3. ASSUME Hears(c) /\ Unmoved(c) PROVE ClientInv(c)' /\ Points(c)'
  BY <1>1, <1>2, <1>3, HeardKeeps, UnmovedPoints
<1>4. CASE UNCHANGED vars
  <2>1. Unmoved(c) /\ Unmoved(Host) /\ chan' = chan
    BY <1>4 DEF vars, lobby, Unmoved
  <2> QED BY <1>2, <2>1, OthersKeep, UnmovedPoints
<1>5. ASSUME NEW m \in Machine, NEW n \in Machine, Receive(m, n) PROVE ClientInv(c)' /\ Points(c)'
  <2>1. CASE m = Host
    <3>1. \/ PeerConnects(Host, n) \/ StrangerConnects(Host, n) \/ Disconnect(Host, n)
          \/ PlayerReady(Host, n)
          \/ NewPlayer(n) \/ RefusePlayer(n) \/ AcquireColor(Host, n)
      BY <1>1, <1>5, <2>1, HostReceives
    <3> QED BY <1>1, <1>2, <1>3, <3>1, HostActs
  <2>2. CASE m # Host
    <3>1. m \in Client
      BY <2>2 DEF Client
    <3>2. \/ EnterLobby(m, n) \/ PeerConnects(m, n) \/ StrangerConnects(m, n) \/ Disconnect(m, n)
          \/ PlayerReady(m, n) \/ PlayerId(m, n) \/ AcceptNewPlayer(m, n) \/ AcceptColor(m, n)
          \/ PlayerDisconnect(m, n) \/ Dismissed(m, n) \/ AcquireColor(m, n)
      BY <1>5, <2>2 DEF Receive
    <3> QED BY <3>1, <3>2, ClientActs
  <2> QED BY <2>1, <2>2
<1>6. ASSUME NEW m \in Machine, Play(m) PROVE ClientInv(c)' /\ Points(c)'
  <2>1. (\E color \in Color : ClientClicksColor(m, color)) \/ ClickReady(m) \/ Leave(m)
    BY <1>6 DEF Play
  <2>2. CASE m = Host
    <3>1. ClickReady(Host) \/ Leave(Host)
      BY <2>1, <2>2 DEF ClientClicksColor
    <3> QED BY <1>1, <1>2, <1>3, <3>1, HostActs
  <2>3. CASE m # Host
    <3>1. m \in Client
      BY <2>3 DEF Client
    <3> QED BY <2>1, <3>1, ClientActs
  <2> QED BY <2>2, <2>3
<1>7. ASSUME NEW color \in Color, HostClicksColor(color) PROVE ClientInv(c)' /\ Points(c)'
  BY <1>1, <1>2, <1>3, <1>7, HostActs
<1>8. ASSUME NEW m \in Client, JoinSession(m) \/ CancelJoin(m) PROVE ClientInv(c)' /\ Points(c)'
  BY <1>8, ClientActs
<1>9. CASE Start
  BY <1>1, <1>2, <1>3, <1>9, HostActs
<1> QED BY <1>4, <1>5, <1>6, <1>7, <1>8, <1>9 DEF Next

\* In every behaviour, with any machines, slots and colours, what is at a client
\* and on its way to and from it goes with the host's books: what LobbyInv says.
THEOREM LobbyBooks == Spec => []LobbyInv
BY LobbyInit, LobbyStep, PTL DEF Spec

\* A list without an id twice has no more entries than there are ids.
LEMMA ListBound ==
    ASSUME NEW list \in Seq(RegEntry), UniqueIds(list) PROVE Len(list) <= MAX_NATION
<1> DEFINE n == Len(list)
           S == 1 .. n
           f == [k \in S |-> list[k].id]
<1>1. /\ n \in Nat /\ DOMAIN list = S
      /\ \A k \in DOMAIN list : list[k].id \in Slot
  <2>1. \A e \in RegEntry : e.id \in Slot
    BY DEF RegEntry
  <2>2. n \in Nat /\ DOMAIN list = S /\ \A k \in DOMAIN list : list[k] \in RegEntry
    BY SeqFact
  <2> QED BY <2>1, <2>2
<1>2. MAX_NATION \in Nat
  BY ColorAssumption
<1> HIDE DEF n
<1>3. IsFiniteSet(S) /\ Cardinality(S) = n
  BY <1>1, FS_Interval
<1>4. IsFiniteSet(Slot) /\ Cardinality(Slot) = MAX_NATION
  BY <1>2, FS_Interval DEF Slot
<1>5. f \in [S -> Slot]
  BY <1>1
<1>6. \A x, y \in S : f[x] = f[y] => x = y
  BY <1>1 DEF UniqueIds
<1> HIDE DEF S, f
<1>7. ~(Cardinality(Slot) < Cardinality(S))
  BY <1>3, <1>4, <1>5, <1>6, FS_PigeonHole
<1> QED BY <1>1, <1>2, <1>3, <1>4, <1>7 DEF n

\* Every variable keeps its type, and the list of registered players never
\* grows beyond its array, although PLAYER_ID is entered without a look at its
\* length: no id comes twice, and there are no more ids than places.
THEOREM TypeAlwaysOK == Spec => []TypeOK
<1>1. LobbyInv => TypeOK
  <2> SUFFICES ASSUME LobbyInv PROVE TypeOK
    OBVIOUS
  <2>1. /\ Types /\ HostList /\ HostLinks /\ Host \in Machine
        /\ \A c \in Client : Numbered(c) /\ Points(c)
    BY HostAssumption DEF LobbyInv, HostInv, ClientInv
  <2>2. ASSUME NEW m \in Machine PROVE Len(reg[m]) <= MAX_NATION
    <3>1. UniqueIds(reg[m])
      BY <2>1 DEF HostList, Numbered, Client
    <3>2. reg[m] \in Seq(RegEntry)
      BY <2>1 DEF Types
    <3> QED BY <3>1, <3>2, ListBound
  <2>3. ASSUME NEW m \in Machine
        PROVE  /\ DOMAIN player_pool[m] \subseteq Slot
               /\ \A i \in DOMAIN player_pool[m] : player_pool[m][i] \in Player
    <3>1. player_pool[m] \in Pool
      BY <2>1 DEF Types
    <3> QED BY <3>1, PoolFact
  <2>4. ASSUME NEW m \in Machine, NEW k \in DOMAIN reg[m]
        PROVE  reg[m][k] \in [id : Slot, ready : BOOLEAN, color : Color \cup {0}]
    <3>1. reg[m] \in Seq(RegEntry)
      BY <2>1 DEF Types
    <3> QED BY <3>1, SeqFact DEF RegEntry
  <2>5. ASSUME NEW m \in Machine, NEW n \in Machine, NEW k \in DOMAIN chan[m][n]
        PROVE  chan[m][n][k] \in Message
    <3>1. chan[m][n] \in Seq(Message)
      BY <2>1 DEF Types, Channels
    <3> QED BY <3>1, SeqFact
  <2>6. ASSUME NEW m \in Machine, NEW n \in Machine, data[m][n] # 0
        PROVE  /\ data[m][n] \in DOMAIN player_pool[m]
               /\ \A x \in Machine : data[m][x] = data[m][n] => x = n
    <3>1. CASE m = Host
      BY <2>1, <2>6, <3>1 DEF HostLinks, Pointed
    <3>2. CASE m # Host
      BY <2>1, <2>6, <3>2 DEF Points, Aims, Client
    <3> QED BY <3>1, <3>2
  <2> QED BY <2>1, <2>2, <2>3, <2>4, <2>5, <2>6 DEF TypeOK, Types, Links, Pointers
<1> QED BY <1>1, LobbyBooks, PTL

\* An id stands for the same address at a client as at the host, also when the
\* host has given it to a second player, unless the notice that the first is gone
\* is on its way to that client; and while a player is marked connecting, the
\* machine the host hears under its id is the one at its address.
THEOREM IdsAlwaysSame == Spec => []SameIds
<1>1. LobbyInv => SameIds
  <2> SUFFICES ASSUME LobbyInv, NEW c \in Client, Linked(Host, c)
               PROVE  /\ player_pool[Host][Heard(c)].connecting => player_pool[Host][Heard(c)].machine = c
                      /\ \A i \in (DOMAIN player_pool[c] \cap DOMAIN player_pool[Host]) \ {my_player_id[c]} :
                            \/ player_pool[c][i].machine = player_pool[Host][i].machine
                            \/ UnderWay(Host, c, {"PLAYER_DISCONNECT"})
    BY DEF SameIds
  <2>1. ASSUME NEW i \in (DOMAIN player_pool[c] \cap DOMAIN player_pool[Host]) \ {my_player_id[c]}
        PROVE  \/ player_pool[c][i].machine = player_pool[Host][i].machine
               \/ UnderWay(Host, c, {"PLAYER_DISCONNECT"})
    <3>1. InStep(player_pool[c], my_player_id[c], Down(c), player_pool[Host])
      BY DEF LobbyInv, ClientInv, Known
    <3> QED BY <3>1 DEF InStep, Holds, Deleted, UnderWay, Down
  <2>2. ASSUME player_pool[Host][Heard(c)].connecting
        PROVE  player_pool[Host][Heard(c)].machine = c
    <3> DEFINE i == data[Host][c]
    <3>1. Types /\ HostLinks /\ c \in Machine /\ Host \in Machine /\ Heard(c) = i
      BY HostAssumption DEF LobbyInv, HostInv, Client, Heard
    <3>2. link[Host][c] = "up"
      BY DEF Linked
    <3>3. i # 0 /\ i \in DOMAIN player_pool[Host] \ {1}
      BY <3>1, <3>2 DEF HostLinks, Pointed
    <3>4. player_pool[Host][i].machine \in Machine
      BY <3>1, <3>3, PoolFact DEF Types
    <3>5. data[Host][player_pool[Host][i].machine] = i
      BY <2>2, <3>1, <3>3 DEF HostLinks, Pointed
    <3>6. \A n, x \in Machine : data[Host][n] # 0 /\ data[Host][n] = data[Host][x] => n = x
      BY <3>1 DEF HostLinks, Pointed
    <3> QED BY <3>1, <3>3, <3>4, <3>5, <3>6
  <2> QED BY <2>1, <2>2
<1> QED BY <1>1, LobbyBooks, PTL

\* What the host has down for a player it is connected with is what that player
\* has: its id, its colour and its ready flag, unless the message that tells of
\* a change is on its way.
THEOREM HostAlwaysKnows == Spec => []HostKnows
<1>1. LobbyInv => HostKnows
  <2> SUFFICES ASSUME LobbyInv, NEW k \in DOMAIN reg[Host], NEW c \in Client,
                      Linked(Host, c), Heard(c) = reg[Host][k].id
               PROVE  /\ ~UnderWay(Host, c, {"PLAYER_ID"}) => my_player_id[c] = reg[Host][k].id
                      /\ ~UnderWay(Host, c, {"ACCEPT_COLOR"}) =>
                             player_nation_color[c] = reg[Host][k].color
                      /\ ~UnderWay(c, Host, {"PLAYER_READY"}) =>
                             selfReadyFlag[c] = reg[Host][k].ready
    BY DEF HostKnows
  <2> DEFINE e == reg[Host][k]
  <2>1. Registers(c) /\ data[Host][c] = e.id
    BY DEF LobbyInv, ClientInv, Heard, Client
  <2>2. Agreed(e, my_player_id[c], player_nation_color[c], selfReadyFlag[c], chan[Host][c], chan[c][Host])
    BY <2>1 DEF Registers, Down, Up
  <2> HIDE DEF e
  <2>3. \A a, b, type : UnderWay(a, b, {type}) <=> Has(chan[a][b], type)
    BY DEF UnderWay, Has
  <2>4. /\ ~UnderWay(Host, c, {"PLAYER_ID"}) => my_player_id[c] = e.id
        /\ ~UnderWay(Host, c, {"ACCEPT_COLOR"}) => player_nation_color[c] = e.color
        /\ ~UnderWay(c, Host, {"PLAYER_READY"}) => selfReadyFlag[c] = e.ready
    BY <2>2, <2>3 DEF Agreed
  <2> QED BY <2>4 DEF e
<1> QED BY <1>1, LobbyBooks, PTL
=============================================================================
