--------------------------- MODULE CaravanProofs ---------------------------
(***************************************************************************)
(* Theorems about module Caravan, in two parts.                            *)
(*                                                                         *)
(* The round: the list of stops is in order whatever happens to the firms  *)
(* and whenever an order comes, and a caravan in a firm is on a round that *)
(* leads it out again.  Trade changes stocks and cargo only, so what it    *)
(* amounts to does not matter there; what matters is how often a stop is   *)
(* taken from the list, and what is done with the destination and the firm *)
(* the caravan stands in.                                                  *)
(*                                                                         *)
(* The goods: every field keeps its type, and of each material no step     *)
(* leaves more than there was, nor less unless it is spent.  A slot of a   *)
(* market, a market, a mine, a factory and the cargo are each changed by   *)
(* one operator (Restocked, PutMarket, PutMine, PutFactory, PutCargo), and *)
(* a lemma says what that does to the sum HeldBy; a trade is a sequence of *)
(* such changes that cancel out.                                           *)
(***************************************************************************)
EXTENDS Caravan, DataLemmas, FiniteSetTheorems

-----------------------------------------------------------------------------
(* The list as update_stop_list makes it *)

LEMMA StopIdFact ==
    /\ MaxStopForCaravan \in Nat /\ MaxStopForCaravan > 2
    /\ StopId = 1 .. MaxStopForCaravan /\ StopId \in SUBSET Nat
BY NumberAssumption DEF StopId

\* Elements chosen from a list are not more than the list has.
LEMMA ChosenShort ==
    ASSUME NEW T, NEW list \in Seq(T), NEW P \in SUBSET DOMAIN list,
           NEW s \in Seq(T), NEW f, ChosenUpTo(list, P, Len(list), s, f)
    PROVE  Len(s) <= Len(list)
<1>1. /\ Len(s) \in Nat /\ DOMAIN s = 1 .. Len(s)
      /\ Len(list) \in Nat /\ DOMAIN list = 1 .. Len(list)
  BY SeqFact
<1> DEFINE n == Len(s)
           m == Len(list)
<1>2. f \in [1 .. n -> 1 .. m] /\ \A k, l \in 1 .. n : k < l => f[k] < f[l]
  BY <1>1 DEF ChosenUpTo
<1> HIDE DEF n, m
<1>3. n \in Nat /\ m \in Nat
  BY <1>1 DEF n, m
<1>4. \A k, l \in 1 .. n : f[k] = f[l] => k = l
  <2> SUFFICES ASSUME NEW k \in 1 .. n, NEW l \in 1 .. n, k # l PROVE f[k] # f[l]
    OBVIOUS
  <2>1. k < l \/ l < k
    BY <1>3
  <2>2. f[k] < f[l] \/ f[l] < f[k]
    BY <1>2, <2>1
  <2>3. f[k] \in Nat /\ f[l] \in Nat
    BY <1>2, <1>3
  <2> QED BY <2>2, <2>3
<1>5. f \in Injection(1 .. n, 1 .. m)
  BY <1>2, <1>4 DEF Injection, IsInjective
<1>6. IsFiniteSet(1 .. m) /\ Cardinality(1 .. m) = m /\ Cardinality(1 .. n) = n
  <2>1. 0 \in Int /\ 1 \in Int /\ n \in Int /\ m \in Int
    BY <1>3
  <2>2. /\ IsFiniteSet(1 .. m) /\ Cardinality(1 .. m) = IF 1 > m THEN 0 ELSE m - 1 + 1
        /\ Cardinality(1 .. n) = IF 1 > n THEN 0 ELSE n - 1 + 1
    BY <2>1, FS_Interval
  <2> QED BY <1>3, <2>2
<1>7. Cardinality(1 .. n) <= Cardinality(1 .. m)
  BY <1>5, <1>6, FS_Injection
<1> QED BY <1>6, <1>7 DEF n, m

\* The stops that are valid: each is a stop of the list, and its firm exists.
LEMMA ValidStopsFact ==
    ASSUME NEW w
    PROVE  LET v == ValidStops(w)
           IN  /\ v \in Seq({w.stop[i] : i \in StopId}) /\ Len(v) <= MaxStopForCaravan
               /\ \A k \in DOMAIN v : v[k].firm # NoFirm
<1> DEFINE T == {w.stop[i] : i \in StopId}
           list == [i \in StopId |-> w.stop[i]]
           P == {i \in StopId : Valid(w, w.stop[i])}
           v == FlattenSeq([k \in DOMAIN list |-> IF k \in P THEN <<list[k]>> ELSE << >>])
<1>1. list \in Seq(T) /\ DOMAIN list = StopId /\ Len(list) = MaxStopForCaravan
  BY StopIdFact
<1>2. v = ValidStops(w)
  <2>1. \A k \in StopId : (k \in P <=> Valid(w, w.stop[k])) /\ list[k] = w.stop[k]
    OBVIOUS
  <2>2. [k \in DOMAIN list |-> IF k \in P THEN <<list[k]>> ELSE << >>]
            = [k \in StopId |-> IF Valid(w, w.stop[k]) THEN <<w.stop[k]>> ELSE << >>]
    BY <2>1
  <2> QED BY <2>2 DEF ValidStops
<1>3. P \in SUBSET DOMAIN list
  OBVIOUS
<1>4. \A k \in P : list[k].firm # NoFirm
  BY DEF Valid, Deleted
<1> HIDE DEF T, list, P
<1>5. v \in Seq(T) /\ \E f : ChosenUpTo(list, P, Len(list), v, f)
  BY <1>1, <1>3, ChosenFact
<1> HIDE DEF v
<1>6. PICK f : ChosenUpTo(list, P, Len(list), v, f)
  BY <1>5
<1>7. Len(v) <= Len(list)
  BY <1>1, <1>3, <1>5, <1>6, ChosenShort
<1>8. \A k \in DOMAIN v : v[k].firm # NoFirm
  BY <1>4, <1>6 DEF ChosenUpTo
<1> QED BY <1>1, <1>2, <1>5, <1>7, <1>8 DEF T

\* Apart drops what is equal to the stop before it, and nothing else.
LEMMA ApartFact ==
    ASSUME NEW T, NEW valid \in Seq(T), Len(valid) # 0
    PROVE  LET s == Apart(valid)
           IN  /\ s \in Seq(T) /\ Len(s) # 0 /\ Len(s) <= Len(valid)
               /\ \A k \in DOMAIN s : \E i \in DOMAIN valid : s[k] = valid[i]
               /\ \A k \in DOMAIN s : k + 1 \in DOMAIN s => s[k].firm # s[k + 1].firm
<1> DEFINE P == {i \in DOMAIN valid : i = 1 \/ valid[i].firm # valid[i - 1].firm}
           s == FlattenSeq([k \in DOMAIN valid |-> IF k \in P THEN <<valid[k]>> ELSE << >>])
<1>1. s = Apart(valid)
  BY DEF Apart
<1>2. /\ Len(valid) \in Nat /\ DOMAIN valid = 1 .. Len(valid) /\ DOMAIN valid \in SUBSET Nat
      /\ 1 \in DOMAIN valid
  BY SeqFact
<1>3. /\ P \in SUBSET DOMAIN valid /\ 1 \in P
      /\ \A i \in DOMAIN valid : i \in P <=> (i = 1 \/ valid[i].firm # valid[i - 1].firm)
  BY <1>2
<1> HIDE DEF P
<1>4. s \in Seq(T) /\ \E f : ChosenUpTo(valid, P, Len(valid), s, f)
  BY <1>3, ChosenFact
<1> HIDE DEF s
<1>5. PICK f : ChosenUpTo(valid, P, Len(valid), s, f)
  BY <1>4
<1>6. Len(s) <= Len(valid)
  BY <1>3, <1>4, <1>5, ChosenShort
<1>7. Len(s) \in Nat /\ DOMAIN s = 1 .. Len(s) /\ DOMAIN s \in SUBSET Nat
  BY <1>4, SeqFact
<1>8. /\ f \in [DOMAIN s -> P] /\ \A k \in DOMAIN s : s[k] = valid[f[k]]
      /\ \A k, l \in DOMAIN s : k < l => f[k] < f[l]
      /\ \A p \in P : \E k \in DOMAIN s : f[k] = p
  <2>1. \A p \in P : p <= Len(valid)
    BY <1>2, <1>3
  <2> QED BY <1>5, <2>1 DEF ChosenUpTo
<1>9. Len(s) # 0
  BY <1>3, <1>7, <1>8
<1>10. ASSUME NEW k \in DOMAIN s, k + 1 \in DOMAIN s, s[k].firm = s[k + 1].firm PROVE FALSE
  <2> DEFINE a == f[k]
             b == f[k + 1]
             A == {i \in DOMAIN valid : a < i /\ i <= b - 1 /\ valid[i].firm # valid[a].firm}
  <2>1. /\ a \in P /\ b \in P /\ a \in DOMAIN valid /\ b \in DOMAIN valid /\ a < b
        /\ a \in Nat /\ b \in Nat /\ 1 <= a
    <3>1. k \in Nat /\ k < k + 1
      BY <1>7
    <3> QED BY <1>2, <1>3, <1>8, <1>10, <3>1
  <2>2. valid[b].firm = valid[a].firm
    BY <1>8, <1>10
  <2>3. b - 1 \in DOMAIN valid /\ a <= b - 1 /\ b # 1
    BY <1>2, <2>1
  <2>4. valid[b].firm # valid[b - 1].firm
    BY <1>3, <2>1, <2>3
  <2>5. b - 1 \in A
    <3>1. b - 1 # a
      BY <2>2, <2>4
    <3> QED BY <2>1, <2>2, <2>3, <2>4, <3>1
  <2>6. A \in SUBSET Nat /\ A # {}
    BY <1>2, <2>5
  <2> HIDE DEF A
  <2>7. PICK m \in A : \A i \in A : m <= i
    BY <2>6, HasLeast
  <2>8. /\ m \in DOMAIN valid /\ m \in Nat /\ a < m /\ m < b
        /\ valid[m].firm # valid[a].firm
    BY <2>1, <2>6, <2>7 DEF A
  <2>9. m \notin P
    <3> SUFFICES ASSUME m \in P PROVE FALSE
      OBVIOUS
    <3>1. PICK l \in DOMAIN s : f[l] = m
      BY <1>8
    <3>2. l \in Nat /\ k \in Nat /\ l # k /\ l # k + 1
      BY <1>7, <2>8, <3>1
    <3>3. l < k \/ k + 1 < l
      BY <3>2
    <3>4. m < a \/ b < m
      BY <1>8, <1>10, <3>1, <3>3
    <3> QED BY <2>1, <2>8, <3>4
  <2>10. m # 1 /\ valid[m].firm = valid[m - 1].firm
    BY <1>3, <2>8, <2>9
  <2>11. m - 1 \in DOMAIN valid /\ m - 1 \in Nat /\ a <= m - 1 /\ m - 1 <= b - 1 /\ ~(m <= m - 1)
    BY <1>2, <2>1, <2>8, <2>10
  <2>12. m - 1 \notin A
    BY <2>7, <2>11
  <2>13. CASE m - 1 = a
    BY <2>8, <2>10, <2>13
  <2>14. CASE m - 1 # a
    <3>1. a < m - 1
      BY <2>1, <2>11, <2>14
    <3>2. valid[m - 1].firm = valid[a].firm
      BY <2>11, <2>12, <3>1 DEF A
    <3> QED BY <2>8, <2>10, <3>2
  <2> QED BY <2>13, <2>14
<1>11. \A k \in DOMAIN s : \E i \in DOMAIN valid : s[k] = valid[i]
  BY <1>3, <1>8
<1> QED BY <1>1, <1>4, <1>6, <1>9, <1>10, <1>11

\* The firms of a round: n stops at the front of the list, and behind the last
\* comes the first.
Circle(list, n) == \A i \in 1 .. n : list[i].firm # list[IF i = n THEN 1 ELSE i + 1].firm

\* Round leaves a round of stops of the list.
LEMMA RoundFact ==
    ASSUME NEW T, NEW valid \in Seq(T), Len(valid) # 0
    PROVE  LET r == Round(valid)
           IN  /\ r \in Seq(T) /\ Len(r) # 0 /\ Len(r) <= Len(valid)
               /\ \A k \in DOMAIN r : \E i \in DOMAIN valid : r[k] = valid[i]
               /\ Len(r) > 1 => Circle(r, Len(r))
<1> DEFINE s == Apart(valid)
           n == Len(s)
           cut == SubSeq(s, 1, n - 1)
<1>1. /\ s \in Seq(T) /\ n # 0 /\ n <= Len(valid)
      /\ \A k \in DOMAIN s : \E i \in DOMAIN valid : s[k] = valid[i]
      /\ \A k \in DOMAIN s : k + 1 \in DOMAIN s => s[k].firm # s[k + 1].firm
  BY ApartFact
<1>2. Round(valid) = IF n > 2 /\ s[n].firm = s[1].firm THEN cut ELSE s
  BY DEF Round
<1> HIDE DEF s
<1>3. n \in Nat /\ DOMAIN s = 1 .. n /\ Len(valid) \in Nat /\ \A k \in 1 .. n : s[k] \in T
  BY <1>1, SeqFact
<1> HIDE DEF n
<1>4. \A k \in 1 .. n - 1 : s[k].firm # s[k + 1].firm
  <2>1. \A k \in 1 .. n - 1 : k \in 1 .. n /\ k + 1 \in 1 .. n
    BY <1>3
  <2>2. \A k \in 1 .. n - 1 : k \in DOMAIN s /\ k + 1 \in DOMAIN s
    BY <1>3, <2>1, Zenon
  <2> QED BY <1>1, <2>2, Zenon
<1>5. CASE n > 2 /\ s[n].firm = s[1].firm
  <2>1. cut \in Seq(T) /\ Len(cut) = n - 1 /\ \A k \in 1 .. n - 1 : cut[k] = s[k]
    <3>1. cut = [k \in 1 .. n - 1 |-> s[k]]
      BY <1>1, <1>3, <1>5
    <3> HIDE DEF cut
    <3>2. n - 1 \in Nat /\ \A k \in 1 .. n - 1 : s[k] \in T
      BY <1>3, <1>5
    <3> QED BY <3>1, <3>2
  <2> HIDE DEF cut
  <2>2. DOMAIN cut = 1 .. n - 1
    BY <2>1, SeqFact
  <2>3. \A k \in DOMAIN cut : \E i \in DOMAIN valid : cut[k] = valid[i]
    BY <1>1, <1>3, <2>1, <2>2
  <2>4. Circle(cut, n - 1)
    <3> SUFFICES ASSUME NEW i \in 1 .. n - 1
                 PROVE  cut[i].firm # cut[IF i = n - 1 THEN 1 ELSE i + 1].firm
      BY DEF Circle
    <3>1. CASE i = n - 1
      <4>1. cut[i] = s[i] /\ cut[1] = s[1] /\ s[i].firm # s[i + 1].firm /\ i + 1 = n
        BY <1>3, <1>4, <1>5, <2>1, <3>1
      <4> QED BY <1>5, <3>1, <4>1
    <3>2. CASE i # n - 1
      <4>1. i + 1 \in 1 .. n - 1
        BY <1>3, <3>2
      <4>2. cut[i] = s[i] /\ cut[i + 1] = s[i + 1] /\ s[i].firm # s[i + 1].firm
        BY <1>4, <2>1, <4>1
      <4> QED BY <3>2, <4>2
    <3> QED BY <3>1, <3>2
  <2> QED BY <1>1, <1>2, <1>3, <1>5, <2>1, <2>3, <2>4
<1>6. CASE ~(n > 2 /\ s[n].firm = s[1].firm)
  <2>1. ASSUME n > 1 PROVE Circle(s, n)
    <3> SUFFICES ASSUME NEW i \in 1 .. n PROVE s[i].firm # s[IF i = n THEN 1 ELSE i + 1].firm
      BY DEF Circle
    <3>1. CASE i # n
      <4>1. i \in 1 .. n - 1
        BY <1>3, <3>1
      <4> QED BY <1>4, <3>1, <4>1
    <3>2. CASE i = n /\ n > 2
      BY <1>6, <3>2
    <3>3. CASE i = n /\ n = 2
      <4>1. s[1].firm # s[1 + 1].firm
        BY <1>4, <3>3
      <4> QED BY <3>3, <4>1
    <3> QED BY <1>3, <2>1, <3>1, <3>2, <3>3
  <2> QED BY <1>1, <1>2, <1>6, <2>1 DEF n
<1> QED BY <1>5, <1>6

-----------------------------------------------------------------------------
(* Worlds *)

\* A stop, or none, with all its fields.
IsStop(s) == DOMAIN s = {"firm", "site", "type", "goods"} /\ s.firm \in Firm \cup {NoFirm}

\* A world with all its fields, and a stop in each place.
Wide(w) ==
    /\ DOMAIN w = Field /\ DOMAIN w.stop = StopId
    /\ \A i \in StopId : IsStop(w.stop[i])
    /\ w.stop_defined_num \in 0 .. MaxStopForCaravan

\* The stops are counted, wherever they stand.
Counted(w) == w.stop_defined_num = Cardinality(Defined(w))

\* In order, and with the fields to say so.
Good(w) == Wide(w) /\ InOrder(w)

\* The same stops, but for what is picked up there.
SameStops(w, v) ==
    /\ DOMAIN v = DOMAIN w /\ DOMAIN v.stop = DOMAIN w.stop
    /\ \A i \in StopId : DOMAIN v.stop[i] = DOMAIN w.stop[i] /\ v.stop[i].firm = w.stop[i].firm
    /\ v.stop_defined_num = w.stop_defined_num /\ v.dest = w.dest

\* The same on the journey.
SameJourney(w, v) == v.journey = w.journey /\ v.inside = w.inside

LEMMA GoodKept ==
    ASSUME NEW w, NEW v, SameStops(w, v), Good(w) PROVE Good(v)
<1>1. Wide(v)
  BY DEF Good, Wide, SameStops, IsStop
<1>2. InOrder(v)
  <2> DEFINE n == w.stop_defined_num
  <2>1. n \in 0 .. MaxStopForCaravan /\ v.stop_defined_num = n /\ v.dest = w.dest
    BY DEF Good, Wide, SameStops
  <2>2. \A i \in StopId : v.stop[i].firm = w.stop[i].firm
    BY DEF SameStops
  <2>3. /\ \A i \in StopId : w.stop[i].firm # NoFirm <=> i <= n
        /\ n > 1 => \A i \in 1 .. n : w.stop[i].firm # w.stop[IF i = n THEN 1 ELSE i + 1].firm
        /\ IF n = 0 THEN w.dest = 0 ELSE w.dest \in 1 .. n
    BY DEF Good, InOrder
  <2> HIDE DEF n
  <2>4. \A i \in 1 .. n : i \in StopId /\ (IF i = n THEN 1 ELSE i + 1) \in StopId
    BY <2>1, StopIdFact
  <2>5. \A i \in StopId : v.stop[i].firm # NoFirm <=> i <= n
    BY <2>2, <2>3
  <2>6. ASSUME n > 1, NEW i \in 1 .. n
        PROVE  v.stop[i].firm # v.stop[IF i = n THEN 1 ELSE i + 1].firm
    <3> DEFINE j == IF i = n THEN 1 ELSE i + 1
    <3>1. i \in StopId /\ j \in StopId
      BY <2>4
    <3>2. w.stop[i].firm # w.stop[j].firm
      BY <2>3, <2>6
    <3> HIDE DEF j
    <3>3. v.stop[i].firm # v.stop[j].firm
      BY <2>2, <3>1, <3>2
    <3> QED BY <3>3 DEF j
  <2> QED BY <2>1, <2>3, <2>5, <2>6 DEF InOrder
<1> QED BY <1>1, <1>2 DEF Good

LEMMA WayKept ==
    ASSUME NEW w, NEW v, SameStops(w, v), SameJourney(w, v), Good(w), KnowsItsWay(w)
    PROVE  KnowsItsWay(v)
<1>1. w.dest # 0 => w.dest \in StopId
  <2>1. w.stop_defined_num \in 0 .. MaxStopForCaravan
    BY DEF Good, Wide
  <2>2. w.dest # 0 => w.dest \in 1 .. w.stop_defined_num
    BY DEF Good, InOrder
  <2> QED BY <2>1, <2>2, StopIdFact
<1>2. DestFirm(v) = DestFirm(w)
  BY <1>1 DEF DestFirm, SameStops
<1> QED BY <1>2 DEF KnowsItsWay, Visible, SameStops, SameJourney

\* A list in order is counted.
LEMMA InOrderCounted ==
    ASSUME NEW w, Good(w) PROVE Counted(w)
<1> DEFINE n == w.stop_defined_num
<1>1. n \in 0 .. MaxStopForCaravan /\ \A i \in StopId : w.stop[i].firm # NoFirm <=> i <= n
  BY DEF Good, Wide, InOrder
<1>2. Defined(w) = {i \in StopId : i <= n}
  BY <1>1 DEF Defined
<1>3. {i \in StopId : i <= n} = 1 .. n
  BY <1>1, StopIdFact
<1>4. Cardinality(1 .. n) = n
  <2>1. 1 \in Int /\ n \in Int /\ n \in Nat
    BY <1>1, StopIdFact
  <2>2. Cardinality(1 .. n) = IF 1 > n THEN 0 ELSE n - 1 + 1
    BY <2>1, FS_Interval
  <2> QED BY <2>1, <2>2
<1> QED BY <1>2, <1>3, <1>4 DEF Counted

-----------------------------------------------------------------------------
(* Bringing the list up to date *)

\* Every element is a stop at a firm.
Named(list) ==
    \A k \in DOMAIN list :
        list[k].firm # NoFirm /\ IsStop(list[k])

LEMMA PackedFact ==
    ASSUME NEW T, NEW list \in Seq(T), Len(list) <= MaxStopForCaravan, Named(list)
    PROVE  LET p == Packed(list)
           IN  /\ DOMAIN p = StopId
               /\ \A i \in StopId : IsStop(p[i])
               /\ \A i \in StopId : p[i].firm # NoFirm <=> i <= Len(list)
               /\ \A i \in 1 .. Len(list) : i \in StopId /\ p[i] = list[i]
<1> DEFINE n == Len(list)
           p == Packed(list)
<1>1. n \in Nat /\ DOMAIN list = 1 .. n
  BY SeqFact
<1>2. DOMAIN p = StopId /\ \A i \in StopId : p[i] = IF i <= n THEN list[i] ELSE NoStop
  BY DEF Packed
<1> HIDE DEF n, p
<1>3. n <= MaxStopForCaravan
  BY DEF n
<1>4. /\ \A i \in StopId : i <= n => i \in DOMAIN list
      /\ \A i \in 1 .. n : i \in StopId /\ i <= n
  BY <1>1, <1>3, StopIdFact
<1>5. NoStop.firm = NoFirm /\ IsStop(NoStop)
  BY DEF NoStop, IsStop
<1>6. ASSUME NEW i \in StopId
      PROVE  IsStop(p[i]) /\ (p[i].firm # NoFirm <=> i <= n)
  <2>1. CASE i <= n
    <3>1. p[i] = list[i] /\ i \in DOMAIN list
      BY <1>2, <1>4, <2>1
    <3> QED BY <2>1, <3>1 DEF Named
  <2>2. CASE ~(i <= n)
    <3>1. p[i] = NoStop
      BY <1>2, <2>2
    <3> QED BY <1>5, <2>2, <3>1
  <2> QED BY <2>1, <2>2
<1>7. \A i \in 1 .. n : i \in StopId /\ p[i] = list[i]
  BY <1>2, <1>4
<1> QED BY <1>2, <1>6, <1>7 DEF n, p

\* A world with these stops is in order.
LEMMA GoodPacked ==
    ASSUME NEW T, NEW list \in Seq(T), Len(list) <= MaxStopForCaravan, Named(list),
           Len(list) > 1 => Circle(list, Len(list)),
           NEW v, DOMAIN v = Field, v.stop = Packed(list), v.stop_defined_num = Len(list),
           IF Len(list) = 0 THEN v.dest = 0 ELSE v.dest \in 1 .. Len(list)
    PROVE  Good(v)
<1> DEFINE n == Len(list)
           p == Packed(list)
<1>1. /\ DOMAIN p = StopId
      /\ \A i \in StopId : IsStop(p[i])
      /\ \A i \in StopId : p[i].firm # NoFirm <=> i <= n
      /\ \A i \in 1 .. n : i \in StopId /\ p[i] = list[i]
  BY PackedFact
<1>2. n \in Nat /\ n <= MaxStopForCaravan
  BY SeqFact
<1> HIDE DEF p
<1>3. v.stop = p /\ v.stop_defined_num = n /\ (IF n = 0 THEN v.dest = 0 ELSE v.dest \in 1 .. n)
  BY DEF p
<1> HIDE DEF n
<1>4. Wide(v)
  <2>1. n \in 0 .. MaxStopForCaravan
    BY <1>2, StopIdFact
  <2> QED BY <1>1, <1>3, <2>1, Zenon DEF Wide
<1>5. ASSUME n > 1, NEW i \in 1 .. n
      PROVE  p[i].firm # p[IF i = n THEN 1 ELSE i + 1].firm
  <2> DEFINE j == IF i = n THEN 1 ELSE i + 1
  <2>1. j \in 1 .. n
    BY <1>2, <1>5
  <2>2. list[i].firm # list[j].firm
    BY <1>5 DEF Circle, n
  <2> HIDE DEF j
  <2>3. p[i] = list[i] /\ p[j] = list[j]
    BY <1>1, <2>1
  <2>4. p[i].firm # p[j].firm
    BY <2>2, <2>3
  <2> QED BY <2>4 DEF j
<1>6. InOrder(v)
  BY <1>1, <1>3, <1>5, Zenon DEF InOrder
<1> QED BY <1>4, <1>6 DEF Good

\* A world without stops is in order.
LEMMA GoodEmpty ==
    ASSUME NEW v, DOMAIN v = Field, v.stop = NoStops, v.stop_defined_num = 0, v.dest = 0
    PROVE  Good(v)
<1>1. /\ DOMAIN v.stop = StopId
      /\ \A i \in StopId : /\ IsStop(v.stop[i])
                           /\ v.stop[i].firm = NoFirm
  BY DEF NoStops, NoStop, IsStop
<1>2. 0 \in 0 .. MaxStopForCaravan /\ ~(0 > 1) /\ \A i \in StopId : ~(i <= 0)
  BY StopIdFact
<1>3. Wide(v)
  BY <1>1, <1>2, Zenon DEF Wide
<1>4. InOrder(v)
  BY <1>1, <1>2, Zenon DEF InOrder
<1> QED BY <1>3, <1>4 DEF Good

LEMMA KeepStopsFact ==
    ASSUME NEW w, Wide(w), NEW T, NEW valid \in Seq(T), Len(valid) <= MaxStopForCaravan,
           Named(valid)
    PROVE  LET v == KeepStops(w, valid, Round(valid), Len(valid))
           IN  Good(v) /\ v.inside = w.inside
<1> DEFINE r == Round(valid)
           count == Len(valid)
           v == KeepStops(w, valid, r, count)
           same == {i \in DOMAIN r : r[i].firm = DestFirm(w)}
<1>1. count \in Nat /\ DOMAIN valid = 1 .. count
  BY SeqFact
<1>2. DOMAIN w = Field
  BY DEF Wide
<1>3. CASE count < 1
  <2>1. count = 0
    BY <1>1, <1>3
  <2>2. v = [w EXCEPT !.stop = NoStops, !.stop_defined_num = count, !.dest = 0]
    BY <1>3 DEF KeepStops
  <2>3. /\ DOMAIN v = Field /\ v.stop = NoStops /\ v.stop_defined_num = 0 /\ v.dest = 0
        /\ v.inside = w.inside
    BY <1>2, <2>1, <2>2 DEF Field
  <2> QED BY <2>3, GoodEmpty
<1>4. CASE count = 1
  <2> DEFINE list == <<Head(valid)>>
  <2>1. v = [w EXCEPT !.stop = Packed(list), !.stop_defined_num = 1, !.dest = 1]
    BY <1>4 DEF KeepStops
  <2>2. Head(valid) = valid[1] /\ valid[1] \in T /\ 1 \in DOMAIN valid
    BY <1>1, <1>4, TailFact, EmptySeq
  <2>3. list \in Seq(T) /\ Len(list) = 1 /\ DOMAIN list = {1} /\ list[1] = valid[1]
    BY <2>2
  <2> HIDE DEF list
  <2>4. Named(list)
    BY <2>2, <2>3 DEF Named
  <2>5. /\ DOMAIN v = Field /\ v.stop = Packed(list) /\ v.stop_defined_num = 1 /\ v.dest = 1
        /\ v.inside = w.inside
    BY <1>2, <2>1 DEF Field
  <2> HIDE DEF v
  <2>6. 1 <= MaxStopForCaravan /\ 1 \in 1 .. 1 /\ ~(1 > 1)
    BY StopIdFact
  <2>7. Good(v)
    BY <2>3, <2>4, <2>5, <2>6, GoodPacked
  <2> QED BY <2>5, <2>7 DEF v
<1>5. CASE count > 1 /\ \A i \in DOMAIN r : ~Ours(w, r[i].firm)
  <2>1. v = [w EXCEPT !.stop = NoStops, !.stop_defined_num = 0, !.dest = 0, !.journey = "on_way"]
    <3>1. ~(count < 1) /\ count # 1
      BY <1>1, <1>5
    <3> QED BY <1>5, <3>1, Zenon DEF KeepStops
  <2>2. /\ DOMAIN v = Field /\ v.stop = NoStops /\ v.stop_defined_num = 0 /\ v.dest = 0
        /\ v.inside = w.inside
    BY <1>2, <2>1 DEF Field
  <2> QED BY <2>2, GoodEmpty
<1>6. CASE count > 1 /\ ~(\A i \in DOMAIN r : ~Ours(w, r[i].firm))
  <2> DEFINE to == IF same # {} THEN Min(same) ELSE Len(r)
  <2>1. /\ r \in Seq(T) /\ Len(r) # 0 /\ Len(r) <= count
        /\ \A k \in DOMAIN r : \E i \in DOMAIN valid : r[k] = valid[i]
        /\ Len(r) > 1 => Circle(r, Len(r))
    BY <1>6, RoundFact
  <2>2. v = [w EXCEPT !.stop = Packed(r), !.stop_defined_num = count - (count - Len(r)),
                      !.dest = to]
    <3>1. ~(count < 1) /\ count # 1
      BY <1>1, <1>6
    <3> QED BY <1>6, <3>1, Zenon DEF KeepStops
  <2>3. Len(r) \in Nat /\ DOMAIN r = 1 .. Len(r) /\ Len(r) <= MaxStopForCaravan
    BY <1>1, <2>1, SeqFact, StopIdFact
  <2>4. to \in 1 .. Len(r)
    <3>1. same # {} => Min(same) \in same
      <4>1. same \in SUBSET Nat
        BY <2>3
      <4> QED BY <4>1, MinIsLeast
    <3>2. same \in SUBSET (1 .. Len(r)) /\ Len(r) \in 1 .. Len(r)
      BY <2>1, <2>3
    <3> HIDE DEF same
    <3> QED BY <3>1, <3>2
  <2> HIDE DEF to
  <2>5. Named(r)
    BY <2>1 DEF Named
  <2> HIDE DEF r, count
  <2>6. count - (count - Len(r)) = Len(r)
    BY <1>1, <2>3
  <2>7. /\ DOMAIN v = Field /\ v.stop = Packed(r) /\ v.stop_defined_num = Len(r) /\ v.dest = to
        /\ v.inside = w.inside
    BY <1>2, <2>2, <2>6 DEF Field
  <2> HIDE DEF v
  <2>8. Good(v)
    BY <2>1, <2>3, <2>4, <2>5, <2>7, GoodPacked
  <2> QED BY <2>7, <2>8 DEF v, r, count
<1>7. count < 1 \/ count = 1 \/ count > 1
  BY <1>1
<1> QED BY <1>3, <1>4, <1>5, <1>6, <1>7

\* update_stop_list puts any list in order whose stops are counted.
LEMMA UpdateStopListFact ==
    ASSUME NEW w, Wide(w), Counted(w)
    PROVE  Good(UpdateStopList(w)) /\ UpdateStopList(w).inside = w.inside
<1> DEFINE valid == ValidStops(w)
           T == {w.stop[i] : i \in StopId}
           n == Cardinality(Defined(w))
<1>1. /\ valid \in Seq(T) /\ Len(valid) <= MaxStopForCaravan
      /\ \A k \in DOMAIN valid : valid[k].firm # NoFirm
  BY ValidStopsFact
<1>2. Named(valid)
  <2>1. \A s \in T : IsStop(s)
    BY DEF Wide
  <2>2. \A k \in DOMAIN valid : valid[k] \in T
    BY <1>1, SeqFact
  <2> HIDE DEF T, valid
  <2> QED BY <1>1, <2>1, <2>2 DEF Named
<1>3. w.stop_defined_num - (n - Len(valid)) = Len(valid)
  <2>1. w.stop_defined_num = n /\ n \in Nat /\ Len(valid) \in Nat
    BY <1>1, SeqFact, StopIdFact DEF Counted, Wide
  <2> HIDE DEF n, valid
  <2> QED BY <2>1
<1>4. UpdateStopList(w) = KeepStops(w, valid, Round(valid), Len(valid))
  BY <1>3, Zenon DEF UpdateStopList
<1> HIDE DEF valid, T
<1> QED BY <1>1, <1>2, <1>4, KeepStopsFact

-----------------------------------------------------------------------------
(* Trade, pick-ups and orders *)

\* Trade has to do with goods only.
LEMMA TradeFact ==
    ASSUME NEW w, DOMAIN w = Field, NEW s, s.firm \in Firm, NEW c
    PROVE  LET v == Trade(w, s, c)
           IN  /\ DOMAIN v = Field /\ v.stop = w.stop /\ v.stop_defined_num = w.stop_defined_num
               /\ v.dest = w.dest /\ SameJourney(w, v)
<1> DEFINE f == s.firm
           Only(v) == /\ DOMAIN v = Field /\ v.stop = w.stop
                      /\ v.stop_defined_num = w.stop_defined_num
                      /\ v.dest = w.dest /\ v.journey = w.journey /\ v.inside = w.inside
<1>1. Only(MarketTrade(w, f, s, c))
  <2> DEFINE Put(cargo, slot) == [w EXCEPT !.cargo = cargo, !.market[f] = slot]
             before == [cargo |-> w.cargo, slot |-> w.market[f], done |-> [g \in Goods |-> "no"],
                        free |-> 0, more |-> TRUE, supplied |-> c.supplied, purse |-> c.purse,
                        ours |-> Ours(w, f), wanted |-> s.goods]
             after == MarketLoad(IF Ours(w, f) THEN MarketUnload(before) ELSE before, s.type)
  <2>1. \A cargo, slot : Only(Put(cargo, slot))
    BY DEF Field
  <2>2. MarketTrade(w, f, s, c) = Put(after.cargo, after.slot)
    BY Zenon DEF MarketTrade
  <2> HIDE DEF Put, after, Only
  <2> QED BY <2>1, <2>2
<1>2. Only(MineTrade(w, f, s))
  <2>1. ASSUME NEW g, NEW n
        PROVE  Only([w EXCEPT !.cargo[g] = @ + n, !.mine[f].stock = @ - n])
    BY DEF Field
  <2>2. Only(w)
    OBVIOUS
  <2> HIDE DEF Only
  <2> QED BY <2>1, <2>2, Zenon DEF MineTrade
<1>3. Only(FactoryTrade(w, f, s, c))
  <2>1. ASSUME NEW r, NEW p, NEW m, NEW n, NEW new
        PROVE  Only([w EXCEPT !.cargo[r] = @ - m, !.cargo[p] = @ + n, !.factory[f] = new])
    BY DEF Field
  <2>2. Only(w)
    OBVIOUS
  <2> HIDE DEF Only
  <2> QED BY <2>1, <2>2, Zenon DEF FactoryTrade
<1>4. Only(w)
  OBVIOUS
<1>5. f \in Market \/ f \in Mine \/ f \in Factory
  BY DEF Firm
<1> HIDE DEF Only
<1>6. Only(Trade(w, s, c))
  <2>1. CASE ~Trades(w, f)
    BY <1>4, <2>1 DEF Trade
  <2>2. CASE Trades(w, f) /\ f \in Market
    <3>1. f \notin Mine /\ f \notin Factory
      BY <2>2, FirmAssumption
    <3>2. Trade(w, s, c) = MarketTrade(w, f, s, c)
      BY <2>2, <3>1 DEF Trade
    <3> QED BY <1>1, <3>2
  <2>3. CASE Trades(w, f) /\ f \in Mine
    <3>1. f \notin Market /\ f \notin Factory
      BY <2>3, FirmAssumption
    <3>2. Trade(w, s, c) = MineTrade(w, f, s)
      BY <2>3, <3>1 DEF Trade
    <3> QED BY <1>2, <3>2
  <2>4. CASE Trades(w, f) /\ f \in Factory
    <3>1. f \notin Market /\ f \notin Mine
      BY <2>4, FirmAssumption
    <3>2. Trade(w, s, c) = FactoryTrade(w, f, s, c)
      BY <2>4, <3>1 DEF Trade
    <3> QED BY <1>3, <3>2
  <2> QED BY <1>5, <2>1, <2>2, <2>3, <2>4
<1> QED BY <1>6 DEF Only, SameJourney

\* What is picked up at a stop does not change the stop.
LEMMA PickUpFact ==
    ASSUME NEW s, IsStop(s), NEW w, NEW g
    PROVE  /\ IsStop(PickUpSetAuto(s)) /\ PickUpSetAuto(s).firm = s.firm
           /\ IsStop(PickUpSetNone(s)) /\ PickUpSetNone(s).firm = s.firm
           /\ IsStop(PickUpToggle(s, g)) /\ PickUpToggle(s, g).firm = s.firm
           /\ IsStop(UpdatePickUp(w, s)) /\ UpdatePickUp(w, s).firm = s.firm
<1> DEFINE Like(t) == IsStop(t) /\ t.firm = s.firm
<1> DEFINE Put(goods, type) == [s EXCEPT !.goods = goods, !.type = type]
<1>1. \A goods, type : Like(Put(goods, type))
  BY DEF IsStop
<1>2. ASSUME NEW goods PROVE Like([s EXCEPT !.goods = goods])
  BY DEF IsStop
<1>3. Like(s)
  OBVIOUS
<1>4. Like(PickUpSetAuto(s)) /\ Like(PickUpSetNone(s))
  BY <1>1 DEF PickUpSetAuto, PickUpSetNone
<1> HIDE DEF Like
<1>5. Like(PickUpToggle(s, g))
  <2>1. CASE g \notin s.goods
    <3>1. PickUpToggle(s, g) = Put(s.goods \cup {g}, g)
      BY <2>1, Zenon DEF PickUpToggle
    <3> HIDE DEF Put
    <3> QED BY <1>1, <3>1
  <2>2. CASE g \in s.goods
    <3> DEFINE rest == s.goods \ {g}
               type == IF s.firm \in Market /\ rest # {} THEN Min(rest) ELSE NoPickUp
    <3>1. PickUpToggle(s, g) = Put(rest, type)
      BY <2>2, Zenon DEF PickUpToggle
    <3> HIDE DEF Put, type, rest
    <3> QED BY <1>1, <3>1
  <2> QED BY <2>1, <2>2
<1>6. Like(UpdatePickUp(w, s))
  <2> DEFINE on == GoodsOf(w, s.firm)
             kept == s.goods \cap on
  <2>1. CASE s.firm \notin Market
    <3>1. UpdatePickUp(w, s) = IF kept = {} THEN PickUpSetNone(s) ELSE s
      BY <2>1, Zenon DEF UpdatePickUp
    <3> QED BY <1>3, <1>4, <3>1
  <2>2. CASE s.firm \in Market /\ on = {}
    <3>1. Cardinality(on) # 1
      BY <2>2, FS_EmptySet
    <3>2. UpdatePickUp(w, s) = PickUpSetNone(s)
      BY <2>2, <3>1, Zenon DEF UpdatePickUp
    <3> QED BY <1>4, <3>2
  <2>3. CASE s.firm \in Market /\ on # {} /\ Cardinality(on) = 1 /\ s.type = AutoPickUp
    <3>1. UpdatePickUp(w, s) = Put(on, Min(on))
      BY <2>3, Zenon DEF UpdatePickUp
    <3> HIDE DEF Put, on
    <3> QED BY <1>1, <3>1
  <2>4. CASE s.firm \in Market /\ on # {} /\ ~(Cardinality(on) = 1 /\ s.type = AutoPickUp)
    <3>1. UpdatePickUp(w, s) = [s EXCEPT !.goods = kept]
      BY <2>4, Zenon DEF UpdatePickUp
    <3> QED BY <1>2, <3>1
  <2> QED BY <2>1, <2>2, <2>3, <2>4
<1> QED BY <1>4, <1>5, <1>6 DEF Like

LEMMA UpdateAllFact ==
    ASSUME NEW w, Wide(w)
    PROVE  SameStops(w, UpdateAllPickUps(w)) /\ SameJourney(w, UpdateAllPickUps(w))
<1> DEFINE new == [i \in StopId |->
                     IF w.stop[i].firm = NoFirm THEN w.stop[i] ELSE UpdatePickUp(w, w.stop[i])]
           v == UpdateAllPickUps(w)
<1>1. v = [w EXCEPT !.stop = new]
  BY DEF UpdateAllPickUps
<1>2. DOMAIN w = Field /\ DOMAIN w.stop = StopId /\ \A i \in StopId : IsStop(w.stop[i])
  BY DEF Wide
<1>3. ASSUME NEW i \in StopId PROVE IsStop(new[i]) /\ new[i].firm = w.stop[i].firm
  <2>1. new[i] = IF w.stop[i].firm = NoFirm THEN w.stop[i] ELSE UpdatePickUp(w, w.stop[i])
    OBVIOUS
  <2>2. IsStop(UpdatePickUp(w, w.stop[i])) /\ UpdatePickUp(w, w.stop[i]).firm = w.stop[i].firm
    BY <1>2, PickUpFact
  <2> HIDE DEF new
  <2> QED BY <1>2, <2>1, <2>2
<1>4. DOMAIN new = StopId
  OBVIOUS
<1> HIDE DEF new, v
<1>5. /\ DOMAIN v = Field /\ v.stop = new /\ v.stop_defined_num = w.stop_defined_num
      /\ v.dest = w.dest /\ v.journey = w.journey /\ v.inside = w.inside
  BY <1>1, <1>2 DEF Field
<1>6. \A i \in StopId : DOMAIN new[i] = DOMAIN w.stop[i]
  BY <1>2, <1>3 DEF IsStop
<1> QED BY <1>2, <1>3, <1>4, <1>5, <1>6 DEF SameStops, SameJourney, v

\* A list to which a stop was added, or put in the place of another.
LEMMA PutFact ==
    ASSUME NEW w, Good(w), NEW id \in StopId, NEW s, IsStop(s), s.firm \in Firm,
           NEW v, v = [w EXCEPT !.stop[id] = s,
                                !.stop_defined_num = IF w.stop[id].firm = NoFirm THEN @ + 1 ELSE @]
    PROVE  Wide(v) /\ Counted(v) /\ SameJourney(w, v)
<1> DEFINE n == w.stop_defined_num
           m == IF w.stop[id].firm = NoFirm THEN n + 1 ELSE n
           list == [w.stop EXCEPT ![id] = s]
<1>1. /\ DOMAIN w = Field /\ DOMAIN w.stop = StopId /\ n \in 0 .. MaxStopForCaravan
      /\ \A i \in StopId : IsStop(w.stop[i])
  BY DEF Good, Wide
<1>2. v = [[w EXCEPT !.stop = list] EXCEPT !.stop_defined_num = m]
  BY <1>1 DEF Field
<1>3. DOMAIN list = StopId /\ \A i \in StopId : list[i] = IF i = id THEN s ELSE w.stop[i]
  BY <1>1
<1> HIDE DEF list
<1>4. /\ DOMAIN v = Field /\ v.stop = list /\ v.stop_defined_num = m
      /\ v.journey = w.journey /\ v.inside = w.inside
  BY <1>1, <1>2 DEF Field
<1>5. s.firm # NoFirm
  BY FirmAssumption
<1>6. Defined(v) = Defined(w) \cup {id}
  BY <1>3, <1>4, <1>5 DEF Defined
<1>7. Cardinality(Defined(v)) = m /\ m \in 0 .. MaxStopForCaravan
  <2>1. IsFiniteSet(StopId) /\ Cardinality(StopId) = MaxStopForCaravan
    <3>1. 1 \in Int /\ MaxStopForCaravan \in Int
      BY StopIdFact
    <3>2. /\ IsFiniteSet(1 .. MaxStopForCaravan)
          /\ Cardinality(1 .. MaxStopForCaravan) =
                 IF 1 > MaxStopForCaravan THEN 0 ELSE MaxStopForCaravan - 1 + 1
      BY <3>1, FS_Interval
    <3> QED BY <3>2, StopIdFact
  <2>2. Defined(w) \in SUBSET StopId /\ Defined(v) \in SUBSET StopId
    BY DEF Defined
  <2>3. IsFiniteSet(Defined(w)) /\ Cardinality(Defined(v)) <= MaxStopForCaravan
    BY <2>1, <2>2, FS_Subset
  <2>4. Cardinality(Defined(w)) = n
    BY InOrderCounted DEF Counted
  <2>5. Cardinality(Defined(v)) = IF id \in Defined(w) THEN n ELSE n + 1
    BY <1>6, <2>3, <2>4, FS_AddElement
  <2>6. id \in Defined(w) <=> w.stop[id].firm # NoFirm
    BY DEF Defined
  <2>7. Cardinality(Defined(v)) = m
    BY <2>5, <2>6
  <2>8. m \in Nat
    BY <1>1, StopIdFact
  <2> HIDE DEF m
  <2> QED BY <2>3, <2>7, <2>8
<1> HIDE DEF m
<1>8. Wide(v)
  <2>1. \A i \in StopId : IsStop(list[i])
    BY <1>1, <1>3
  <2> QED BY <1>3, <1>4, <1>7, <2>1 DEF Wide
<1> QED BY <1>4, <1>7, <1>8 DEF Counted, SameJourney

\* A list from which a stop was taken.
LEMMA TakeFact ==
    ASSUME NEW w, Good(w), NEW id \in StopId, w.stop[id].firm # NoFirm,
           NEW v, v = [w EXCEPT !.stop[id] = NoStop, !.stop_defined_num = @ - 1]
    PROVE  Wide(v) /\ Counted(v) /\ SameJourney(w, v)
<1> DEFINE n == w.stop_defined_num
           list == [w.stop EXCEPT ![id] = NoStop]
<1>1. /\ DOMAIN w = Field /\ DOMAIN w.stop = StopId /\ n \in 0 .. MaxStopForCaravan
      /\ \A i \in StopId : IsStop(w.stop[i])
  BY DEF Good, Wide
<1>2. v = [[w EXCEPT !.stop = list] EXCEPT !.stop_defined_num = n - 1]
  BY <1>1 DEF Field
<1>3. DOMAIN list = StopId /\ \A i \in StopId : list[i] = IF i = id THEN NoStop ELSE w.stop[i]
  BY <1>1
<1> HIDE DEF list
<1>4. /\ DOMAIN v = Field /\ v.stop = list /\ v.stop_defined_num = n - 1
      /\ v.journey = w.journey /\ v.inside = w.inside
  BY <1>1, <1>2 DEF Field
<1>5. NoStop.firm = NoFirm /\ IsStop(NoStop)
  BY DEF NoStop, IsStop
<1>6. Defined(v) = Defined(w) \ {id} /\ id \in Defined(w)
  BY <1>3, <1>4, <1>5 DEF Defined
<1>7. Cardinality(Defined(v)) = n - 1 /\ n - 1 \in 0 .. MaxStopForCaravan
  <2>1. IsFiniteSet(Defined(w)) /\ IsFiniteSet(Defined(v))
    <3>1. IsFiniteSet(StopId)
      BY StopIdFact, FS_Interval
    <3>2. Defined(w) \in SUBSET StopId /\ Defined(v) \in SUBSET StopId
      BY DEF Defined
    <3> QED BY <3>1, <3>2, FS_Subset
  <2>2. Cardinality(Defined(w)) = n
    BY InOrderCounted DEF Counted
  <2>3. Cardinality(Defined(v)) = n - 1
    BY <1>6, <2>1, <2>2, FS_RemoveElement
  <2>4. Cardinality(Defined(v)) \in Nat
    BY <2>1, FS_CardinalityType
  <2> QED BY <1>1, <2>3, <2>4, StopIdFact
<1>8. Wide(v)
  <2>1. \A i \in StopId : IsStop(list[i])
    BY <1>1, <1>3, <1>5
  <2> HIDE DEF n
  <2> QED BY <1>3, <1>4, <1>7, <2>1 DEF Wide
<1> QED BY <1>4, <1>7, <1>8 DEF Counted, SameJourney

\* Off to a firm, in another state of the journey.
Off(w, f, journey) == [MoveToFirmSurround(w, f) EXCEPT !.journey = journey]
Mark(w, journey) == [w EXCEPT !.journey = journey]

\* What does not touch the list.
LEMMA MoveFact ==
    ASSUME NEW w, DOMAIN w = Field, NEW f, NEW journey
    PROVE  /\ SameStops(w, StopMoving(w)) /\ SameJourney(w, StopMoving(w))
           /\ SameStops(w, MoveToFirmSurround(w, f)) /\ SameJourney(w, MoveToFirmSurround(w, f))
           /\ SameStops(w, Off(w, f, journey)) /\ Off(w, f, journey).inside = w.inside
           /\ Off(w, f, journey).journey = journey
           /\ SameStops(w, Mark(w, journey)) /\ Mark(w, journey).inside = w.inside
           /\ Mark(w, journey).journey = journey
<1>1. SameStops(w, StopMoving(w)) /\ SameJourney(w, StopMoving(w))
  BY DEF StopMoving, SameStops, SameJourney, Field
<1>2. SameStops(w, MoveToFirmSurround(w, f)) /\ SameJourney(w, MoveToFirmSurround(w, f))
  BY DEF MoveToFirmSurround, SameStops, SameJourney, Field
<1>3. /\ SameStops(w, Off(w, f, journey)) /\ Off(w, f, journey).inside = w.inside
      /\ Off(w, f, journey).journey = journey
  BY DEF MoveToFirmSurround, SameStops, Field, Off
<1>4. /\ SameStops(w, Mark(w, journey)) /\ Mark(w, journey).inside = w.inside
      /\ Mark(w, journey).journey = journey
  BY DEF SameStops, Field, Mark
<1> QED BY <1>1, <1>2, <1>3, <1>4

\* A new stop is at the firm that was clicked.
LEMMA NewStopFact ==
    ASSUME NEW w, NEW f \in Firm
    PROVE  IsStop(NewStop(w, f)) /\ NewStop(w, f).firm = f
<1> DEFINE empty == [firm |-> f, site |-> w.firm[f].site, type |-> 0, goods |-> {}]
           on == GoodsOf(w, f)
<1>1. IsStop(empty) /\ empty.firm = f
  BY DEF IsStop
<1> HIDE DEF empty
<1>2. /\ IsStop(PickUpSetAuto(empty)) /\ PickUpSetAuto(empty).firm = f
      /\ IsStop(PickUpSetNone(empty)) /\ PickUpSetNone(empty).firm = f
      /\ IsStop(PickUpToggle(empty, Min(on))) /\ PickUpToggle(empty, Min(on)).firm = f
  BY <1>1, PickUpFact
<1>3. CASE on = {}
  <2>1. Cardinality(on) # 1
    BY <1>3, FS_EmptySet
  <2>2. NewStop(w, f) = PickUpSetNone(empty)
    BY <1>3, <2>1, Zenon DEF NewStop, empty
  <2> QED BY <1>2, <2>2
<1>4. CASE on # {} /\ Cardinality(on) = 1
  <2>1. NewStop(w, f) = PickUpToggle(empty, Min(on))
    BY <1>4, Zenon DEF NewStop, empty
  <2> QED BY <1>2, <2>1
<1>5. CASE on # {} /\ Cardinality(on) # 1
  <2>1. NewStop(w, f) = PickUpSetAuto(empty)
    BY <1>5, Zenon DEF NewStop, empty
  <2> QED BY <1>2, <2>1
<1> QED BY <1>3, <1>4, <1>5

LEMMA SetStopFact ==
    ASSUME NEW w, Good(w), NEW id \in StopId, NEW f \in Firm
    PROVE  Good(SetStop(w, id, f)) /\ SetStop(w, id, f).inside = w.inside
<1> DEFINE put == [w EXCEPT !.stop[id] = NewStop(w, f),
                            !.stop_defined_num = IF w.stop[id].firm = NoFirm THEN @ + 1 ELSE @]
           u == UpdateStopList(put)
<1>1. IsStop(NewStop(w, f)) /\ NewStop(w, f).firm = f
  BY NewStopFact
<1>2. Wide(put) /\ Counted(put) /\ SameJourney(w, put)
  BY <1>1, PutFact
<1>3. Good(u) /\ u.inside = w.inside
  BY <1>2, UpdateStopListFact DEF SameJourney
<1>4. Good(Redirect(w, u)) /\ Redirect(w, u).inside = u.inside
  <2> HIDE DEF u
  <2>1. DOMAIN u = Field
    BY <1>3 DEF Good, Wide
  <2>2. CASE u.dest = 0
    <3>1. Redirect(w, u) = StopMoving(u)
      BY <2>2, Zenon DEF Redirect
    <3>2. SameStops(u, StopMoving(u)) /\ SameJourney(u, StopMoving(u))
      BY <2>1, MoveFact
    <3> QED BY <1>3, <3>1, <3>2, GoodKept DEF SameJourney
  <2>3. CASE u.dest # 0 /\ DestFirm(u) = DestFirm(w)
    <3>1. Redirect(w, u) = u
      BY <2>3, Zenon DEF Redirect
    <3> QED BY <1>3, <3>1
  <2>4. CASE u.dest # 0 /\ DestFirm(u) # DestFirm(w)
    <3> DEFINE v == Off(u, DestFirm(u), "on_way")
    <3>1. Redirect(w, u) = v
      BY <2>4, Zenon DEF Redirect, Off
    <3>2. SameStops(u, v) /\ v.inside = u.inside
      BY <2>1, MoveFact
    <3> HIDE DEF v
    <3> QED BY <1>3, <3>1, <3>2, GoodKept
  <2> QED BY <2>2, <2>3, <2>4
<1>5. SetStop(w, id, f) = IF ~CanSetStop(w, f) \/ w.stop[id].firm = f THEN w ELSE Redirect(w, u)
  BY Zenon DEF SetStop
<1> HIDE DEF u
<1> QED BY <1>3, <1>4, <1>5

LEMMA DelStopFact ==
    ASSUME NEW w, Good(w), NEW id \in StopId, Remote \/ w.stop[id].firm # NoFirm
    PROVE  Good(DelStop(w, id)) /\ DelStop(w, id).inside = w.inside
<1> DEFINE v == [w EXCEPT !.stop[id] = NoStop, !.stop_defined_num = @ - 1]
<1>1. DelStop(w, id) = IF Remote /\ w.stop[id].firm = NoFirm THEN w ELSE UpdateStopList(v)
  BY DEF DelStop
<1>2. CASE Remote /\ w.stop[id].firm = NoFirm
  BY <1>1, <1>2
<1>3. CASE w.stop[id].firm # NoFirm
  <2>1. Wide(v) /\ Counted(v) /\ SameJourney(w, v)
    BY <1>3, TakeFact
  <2> HIDE DEF v
  <2>2. Good(UpdateStopList(v)) /\ UpdateStopList(v).inside = v.inside
    BY <2>1, UpdateStopListFact
  <2> QED BY <1>1, <1>3, <2>1, <2>2 DEF SameJourney
<1> QED BY <1>2, <1>3

LEMMA SetPickUpFact ==
    ASSUME NEW w, Good(w), NEW id \in StopId, NEW type
    PROVE  Good(SetStopPickUp(w, id, type)) /\ SetStopPickUp(w, id, type).inside = w.inside
<1> DEFINE v == IF Remote /\ type \notin Goods THEN UpdateAllPickUps(w) ELSE w
           s == v.stop[id]
           several == Cardinality(GoodsOf(w, w.stop[id].firm)) > 1
           ready == ~Remote \/ several \/ s.type \in {AutoPickUp, NoPickUp}
           new == CASE type = AutoPickUp /\ ready -> PickUpSetAuto(s)
                    [] type = NoPickUp /\ ready -> PickUpSetNone(s)
                    [] type \in GoodsOf(w, w.stop[id].firm) -> PickUpToggle(s, type)
                    [] OTHER -> s
           gone == \E i \in StopId : w.stop[i].firm # NoFirm /\ Deleted(w, w.stop[i].firm)
           dead == [w EXCEPT !.life = "crashed"]
           changed == [v EXCEPT !.stop[id] = new]
<1>1. Good(v) /\ v.inside = w.inside
  <2>1. SameStops(w, UpdateAllPickUps(w)) /\ SameJourney(w, UpdateAllPickUps(w))
    BY UpdateAllFact DEF Good
  <2>2. Good(UpdateAllPickUps(w)) /\ UpdateAllPickUps(w).inside = w.inside
    BY <2>1, GoodKept DEF SameJourney
  <2> QED BY <2>2
<1>2. SetStopPickUp(w, id, type) \in {w, dead, changed}
  <2>1. SetStopPickUp(w, id, type) =
            CASE Deleted(w, w.stop[id].firm) \/ w.stop_defined_num < id -> w
              [] type \notin Goods /\ Remote /\ gone -> dead
              [] OTHER -> changed
    BY Zenon DEF SetStopPickUp
  <2> HIDE DEF dead, changed, gone
  <2> QED BY <2>1
<1>3. DOMAIN w = Field
  BY DEF Good, Wide
<1>4. Good(dead) /\ dead.inside = w.inside
  <2>1. SameStops(w, dead) /\ dead.inside = w.inside
    BY <1>3 DEF SameStops, Field
  <2> HIDE DEF dead
  <2> QED BY <2>1, GoodKept
<1> HIDE DEF v
<1>5. DOMAIN v = Field /\ DOMAIN v.stop = StopId /\ IsStop(s)
  BY <1>1 DEF Good, Wide
<1>6. IsStop(new) /\ new.firm = s.firm
  <2> DEFINE Like(t) == IsStop(t) /\ t.firm = s.firm
  <2>1. Like(PickUpSetAuto(s)) /\ Like(PickUpSetNone(s)) /\ Like(PickUpToggle(s, type)) /\ Like(s)
    BY <1>5, PickUpFact
  <2>2. new \in {PickUpSetAuto(s), PickUpSetNone(s), PickUpToggle(s, type), s}
    <3> HIDE DEF ready, s
    <3> QED OBVIOUS
  <2> HIDE DEF new, s
  <2> QED BY <2>1, <2>2
<1> HIDE DEF new
<1>7. Good(changed) /\ changed.inside = v.inside
  <2> DEFINE list == [v.stop EXCEPT ![id] = new]
  <2>1. changed = [v EXCEPT !.stop = list]
    OBVIOUS
  <2>2. DOMAIN list = StopId /\ \A i \in StopId : list[i] = IF i = id THEN new ELSE v.stop[i]
    BY <1>5
  <2> HIDE DEF list
  <2>3. DOMAIN changed = Field /\ changed.stop = list /\ changed.dest = v.dest
        /\ changed.stop_defined_num = v.stop_defined_num /\ changed.inside = v.inside
    BY <1>5, <2>1 DEF Field
  <2> HIDE DEF changed
  <2>4. \A i \in StopId : DOMAIN list[i] = DOMAIN v.stop[i] /\ list[i].firm = v.stop[i].firm
    BY <1>5, <1>6, <2>2 DEF IsStop
  <2>5. SameStops(v, changed)
    BY <1>5, <2>2, <2>3, <2>4 DEF SameStops
  <2> QED BY <1>1, <2>3, <2>5, GoodKept
<1> HIDE DEF dead, changed
<1> QED BY <1>1, <1>2, <1>4, <1>7

-----------------------------------------------------------------------------
(* A frame *)

\* A world that can follow w: the list is in order, and a caravan in a firm
\* knows its way if it did before.
Follows(w, v) == Good(v) /\ (KnowsItsWay(w) => KnowsItsWay(v))

LEMMA SameIsNext ==
    ASSUME NEW w, Good(w), NEW v, SameStops(w, v), SameJourney(w, v) PROVE Follows(w, v)
BY GoodKept, WayKept DEF Follows

LEMMA OutsideIsNext ==
    ASSUME NEW w, NEW v, Good(v), Visible(v) PROVE Follows(w, v)
BY DEF Follows, KnowsItsWay

\* The same list with the caravan on the map.
LEMMA OutIsNext ==
    ASSUME NEW w, Good(w), NEW v, SameStops(w, v), Visible(v) PROVE Follows(w, v)
BY GoodKept, OutsideIsNext

\* A caravan in a firm is on a round, if it knows its way.
LEMMA ShortIsNext ==
    ASSUME NEW w, w.stop_defined_num \in {0, 1} \/ w.journey # "inside",
           NEW v, Good(v), v.inside = w.inside
    PROVE  Follows(w, v)
<1>1. ~(1 > 1) /\ ~(0 > 1)
  OBVIOUS
<1>2. KnowsItsWay(w) => Visible(w)
  BY <1>1 DEF KnowsItsWay
<1> QED BY <1>2 DEF Follows, KnowsItsWay, Visible

LEMMA NoStopLeftFact ==
    ASSUME NEW w, Good(w), w.stop_defined_num = 0 PROVE Follows(w, NoStopLeft(w))
<1> DEFINE u == IF w.journey = "none" THEN w ELSE StopMoving(w)
<1>1. DOMAIN w = Field
  BY DEF Good, Wide
<1>2. Good(u) /\ u.inside = w.inside
  <2>1. SameStops(w, StopMoving(w)) /\ SameJourney(w, StopMoving(w))
    BY <1>1, MoveFact
  <2>2. Good(StopMoving(w)) /\ StopMoving(w).inside = w.inside
    BY <2>1, GoodKept DEF SameJourney
  <2> QED BY <2>2
<1>3. NoStopLeft(w) = Mark(u, "none")
  BY DEF NoStopLeft, Mark
<1> HIDE DEF u
<1>4. SameStops(u, Mark(u, "none")) /\ Mark(u, "none").inside = u.inside
  BY <1>2, MoveFact DEF Good, Wide
<1> QED BY <1>2, <1>3, <1>4, GoodKept, ShortIsNext

LEMMA OneStopFact ==
    ASSUME NEW w, Good(w), w.stop_defined_num = 1, NEW c PROVE Follows(w, OneStop(w, c))
<1> DEFINE s == w.stop[1]
           f == s.firm
           near == Mark(w, "surround")
           up == UpdateStopList(w)
           waits == [near EXCEPT !.wait = @ - 1]
           traded == Trade(near, PickUpSetNone(s), c)
           trades == [traded EXCEPT !.wait = WaitTerm * WaitFactor]
           off == MoveToFirmSurround(w, f)
<1>1. DOMAIN w = Field /\ IsStop(s) /\ f # NoFirm
  <2>1. 1 \in StopId /\ 1 <= 1
    BY StopIdFact
  <2> QED BY <2>1 DEF Good, Wide, InOrder
<1>2. Good(up) /\ up.inside = w.inside
  BY InOrderCounted, UpdateStopListFact DEF Good
<1>3. Good(off) /\ off.inside = w.inside
  BY <1>1, MoveFact, GoodKept DEF SameJourney
<1>4. \A journey : Good(Mark(w, journey)) /\ Mark(w, journey).inside = w.inside
  BY <1>1, MoveFact, GoodKept
<1> HIDE DEF near
<1>5. Good(near) /\ near.inside = w.inside /\ DOMAIN near = Field
  BY <1>4 DEF near, Good, Wide
<1>6. Good(waits) /\ waits.inside = w.inside
  <2>1. SameStops(near, waits) /\ waits.inside = near.inside
    BY <1>5 DEF SameStops, Field
  <2> HIDE DEF waits
  <2> QED BY <1>5, <2>1, GoodKept
<1>7. Good(trades) /\ trades.inside = w.inside
  <2>1. PickUpSetNone(s).firm \in Firm
    BY <1>1, PickUpFact DEF IsStop
  <2>2. /\ DOMAIN traded = Field /\ traded.stop = near.stop /\ traded.dest = near.dest
        /\ traded.stop_defined_num = near.stop_defined_num /\ traded.inside = near.inside
    BY <1>5, <2>1, TradeFact DEF SameJourney
  <2> HIDE DEF traded
  <2>3. SameStops(near, trades) /\ trades.inside = near.inside
    BY <1>5, <2>2 DEF SameStops, Field
  <2> HIDE DEF trades
  <2> QED BY <1>5, <2>3, GoodKept
<1>8. OneStop(w, c) \in {up, Mark(w, "on_way"), off, near, waits, trades}
  <2>1. CASE Deleted(w, f)
    BY <2>1, Zenon DEF OneStop
  <2>2. CASE ~Deleted(w, f) /\ w.firm[f].site # s.site
    BY <2>2, Zenon DEF OneStop
  <2>3. CASE ~Deleted(w, f) /\ ~(w.firm[f].site # s.site)
    <3>1. OneStop(w, c) =
              CASE w.place # f /\ w.moving -> Mark(w, "on_way")
                [] w.place # f /\ ~w.moving -> off
                [] w.place = f /\ ~Trades(w, f) -> near
                [] w.place = f /\ Trades(w, f) -> IF w.wait > 0 THEN waits ELSE trades
      BY <2>3, Zenon DEF OneStop, Mark, near
    <3> HIDE DEF off, waits, trades, up, f
    <3> QED BY <3>1
  <2> QED BY <2>1, <2>2, <2>3
<1> HIDE DEF up, off, waits, trades
<1>9. Good(OneStop(w, c)) /\ OneStop(w, c).inside = w.inside
  BY <1>2, <1>3, <1>4, <1>5, <1>6, <1>7, <1>8
<1> QED BY <1>9, ShortIsNext

\* GetNextStopId gives a stop of the list, or none if there is none.
LEMMA GetNextFact ==
    ASSUME NEW w, Good(w), NEW cur, cur \in 1 .. w.stop_defined_num
    PROVE  LET next == GetNextStopId(w, cur)
           IN  /\ Good(next.world) /\ next.world.inside = w.inside
               /\ IF next.world.stop_defined_num = 0 THEN next.id = 0
                  ELSE next.id \in 1 .. next.world.stop_defined_num
<1> DEFINE n == w.stop_defined_num
           to == IF cur >= n THEN 1 ELSE cur + 1
           u == UpdateStopList(w)
           f == w.stop[cur].firm
           m == u.stop_defined_num
           same == {i \in 1 .. m : u.stop[i].firm = f}
           id == StopAfter(u, f)
<1>1. n \in Nat /\ n # 0 /\ to \in 1 .. n
  <2>1. n \in Nat
    BY StopIdFact DEF Good, Wide
  <2> HIDE DEF n
  <2>2. cur \in 1 .. n
    BY DEF n
  <2> QED BY <2>1, <2>2
<1>2. Good(u) /\ u.inside = w.inside
  BY InOrderCounted, UpdateStopListFact DEF Good
<1>3. IF m = 0 THEN id = 0 ELSE id \in 1 .. m
  <2>1. m \in Nat
    BY <1>2, StopIdFact DEF Good, Wide
  <2>2. id = CASE m = 0 -> 0
               [] m > 0 /\ same # {} /\ Min(same) < m -> Min(same) + 1
               [] OTHER -> 1
    BY Zenon DEF StopAfter
  <2>3. same # {} => Min(same) \in 1 .. m
    <3>1. same \in SUBSET Nat /\ same \in SUBSET (1 .. m)
      BY <2>1
    <3> HIDE DEF same
    <3>2. same # {} => Min(same) \in same
      BY <3>1, MinIsLeast
    <3> QED BY <3>1, <3>2
  <2> HIDE DEF same, m, id
  <2>4. CASE m = 0
    BY <2>2, <2>4
  <2>5. CASE m # 0 /\ same # {} /\ Min(same) < m
    <3>1. id = Min(same) + 1
      BY <2>1, <2>2, <2>5
    <3> QED BY <2>1, <2>3, <2>5, <3>1
  <2>6. CASE m # 0 /\ ~(same # {} /\ Min(same) < m)
    <3>1. id = 1
      BY <2>1, <2>2, <2>6
    <3> QED BY <2>1, <2>6, <3>1
  <2> QED BY <2>4, <2>5, <2>6
<1>4. GetNextStopId(w, cur) = IF Valid(w, w.stop[to]) THEN [world |-> w, id |-> to]
                              ELSE [world |-> u, id |-> id]
  BY Zenon DEF GetNextStopId
<1> HIDE DEF u, id, to
<1> QED BY <1>1, <1>2, <1>3, <1>4 DEF m

LEMMA GoOnFact ==
    ASSUME NEW next, Good(next.world), Visible(next.world),
           IF next.world.stop_defined_num = 0 THEN next.id = 0
           ELSE next.id \in 1 .. next.world.stop_defined_num
    PROVE  Good(GoOn(next)) /\ Visible(GoOn(next))
<1> DEFINE u == next.world
           n == u.stop_defined_num
           v == [u EXCEPT !.dest = next.id]
<1>1. /\ DOMAIN u = Field /\ n \in Nat
      /\ IF n = 0 THEN next.id = 0 ELSE next.id \in 1 .. n
  BY StopIdFact DEF Good, Wide
<1>2. /\ DOMAIN v = Field /\ v.stop = u.stop /\ v.stop_defined_num = n /\ v.dest = next.id
      /\ v.inside = u.inside
  BY <1>1 DEF Field
<1> HIDE DEF v
<1>3. Good(v) /\ Visible(v)
  <2>1. Wide(v)
    BY <1>2 DEF Good, Wide
  <2>2. InOrder(v)
    BY <1>1, <1>2, Zenon DEF Good, InOrder
  <2> QED BY <1>2, <2>1, <2>2 DEF Good, Visible
<1>4. \A journey : Good(Mark(v, journey)) /\ Mark(v, journey).inside = v.inside
  BY <1>2, <1>3, MoveFact, GoodKept
<1>5. \A f, journey : Good(Off(v, f, journey)) /\ Off(v, f, journey).inside = v.inside
  BY <1>2, <1>3, MoveFact, GoodKept
<1>6. GoOn(next) = CASE next.id = 0 -> Mark(v, "none")
                     [] next.id # 0 /\ next.id = next.world.dest -> Mark(v, "surround")
                     [] OTHER -> Off(v, DestFirm(v), "on_way")
  BY Zenon DEF GoOn, Mark, Off, v
<1>7. GoOn(next) \in {Mark(v, "none"), Mark(v, "surround"), Off(v, DestFirm(v), "on_way")}
  BY <1>6
<1> QED BY <1>3, <1>4, <1>5, <1>7 DEF Visible

LEMMA InFirmFact ==
    ASSUME NEW w, Good(w), w.stop_defined_num > 1, NEW c
    PROVE  Follows(w, CaravanInFirm(w, c))
<1> DEFINE at == IF c.blocked = "door" THEN w.inside ELSE w.door
           out == [w EXCEPT !.inside = NoFirm, !.place = at, !.goal = at, !.moving = FALSE]
           dead == [w EXCEPT !.life = "dead"]
           waits == [w EXCEPT !.wait = @ - 1]
           again == [w EXCEPT !.wait = WaitTerm * WaitFactor]
           next == GetNextStopId(out, w.dest)
<1>1. DOMAIN w = Field /\ w.dest \in 1 .. w.stop_defined_num
  <2>1. w.stop_defined_num # 0
    OBVIOUS
  <2> QED BY <2>1 DEF Good, Wide, InOrder
<1>2. Follows(w, dead) /\ Follows(w, waits) /\ Follows(w, again)
  <2>1. SameStops(w, dead) /\ SameJourney(w, dead)
    BY <1>1 DEF SameStops, SameJourney, Field
  <2>2. SameStops(w, waits) /\ SameJourney(w, waits)
    BY <1>1 DEF SameStops, SameJourney, Field
  <2>3. SameStops(w, again) /\ SameJourney(w, again)
    BY <1>1 DEF SameStops, SameJourney, Field
  <2> HIDE DEF dead, waits, again
  <2> QED BY <2>1, <2>2, <2>3, SameIsNext
<1>3. SameStops(w, out) /\ out.inside = NoFirm
  BY <1>1 DEF SameStops, Field
<1>4. CaravanInFirm(w, c) \in {dead, waits, again, GoOn(next)}
  <2>1. CASE Deleted(w, w.inside)
    BY <2>1, Zenon DEF CaravanInFirm
  <2>2. CASE ~Deleted(w, w.inside) /\ w.wait > 0
    BY <2>2, Zenon DEF CaravanInFirm
  <2>3. CASE ~Deleted(w, w.inside) /\ ~(w.wait > 0)
    <3>1. CaravanInFirm(w, c) = IF c.blocked = "all" THEN again ELSE GoOn(next)
      BY <2>3, Zenon DEF CaravanInFirm
    <3> HIDE DEF again, next
    <3> QED BY <3>1
  <2> QED BY <2>1, <2>2, <2>3
<1> HIDE DEF out, dead, waits, again
<1>5. Good(out) /\ out.stop_defined_num = w.stop_defined_num
  BY <1>3, GoodKept DEF SameStops
<1>6. Follows(w, GoOn(next))
  <2>1. /\ Good(next.world) /\ next.world.inside = out.inside
        /\ IF next.world.stop_defined_num = 0 THEN next.id = 0
           ELSE next.id \in 1 .. next.world.stop_defined_num
    BY <1>1, <1>5, GetNextFact
  <2> HIDE DEF next
  <2>2. Good(GoOn(next)) /\ Visible(GoOn(next))
    BY <1>3, <2>1, GoOnFact DEF Visible
  <2> QED BY <2>2, OutsideIsNext
<1> QED BY <1>2, <1>4, <1>6

\* A caravan enters the firm that is its destination.
LEMMA EnterFact ==
    ASSUME NEW w, Good(w), w.stop_defined_num > 1, DestFirm(w) # NoFirm, NEW c
    PROVE  Good(EnterFirm(w, c)) /\ KnowsItsWay(EnterFirm(w, c))
<1> DEFINE d == w.dest
           n == w.stop_defined_num
           s == UpdatePickUp(w, w.stop[d])
           list == [w.stop EXCEPT ![d] = s]
           u == [w EXCEPT !.stop = list]
           t == Trade(u, s, c)
           v == EnterFirm(w, c)
<1>1. DOMAIN w = Field /\ DOMAIN w.stop = StopId /\ n \in 0 .. MaxStopForCaravan /\ n # 0
      /\ \A i \in StopId : IsStop(w.stop[i])
  BY DEF Good, Wide
<1>2. d \in StopId /\ d # 0
  <2>1. d \in 1 .. n
    BY <1>1 DEF Good, InOrder
  <2> HIDE DEF d, n
  <2> QED BY <1>1, <2>1, StopIdFact
<1>3. IsStop(s) /\ s.firm = w.stop[d].firm
  BY <1>1, <1>2, PickUpFact
<1>4. s.firm = DestFirm(w) /\ s.firm \in Firm
  BY <1>2, <1>3 DEF DestFirm, IsStop
<1> HIDE DEF s
<1>5. DOMAIN list = StopId /\ \A i \in StopId : list[i] = IF i = d THEN s ELSE w.stop[i]
  BY <1>1
<1> HIDE DEF list
<1>6. /\ DOMAIN u = Field /\ u.stop = list /\ u.stop_defined_num = n /\ u.dest = d
  BY <1>1 DEF Field
<1>7. v = [t EXCEPT !.inside = s.firm, !.door = w.goal, !.wait = WaitTerm, !.moving = FALSE,
                    !.journey = "inside"]
  <2>1. u = [w EXCEPT !.stop[w.dest] = s]
    BY DEF list
  <2> QED BY <2>1, Zenon DEF EnterFirm, s
<1> HIDE DEF u
<1>8. DOMAIN t = Field /\ t.stop = list /\ t.stop_defined_num = n /\ t.dest = d
  BY <1>4, <1>6, TradeFact
<1> HIDE DEF t, v, d, n
<1>9. /\ DOMAIN v = Field /\ v.stop = list /\ v.stop_defined_num = n /\ v.dest = d
      /\ v.inside = s.firm /\ v.journey = "inside"
  BY <1>7, <1>8 DEF Field
<1>10. \A i \in StopId : DOMAIN list[i] = DOMAIN w.stop[i] /\ list[i].firm = w.stop[i].firm
  BY <1>1, <1>3, <1>5 DEF IsStop
<1>11. Good(v)
  <2>1. SameStops(w, v)
    BY <1>1, <1>5, <1>9, <1>10 DEF SameStops, d, n
  <2> QED BY <2>1, GoodKept
<1>12. KnowsItsWay(v)
  <2>1. DestFirm(v) = s.firm
    BY <1>2, <1>3, <1>5, <1>9 DEF DestFirm
  <2> QED BY <1>9, <2>1 DEF KnowsItsWay, n
<1> QED BY <1>11, <1>12 DEF v

LEMMA OnWayFact ==
    ASSUME NEW w, Good(w), w.stop_defined_num > 1, w.journey # "inside", NEW c
    PROVE  Follows(w, CaravanOnWay(w, c))
<1> DEFINE f == DestFirm(w)
           idle == ~w.moving /\ w.journey # "surround"
           here == w.journey = "surround" \/ (w.place = w.goal /\ w.place = f)
           u == UpdateStopList(w)
           off == Off(w, f, IF w.place = f THEN "surround" ELSE w.journey)
           on == MoveToFirmSurround(u, u.stop[u.stop_defined_num].firm)
<1>1. DOMAIN w = Field
  BY DEF Good, Wide
<1>2. Good(u) /\ u.inside = w.inside
  BY InOrderCounted, UpdateStopListFact DEF Good
<1>3. Good(off) /\ off.inside = w.inside
  BY <1>1, MoveFact, GoodKept
<1> HIDE DEF u
<1>4. Good(on) /\ on.inside = w.inside
  <2>1. DOMAIN u = Field
    BY <1>2 DEF Good, Wide
  <2> QED BY <1>2, <2>1, MoveFact, GoodKept DEF SameJourney
<1>5. CASE ~Deleted(w, f) /\ idle
  <2>1. CaravanOnWay(w, c) = off
    <3>1. CaravanOnWay(w, c) =
            [MoveToFirmSurround(w, f) EXCEPT !.journey = IF w.place = f THEN "surround" ELSE @]
      BY <1>5, Zenon DEF CaravanOnWay
    <3>2. MoveToFirmSurround(w, f).journey = w.journey
      BY <1>1, MoveFact DEF SameJourney
    <3> QED BY <3>1, <3>2 DEF Off
  <2> HIDE DEF off
  <2> QED BY <1>3, <2>1, ShortIsNext
<1>6. CASE ~Deleted(w, f) /\ ~idle
  <2>1. CaravanOnWay(w, c) = IF here THEN EnterFirm(w, c) ELSE w
    BY <1>6, Zenon DEF CaravanOnWay
  <2>2. f # NoFirm
    BY <1>6 DEF Deleted
  <2> HIDE DEF here, f
  <2>3. Good(EnterFirm(w, c)) /\ KnowsItsWay(EnterFirm(w, c))
    BY <2>2, EnterFact DEF f
  <2> QED BY <2>1, <2>3 DEF Follows
<1>7. CASE Deleted(w, f)
  <2>1. CaravanOnWay(w, c) = IF u.stop_defined_num = 0 THEN u ELSE on
    BY <1>7, Zenon DEF CaravanOnWay, u
  <2> HIDE DEF on
  <2>2. Good(CaravanOnWay(w, c)) /\ CaravanOnWay(w, c).inside = w.inside
    BY <1>2, <1>4, <2>1
  <2> QED BY <2>2, ShortIsNext
<1> QED BY <1>5, <1>6, <1>7

LEMMA PreProcessFact ==
    ASSUME NEW w, Good(w), NEW c PROVE Follows(w, PreProcess(w, c))
<1> DEFINE n == w.stop_defined_num
<1>1. n \in Nat
  BY StopIdFact DEF Good, Wide
<1>2. CASE n = 0
  <2>1. PreProcess(w, c) = NoStopLeft(w)
    <3>1. n # 1 /\ ~(n > 1)
      BY <1>2
    <3> QED BY <1>2, <3>1 DEF PreProcess
  <2> QED BY <1>2, <2>1, NoStopLeftFact
<1>3. CASE n = 1
  <2>1. PreProcess(w, c) = OneStop(w, c)
    BY <1>3 DEF PreProcess
  <2> QED BY <1>3, <2>1, OneStopFact
<1>4. CASE n > 1 /\ w.journey = "inside"
  <2>1. PreProcess(w, c) = CaravanInFirm(w, c)
    <3>1. n # 0 /\ n # 1
      BY <1>1, <1>4
    <3> QED BY <1>4, <3>1, Zenon DEF PreProcess
  <2> QED BY <1>4, <2>1, InFirmFact
<1>5. CASE n > 1 /\ w.journey # "inside"
  <2>1. PreProcess(w, c) = CaravanOnWay(w, c)
    <3>1. n # 0 /\ n # 1
      BY <1>1, <1>5
    <3> QED BY <1>5, <3>1, Zenon DEF PreProcess
  <2> QED BY <1>5, <2>1, OnWayFact
<1> QED BY <1>1, <1>2, <1>3, <1>4, <1>5

LEMMA MoveOnFact ==
    ASSUME NEW w, Good(w), NEW c, c.move \in {"on", "arrives", "blocked"}
    PROVE  Follows(w, MoveOn(w, c))
<1> DEFINE stops == [w EXCEPT !.moving = FALSE]
           road == [w EXCEPT !.place = Road]
           there == [w EXCEPT !.place = w.goal]
<1>1. DOMAIN w = Field
  BY DEF Good, Wide
<1>2. Follows(w, w) /\ Follows(w, stops) /\ Follows(w, road) /\ Follows(w, there)
  <2>1. SameStops(w, w) /\ SameJourney(w, w)
    BY DEF SameStops, SameJourney
  <2>2. SameStops(w, stops) /\ SameJourney(w, stops)
    BY <1>1 DEF SameStops, SameJourney, Field
  <2>3. SameStops(w, road) /\ SameJourney(w, road)
    BY <1>1 DEF SameStops, SameJourney, Field
  <2>4. SameStops(w, there) /\ SameJourney(w, there)
    BY <1>1 DEF SameStops, SameJourney, Field
  <2> HIDE DEF stops, road, there
  <2> QED BY <2>1, <2>2, <2>3, <2>4, SameIsNext
<1>3. Follows(w, StopMoving(w))
  BY <1>1, MoveFact, SameIsNext
<1>4. MoveOn(w, c) \in {w, stops, road, there, StopMoving(w)}
  <2>1. CASE ~Visible(w) \/ ~w.moving
    BY <2>1, Zenon DEF MoveOn
  <2>2. CASE ~(~Visible(w) \/ ~w.moving) /\ w.place = w.goal
    BY <2>2, Zenon DEF MoveOn
  <2>3. CASE ~(~Visible(w) \/ ~w.moving) /\ w.place # w.goal
    <3>1. MoveOn(w, c) = CASE c.move = "on" -> road
                           [] c.move = "arrives" -> there
                           [] c.move = "blocked" -> StopMoving(w)
      BY <2>3, Zenon DEF MoveOn
    <3> HIDE DEF road, there
    <3> QED BY <3>1
  <2> QED BY <2>1, <2>2, <2>3
<1> QED BY <1>2, <1>3, <1>4

LEMMA FrameFact ==
    ASSUME NEW w, Good(w), NEW c \in Circumstances(w)
    PROVE  Follows(w, MoveOn(PreProcess(w, c), c))
<1>1. c.move \in {"on", "arrives", "blocked"}
  <2>1. c.move \in IF Visible(w) THEN {"on", "arrives", "blocked"} ELSE {"on"}
    BY DEF Circumstances
  <2> QED BY <2>1
<1> DEFINE v == PreProcess(w, c)
<1>2. Follows(w, v)
  BY PreProcessFact
<1> HIDE DEF v
<1>3. Follows(v, MoveOn(v, c))
  BY <1>1, <1>2, MoveOnFact DEF Follows
<1>4. Follows(w, MoveOn(v, c))
  BY <1>2, <1>3 DEF Follows
<1> QED BY <1>4 DEF v

\* The list brought up to date for display.
LEMMA RefreshFact ==
    ASSUME NEW w, Good(w)
    PROVE  LET v == UpdateAllPickUps(UpdateStopList(w))
           IN  Good(v) /\ v.inside = w.inside
<1> DEFINE u == UpdateStopList(w)
           v == UpdateAllPickUps(u)
<1>1. Wide(w) /\ Counted(w)
  BY InOrderCounted DEF Good
<1>2. Good(u) /\ u.inside = w.inside
  BY <1>1, UpdateStopListFact
<1> HIDE DEF u
<1>3. SameStops(u, v) /\ SameJourney(u, v)
  BY <1>2, UpdateAllFact DEF Good
<1> HIDE DEF v
<1>4. Good(v) /\ v.inside = w.inside
  BY <1>2, <1>3, GoodKept DEF SameJourney
<1> QED BY <1>4 DEF u, v

-----------------------------------------------------------------------------
(* Orders *)

\* What an order says.  A stop that is to be taken away need not be there any
\* more, unless the order is executed at once.
IsOrder(o) ==
    /\ o.kind \in {"set", "del", "goods"} /\ o.id \in StopId
    /\ o.kind = "set" => o.firm \in Firm

LEMMA ClicksFact ==
    ASSUME NEW w, Good(w), NEW o \in Clicks(w)
    PROVE  IsOrder(o) /\ (o.kind = "del" => w.stop[o.id].firm # NoFirm)
<1> DEFINE n == w.stop_defined_num
<1>1. \A i \in 1 .. n : i \in StopId /\ w.stop[i].firm # NoFirm
  BY StopIdFact DEF Good, Wide, InOrder
<1> HIDE DEF n
<1> DEFINE Buttons(f) == GoodsOf(w, f) \cup
                           IF Cardinality(GoodsOf(w, f)) > 1 THEN {AutoPickUp, NoPickUp} ELSE {}
           Button(i) == {[kind |-> "goods", id |-> i, type |-> g] : g \in Buttons(w.stop[i].firm)}
           there == {i \in 1 .. n : ~Deleted(w, w.stop[i].firm)}
           set == {[kind |-> "set", id |-> i, firm |-> f, site |-> w.firm[f].site] :
                     i \in StopId, f \in {g \in Firm : CanSetStop(w, g)}}
           del == {[kind |-> "del", id |-> i, firm |-> w.stop[i].firm] : i \in 1 .. n}
<1>2. o \in set \cup del \cup UNION {Button(i) : i \in there}
  <2>1. Clicks(w) = set \cup del \cup UNION {Button(i) : i \in there}
    BY DEF Clicks, n
  <2> HIDE DEF set, del, Button, there
  <2> QED BY <2>1
<1>3. ASSUME o \in set PROVE IsOrder(o) /\ o.kind = "set"
  BY <1>3 DEF IsOrder
<1>4. ASSUME o \in del PROVE IsOrder(o) /\ o.kind = "del" /\ o.id \in 1 .. n
  BY <1>1, <1>4 DEF IsOrder
<1>5. ASSUME NEW i \in there, o \in Button(i) PROVE IsOrder(o) /\ o.kind = "goods"
  <2>1. i \in StopId
    BY <1>1
  <2>2. PICK g \in Buttons(w.stop[i].firm) : o = [kind |-> "goods", id |-> i, type |-> g]
    BY <1>5
  <2> QED BY <2>1, <2>2 DEF IsOrder
<1> HIDE DEF set, del, Button, there
<1>6. CASE o \in set
  BY <1>3, <1>6
<1>7. CASE o \in del
  BY <1>1, <1>4, <1>7
<1>8. CASE o \in UNION {Button(i) : i \in there}
  <2>1. PICK i \in there : o \in Button(i)
    BY <1>8
  <2> QED BY <1>5, <2>1
<1> QED BY <1>2, <1>6, <1>7, <1>8

LEMMA ExecuteFact ==
    ASSUME NEW w, Good(w), NEW o, IsOrder(o),
           Remote \/ (o.kind = "del" => w.stop[o.id].firm # NoFirm)
    PROVE  Follows(w, Execute(w, o))
<1> DEFINE v == Execute(w, o)
<1>1. CASE ~Visible(w)
  <2>1. v = w
    BY <1>1 DEF Execute
  <2> QED BY <2>1 DEF Follows
<1>2. CASE Visible(w)
  <2>1. Good(v) /\ v.inside = w.inside
    <3>1. CASE o.kind = "set"
      <4>1. v = IF w.firm[o.firm].site = o.site THEN SetStop(w, o.id, o.firm) ELSE w
        BY <1>2, <3>1 DEF Execute
      <4>2. Good(SetStop(w, o.id, o.firm)) /\ SetStop(w, o.id, o.firm).inside = w.inside
        BY <3>1, SetStopFact DEF IsOrder
      <4> QED BY <4>1, <4>2
    <3>2. CASE o.kind = "del"
      <4>1. v = DelStop(w, o.id)
        BY <1>2, <3>2 DEF Execute
      <4>2. Good(DelStop(w, o.id)) /\ DelStop(w, o.id).inside = w.inside
        BY <3>2, DelStopFact DEF IsOrder
      <4> QED BY <4>1, <4>2
    <3>3. CASE o.kind = "goods"
      <4>1. v = SetStopPickUp(w, o.id, o.type)
        BY <1>2, <3>3 DEF Execute
      <4>2. /\ Good(SetStopPickUp(w, o.id, o.type))
            /\ SetStopPickUp(w, o.id, o.type).inside = w.inside
        BY SetPickUpFact DEF IsOrder
      <4> QED BY <4>1, <4>2
    <3> QED BY <3>1, <3>2, <3>3 DEF IsOrder
  <2>2. Visible(v)
    BY <1>2, <2>1 DEF Visible
  <2> HIDE DEF v
  <2>3. Follows(w, v)
    BY <2>1, <2>2, OutsideIsNext
  <2> QED BY <2>3 DEF v
<1> QED BY <1>1, <1>2

-----------------------------------------------------------------------------
(* What happens to the firms, and to the nations *)

\* The caravan and its list are let alone.
Kept(w, v) ==
    /\ DOMAIN v = Field /\ v.stop = w.stop /\ v.stop_defined_num = w.stop_defined_num
    /\ v.dest = w.dest /\ v.journey = w.journey /\ v.inside = w.inside

LEMMA KeptIsNext ==
    ASSUME NEW w, Good(w), NEW v, Kept(w, v) PROVE Follows(w, v)
<1>1. SameStops(w, v) /\ SameJourney(w, v)
  BY DEF Kept, SameStops, SameJourney, Good, Wide
<1> QED BY <1>1, SameIsNext

LEMMA StockedFact ==
    ASSUME NEW w, DOMAIN w = Field, NEW v PROVE Kept(w, Stocked(w, v))
BY DEF Stocked, Kept, Field

LEMMA ManufactureFact ==
    ASSUME NEW w, DOMAIN w = Field, NEW f, NEW most PROVE Kept(w, Manufacture(w, f, most))
<1> DEFINE Put(n) == [w EXCEPT !.factory[f].raw = @ - n, !.factory[f].stock = @ + n]
           qty == Least(Least(w.factory[f].raw, most), MaxStock - w.factory[f].stock)
<1>1. \A n : Kept(w, Put(n))
  BY DEF Kept, Field
<1>2. Manufacture(w, f, most) = Put(qty)
  BY Zenon DEF Manufacture
<1> HIDE DEF Put, qty
<1> QED BY <1>1, <1>2

LEMMA ProductionFact ==
    ASSUME NEW w, DOMAIN w = Field, NEW f, NEW output, NEW purse, NEW most
    PROVE  Kept(w, Manufacture(InputRaw(w, f, output, purse), f, most))
<1> DEFINE v == InputRaw(w, f, output, purse)
<1>1. Kept(w, v)
  <2> DEFINE u == FoldLeft(RawFrom, [world |-> w, factory |-> f, output |-> output,
                                     purse |-> purse], Linked[f]).world
  <2>1. v = Stocked(w, u)
    BY Zenon DEF InputRaw
  <2> HIDE DEF u, v
  <2> QED BY <2>1, StockedFact
<1> HIDE DEF v
<1>2. Kept(v, Manufacture(v, f, most))
  BY <1>1, ManufactureFact DEF Kept
<1>3. Kept(w, Manufacture(v, f, most))
  BY <1>1, <1>2 DEF Kept
<1> QED BY <1>3 DEF v

LEMMA MarketInputFact ==
    ASSUME NEW w, DOMAIN w = Field, NEW m, NEW from, NEW output
    PROVE  Kept(w, MarketInput(w, m, from, output))
<1> DEFINE t == FoldLeft(InputFrom, [world |-> w, market |-> m, from |-> from, output |-> output,
                                     inputing |-> {}, queued |-> NoFirm], Linked[m])
           empty == {i \in Slot \ t.inputing : t.world.market[m][i].stock = 0}
           v == Stocked(w, t.world)
           Put(i, g) == [v EXCEPT !.market[m][i].good = g]
<1>1. MarketInput(w, m, from, output) = IF t.queued = NoFirm \/ empty = {} THEN v
                                        ELSE Put(Min(empty), GoodOf(w, t.queued))
  BY Zenon DEF MarketInput
<1>2. Kept(w, v)
  <2> HIDE DEF t
  <2> QED BY StockedFact
<1> HIDE DEF t, v
<1>3. \A i, g : Kept(v, Put(i, g))
  BY <1>2 DEF Kept, Field
<1> HIDE DEF Put, empty
<1>4. \A i, g : Kept(w, Put(i, g))
  BY <1>2, <1>3 DEF Kept
<1> QED BY <1>1, <1>2, <1>4

\* A step of the firms, their trade with each other, or the treaties.
FirmsStep ==
    \/ MoveOrder \/ CaravanDies
    \/ \E f \in Mine : ProduceRaw(f)
    \/ \E f \in Factory : Production(f) \/ (\E r \in Raw : ChangeProduction(f, r))
    \/ \E f \in Market : \/ InputGoods(f) \/ SellGoods(f) \/ CompleteFirm(f)
                         \/ \E i \in Slot : ClearGoods(f, i)
                         \/ \E n \in Nation, site \in {1, 2} : BuildFirm(f, n, site)
    \/ \E f \in Firm : DelFirm(f) \/ (\E n \in Nation : CaptureFirm(f, n))
    \/ \E n \in Foreign : TreatyBegins(n) \/ TreatyEnds(n)

LEMMA FirmsStepFact ==
    ASSUME DOMAIN world = Field, FirmsStep
    PROVE  Kept(world, world') /\ UNCHANGED orders
<1> DEFINE Firms(w) == world' = w /\ UNCHANGED orders
<1>1. SUFFICES ASSUME TRUE PROVE \E w : Firms(w) /\ Kept(world, w)
  OBVIOUS
<1>2. \A w : (Daily(w) \/ Event(w)) => Firms(w)
  BY DEF Daily, Event
<1> HIDE DEF Firms
<1>3. ASSUME MoveOrder \/ CaravanDies PROVE \E w : Firms(w) /\ Kept(world, w)
  <2>1. Kept(world, [world EXCEPT !.goal = Road, !.moving = TRUE])
    BY DEF Kept, Field
  <2>2. Kept(world, [world EXCEPT !.life = "dead"])
    BY DEF Kept, Field
  <2> QED BY <1>2, <1>3, <2>1, <2>2 DEF MoveOrder, CaravanDies
<1>4. ASSUME NEW f \in Mine, ProduceRaw(f) PROVE \E w : Firms(w) /\ Kept(world, w)
  <2> DEFINE Put(m) == [world EXCEPT !.mine[f] = m]
  <2>1. \A m : Kept(world, Put(m))
    BY DEF Kept, Field
  <2>2. \E m : Daily(Put(m))
    BY <1>4 DEF ProduceRaw
  <2> HIDE DEF Put
  <2> QED BY <1>2, <2>1, <2>2
<1>5. ASSUME NEW f \in Factory, Production(f) PROVE \E w : Firms(w) /\ Kept(world, w)
  <2>1. \E output, purse, most : Daily(Manufacture(InputRaw(world, f, output, purse), f, most))
    BY <1>5 DEF Production
  <2> QED BY <1>2, <2>1, ProductionFact
<1>6. ASSUME NEW f \in Factory, NEW r \in Raw, ChangeProduction(f, r)
      PROVE  \E w : Firms(w) /\ Kept(world, w)
  <2> DEFINE Put(m) == [world EXCEPT !.factory[f] = m]
  <2>1. \A m : Kept(world, Put(m))
    BY DEF Kept, Field
  <2>2. \E m : Event(Put(m))
    BY <1>6 DEF ChangeProduction
  <2> HIDE DEF Put
  <2> QED BY <1>2, <2>1, <2>2
<1>7. ASSUME NEW f \in Market, InputGoods(f) PROVE \E w : Firms(w) /\ Kept(world, w)
  <2>1. \E from, output : Daily(MarketInput(world, f, from, output))
    BY <1>7 DEF InputGoods
  <2> QED BY <1>2, <2>1, MarketInputFact
<1>8. ASSUME NEW f \in Market, SellGoods(f) PROVE \E w : Firms(w) /\ Kept(world, w)
  <2>1. PICK sold : Daily([world EXCEPT !.market[f] =
                             [i \in Slot |-> [world.market[f][i] EXCEPT !.stock = @ - sold[i]]]])
    BY <1>8 DEF SellGoods
  <2>2. Kept(world, [world EXCEPT !.market[f] =
                       [i \in Slot |-> [world.market[f][i] EXCEPT !.stock = @ - sold[i]]]])
    BY DEF Kept, Field
  <2> QED BY <1>2, <2>1, <2>2
<1>9. ASSUME NEW f \in Market, CompleteFirm(f) PROVE \E w : Firms(w) /\ Kept(world, w)
  <2>1. Kept(world, [world EXCEPT !.firm[f].status = "ready"])
    BY DEF Kept, Field
  <2> QED BY <1>2, <1>9, <2>1 DEF CompleteFirm
<1>10. ASSUME NEW f \in Market, NEW i \in Slot, ClearGoods(f, i)
       PROVE  \E w : Firms(w) /\ Kept(world, w)
  <2>1. Kept(world, [world EXCEPT !.market[f][i] = [good |-> 0, stock |-> 0]])
    BY DEF Kept, Field
  <2> QED BY <1>2, <1>10, <2>1 DEF ClearGoods
<1>11. ASSUME NEW f \in Market, NEW n \in Nation, NEW site \in {1, 2}, BuildFirm(f, n, site)
       PROVE  \E w : Firms(w) /\ Kept(world, w)
  <2>1. Kept(world, [world EXCEPT !.firm[f] =
                       [status |-> "building", owner |-> n, site |-> site]])
    BY DEF Kept, Field
  <2> QED BY <1>2, <1>11, <2>1 DEF BuildFirm
<1>12. ASSUME NEW f \in Firm, DelFirm(f) PROVE \E w : Firms(w) /\ Kept(world, w)
  <2> DEFINE Put(market, mine, factory, place, goal, door) ==
                [world EXCEPT !.firm[f].status = "none", !.market = market, !.mine = mine,
                              !.factory = factory, !.place = place, !.goal = goal, !.door = door]
  <2>1. \A market, mine, factory, place, goal, door :
            Kept(world, Put(market, mine, factory, place, goal, door))
    BY DEF Kept, Field
  <2> DEFINE Elsewhere(p) == IF p = f THEN Road ELSE p
             market == IF f \in Market THEN [world.market EXCEPT ![f] = EmptySlots]
                       ELSE world.market
             mine == IF f \in Mine THEN [world.mine EXCEPT ![f] = [stock |-> 0, reserve |-> 0]]
                     ELSE world.mine
             factory == IF f \in Factory THEN [world.factory EXCEPT ![f].raw = 0, ![f].stock = 0]
                        ELSE world.factory
  <2>2. Event(Put(market, mine, factory, Elsewhere(world.place), Elsewhere(world.goal),
                  Elsewhere(world.door)))
    BY <1>12, Zenon DEF DelFirm
  <2> HIDE DEF Put
  <2> QED BY <1>2, <2>1, <2>2
<1>13. ASSUME NEW f \in Firm, NEW n \in Nation, CaptureFirm(f, n)
       PROVE  \E w : Firms(w) /\ Kept(world, w)
  <2>1. Kept(world, [world EXCEPT !.firm[f].owner = n])
    BY DEF Kept, Field
  <2> QED BY <1>2, <1>13, <2>1 DEF CaptureFirm
<1>14. ASSUME NEW n \in Foreign, TreatyBegins(n) \/ TreatyEnds(n)
       PROVE  \E w : Firms(w) /\ Kept(world, w)
  <2>1. /\ Kept(world, [world EXCEPT !.treaty = @ \cup {n}])
        /\ Kept(world, [world EXCEPT !.treaty = @ \ {n}])
    BY DEF Kept, Field
  <2> QED BY <1>2, <1>14, <2>1 DEF TreatyBegins, TreatyEnds
<1> QED BY <1>3, <1>4, <1>5, <1>6, <1>7, <1>8, <1>9, <1>10, <1>11, <1>12, <1>13, <1>14,
           Zenon DEF FirmsStep

-----------------------------------------------------------------------------
(* The invariant *)

\* Orders name places in the list and firms to put there; only in a
\* multiplayer game do they wait.
OrdersOK ==
    /\ \E T : orders \in Seq(T) /\ \A o \in T : IsOrder(o)
    /\ Remote \/ orders = <<>>

\* Without Remote the list of a caravan in a firm is brought up to date as
\* well, and it may lose its way there.
RoundInv == Good(world) /\ OrdersOK /\ (Remote => KnowsItsWay(world))

LEMMA InitRound ==
    ASSUME Init PROVE RoundInv
<1>1. PICK s \in Start : world = s.world /\ orders = <<>>
  BY DEF Init
<1>2. /\ DOMAIN world = Field /\ InOrder(world) /\ KnowsItsWay(world)
      /\ world.stop \in [StopId -> [firm : Firm \cup {NoFirm}, site : {0, 1, 2},
                                    type : 0..NoPickUp, goods : SUBSET Goods]]
      /\ Typed(world)
  BY <1>1, StartAssumption
<1>3. Wide(world)
  <2>1. world.stop_defined_num \in 0..MaxStopForCaravan
    BY <1>2 DEF Typed
  <2> QED BY <1>2, <2>1 DEF Wide, IsStop
<1>4. OrdersOK
  BY <1>1 DEF OrdersOK
<1> QED BY <1>2, <1>3, <1>4 DEF RoundInv, Good

LEMMA GiveOrderFact ==
    ASSUME RoundInv, GiveOrder PROVE OrdersOK' /\ Follows(world, world')
<1>1. PICK o \in Clicks(world) :
          IF Remote THEN orders' = Append(orders, o) /\ UNCHANGED world
          ELSE world' = Execute(world, o) /\ UNCHANGED orders
  BY DEF GiveOrder
<1>2. Good(world) /\ OrdersOK
  BY DEF RoundInv
<1>3. IsOrder(o) /\ (o.kind = "del" => world.stop[o.id].firm # NoFirm)
  BY <1>2, ClicksFact
<1>4. CASE Remote
  <2>1. orders' = Append(orders, o) /\ world' = world
    BY <1>1, <1>4
  <2>2. PICK T : orders \in Seq(T) /\ \A e \in T : IsOrder(e)
    BY <1>2 DEF OrdersOK
  <2> DEFINE U == T \cup {o}
  <2>3. orders \in Seq(U)
    <3>1. \A i \in 1 .. Len(orders) : orders[i] \in U
      BY <2>2, SeqFact
    <3>2. Len(orders) \in Nat /\ orders = [i \in 1 .. Len(orders) |-> orders[i]]
      BY <2>2
    <3> HIDE DEF U
    <3> QED BY <3>1, <3>2
  <2>4. o \in U /\ \A e \in U : IsOrder(e)
    BY <1>3, <2>2
  <2> HIDE DEF U
  <2>5. Append(orders, o) \in Seq(U)
    BY <2>3, <2>4, AppendFact
  <2>6. OrdersOK'
    BY <1>4, <2>1, <2>4, <2>5 DEF OrdersOK
  <2> QED BY <1>2, <2>1, <2>6 DEF Follows
<1>5. CASE ~Remote
  <2>1. world' = Execute(world, o) /\ orders' = orders
    BY <1>1, <1>5
  <2>2. Follows(world, Execute(world, o))
    BY <1>2, <1>3, ExecuteFact
  <2>3. OrdersOK'
    BY <1>2, <2>1 DEF OrdersOK
  <2> QED BY <2>1, <2>2, <2>3
<1> QED BY <1>4, <1>5

LEMMA ExecuteOrderFact ==
    ASSUME RoundInv, ExecuteOrder PROVE OrdersOK' /\ Follows(world, world')
<1>1. orders # <<>> /\ world' = Execute(world, Head(orders)) /\ orders' = Tail(orders)
  BY DEF ExecuteOrder
<1>2. Good(world) /\ Remote
  BY <1>1 DEF RoundInv, OrdersOK
<1>3. PICK T : orders \in Seq(T) /\ \A e \in T : IsOrder(e)
  BY DEF RoundInv, OrdersOK
<1>4. Tail(orders) \in Seq(T) /\ Head(orders) \in T
  BY <1>1, <1>3, TailFact
<1>5. OrdersOK'
  BY <1>1, <1>2, <1>3, <1>4 DEF OrdersOK
<1>6. Follows(world, Execute(world, Head(orders)))
  BY <1>2, <1>3, <1>4, ExecuteFact
<1> QED BY <1>1, <1>5, <1>6

LEMMA NextRound ==
    ASSUME RoundInv, [Next]_vars PROVE RoundInv'
<1>1. Good(world) /\ OrdersOK /\ (Remote => KnowsItsWay(world))
  BY DEF RoundInv
<1>2. ASSUME OrdersOK', Follows(world, world') PROVE RoundInv'
  <2>1. Good(world') /\ (Remote => KnowsItsWay(world'))
    BY <1>1, <1>2 DEF Follows
  <2> QED BY <1>2, <2>1 DEF RoundInv
<1>3. ASSUME UNCHANGED orders PROVE OrdersOK'
  BY <1>1, <1>3 DEF OrdersOK
<1>4. CASE Frame
  <2>1. PICK c \in Circumstances(world) : world' = MoveOn(PreProcess(world, c), c)
    BY <1>4 DEF Frame
  <2>2. Follows(world, world')
    BY <1>1, <2>1, FrameFact
  <2>3. UNCHANGED orders
    BY <1>4 DEF Frame
  <2> QED BY <1>2, <1>3, <2>2, <2>3
<1>5. CASE Refresh
  <2>1. world' = UpdateAllPickUps(UpdateStopList(world)) /\ UNCHANGED orders
    BY <1>5 DEF Refresh
  <2>2. Good(world') /\ world'.inside = world.inside
    BY <1>1, <2>1, RefreshFact
  <2>3. Remote => KnowsItsWay(world')
    BY <1>5, <2>2 DEF Refresh, Visible, KnowsItsWay
  <2> QED BY <1>3, <2>1, <2>2, <2>3 DEF RoundInv
<1>6. CASE GiveOrder
  BY <1>2, <1>6, GiveOrderFact
<1>7. CASE ExecuteOrder
  BY <1>2, <1>7, ExecuteOrderFact
<1>8. CASE FirmsStep
  <2>1. Kept(world, world') /\ UNCHANGED orders
    BY <1>1, <1>8, FirmsStepFact DEF Good, Wide
  <2>2. Follows(world, world')
    BY <1>1, <2>1, KeptIsNext
  <2> QED BY <1>2, <1>3, <2>1, <2>2
<1>9. CASE UNCHANGED vars
  <2>1. world' = world /\ UNCHANGED orders
    BY <1>9 DEF vars
  <2> QED BY <1>1, <1>3, <2>1 DEF RoundInv
<1>10. Next => Frame \/ Refresh \/ GiveOrder \/ ExecuteOrder \/ FirmsStep
  BY Zenon DEF Next, FirmsStep
<1> QED BY <1>4, <1>5, <1>6, <1>7, <1>8, <1>9, <1>10

\* The list is in order and orders name its places, whatever happens.
THEOREM RoundAlways == Spec => []RoundInv
<1>1. Init => RoundInv
  BY InitRound
<1>2. RoundInv /\ [Next]_vars => RoundInv'
  BY NextRound
<1> QED BY <1>1, <1>2, PTL DEF Spec

\* The assertions of update_stop_list hold at all times: the stops are counted,
\* stand at the front of the list, no two neighbours on the round are the same,
\* and the destination is one of them.
THEOREM StopsAlwaysPacked == Spec => []StopsPacked
<1>1. RoundInv => StopsPacked
  BY DEF RoundInv, Good, StopsPacked
<1> QED BY <1>1, RoundAlways, PTL

\* In a multiplayer game a caravan in a firm is on a round, and the firm is its
\* destination, until it comes out (caravan_in_firm).
THEOREM InsideAlwaysKnows == Remote => (Spec => []InsideKnowsItsWay)
<1>1. SUFFICES ASSUME Remote PROVE Spec => []InsideKnowsItsWay
  OBVIOUS
<1>2. RoundInv => InsideKnowsItsWay
  BY <1>1 DEF RoundInv, InsideKnowsItsWay
<1> QED BY <1>2, RoundAlways, PTL

-----------------------------------------------------------------------------
(* Trade, slot by slot *)

LEMMA SlotOrderFact == SlotOrder \in Seq(Slot)
BY NumberAssumption DEF SlotOrder, Slot

\* What unloading at a slot keeps, unloading at all of them keeps.
LEMMA UnloadSlotFold ==
    ASSUME NEW T, NEW base \in T, \A t \in T : \A i \in Slot : UnloadSlot(t, i) \in T
    PROVE  FoldLeft(UnloadSlot, base, SlotOrder) \in T
<1> DEFINE D == DOMAIN SlotOrder
           pick == [s \in SUBSET D |-> Max(s)]
           F == [y \in D \X T |-> UnloadSlot(y[2], SlotOrder[y[1]])]
           Step(g, s) == LET x == Max(s) IN UnloadSlot(g[s \ {x}], SlotOrder[x])
           Right(g) == g = [s \in SUBSET D |-> IF s = {} THEN base ELSE Step(g, s)]
           run == CHOOSE g : Right(g)
<1>1. FoldLeft(UnloadSlot, base, SlotOrder) = run[D]
  BY DEF FoldLeft, MapThenFoldSet
<1>2. IsFiniteSet(D) /\ Picks(D, pick) /\ \A i \in D : SlotOrder[i] \in Slot
  BY SlotOrderFact, MaxPicks, SeqFact
<1>3. F \in [D \X T -> T]
  BY <1>2
<1> HIDE DEF D
<1>4. \A s \in SUBSET D : s # {} => pick[s] = Max(s) /\ Max(s) \in D
  BY <1>2 DEF Picks
<1>5. PICK iter : Folding(D, pick, T, base, F, iter)
  <2> HIDE DEF pick, F
  <2> QED BY <1>2, <1>3, FoldExists
<1>6. Right(iter)
  <2>1. ASSUME NEW s \in SUBSET D PROVE iter[s] = IF s = {} THEN base ELSE Step(iter, s)
    <3>1. CASE s = {}
      BY <1>5, <3>1 DEF Folding
    <3>2. CASE s # {}
      <4> DEFINE x == Max(s)
      <4>1. x \in D /\ pick[s] = x
        BY <1>4, <3>2
      <4> HIDE DEF x
      <4>2. iter[s \ {x}] \in T /\ iter[s] = F[<<x, iter[s \ {x}]>>]
        BY <1>5, <3>2, <4>1 DEF Folding
      <4>3. iter[s] = UnloadSlot(iter[s \ {x}], SlotOrder[x])
        BY <4>1, <4>2
      <4> QED BY <3>2, <4>3 DEF x
    <3> QED BY <3>1, <3>2
  <2>2. DOMAIN iter = SUBSET D
    BY <1>5 DEF Folding
  <2>3. iter = [s \in SUBSET D |-> iter[s]]
    BY <1>5 DEF Folding
  <2> HIDE DEF Step
  <2> QED BY <2>1, <2>3
<1>7. Right(run)
  BY <1>6
<1> HIDE DEF run
<1>8. run[{}] = base /\ \A s \in SUBSET D : s # {} => run[s] = Step(run, s)
  <2> HIDE DEF Step
  <2> QED BY <1>7
<1>9. ASSUME NEW s \in SUBSET D, s # {}, run[s \ {pick[s]}] \in T PROVE run[s] \in T
  <2> DEFINE x == Max(s)
  <2>1. x \in D /\ pick[s] = x /\ run[s] = UnloadSlot(run[s \ {x}], SlotOrder[x])
    BY <1>4, <1>8, <1>9
  <2> HIDE DEF x, pick
  <2> QED BY <1>2, <1>9, <2>1
<1> HIDE DEF Right, pick
<1>10. \A s \in SUBSET D : run[s] \in T
  BY <1>2, <1>8, <1>9, FoldStays
<1> QED BY <1>1, <1>10

-----------------------------------------------------------------------------
(* What there is of a material in slots and cargo *)

Cargoes == [Goods -> 0..MaxCarry]
SlotSet == [Slot -> [good : {0} \cup Goods, stock : 0..MaxStock]]

\* What a slot holds of the material r, and all slots of a market together.
Share(slot, r) ==
    [i \in Slot |-> IF slot[i].good \in {r, r + MaxRaw} THEN slot[i].stock ELSE 0]
\* All of a material in the slots, as raw material and as product; and with the
\* cargo.
OfSlots(slot, r) == SumFunction(Share(slot, r))
HeldIn(cargo, slot, r) == cargo[r] + cargo[r + MaxRaw] + OfSlots(slot, r)

\* Raw materials and products are different goods.
LEMMA GoodsFact ==
    /\ MaxRaw \in Nat \ {0} /\ MaxStock \in Nat \ {0} /\ MaxCarry \in Nat \ {0}
    /\ Goods \in SUBSET (Nat \ {0})
    /\ \A r \in Raw : r \in Goods /\ r + MaxRaw \in Goods /\ r # r + MaxRaw
    /\ IsFiniteSet(Slot) /\ Slot \in SUBSET Nat
<1>1. MaxRaw \in Nat \ {0} /\ MaxStock \in Nat \ {0} /\ MaxCarry \in Nat \ {0}
  BY NumberAssumption
<1>2. IsFiniteSet(Slot) /\ Slot \in SUBSET Nat
  <2>1. MaxMarketGoods \in Int /\ 1 \in Int
    BY NumberAssumption
  <2>2. IsFiniteSet(1 .. MaxMarketGoods)
    BY <2>1, FS_Interval
  <2> QED BY <2>1, <2>2 DEF Slot
<1> QED BY <1>1, <1>2 DEF Goods, Raw, Product

\* What slots hold of a material is a number.
LEMMA ShareFact ==
    ASSUME NEW slot \in SlotSet, NEW r \in Raw
    PROVE  Share(slot, r) \in [Slot -> Int] /\ OfSlots(slot, r) \in Int
<1>1. Share(slot, r) \in [Slot -> Int]
  BY GoodsFact DEF Share, SlotSet
<1> QED BY <1>1, GoodsFact, SumType DEF OfSlots

\* One entry of the cargo, the stock of one slot, and its goods, changed.
Reladen(cargo, g, p) == [cargo EXCEPT ![g] = p]
Restocked(slot, i, q) == [slot EXCEPT ![i].stock = q]
Relabelled(slot, i, g) == [slot EXCEPT ![i] = [good |-> g, stock |-> 0]]

\* A quantity goes from the cargo to a slot of the same goods, or back.
LEMMA ShiftFact ==
    ASSUME NEW cargo \in Cargoes, NEW slot \in SlotSet, SlotsOf(slot),
           NEW i \in Slot, NEW g \in Goods, slot[i].good = g,
           NEW p \in 0..MaxCarry, NEW q \in 0..MaxStock, p + q = cargo[g] + slot[i].stock,
           NEW c, c = Reladen(cargo, g, p), NEW s, s = Restocked(slot, i, q)
    PROVE  /\ c \in Cargoes /\ s \in SlotSet /\ SlotsOf(s)
           /\ \A r \in Raw : HeldIn(c, s, r) = HeldIn(cargo, slot, r)
<1> DEFINE n == q - slot[i].stock
<1>1. c \in Cargoes /\ \A h \in Goods : c[h] = IF h = g THEN cargo[g] - n ELSE cargo[h]
  <2>1. c \in Cargoes /\ \A h \in Goods : c[h] = IF h = g THEN p ELSE cargo[h]
    BY DEF Cargoes, Reladen
  <2>2. cargo[g] \in Int /\ slot[i].stock \in Int /\ p \in Int /\ q \in Int
    BY GoodsFact DEF Cargoes, SlotSet
  <2>3. p = cargo[g] - n
    BY <2>2
  <2> QED BY <2>1, <2>3
<1>2. /\ s \in SlotSet /\ n \in Int
      /\ \A j \in Slot : /\ s[j].good = slot[j].good
                         /\ s[j].stock = IF j = i THEN slot[i].stock + n ELSE slot[j].stock
  <2>1. /\ s \in SlotSet
        /\ \A j \in Slot : /\ s[j].good = slot[j].good
                           /\ s[j].stock = IF j = i THEN q ELSE slot[j].stock
    BY DEF SlotSet, Restocked
  <2>2. slot[i].stock \in Int /\ q \in Int
    BY GoodsFact DEF SlotSet
  <2>3. q = slot[i].stock + n /\ n \in Int
    BY <2>2
  <2> QED BY <2>1, <2>3
<1> HIDE DEF n
<1>3. SlotsOf(s)
  <2>1. g # 0
    BY GoodsFact
  <2> QED BY <1>2, <2>1 DEF SlotsOf
<1>4. ASSUME NEW r \in Raw PROVE HeldIn(c, s, r) = HeldIn(cargo, slot, r)
  <2> DEFINE a == Share(slot, r)
             b == Share(s, r)
  <2>1. a \in [Slot -> Int] /\ b \in [Slot -> Int] /\ OfSlots(slot, r) \in Int
    BY <1>2, ShareFact
  <2>2. \A j \in Slot : j # i => b[j] = a[j]
    BY <1>2 DEF Share
  <2>3. b[i] = IF g \in {r, r + MaxRaw} THEN a[i] + n ELSE a[i]
    BY <1>2 DEF Share
  <2>4. OfSlots(s, r) = OfSlots(slot, r) + (b[i] - a[i])
    <3> HIDE DEF a, b
    <3>1. IsFiniteSet(Slot) /\ i \in Slot
      BY GoodsFact
    <3>2. SumFunction(b) = SumFunction(a) + (b[i] - a[i])
      BY ONLY <2>1, <2>2, <3>1, SumChange
    <3> QED BY <3>2 DEF OfSlots, a, b
  <2> HIDE DEF a, b
  <2>5. a[i] \in Int
    BY <2>1
  <2>6. OfSlots(s, r) = IF g \in {r, r + MaxRaw} THEN OfSlots(slot, r) + n ELSE OfSlots(slot, r)
    BY <1>2, <2>1, <2>3, <2>4, <2>5
  <2>7. r \in Goods /\ r + MaxRaw \in Goods /\ r # r + MaxRaw
    BY GoodsFact
  <2> DEFINE h == r + MaxRaw
  <2>8. cargo[r] \in Int /\ cargo[h] \in Int
    BY <2>7, GoodsFact DEF Cargoes
  <2>9. /\ c[r] = IF r = g THEN cargo[r] - n ELSE cargo[r]
        /\ c[h] = IF h = g THEN cargo[h] - n ELSE cargo[h]
    BY <1>1, <2>7
  <2>11. OfSlots(s, r) = IF g \in {r, h} THEN OfSlots(slot, r) + n ELSE OfSlots(slot, r)
    BY <2>6
  <2>12. r # h
    BY <2>7
  <2> HIDE DEF h
  <2>10. c[r] + c[h] + OfSlots(s, r) = cargo[r] + cargo[h] + OfSlots(slot, r)
    BY <1>2, <2>1, <2>8, <2>9, <2>11, <2>12
  <2> QED BY <2>10 DEF HeldIn, h
<1> QED BY <1>1, <1>2, <1>3, <1>4

\* An empty slot is given to other goods, or to none.
LEMMA RelabelFact ==
    ASSUME NEW slot \in SlotSet, SlotsOf(slot), NEW i \in Slot, slot[i].stock = 0,
           NEW g \in {0} \cup Goods, \A j \in Slot : slot[j].good = g => j = i \/ g = 0,
           NEW s, s = Relabelled(slot, i, g)
    PROVE  /\ s \in SlotSet /\ SlotsOf(s)
           /\ \A r \in Raw : OfSlots(s, r) = OfSlots(slot, r)
<1>1. /\ s \in SlotSet
      /\ \A j \in Slot : s[j] = IF j = i THEN [good |-> g, stock |-> 0] ELSE slot[j]
  BY GoodsFact DEF SlotSet, Relabelled
<1>2. SlotsOf(s)
  BY <1>1 DEF SlotsOf
<1>3. ASSUME NEW r \in Raw PROVE OfSlots(s, r) = OfSlots(slot, r)
  <2>1. \A j \in Slot : (IF s[j].good \in {r, r + MaxRaw} THEN s[j].stock ELSE 0)
                      = (IF slot[j].good \in {r, r + MaxRaw} THEN slot[j].stock ELSE 0)
    BY <1>1
  <2>2. Share(s, r) = Share(slot, r)
    BY <2>1 DEF Share
  <2> QED BY <2>2 DEF OfSlots
<1> QED BY <1>1, <1>2, <1>3

-----------------------------------------------------------------------------
(* The steps of a trade with a market *)

TradeSet(W) ==
    [cargo : Cargoes, slot : SlotSet, done : [Goods -> {"no", "unloaded", "full"}],
     free : Nat, more : BOOLEAN, supplied : SUBSET Slot, purse : Nat, ours : BOOLEAN,
     wanted : {W}]

\* The trades in which there is as much of each material as K says.
Keeping(K, W) ==
    {t \in TradeSet(W) : SlotsOf(t.slot) /\ \A r \in Raw : HeldIn(t.cargo, t.slot, r) = K[r]}

LEMMA LeastFact ==
    ASSUME NEW a \in Int, NEW b \in Int
    PROVE  Least(a, b) \in {a, b} /\ Least(a, b) <= a /\ Least(a, b) <= b
BY DEF Least

\* Unloading into a slot of the goods conserves them.
LEMMA UnloadNowFact ==
    ASSUME NEW K, NEW W, NEW t \in Keeping(K, W), NEW i \in Slot, t.slot[i].good # 0
    PROVE  UnloadNow(t, i) \in Keeping(K, W) /\ UnloadNow(t, i).free = t.free
<1> DEFINE g == t.slot[i].good
           qty == Least(t.cargo[g], MaxStock - t.slot[i].stock)
           v == UnloadNow(t, i)
<1>1. t \in TradeSet(W) /\ SlotsOf(t.slot) /\ \A r \in Raw : HeldIn(t.cargo, t.slot, r) = K[r]
  BY DEF Keeping
<1>2. /\ t.cargo \in Cargoes /\ t.slot \in SlotSet
      /\ t.done \in [Goods -> {"no", "unloaded", "full"}]
  BY <1>1 DEF TradeSet
<1>3. g \in Goods /\ t.slot[i].stock \in 0..MaxStock
  BY <1>2 DEF SlotSet
<1>4. t.cargo[g] \in 0..MaxCarry
  BY <1>2, <1>3 DEF Cargoes
<1> HIDE DEF g
<1>5. /\ qty \in Int /\ t.cargo[g] - qty \in 0..MaxCarry
      /\ t.slot[i].stock + qty \in 0..MaxStock
  <2> DEFINE a == t.cargo[g]
             b == t.slot[i].stock
  <2>1. a \in 0..MaxCarry /\ b \in 0..MaxStock /\ MaxStock \in Nat /\ MaxCarry \in Nat
    BY <1>3, <1>4, GoodsFact
  <2> HIDE DEF a, b
  <2>2. Least(a, MaxStock - b) \in {a, MaxStock - b} /\ Least(a, MaxStock - b) <= a
        /\ Least(a, MaxStock - b) <= MaxStock - b
    BY <2>1, LeastFact
  <2>3. /\ Least(a, MaxStock - b) \in Int /\ a - Least(a, MaxStock - b) \in 0..MaxCarry
        /\ b + Least(a, MaxStock - b) \in 0..MaxStock
    BY <2>1, <2>2
  <2> QED BY <2>3 DEF a, b
<1>6. v = [t EXCEPT !.cargo[g] = @ - qty, !.slot[i].stock = @ + qty, !.done[g] = "unloaded"]
  BY Zenon DEF UnloadNow, g
<1> HIDE DEF qty, v
<1> DEFINE p == t.cargo[g] - qty
           q == t.slot[i].stock + qty
           c == [t.cargo EXCEPT ![g] = p]
           s == [t.slot EXCEPT ![i].stock = q]
           d == [t.done EXCEPT ![g] = "unloaded"]
<1>7. g = t.slot[i].good /\ p + q = t.cargo[g] + t.slot[i].stock
  BY <1>3, <1>4, <1>5, GoodsFact DEF g
<1>8. c \in Cargoes /\ s \in SlotSet /\ SlotsOf(s)
      /\ \A r \in Raw : HeldIn(c, s, r) = HeldIn(t.cargo, t.slot, r)
  <2>1. c = Reladen(t.cargo, g, p) /\ s = Restocked(t.slot, i, q)
    BY DEF Reladen, Restocked
  <2>2. p \in 0..MaxCarry /\ q \in 0..MaxStock
    BY <1>3, <1>4, <1>5, GoodsFact
  <2> HIDE DEF p, q, c, s
  <2> QED BY <1>1, <1>2, <1>3, <1>7, <2>1, <2>2, ShiftFact
<1>9. d \in [Goods -> {"no", "unloaded", "full"}]
  BY <1>2
<1>10. v = [t EXCEPT !.cargo = c, !.slot = s, !.done = d]
  BY <1>1, <1>6 DEF TradeSet
<1> HIDE DEF c, s, d
<1>11. v \in TradeSet(W) /\ v.cargo = c /\ v.slot = s /\ v.free = t.free
  BY <1>1, <1>8, <1>9, <1>10 DEF TradeSet
<1>12. v \in Keeping(K, W)
  BY <1>1, <1>8, <1>11 DEF Keeping
<1> QED BY <1>11, <1>12 DEF v

\* So does giving an empty slot to goods that no other slot has.
LEMMA UnloadInEmptyFact ==
    ASSUME NEW K, NEW W, NEW t \in Keeping(K, W), NEW i \in Slot, t.slot[i].stock = 0
    PROVE  UnloadInEmptySlot(t, i) \in Keeping(K, W) /\ UnloadInEmptySlot(t, i).free = t.free
<1> DEFINE fresh == {g \in Goods : t.done[g] = "no" /\ t.cargo[g] > 0}
           new == {g \in fresh : \A j \in Slot : t.slot[j].good # g}
           some == IF new \cap Product # {} THEN new \cap Product ELSE new
           first == Min(some)
           full == [t EXCEPT !.more = fresh # {}]
           given == [t EXCEPT !.slot[i] = [good |-> first, stock |-> 0], !.more = TRUE]
<1>1. UnloadInEmptySlot(t, i) = IF new = {} THEN full ELSE UnloadNow(given, i)
  BY Zenon DEF UnloadInEmptySlot
<1>2. /\ t \in TradeSet(W) /\ SlotsOf(t.slot) /\ t.slot \in SlotSet
      /\ \A r \in Raw : HeldIn(t.cargo, t.slot, r) = K[r]
  BY DEF Keeping, TradeSet
<1>3. full \in Keeping(K, W) /\ full.free = t.free
  <2> DEFINE b == fresh # {}
  <2>1. b \in BOOLEAN /\ full = [t EXCEPT !.more = b]
    OBVIOUS
  <2> HIDE DEF b, full, fresh
  <2>2. full \in TradeSet(W) /\ full.slot = t.slot /\ full.cargo = t.cargo /\ full.free = t.free
    BY <1>2, <2>1 DEF TradeSet
  <2> QED BY <1>2, <2>2 DEF Keeping
<1>4. ASSUME new # {} PROVE UnloadNow(given, i) \in Keeping(K, W) /\ UnloadNow(given, i).free = t.free
  <2>1. first \in new
    <3>1. some # {} /\ some \in SUBSET new /\ some \in SUBSET Nat
      BY <1>4, GoodsFact
    <3> HIDE DEF some, new
    <3>2. Min(some) \in some
      BY <3>1, MinIsLeast
    <3> QED BY <3>1, <3>2
  <2>2. first \in Goods /\ \A j \in Slot : t.slot[j].good # first
    BY <2>1
  <2> DEFINE s == [t.slot EXCEPT ![i] = [good |-> first, stock |-> 0]]
  <2>3. given = [t EXCEPT !.slot = s, !.more = TRUE]
    BY <1>2 DEF TradeSet
  <2>10. s = Relabelled(t.slot, i, first)
    BY DEF Relabelled
  <2> HIDE DEF first, given, s
  <2>4. s \in SlotSet /\ SlotsOf(s) /\ \A r \in Raw : OfSlots(s, r) = OfSlots(t.slot, r)
    <3>1. /\ first \in {0} \cup Goods
          /\ \A j \in Slot : t.slot[j].good = first => j = i \/ first = 0
      BY <2>2
    <3> QED BY <1>2, <2>10, <3>1, RelabelFact
  <2>5. s[i].good = first
    BY <1>2, <2>10 DEF SlotSet, Relabelled
  <2>6. /\ given \in TradeSet(W) /\ given.slot = s /\ given.cargo = t.cargo
        /\ given.free = t.free
    BY <1>2, <2>3, <2>4 DEF TradeSet
  <2>7. \A r \in Raw : HeldIn(given.cargo, given.slot, r) = HeldIn(t.cargo, t.slot, r)
    BY <2>4, <2>6 DEF HeldIn
  <2>8. given \in Keeping(K, W)
    BY <1>2, <2>4, <2>6, <2>7 DEF Keeping
  <2>9. given.slot[i].good # 0
    BY <2>2, <2>5, <2>6, GoodsFact
  <2> QED BY <2>6, <2>8, <2>9, UnloadNowFact
<1> HIDE DEF new, full, given
<1> QED BY <1>1, <1>3, <1>4

\* One step of the first pass over the slots.
LEMMA UnloadSlotFact ==
    ASSUME NEW K, NEW W, NEW t \in Keeping(K, W), NEW i \in Slot
    PROVE  UnloadSlot(t, i) \in Keeping(K, W)
<1> DEFINE g == t.slot[i].good
           full == [t EXCEPT !.done[g] = "full"]
           freed == [t EXCEPT !.free = @ + 1]
<1>1. /\ t \in TradeSet(W) /\ SlotsOf(t.slot) /\ t.slot \in SlotSet /\ t.cargo \in Cargoes
      /\ \A r \in Raw : HeldIn(t.cargo, t.slot, r) = K[r]
  BY DEF Keeping, TradeSet
<1>2. g \in {0} \cup Goods /\ (g # 0 => t.cargo[g] \in 0..MaxCarry)
  BY <1>1 DEF SlotSet, Cargoes
<1>3. CASE ~t.more
  <2>1. UnloadSlot(t, i) = t
    BY <1>3, Zenon DEF UnloadSlot
  <2> QED BY <2>1
<1>4. CASE t.more /\ g = 0
  <2>1. UnloadSlot(t, i) = UnloadInEmptySlot(t, i)
    BY <1>4, Zenon DEF UnloadSlot
  <2>2. t.slot[i].stock = 0
    BY <1>1, <1>4 DEF SlotsOf
  <2> QED BY <2>1, <2>2, UnloadInEmptyFact
<1>5. CASE t.more /\ g # 0 /\ t.cargo[g] > 0
  <2>1. UnloadSlot(t, i) = IF t.slot[i].stock < MaxStock THEN UnloadNow(t, i) ELSE full
    <3>1. ~(t.cargo[g] = 0)
      BY <1>5
    <3> QED BY <1>5, <3>1, Zenon DEF UnloadSlot
  <2>2. full \in Keeping(K, W)
    <3> DEFINE d == [t.done EXCEPT ![g] = "full"]
    <3>1. full = [t EXCEPT !.done = d] /\ d \in [Goods -> {"no", "unloaded", "full"}]
      BY <1>1 DEF TradeSet
    <3> HIDE DEF d, full, g
    <3>2. full \in TradeSet(W) /\ full.slot = t.slot /\ full.cargo = t.cargo
      BY <1>1, <3>1 DEF TradeSet
    <3> QED BY <1>1, <3>2 DEF Keeping
  <2>3. UnloadNow(t, i) \in Keeping(K, W)
    BY <1>5, UnloadNowFact
  <2> HIDE DEF full
  <2> QED BY <2>1, <2>2, <2>3
<1>6. CASE t.more /\ g # 0 /\ t.cargo[g] = 0
  <2>1. UnloadSlot(t, i) = IF t.slot[i].stock = 0 /\ i \notin t.supplied THEN freed ELSE t
    <3>1. ~(t.cargo[g] > 0)
      BY <1>6
    <3> QED BY <1>6, <3>1, Zenon DEF UnloadSlot
  <2>2. freed \in Keeping(K, W)
    <3>1. freed \in TradeSet(W) /\ freed.slot = t.slot /\ freed.cargo = t.cargo
      BY <1>1 DEF TradeSet
    <3> HIDE DEF freed
    <3> QED BY <1>1, <3>1 DEF Keeping
  <2> HIDE DEF freed
  <2> QED BY <2>1, <2>2
<1>7. g # 0 => t.cargo[g] > 0 \/ t.cargo[g] = 0
  BY <1>2, GoodsFact
<1> QED BY <1>3, <1>4, <1>5, <1>6, <1>7

\* One step of the second pass.
LEMMA ReuseSlotFact ==
    ASSUME NEW K, NEW W, NEW t \in Keeping(K, W), NEW i \in Slot
    PROVE  ReuseSlot(t, i) \in Keeping(K, W)
<1> DEFINE v == UnloadInEmptySlot(t, i)
           less == [v EXCEPT !.free = @ - 1]
<1>1. ReuseSlot(t, i) = IF t.free = 0 \/ t.slot[i].stock > 0 \/ i \in t.supplied THEN t ELSE less
  BY Zenon DEF ReuseSlot
<1>2. ASSUME t.free # 0, ~(t.slot[i].stock > 0) PROVE less \in Keeping(K, W)
  <2>1. t.slot[i].stock = 0 /\ t.free \in Nat
    BY <1>2, GoodsFact DEF Keeping, TradeSet, SlotSet
  <2>2. v \in Keeping(K, W) /\ v.free = t.free
    BY <2>1, UnloadInEmptyFact
  <2> HIDE DEF v
  <2>3. v.free - 1 \in Nat /\ v \in TradeSet(W)
    BY <1>2, <2>1, <2>2 DEF Keeping
  <2>4. less \in TradeSet(W) /\ less.slot = v.slot /\ less.cargo = v.cargo
    BY <2>3 DEF TradeSet
  <2> HIDE DEF less
  <2> QED BY <2>2, <2>4 DEF Keeping
<1> HIDE DEF less
<1> QED BY <1>1, <1>2

\* Loading from a slot, as far as the caravan can carry and the nation can pay.
LEMMA LoadNowFact ==
    ASSUME NEW K, NEW W, NEW t \in Keeping(K, W), NEW i \in Slot, t.slot[i].good # 0,
           NEW most \in Nat, most <= t.slot[i].stock
    PROVE  MarketLoadNow(t, i, most) \in Keeping(K, W)
<1> DEFINE g == t.slot[i].good
           carry == Least(MaxCarry - t.cargo[g], most)
           qty == IF t.ours THEN carry ELSE Least(carry, t.purse)
           left == IF t.ours THEN t.purse ELSE t.purse - qty
           v == MarketLoadNow(t, i, most)
<1>1. t \in TradeSet(W) /\ SlotsOf(t.slot) /\ \A r \in Raw : HeldIn(t.cargo, t.slot, r) = K[r]
  BY DEF Keeping
<1>2. t.cargo \in Cargoes /\ t.slot \in SlotSet /\ t.purse \in Nat /\ t.ours \in BOOLEAN
  BY <1>1 DEF TradeSet
<1>3. g \in Goods /\ t.slot[i].stock \in 0..MaxStock
  BY <1>2 DEF SlotSet
<1>4. t.cargo[g] \in 0..MaxCarry
  BY <1>2, <1>3 DEF Cargoes
<1>5. v = [t EXCEPT !.cargo[g] = @ + qty, !.slot[i].stock = @ - qty, !.purse = left]
  BY Zenon DEF MarketLoadNow
<1> HIDE DEF g
<1>6. carry \in Nat /\ carry <= MaxCarry - t.cargo[g] /\ carry <= most
  <2>1. MaxCarry - t.cargo[g] \in Nat
    BY <1>4, GoodsFact
  <2> QED BY <2>1, LeastFact
<1> HIDE DEF carry
<1>7. qty \in Nat /\ qty <= carry /\ left \in Nat
  <2>1. CASE t.ours
    BY <1>2, <1>6, <2>1
  <2>2. CASE ~t.ours
    <3>1. /\ Least(carry, t.purse) \in Nat /\ Least(carry, t.purse) <= carry
          /\ Least(carry, t.purse) <= t.purse
      BY <1>2, <1>6, LeastFact
    <3>2. t.purse - Least(carry, t.purse) \in Nat
      BY <1>2, <3>1
    <3> QED BY <2>2, <3>1, <3>2
  <2> QED BY <2>1, <2>2
<1> HIDE DEF qty, left, v
<1> DEFINE p == t.cargo[g] + qty
           q == t.slot[i].stock - qty
           c == [t.cargo EXCEPT ![g] = p]
           s == [t.slot EXCEPT ![i].stock = q]
<1>8. /\ p \in 0..MaxCarry /\ q \in 0..MaxStock
      /\ p + q = t.cargo[g] + t.slot[i].stock
  BY <1>3, <1>4, <1>6, <1>7, GoodsFact
<1>9. g = t.slot[i].good
  BY DEF g
<1>15. c \in Cargoes /\ s \in SlotSet /\ SlotsOf(s)
       /\ \A r \in Raw : HeldIn(c, s, r) = HeldIn(t.cargo, t.slot, r)
  <2>1. c = Reladen(t.cargo, g, p) /\ s = Restocked(t.slot, i, q)
    BY DEF Reladen, Restocked
  <2> HIDE DEF p, q, c, s
  <2> QED BY <1>1, <1>2, <1>3, <1>8, <1>9, <2>1, ShiftFact
<1>12. v = [t EXCEPT !.cargo = c, !.slot = s, !.purse = left]
  BY <1>1, <1>5 DEF TradeSet
<1> HIDE DEF c, s
<1>13. v \in TradeSet(W) /\ v.cargo = c /\ v.slot = s
  BY <1>1, <1>7, <1>15, <1>12 DEF TradeSet
<1>14. v \in Keeping(K, W)
  BY <1>1, <1>15, <1>13 DEF Keeping
<1> QED BY <1>14 DEF v

\* One step of loading what was selected, and of loading what there is too much
\* of.
LEMMA LoadSlotFact ==
    ASSUME NEW K, NEW W, NEW t \in Keeping(K, W), NEW i \in Slot
    PROVE  LoadSelected(t, i) \in Keeping(K, W) /\ LoadAuto(t, i) \in Keeping(K, W)
<1>1. t.slot[i].stock \in Nat
  BY GoodsFact DEF Keeping, TradeSet, SlotSet
<1>2. LoadSelected(t, i) \in Keeping(K, W)
  <2>1. ASSUME t.slot[i].good # 0 PROVE MarketLoadNow(t, i, t.slot[i].stock) \in Keeping(K, W)
    BY <1>1, <2>1, LoadNowFact
  <2> QED BY <2>1 DEF LoadSelected
<1>3. LoadAuto(t, i) \in Keeping(K, W)
  <2> DEFINE most == t.slot[i].stock - MinFirmStock
  <2>1. ASSUME t.slot[i].good # 0, t.slot[i].stock > MinFirmStock
        PROVE  MarketLoadNow(t, i, most) \in Keeping(K, W)
    <3>1. most \in Nat /\ most <= t.slot[i].stock
      BY <1>1, <2>1, NumberAssumption
    <3> HIDE DEF most
    <3> QED BY <2>1, <3>1, LoadNowFact
  <2> HIDE DEF most
  <2>2. \/ LoadAuto(t, i) = t
        \/ /\ t.slot[i].good # 0 /\ t.slot[i].stock > MinFirmStock
           /\ LoadAuto(t, i) = MarketLoadNow(t, i, most)
    BY DEF LoadAuto, most
  <2> QED BY <2>1, <2>2
<1> QED BY <1>2, <1>3

\* Nor do the other steps, taken at all slots.
LEMMA ReuseSlotFold ==
    ASSUME NEW T, NEW base \in T, \A t \in T : \A i \in Slot : ReuseSlot(t, i) \in T
    PROVE  FoldLeft(ReuseSlot, base, SlotOrder) \in T
<1> DEFINE D == DOMAIN SlotOrder
           pick == [s \in SUBSET D |-> Max(s)]
           F == [y \in D \X T |-> ReuseSlot(y[2], SlotOrder[y[1]])]
           Step(g, s) == LET x == Max(s) IN ReuseSlot(g[s \ {x}], SlotOrder[x])
           Right(g) == g = [s \in SUBSET D |-> IF s = {} THEN base ELSE Step(g, s)]
           run == CHOOSE g : Right(g)
<1>1. FoldLeft(ReuseSlot, base, SlotOrder) = run[D]
  BY DEF FoldLeft, MapThenFoldSet
<1>2. IsFiniteSet(D) /\ Picks(D, pick) /\ \A i \in D : SlotOrder[i] \in Slot
  BY SlotOrderFact, MaxPicks, SeqFact
<1>3. F \in [D \X T -> T]
  BY <1>2
<1> HIDE DEF D
<1>4. \A s \in SUBSET D : s # {} => pick[s] = Max(s) /\ Max(s) \in D
  BY <1>2 DEF Picks
<1>5. PICK iter : Folding(D, pick, T, base, F, iter)
  <2> HIDE DEF pick, F
  <2> QED BY <1>2, <1>3, FoldExists
<1>6. Right(iter)
  <2>1. ASSUME NEW s \in SUBSET D PROVE iter[s] = IF s = {} THEN base ELSE Step(iter, s)
    <3>1. CASE s = {}
      BY <1>5, <3>1 DEF Folding
    <3>2. CASE s # {}
      <4> DEFINE x == Max(s)
      <4>1. x \in D /\ pick[s] = x
        BY <1>4, <3>2
      <4> HIDE DEF x
      <4>2. iter[s \ {x}] \in T /\ iter[s] = F[<<x, iter[s \ {x}]>>]
        BY <1>5, <3>2, <4>1 DEF Folding
      <4>3. iter[s] = ReuseSlot(iter[s \ {x}], SlotOrder[x])
        BY <4>1, <4>2
      <4> QED BY <3>2, <4>3 DEF x
    <3> QED BY <3>1, <3>2
  <2>2. DOMAIN iter = SUBSET D
    BY <1>5 DEF Folding
  <2>3. iter = [s \in SUBSET D |-> iter[s]]
    BY <1>5 DEF Folding
  <2> HIDE DEF Step
  <2> QED BY <2>1, <2>3
<1>7. Right(run)
  BY <1>6
<1> HIDE DEF run
<1>8. run[{}] = base /\ \A s \in SUBSET D : s # {} => run[s] = Step(run, s)
  <2> HIDE DEF Step
  <2> QED BY <1>7
<1>9. ASSUME NEW s \in SUBSET D, s # {}, run[s \ {pick[s]}] \in T PROVE run[s] \in T
  <2> DEFINE x == Max(s)
  <2>1. x \in D /\ pick[s] = x /\ run[s] = ReuseSlot(run[s \ {x}], SlotOrder[x])
    BY <1>4, <1>8, <1>9
  <2> HIDE DEF x, pick
  <2> QED BY <1>2, <1>9, <2>1
<1> HIDE DEF Right, pick
<1>10. \A s \in SUBSET D : run[s] \in T
  BY <1>2, <1>8, <1>9, FoldStays
<1> QED BY <1>1, <1>10

LEMMA LoadSelectedFold ==
    ASSUME NEW T, NEW base \in T, \A t \in T : \A i \in Slot : LoadSelected(t, i) \in T
    PROVE  FoldLeft(LoadSelected, base, SlotOrder) \in T
<1> DEFINE D == DOMAIN SlotOrder
           pick == [s \in SUBSET D |-> Max(s)]
           F == [y \in D \X T |-> LoadSelected(y[2], SlotOrder[y[1]])]
           Step(g, s) == LET x == Max(s) IN LoadSelected(g[s \ {x}], SlotOrder[x])
           Right(g) == g = [s \in SUBSET D |-> IF s = {} THEN base ELSE Step(g, s)]
           run == CHOOSE g : Right(g)
<1>1. FoldLeft(LoadSelected, base, SlotOrder) = run[D]
  BY DEF FoldLeft, MapThenFoldSet
<1>2. IsFiniteSet(D) /\ Picks(D, pick) /\ \A i \in D : SlotOrder[i] \in Slot
  BY SlotOrderFact, MaxPicks, SeqFact
<1>3. F \in [D \X T -> T]
  BY <1>2
<1> HIDE DEF D
<1>4. \A s \in SUBSET D : s # {} => pick[s] = Max(s) /\ Max(s) \in D
  BY <1>2 DEF Picks
<1>5. PICK iter : Folding(D, pick, T, base, F, iter)
  <2> HIDE DEF pick, F
  <2> QED BY <1>2, <1>3, FoldExists
<1>6. Right(iter)
  <2>1. ASSUME NEW s \in SUBSET D PROVE iter[s] = IF s = {} THEN base ELSE Step(iter, s)
    <3>1. CASE s = {}
      BY <1>5, <3>1 DEF Folding
    <3>2. CASE s # {}
      <4> DEFINE x == Max(s)
      <4>1. x \in D /\ pick[s] = x
        BY <1>4, <3>2
      <4> HIDE DEF x
      <4>2. iter[s \ {x}] \in T /\ iter[s] = F[<<x, iter[s \ {x}]>>]
        BY <1>5, <3>2, <4>1 DEF Folding
      <4>3. iter[s] = LoadSelected(iter[s \ {x}], SlotOrder[x])
        BY <4>1, <4>2
      <4> QED BY <3>2, <4>3 DEF x
    <3> QED BY <3>1, <3>2
  <2>2. DOMAIN iter = SUBSET D
    BY <1>5 DEF Folding
  <2>3. iter = [s \in SUBSET D |-> iter[s]]
    BY <1>5 DEF Folding
  <2> HIDE DEF Step
  <2> QED BY <2>1, <2>3
<1>7. Right(run)
  BY <1>6
<1> HIDE DEF run
<1>8. run[{}] = base /\ \A s \in SUBSET D : s # {} => run[s] = Step(run, s)
  <2> HIDE DEF Step
  <2> QED BY <1>7
<1>9. ASSUME NEW s \in SUBSET D, s # {}, run[s \ {pick[s]}] \in T PROVE run[s] \in T
  <2> DEFINE x == Max(s)
  <2>1. x \in D /\ pick[s] = x /\ run[s] = LoadSelected(run[s \ {x}], SlotOrder[x])
    BY <1>4, <1>8, <1>9
  <2> HIDE DEF x, pick
  <2> QED BY <1>2, <1>9, <2>1
<1> HIDE DEF Right, pick
<1>10. \A s \in SUBSET D : run[s] \in T
  BY <1>2, <1>8, <1>9, FoldStays
<1> QED BY <1>1, <1>10

LEMMA LoadAutoFold ==
    ASSUME NEW T, NEW base \in T, \A t \in T : \A i \in Slot : LoadAuto(t, i) \in T
    PROVE  FoldLeft(LoadAuto, base, SlotOrder) \in T
<1> DEFINE D == DOMAIN SlotOrder
           pick == [s \in SUBSET D |-> Max(s)]
           F == [y \in D \X T |-> LoadAuto(y[2], SlotOrder[y[1]])]
           Step(g, s) == LET x == Max(s) IN LoadAuto(g[s \ {x}], SlotOrder[x])
           Right(g) == g = [s \in SUBSET D |-> IF s = {} THEN base ELSE Step(g, s)]
           run == CHOOSE g : Right(g)
<1>1. FoldLeft(LoadAuto, base, SlotOrder) = run[D]
  BY DEF FoldLeft, MapThenFoldSet
<1>2. IsFiniteSet(D) /\ Picks(D, pick) /\ \A i \in D : SlotOrder[i] \in Slot
  BY SlotOrderFact, MaxPicks, SeqFact
<1>3. F \in [D \X T -> T]
  BY <1>2
<1> HIDE DEF D
<1>4. \A s \in SUBSET D : s # {} => pick[s] = Max(s) /\ Max(s) \in D
  BY <1>2 DEF Picks
<1>5. PICK iter : Folding(D, pick, T, base, F, iter)
  <2> HIDE DEF pick, F
  <2> QED BY <1>2, <1>3, FoldExists
<1>6. Right(iter)
  <2>1. ASSUME NEW s \in SUBSET D PROVE iter[s] = IF s = {} THEN base ELSE Step(iter, s)
    <3>1. CASE s = {}
      BY <1>5, <3>1 DEF Folding
    <3>2. CASE s # {}
      <4> DEFINE x == Max(s)
      <4>1. x \in D /\ pick[s] = x
        BY <1>4, <3>2
      <4> HIDE DEF x
      <4>2. iter[s \ {x}] \in T /\ iter[s] = F[<<x, iter[s \ {x}]>>]
        BY <1>5, <3>2, <4>1 DEF Folding
      <4>3. iter[s] = LoadAuto(iter[s \ {x}], SlotOrder[x])
        BY <4>1, <4>2
      <4> QED BY <3>2, <4>3 DEF x
    <3> QED BY <3>1, <3>2
  <2>2. DOMAIN iter = SUBSET D
    BY <1>5 DEF Folding
  <2>3. iter = [s \in SUBSET D |-> iter[s]]
    BY <1>5 DEF Folding
  <2> HIDE DEF Step
  <2> QED BY <2>1, <2>3
<1>7. Right(run)
  BY <1>6
<1> HIDE DEF run
<1>8. run[{}] = base /\ \A s \in SUBSET D : s # {} => run[s] = Step(run, s)
  <2> HIDE DEF Step
  <2> QED BY <1>7
<1>9. ASSUME NEW s \in SUBSET D, s # {}, run[s \ {pick[s]}] \in T PROVE run[s] \in T
  <2> DEFINE x == Max(s)
  <2>1. x \in D /\ pick[s] = x /\ run[s] = LoadAuto(run[s \ {x}], SlotOrder[x])
    BY <1>4, <1>8, <1>9
  <2> HIDE DEF x, pick
  <2> QED BY <1>2, <1>9, <2>1
<1> HIDE DEF Right, pick
<1>10. \A s \in SUBSET D : run[s] \in T
  BY <1>2, <1>8, <1>9, FoldStays
<1> QED BY <1>1, <1>10

-----------------------------------------------------------------------------
(* All there is of a material *)

MineSet == [stock : 0..MaxStock, reserve : Nat]
FactorySet == [product : Raw, raw : 0..MaxStock, stock : 0..MaxStock]

\* The stores have their types.
Stock(w) ==
    /\ w.market \in [Market -> SlotSet] /\ \A m \in Market : SlotsOf(w.market[m])
    /\ w.mine \in [Mine -> MineSet]
    /\ w.factory \in [Factory -> FactorySet]
    /\ w.cargo \in Cargoes

\* What a mine and a factory have of a material.
OfMine(f, x, r) == IF RawId[f] = r THEN x.stock + x.reserve ELSE 0
OfFactory(x, r) == IF x.product = r THEN x.raw + x.stock ELSE 0

InMarkets(w, r) == SumFunction([m \in Market |-> OfSlots(w.market[m], r)])
InMines(w, r) == SumFunction([f \in Mine |-> OfMine(f, w.mine[f], r)])
InFactories(w, r) == SumFunction([f \in Factory |-> OfFactory(w.factory[f], r)])
Carried(w, r) == w.cargo[r] + w.cargo[r + MaxRaw]

\* All there is of a material is what is carried and what the three kinds of
\* firms have.
LEMMA HeldByFact ==
    ASSUME NEW w, NEW r
    PROVE  HeldBy(w, r) = Carried(w, r) + InMarkets(w, r) + InMines(w, r) + InFactories(w, r)
BY DEF HeldBy, Carried, InMarkets, InMines, InFactories, OfMine, OfFactory, OfSlots, Share

LEMMA FirmsFact ==
    /\ IsFiniteSet(Market) /\ IsFiniteSet(Mine) /\ IsFiniteSet(Factory)
    /\ \A f \in Mine : RawId[f] \in Raw
<1>1. Market \in SUBSET Firm /\ Mine \in SUBSET Firm /\ Factory \in SUBSET Firm
  BY DEF Firm
<1>2. IsFiniteSet(Market) /\ IsFiniteSet(Mine) /\ IsFiniteSet(Factory)
  BY <1>1, FirmAssumption, FS_Subset
<1> QED BY <1>2, FirmAssumption

\* Each of the four is a number.
LEMMA PartsFact ==
    ASSUME NEW w, Stock(w), NEW r \in Raw
    PROVE  /\ Carried(w, r) \in Int /\ InMarkets(w, r) \in Int
           /\ InMines(w, r) \in Int /\ InFactories(w, r) \in Int
<1>1. Carried(w, r) \in Int
  <2>1. w.cargo[r] \in 0..MaxCarry /\ w.cargo[r + MaxRaw] \in 0..MaxCarry
    BY GoodsFact DEF Stock, Cargoes
  <2> QED BY <2>1, GoodsFact DEF Carried
<1>2. InMarkets(w, r) \in Int
  <2>1. [m \in Market |-> OfSlots(w.market[m], r)] \in [Market -> Int]
    BY ShareFact DEF Stock
  <2> QED BY <2>1, FirmsFact, SumType DEF InMarkets
<1>3. InMines(w, r) \in Int
  <2>1. [f \in Mine |-> OfMine(f, w.mine[f], r)] \in [Mine -> Int]
    BY GoodsFact DEF Stock, OfMine, MineSet
  <2> QED BY <2>1, FirmsFact, SumType DEF InMines
<1>4. InFactories(w, r) \in Int
  <2>1. [f \in Factory |-> OfFactory(w.factory[f], r)] \in [Factory -> Int]
    BY GoodsFact DEF Stock, OfFactory, FactorySet
  <2> QED BY <2>1, FirmsFact, SumType DEF InFactories
<1> QED BY <1>1, <1>2, <1>3, <1>4

\* The stock of one slot changes, and of one material there is so much more or
\* less.
LEMMA SlotChange ==
    ASSUME NEW slot \in SlotSet, SlotsOf(slot), NEW i \in Slot, slot[i].good # 0,
           NEW q \in 0..MaxStock, NEW s, s = Restocked(slot, i, q)
    PROVE  /\ s \in SlotSet /\ SlotsOf(s)
           /\ \A r \in Raw : OfSlots(s, r) = OfSlots(slot, r)
                  + (IF slot[i].good \in {r, r + MaxRaw} THEN q - slot[i].stock ELSE 0)
<1>1. /\ s \in SlotSet
      /\ \A j \in Slot : /\ s[j].good = slot[j].good
                         /\ s[j].stock = IF j = i THEN q ELSE slot[j].stock
  BY DEF SlotSet, Restocked
<1>2. SlotsOf(s)
  BY <1>1 DEF SlotsOf
<1>3. ASSUME NEW r \in Raw
      PROVE  OfSlots(s, r) = OfSlots(slot, r)
                  + (IF slot[i].good \in {r, r + MaxRaw} THEN q - slot[i].stock ELSE 0)
  <2> DEFINE a == Share(slot, r)
             b == Share(s, r)
  <2>1. a \in [Slot -> Int] /\ b \in [Slot -> Int] /\ OfSlots(slot, r) \in Int
    BY <1>1, ShareFact
  <2>2. \A j \in Slot : j # i => b[j] = a[j]
    BY <1>1 DEF Share
  <2>3. /\ a[i] = (IF slot[i].good \in {r, r + MaxRaw} THEN slot[i].stock ELSE 0)
        /\ b[i] = (IF slot[i].good \in {r, r + MaxRaw} THEN q ELSE 0)
    BY <1>1 DEF Share
  <2>4. SumFunction(b) = SumFunction(a) + (b[i] - a[i])
    <3>1. IsFiniteSet(Slot) /\ i \in Slot
      BY GoodsFact
    <3> HIDE DEF a, b
    <3> QED BY ONLY <2>1, <2>2, <3>1, SumChange
  <2>5. OfSlots(s, r) = OfSlots(slot, r) + (b[i] - a[i])
    BY <2>4 DEF OfSlots
  <2> HIDE DEF a, b
  <2> DEFINE mine == slot[i].good \in {r, r + MaxRaw}
  <2>6. b[i] - a[i] = IF mine THEN q - slot[i].stock ELSE 0
    <3>1. slot[i].stock \in Int /\ q \in Int
      BY GoodsFact DEF SlotSet
    <3> HIDE DEF mine
    <3> QED BY <2>3, <3>1 DEF mine
  <2> QED BY <2>5, <2>6
<1> QED BY <1>1, <1>2, <1>3

\* Everything but the stores is let alone.
Others(w, v) ==
    DOMAIN v = Field /\ \A x \in Field \ {"market", "mine", "factory", "cargo"} : v[x] = w[x]

PutMarket(w, m, slot) == [w EXCEPT !.market[m] = slot]
PutMine(w, f, new) == [w EXCEPT !.mine[f] = new]
PutFactory(w, f, new) == [w EXCEPT !.factory[f] = new]
PutCargo(w, g, n) == [w EXCEPT !.cargo[g] = n]

\* One firm, or the cargo, changes; the rest of the sum stays.
LEMMA PutMarketFact ==
    ASSUME NEW w, DOMAIN w = Field, Stock(w), NEW m \in Market,
           NEW slot \in SlotSet, SlotsOf(slot), NEW v, v = PutMarket(w, m, slot)
    PROVE  /\ Others(w, v) /\ Stock(v)
           /\ \A e \in Market : v.market[e] = IF e = m THEN slot ELSE w.market[e]
           /\ v.mine = w.mine /\ v.factory = w.factory /\ v.cargo = w.cargo
           /\ \A r \in Raw : HeldBy(v, r) = HeldBy(w, r) + (OfSlots(slot, r) - OfSlots(w.market[m], r))
<1>1. /\ DOMAIN v = Field /\ v.market = [w.market EXCEPT ![m] = slot]
      /\ v.mine = w.mine /\ v.factory = w.factory /\ v.cargo = w.cargo
  BY DEF Field, PutMarket
<1>2. Others(w, v)
  BY DEF Field, Others, PutMarket
<1>3. Stock(v) /\ v.market[m] = slot
  BY <1>1 DEF Stock
<1>4. ASSUME NEW r \in Raw
      PROVE  HeldBy(v, r) = HeldBy(w, r) + (OfSlots(slot, r) - OfSlots(w.market[m], r))
  <2> DEFINE a == [n \in Market |-> OfSlots(w.market[n], r)]
             b == [n \in Market |-> OfSlots(v.market[n], r)]
  <2>1. a \in [Market -> Int] /\ b \in [Market -> Int]
    BY <1>3, ShareFact DEF Stock
  <2>2. b[m] = OfSlots(slot, r) /\ a[m] = OfSlots(w.market[m], r)
    BY <1>3
  <2>3. \A n \in Market : n # m => b[n] = a[n]
    BY <1>1 DEF Stock
  <2>4. SumFunction(b) = SumFunction(a) + (b[m] - a[m])
    <3> HIDE DEF a, b
    <3> QED BY <2>1, <2>3, FirmsFact, SumChange
  <2>5. b[m] \in Int /\ a[m] \in Int
    BY <2>1
  <2>6. InMarkets(v, r) = InMarkets(w, r) + (OfSlots(slot, r) - OfSlots(w.market[m], r))
    BY <2>2, <2>4 DEF InMarkets
  <2>7. /\ InMines(v, r) = InMines(w, r) /\ InFactories(v, r) = InFactories(w, r)
        /\ Carried(v, r) = Carried(w, r)
    BY <1>1 DEF InMines, InFactories, Carried
  <2>8. OfSlots(slot, r) \in Int /\ OfSlots(w.market[m], r) \in Int
    BY <2>2, <2>5
  <2> QED BY <1>3, <2>6, <2>7, <2>8, HeldByFact, PartsFact
<1>5. \A e \in Market : v.market[e] = IF e = m THEN slot ELSE w.market[e]
  BY <1>1 DEF Stock
<1> QED BY <1>1, <1>2, <1>3, <1>4, <1>5

LEMMA PutMineFact ==
    ASSUME NEW w, DOMAIN w = Field, Stock(w), NEW f \in Mine,
           NEW new \in MineSet, NEW v, v = PutMine(w, f, new)
    PROVE  /\ Others(w, v) /\ Stock(v)
           /\ \A e \in Mine : v.mine[e] = IF e = f THEN new ELSE w.mine[e]
           /\ v.market = w.market /\ v.factory = w.factory /\ v.cargo = w.cargo
           /\ \A r \in Raw : HeldBy(v, r) = HeldBy(w, r) + (OfMine(f, new, r) - OfMine(f, w.mine[f], r))
<1>1. /\ DOMAIN v = Field /\ v.mine = [w.mine EXCEPT ![f] = new]
      /\ v.market = w.market /\ v.factory = w.factory /\ v.cargo = w.cargo
  BY DEF Field, PutMine
<1>2. Others(w, v)
  BY DEF Field, Others, PutMine
<1>3. Stock(v) /\ v.mine[f] = new
  BY <1>1 DEF Stock
<1>4. ASSUME NEW r \in Raw
      PROVE  HeldBy(v, r) = HeldBy(w, r) + (OfMine(f, new, r) - OfMine(f, w.mine[f], r))
  <2> DEFINE a == [n \in Mine |-> OfMine(n, w.mine[n], r)]
             b == [n \in Mine |-> OfMine(n, v.mine[n], r)]
  <2>1. a \in [Mine -> Int] /\ b \in [Mine -> Int]
    BY <1>3, GoodsFact DEF Stock, OfMine, MineSet
  <2>2. b[f] = OfMine(f, new, r) /\ a[f] = OfMine(f, w.mine[f], r)
    BY <1>3
  <2>3. \A n \in Mine : n # f => b[n] = a[n]
    BY <1>1 DEF Stock
  <2>4. SumFunction(b) = SumFunction(a) + (b[f] - a[f])
    <3> HIDE DEF a, b
    <3> QED BY <2>1, <2>3, FirmsFact, SumChange
  <2>5. b[f] \in Int /\ a[f] \in Int
    BY <2>1
  <2>6. InMines(v, r) = InMines(w, r) + (OfMine(f, new, r) - OfMine(f, w.mine[f], r))
    BY <2>2, <2>4 DEF InMines
  <2>7. /\ InMarkets(v, r) = InMarkets(w, r) /\ InFactories(v, r) = InFactories(w, r)
        /\ Carried(v, r) = Carried(w, r)
    BY <1>1 DEF InMarkets, InFactories, Carried
  <2>8. OfMine(f, new, r) \in Int /\ OfMine(f, w.mine[f], r) \in Int
    BY <2>2, <2>5
  <2> QED BY <1>3, <2>6, <2>7, <2>8, HeldByFact, PartsFact
<1>5. \A e \in Mine : v.mine[e] = IF e = f THEN new ELSE w.mine[e]
  BY <1>1 DEF Stock
<1> QED BY <1>1, <1>2, <1>3, <1>4, <1>5

LEMMA PutFactoryFact ==
    ASSUME NEW w, DOMAIN w = Field, Stock(w), NEW f \in Factory,
           NEW new \in FactorySet, NEW v, v = PutFactory(w, f, new)
    PROVE  /\ Others(w, v) /\ Stock(v)
           /\ \A e \in Factory : v.factory[e] = IF e = f THEN new ELSE w.factory[e]
           /\ v.market = w.market /\ v.mine = w.mine /\ v.cargo = w.cargo
           /\ \A r \in Raw : HeldBy(v, r) = HeldBy(w, r) + (OfFactory(new, r) - OfFactory(w.factory[f], r))
<1>1. /\ DOMAIN v = Field /\ v.factory = [w.factory EXCEPT ![f] = new]
      /\ v.market = w.market /\ v.mine = w.mine /\ v.cargo = w.cargo
  BY DEF Field, PutFactory
<1>2. Others(w, v)
  BY DEF Field, Others, PutFactory
<1>3. Stock(v) /\ v.factory[f] = new
  BY <1>1 DEF Stock
<1>4. ASSUME NEW r \in Raw
      PROVE  HeldBy(v, r) = HeldBy(w, r) + (OfFactory(new, r) - OfFactory(w.factory[f], r))
  <2> DEFINE a == [n \in Factory |-> OfFactory(w.factory[n], r)]
             b == [n \in Factory |-> OfFactory(v.factory[n], r)]
  <2>1. a \in [Factory -> Int] /\ b \in [Factory -> Int]
    BY <1>3, GoodsFact DEF Stock, OfFactory, FactorySet
  <2>2. b[f] = OfFactory(new, r) /\ a[f] = OfFactory(w.factory[f], r)
    BY <1>3
  <2>3. \A n \in Factory : n # f => b[n] = a[n]
    BY <1>1 DEF Stock
  <2>4. SumFunction(b) = SumFunction(a) + (b[f] - a[f])
    <3> HIDE DEF a, b
    <3> QED BY <2>1, <2>3, FirmsFact, SumChange
  <2>5. b[f] \in Int /\ a[f] \in Int
    BY <2>1
  <2>6. InFactories(v, r) = InFactories(w, r) + (OfFactory(new, r) - OfFactory(w.factory[f], r))
    BY <2>2, <2>4 DEF InFactories
  <2>7. /\ InMarkets(v, r) = InMarkets(w, r) /\ InMines(v, r) = InMines(w, r)
        /\ Carried(v, r) = Carried(w, r)
    BY <1>1 DEF InMarkets, InMines, Carried
  <2>8. OfFactory(new, r) \in Int /\ OfFactory(w.factory[f], r) \in Int
    BY <2>2, <2>5
  <2> QED BY <1>3, <2>6, <2>7, <2>8, HeldByFact, PartsFact
<1>5. \A e \in Factory : v.factory[e] = IF e = f THEN new ELSE w.factory[e]
  BY <1>1 DEF Stock
<1> QED BY <1>1, <1>2, <1>3, <1>4, <1>5

LEMMA PutCargoFact ==
    ASSUME NEW w, DOMAIN w = Field, Stock(w), NEW g \in Goods,
           NEW n \in 0..MaxCarry, NEW v, v = PutCargo(w, g, n)
    PROVE  /\ Others(w, v) /\ Stock(v)
           /\ \A h \in Goods : v.cargo[h] = IF h = g THEN n ELSE w.cargo[h]
           /\ v.market = w.market /\ v.mine = w.mine /\ v.factory = w.factory
           /\ \A r \in Raw : HeldBy(v, r) = HeldBy(w, r)
                  + (IF g \in {r, r + MaxRaw} THEN n - w.cargo[g] ELSE 0)
<1>1. /\ DOMAIN v = Field /\ v.cargo = [w.cargo EXCEPT ![g] = n]
      /\ v.market = w.market /\ v.mine = w.mine /\ v.factory = w.factory
  BY DEF Field, PutCargo
<1>2. Others(w, v)
  BY DEF Field, Others, PutCargo
<1>3. Stock(v)
  BY <1>1 DEF Stock, Cargoes
<1>4. ASSUME NEW r \in Raw
      PROVE  HeldBy(v, r) = HeldBy(w, r) + (IF g \in {r, r + MaxRaw} THEN n - w.cargo[g] ELSE 0)
  <2> DEFINE h == r + MaxRaw
             d == IF g \in {r, h} THEN n - w.cargo[g] ELSE 0
  <2>1. r \in Goods /\ h \in Goods /\ r # h
    BY GoodsFact
  <2>2. w.cargo[r] \in Int /\ w.cargo[h] \in Int /\ w.cargo[g] \in Int /\ n \in Int
    BY <2>1, GoodsFact DEF Stock, Cargoes
  <2>3. /\ v.cargo[r] = IF r = g THEN n ELSE w.cargo[r]
        /\ v.cargo[h] = IF h = g THEN n ELSE w.cargo[h]
    BY <1>1, <2>1 DEF Stock, Cargoes
  <2>7. /\ InMarkets(v, r) = InMarkets(w, r) /\ InMines(v, r) = InMines(w, r)
        /\ InFactories(v, r) = InFactories(w, r)
    BY <1>1 DEF InMarkets, InMines, InFactories
  <2>4. Carried(v, r) = v.cargo[r] + v.cargo[h] /\ Carried(w, r) = w.cargo[r] + w.cargo[h]
    BY DEF Carried
  <2> HIDE DEF h
  <2>5. Carried(v, r) = Carried(w, r) + d /\ d \in Int
    BY <2>1, <2>2, <2>3, <2>4
  <2> HIDE DEF d
  <2>6. HeldBy(v, r) = HeldBy(w, r) + d
    BY <1>3, <2>5, <2>7, HeldByFact, PartsFact
  <2> QED BY <2>6 DEF d, h
<1>5. \A h \in Goods : v.cargo[h] = IF h = g THEN n ELSE w.cargo[h]
  BY <1>1 DEF Stock, Cargoes
<1> QED BY <1>1, <1>2, <1>3, <1>4, <1>5

-----------------------------------------------------------------------------
(* Trade with the caravan *)

\* Goods went from one store to another.
Balanced(w, v) == Others(w, v) /\ Stock(v) /\ \A r \in Raw : HeldBy(v, r) = HeldBy(w, r)

\* A material and its product.
LEMMA MaterialFact ==
    ASSUME NEW r \in Raw, NEW q \in Raw
    PROVE  /\ q \in {r, r + MaxRaw} <=> q = r
           /\ q + MaxRaw \in {r, r + MaxRaw} <=> q = r
           /\ q \in Goods /\ q + MaxRaw \in Goods /\ q # q + MaxRaw
<1>1. r \in Int /\ q \in Int /\ MaxRaw \in Int /\ 1 <= r /\ r <= MaxRaw /\ 1 <= q /\ q <= MaxRaw
  BY GoodsFact DEF Raw
<1>2. (q \in {r, r + MaxRaw} <=> q = r) /\ (q + MaxRaw \in {r, r + MaxRaw} <=> q = r)
  BY <1>1
<1> QED BY <1>2, GoodsFact

\* Trade with a market, a mine, a factory conserves every material.
LEMMA MarketTradeFact ==
    ASSUME NEW w, DOMAIN w = Field, Stock(w), NEW f \in Market, NEW s,
           NEW c, c.supplied \in SUBSET Slot, c.purse \in Nat
    PROVE  Balanced(w, MarketTrade(w, f, s, c))
<1> DEFINE before == [cargo |-> w.cargo, slot |-> w.market[f], done |-> [g \in Goods |-> "no"],
                      free |-> 0, more |-> TRUE, supplied |-> c.supplied, purse |-> c.purse,
                      ours |-> Ours(w, f), wanted |-> s.goods]
           unloaded == IF Ours(w, f) THEN MarketUnload(before) ELSE before
           after == MarketLoad(unloaded, s.type)
           K == [r \in Raw |-> HeldIn(w.cargo, w.market[f], r)]
           T == Keeping(K, s.goods)
           v == MarketTrade(w, f, s, c)
<1>1. w.cargo \in Cargoes /\ w.market[f] \in SlotSet /\ SlotsOf(w.market[f])
  BY DEF Stock
<1>2. before \in T
  <2>1. Ours(w, f) \in BOOLEAN
    BY DEF Ours
  <2> DEFINE ours == Ours(w, f)
             done == [g \in Goods |-> "no"]
  <2>2. done \in [Goods -> {"no", "unloaded", "full"}] /\ ours \in BOOLEAN
    BY <2>1
  <2> HIDE DEF ours, done
  <2>3. before \in TradeSet(s.goods)
    BY <1>1, <2>2 DEF TradeSet, ours, done
  <2>4. before.slot = w.market[f] /\ before.cargo = w.cargo
    OBVIOUS
  <2> HIDE DEF before
  <2> QED BY <1>1, <2>3, <2>4 DEF Keeping
<1> HIDE DEF T, before
<1>3. unloaded \in T
  <2>1. \A t \in T : \A i \in Slot : UnloadSlot(t, i) \in T /\ ReuseSlot(t, i) \in T
    BY UnloadSlotFact, ReuseSlotFact DEF T
  <2>2. FoldLeft(UnloadSlot, before, SlotOrder) \in T
    BY <1>2, <2>1, UnloadSlotFold
  <2>3. MarketUnload(before) \in T
    BY <2>1, <2>2, ReuseSlotFold DEF MarketUnload
  <2> QED BY <1>2, <2>3
<1> HIDE DEF unloaded
<1>4. after \in T
  <2>1. \A t \in T : \A i \in Slot : LoadSelected(t, i) \in T /\ LoadAuto(t, i) \in T
    BY LoadSlotFact DEF T
  <2>2. FoldLeft(LoadAuto, unloaded, SlotOrder) \in T
    BY <1>3, <2>1, LoadAutoFold
  <2>3. FoldLeft(LoadSelected, unloaded, SlotOrder) \in T
    BY <1>3, <2>1, LoadSelectedFold
  <2>4. after \in {FoldLeft(LoadAuto, unloaded, SlotOrder), unloaded,
                   FoldLeft(LoadSelected, unloaded, SlotOrder)}
    <3>1. CASE s.type = AutoPickUp
      <4>1. s.type # NoPickUp
        BY <3>1, GoodsFact DEF AutoPickUp, NoPickUp
      <4> QED BY <3>1, <4>1, Zenon DEF MarketLoad
    <3>2. CASE s.type = NoPickUp
      <4>1. s.type # AutoPickUp
        BY <3>2, GoodsFact DEF AutoPickUp, NoPickUp
      <4> QED BY <3>2, <4>1, Zenon DEF MarketLoad
    <3>3. CASE s.type # AutoPickUp /\ s.type # NoPickUp
      BY <3>3, Zenon DEF MarketLoad
    <3> QED BY <3>1, <3>2, <3>3
  <2> HIDE DEF after
  <2> QED BY <1>3, <2>2, <2>3, <2>4
<1>5. v = [w EXCEPT !.cargo = after.cargo, !.market[f] = after.slot]
  BY Zenon DEF MarketTrade, unloaded, before
<1> HIDE DEF after, v
<1> DEFINE cargo == after.cargo
           slot == after.slot
<1>6. /\ cargo \in Cargoes /\ slot \in SlotSet /\ SlotsOf(slot)
      /\ \A r \in Raw : HeldIn(cargo, slot, r) = HeldIn(w.cargo, w.market[f], r)
  BY <1>4 DEF T, Keeping, TradeSet
<1> DEFINE u == PutMarket(w, f, slot)
<1>8. v = [u EXCEPT !.cargo = cargo]
  BY <1>5 DEF Field, PutMarket
<1> HIDE DEF cargo, slot, u
<1>9. /\ Others(w, u) /\ Stock(u)
      /\ u.market[f] = slot /\ u.mine = w.mine /\ u.factory = w.factory /\ u.cargo = w.cargo
      /\ \A r \in Raw : HeldBy(u, r) = HeldBy(w, r) + (OfSlots(slot, r) - OfSlots(w.market[f], r))
  BY <1>6, PutMarketFact DEF u
<1>10. DOMAIN u = Field
  BY <1>9 DEF Others
<1>11. /\ DOMAIN v = Field /\ v.cargo = cargo
       /\ v.market = u.market /\ v.mine = u.mine /\ v.factory = u.factory
  BY <1>8, <1>10 DEF Field
<1>12. Others(w, v)
  BY <1>8, <1>9, <1>10, <1>11 DEF Others
<1>13. Stock(v)
  BY <1>6, <1>9, <1>11 DEF Stock
<1>14. ASSUME NEW r \in Raw PROVE HeldBy(v, r) = HeldBy(w, r)
  <2>1. HeldIn(cargo, slot, r) = HeldIn(w.cargo, w.market[f], r)
    BY <1>6
  <2>2. Carried(v, r) + OfSlots(slot, r) = Carried(w, r) + OfSlots(w.market[f], r)
    BY <1>11, <2>1 DEF HeldIn, Carried
  <2>3. HeldBy(u, r) = HeldBy(w, r) + (OfSlots(slot, r) - OfSlots(w.market[f], r))
    BY <1>9
  <2>4. OfSlots(slot, r) \in Int /\ OfSlots(w.market[f], r) \in Int
    BY <1>1, <1>6, ShareFact
  <2>5. /\ InMarkets(v, r) = InMarkets(u, r) /\ InMines(v, r) = InMines(u, r)
        /\ InFactories(v, r) = InFactories(u, r) /\ Carried(u, r) = Carried(w, r)
    BY <1>9, <1>11 DEF InMarkets, InMines, InFactories, Carried
  <2>6. /\ Carried(w, r) \in Int /\ Carried(v, r) \in Int /\ InMarkets(u, r) \in Int
        /\ InMines(u, r) \in Int /\ InFactories(u, r) \in Int
        /\ InMarkets(w, r) \in Int /\ InMines(w, r) \in Int /\ InFactories(w, r) \in Int
    BY <1>9, <1>13, PartsFact
  <2>7. /\ HeldBy(v, r) = Carried(v, r) + InMarkets(v, r) + InMines(v, r) + InFactories(v, r)
        /\ HeldBy(u, r) = Carried(u, r) + InMarkets(u, r) + InMines(u, r) + InFactories(u, r)
        /\ HeldBy(w, r) = Carried(w, r) + InMarkets(w, r) + InMines(w, r) + InFactories(w, r)
    BY HeldByFact
  <2> QED BY <2>2, <2>3, <2>4, <2>5, <2>6, <2>7
<1>15. Balanced(w, v)
  BY <1>12, <1>13, <1>14 DEF Balanced
<1> QED BY <1>15 DEF v

\* A firm gives away no more than it has.
LEMMA SupplyFact ==
    ASSUME NEW n \in Nat, NEW type PROVE Supply(n, type) \in Nat /\ Supply(n, type) <= n
<1> DEFINE less == IF n > MinFirmStock THEN n - MinFirmStock ELSE 0
<1>1. less \in Nat /\ less <= n
  BY NumberAssumption
<1>2. Supply(n, type) \in {0, less, n}
  <2>1. Supply(n, type) = CASE type = NoPickUp -> 0
                            [] type = AutoPickUp -> less
                            [] OTHER -> n
    BY Zenon DEF Supply
  <2> HIDE DEF less
  <2> QED BY <2>1
<1> HIDE DEF less
<1> QED BY <1>1, <1>2

LEMMA MineTradeFact ==
    ASSUME NEW w, DOMAIN w = Field, Stock(w), NEW f \in Mine, NEW s
    PROVE  Balanced(w, MineTrade(w, f, s))
<1> DEFINE g == RawId[f]
           old == w.mine[f]
           most == Supply(old.stock, s.type)
           qty == Least(MaxCarry - w.cargo[g], most)
           new == [old EXCEPT !.stock = @ - qty]
           p == w.cargo[g] + qty
           u == PutMine(w, f, new)
           v == PutCargo(u, g, p)
<1>1. g \in Raw /\ g \in Goods /\ old \in MineSet
  BY FirmsFact, GoodsFact DEF Stock
<1>2. w.cargo[g] \in 0..MaxCarry /\ old.stock \in 0..MaxStock
  BY <1>1 DEF Stock, Cargoes, MineSet
<1>3. most \in Nat /\ most <= old.stock
  BY <1>2, GoodsFact, SupplyFact
<1>4. MineTrade(w, f, s) = IF ~Ours(w, f) THEN w ELSE v
  <2>1. MineTrade(w, f, s) = IF ~Ours(w, f) THEN w
                             ELSE [w EXCEPT !.cargo[g] = @ + qty, !.mine[f].stock = @ - qty]
    BY Zenon DEF MineTrade
  <2> HIDE DEF qty, g
  <2>2. [w EXCEPT !.cargo[g] = @ + qty, !.mine[f].stock = @ - qty] = v
    BY DEF Field, PutMine, PutCargo
  <2> QED BY <2>1, <2>2
<1>5. Balanced(w, w)
  BY DEF Balanced, Others
<1> HIDE DEF g, old, most
<1>6. qty \in Nat /\ qty <= most /\ p \in 0..MaxCarry
  <2> DEFINE a == w.cargo[g]
  <2>1. a \in 0..MaxCarry /\ MaxCarry \in Nat
    BY <1>2, GoodsFact
  <2>2. MaxCarry - a \in Nat
    BY <2>1
  <2>3. qty \in {MaxCarry - a, most} /\ qty <= MaxCarry - a /\ qty <= most
    BY <1>3, <2>2, LeastFact
  <2> HIDE DEF a, qty
  <2> QED BY <1>3, <2>1, <2>2, <2>3 DEF a
<1> HIDE DEF qty
<1>7. /\ new \in MineSet /\ new.stock = old.stock - qty /\ new.reserve = old.reserve
      /\ old.stock \in Int /\ old.reserve \in Int
  BY <1>1, <1>3, <1>6, GoodsFact DEF MineSet
<1> HIDE DEF new, p, u, v
<1>9. /\ Others(w, u) /\ Stock(u) /\ u.cargo = w.cargo
      /\ \A r \in Raw : HeldBy(u, r) = HeldBy(w, r) + (OfMine(f, new, r) - OfMine(f, old, r))
  <2>1. new \in MineSet
    BY <1>7
  <2> QED BY <2>1, PutMineFact DEF old, u
<1>10. /\ Others(u, v) /\ Stock(v)
       /\ \A r \in Raw : HeldBy(v, r) = HeldBy(u, r)
              + (IF g \in {r, r + MaxRaw} THEN p - u.cargo[g] ELSE 0)
  <2>1. DOMAIN u = Field
    BY <1>9 DEF Others
  <2>2. g \in Goods /\ p \in 0..MaxCarry /\ Stock(u)
    BY <1>1, <1>6, <1>9
  <2> QED BY <2>1, <2>2, PutCargoFact DEF v
<1>11. ASSUME NEW r \in Raw PROVE HeldBy(v, r) = HeldBy(w, r)
  <2>1. HeldBy(w, r) \in Int
    BY HeldByFact, PartsFact
  <2>2. g \in {r, r + MaxRaw} <=> g = r
    BY <1>1, MaterialFact
  <2>3. HeldBy(u, r) = HeldBy(w, r) + (IF g = r THEN - qty ELSE 0)
    <3>1. OfMine(f, new, r) - OfMine(f, old, r) = IF g = r THEN - qty ELSE 0
      BY <1>6, <1>7 DEF OfMine, g
    <3> QED BY <1>9, <3>1
  <2>4. HeldBy(v, r) = HeldBy(u, r) + (IF g = r THEN qty ELSE 0)
    <3>1. p - u.cargo[g] = qty
      BY <1>2, <1>6, <1>9, GoodsFact DEF p
    <3> QED BY <1>10, <2>2, <3>1
  <2> QED BY <1>6, <2>1, <2>3, <2>4
<1>12. Others(w, v)
  BY <1>9, <1>10 DEF Others
<1>13. Balanced(w, v)
  BY <1>10, <1>11, <1>12 DEF Balanced
<1> QED BY <1>4, <1>5, <1>13

LEMMA FactoryTradeFact ==
    ASSUME NEW w, DOMAIN w = Field, Stock(w), NEW f \in Factory, NEW s, NEW c
    PROVE  Balanced(w, FactoryTrade(w, f, s, c))
<1> DEFINE old == w.factory[f]
           brought == {g \in Raw : w.cargo[g] > 0}
           idle == c.idle /\ old.stock = 0 /\ old.raw = 0 /\ Cardinality(brought) = 1
           r == IF idle THEN Min(brought) ELSE old.product
           p == r + MaxRaw
           in == Least(w.cargo[r], MaxStock - old.raw)
           given == Least(MaxCarry - w.cargo[p], Supply(old.stock, s.type))
           out == IF s.type \in {AutoPickUp, p} THEN given ELSE 0
           new == [product |-> r, raw |-> old.raw + in, stock |-> old.stock - out]
           m == w.cargo[r] - in
           n == w.cargo[p] + out
           u == PutFactory(w, f, new)
           t == PutCargo(u, r, m)
           v == PutCargo(t, p, n)
<1>1. /\ old \in FactorySet /\ old.product \in Raw /\ old.raw \in 0..MaxStock
      /\ old.stock \in 0..MaxStock
  BY DEF Stock, FactorySet
<1>2. r \in Raw /\ (r = old.product \/ (old.stock = 0 /\ old.raw = 0))
  <2>1. CASE idle
    <3>1. brought # {} /\ brought \in SUBSET Raw
      BY <2>1, FS_EmptySet
    <3>2. brought \in SUBSET Nat
      BY <3>1, GoodsFact
    <3> HIDE DEF brought
    <3>3. Min(brought) \in brought
      BY <3>1, <3>2, MinIsLeast
    <3>4. old.stock = 0 /\ old.raw = 0
      BY <2>1
    <3> QED BY <2>1, <3>1, <3>3, <3>4
  <2>2. CASE ~idle
    BY <1>1, <2>2
  <2> QED BY <2>1, <2>2
<1> HIDE DEF idle
<1>3. FactoryTrade(w, f, s, c) = IF ~Ours(w, f) THEN w ELSE v
  <2>1. FactoryTrade(w, f, s, c) =
            IF ~Ours(w, f) THEN w
            ELSE [w EXCEPT !.cargo[r] = @ - in, !.cargo[p] = @ + out, !.factory[f] = new]
    BY Zenon DEF FactoryTrade, idle
  <2>2. r # p /\ r \in Goods /\ p \in Goods
    BY <1>2, MaterialFact
  <2> HIDE DEF in, out, r, p, new
  <2>3. [w EXCEPT !.cargo[r] = @ - in, !.cargo[p] = @ + out, !.factory[f] = new] = v
    BY <2>2 DEF Field, PutFactory, PutCargo, Stock, Cargoes
  <2> QED BY <2>1, <2>3
<1>4. Balanced(w, w)
  BY DEF Balanced, Others
<1> HIDE DEF r
<1>5. p \in Goods /\ r \in Goods /\ r # p
  BY <1>2, MaterialFact
<1>6. \A q \in Raw : (r \in {q, q + MaxRaw} <=> r = q) /\ (p \in {q, q + MaxRaw} <=> r = q)
  BY <1>2, MaterialFact
<1> HIDE DEF p, old
<1>7. w.cargo[r] \in 0..MaxCarry /\ w.cargo[p] \in 0..MaxCarry
  BY <1>5 DEF Stock, Cargoes
<1>8. in \in Nat /\ m \in 0..MaxCarry /\ old.raw + in \in 0..MaxStock
  <2> DEFINE a == w.cargo[r]
             b == MaxStock - old.raw
  <2>1. a \in 0..MaxCarry /\ MaxCarry \in Nat /\ b \in Nat /\ old.raw + b = MaxStock
    BY <1>1, <1>7, GoodsFact
  <2>2. in \in {a, b} /\ in <= a /\ in <= b
    BY <2>1, LeastFact
  <2> HIDE DEF in
  <2>3. old.raw \in Nat /\ MaxStock \in Nat
    BY <1>1, GoodsFact
  <2> HIDE DEF a
  <2>4. in \in Nat /\ a - in \in 0..MaxCarry
    BY <2>1, <2>2
  <2>5. old.raw + in <= MaxStock
    BY <2>1, <2>2, <2>3, <2>4
  <2> QED BY <2>3, <2>4, <2>5 DEF a
<1>9. out \in Nat /\ n \in 0..MaxCarry /\ old.stock - out \in 0..MaxStock
  <2> DEFINE a == w.cargo[p]
             b == Supply(old.stock, s.type)
  <2>1. a \in 0..MaxCarry /\ MaxCarry \in Nat /\ b \in Nat /\ b <= old.stock
    BY <1>1, <1>7, GoodsFact, SupplyFact
  <2> HIDE DEF b
  <2>2. given \in Nat /\ given <= MaxCarry - a /\ given <= b
    <3>1. MaxCarry - a \in Nat
      BY <2>1
    <3>2. Least(MaxCarry - a, b) \in {MaxCarry - a, b}
          /\ Least(MaxCarry - a, b) <= MaxCarry - a /\ Least(MaxCarry - a, b) <= b
      BY <2>1, <3>1, LeastFact
    <3>3. given = Least(MaxCarry - a, b)
      BY DEF b
    <3> HIDE DEF given, a
    <3> QED BY <2>1, <3>1, <3>2, <3>3
  <2> HIDE DEF given
  <2>3. out \in Nat /\ out <= MaxCarry - a /\ out <= b
    <3>1. 0 <= MaxCarry - a /\ 0 <= b
      BY <2>1
    <3> QED BY <2>2, <3>1
  <2> HIDE DEF out, a
  <2>4. a + out \in 0..MaxCarry /\ old.stock - out \in 0..MaxStock
    BY <1>1, <2>1, <2>3, GoodsFact
  <2> QED BY <2>3, <2>4 DEF a
<1> HIDE DEF in, out
<1>10. /\ new \in FactorySet
       /\ \A q \in Raw : OfFactory(new, q) - OfFactory(old, q) = IF r = q THEN in - out ELSE 0
  <2>1. new \in FactorySet
    BY <1>2, <1>8, <1>9 DEF FactorySet
  <2>2. ASSUME NEW q \in Raw
        PROVE  OfFactory(new, q) - OfFactory(old, q) = IF r = q THEN in - out ELSE 0
    <3>1. /\ OfFactory(new, q) = (IF r = q THEN (old.raw + in) + (old.stock - out) ELSE 0)
          /\ OfFactory(old, q) = (IF old.product = q THEN old.raw + old.stock ELSE 0)
      BY DEF OfFactory
    <3>2. old.raw \in Int /\ old.stock \in Int /\ in \in Int /\ out \in Int
      BY <1>1, <1>8, <1>9, GoodsFact
    <3> HIDE DEF new
    <3>3. OfFactory(old, q) = IF r = q THEN old.raw + old.stock ELSE 0
      BY <1>2, <3>1
    <3> QED BY <3>1, <3>2, <3>3
  <2> QED BY <2>1, <2>2
<1> HIDE DEF new, m, n, u, t, v
<1>11. /\ Others(w, u) /\ Stock(u) /\ u.cargo = w.cargo /\ DOMAIN u = Field
       /\ \A q \in Raw : HeldBy(u, q) = HeldBy(w, q) + (IF r = q THEN in - out ELSE 0)
  <2>1. /\ Others(w, u) /\ Stock(u) /\ u.cargo = w.cargo
        /\ \A q \in Raw : HeldBy(u, q) = HeldBy(w, q) + (OfFactory(new, q) - OfFactory(old, q))
    BY <1>10, PutFactoryFact DEF old, u
  <2> QED BY <1>10, <2>1 DEF Others
<1>12. /\ Others(u, t) /\ Stock(t) /\ DOMAIN t = Field /\ t.cargo[p] = w.cargo[p]
       /\ \A q \in Raw : HeldBy(t, q) = HeldBy(u, q) + (IF r = q THEN - in ELSE 0)
  <2>1. /\ Others(u, t) /\ Stock(t)
        /\ \A h \in Goods : t.cargo[h] = IF h = r THEN m ELSE u.cargo[h]
        /\ \A q \in Raw : HeldBy(t, q) = HeldBy(u, q)
               + (IF r \in {q, q + MaxRaw} THEN m - u.cargo[r] ELSE 0)
    BY <1>5, <1>8, <1>11, PutCargoFact DEF t
  <2>2. m - u.cargo[r] = - in
    BY <1>7, <1>8, <1>11, GoodsFact DEF m
  <2>3. t.cargo[p] = w.cargo[p]
    BY <1>5, <1>11, <2>1
  <2> QED BY <1>6, <2>1, <2>2, <2>3 DEF Others
<1>13. /\ Others(t, v) /\ Stock(v)
       /\ \A q \in Raw : HeldBy(v, q) = HeldBy(t, q) + (IF r = q THEN out ELSE 0)
  <2>1. /\ Others(t, v) /\ Stock(v)
        /\ \A q \in Raw : HeldBy(v, q) = HeldBy(t, q)
               + (IF p \in {q, q + MaxRaw} THEN n - t.cargo[p] ELSE 0)
    BY <1>5, <1>9, <1>12, PutCargoFact DEF v
  <2>2. n - t.cargo[p] = out
    BY <1>7, <1>9, <1>12, GoodsFact DEF n
  <2> QED BY <1>6, <2>1, <2>2
<1>14. ASSUME NEW q \in Raw PROVE HeldBy(v, q) = HeldBy(w, q)
  <2>1. HeldBy(w, q) \in Int /\ in \in Int /\ out \in Int
    BY <1>8, <1>9, HeldByFact, PartsFact
  <2>2. /\ HeldBy(u, q) = HeldBy(w, q) + (IF r = q THEN in - out ELSE 0)
        /\ HeldBy(t, q) = HeldBy(u, q) + (IF r = q THEN - in ELSE 0)
        /\ HeldBy(v, q) = HeldBy(t, q) + (IF r = q THEN out ELSE 0)
    BY <1>11, <1>12, <1>13
  <2> QED BY <2>1, <2>2
<1>15. Others(w, v)
  BY <1>11, <1>12, <1>13 DEF Others
<1>16. Balanced(w, v)
  BY <1>13, <1>14, <1>15 DEF Balanced
<1> QED BY <1>3, <1>4, <1>16

\* The circumstances of a trade.
Given(c) == c.supplied \in SUBSET Slot /\ c.purse \in Nat

LEMMA TradeBalanced ==
    ASSUME NEW w, DOMAIN w = Field, Stock(w), NEW s, s.firm \in Firm, NEW c, Given(c)
    PROVE  Balanced(w, Trade(w, s, c))
<1> DEFINE f == s.firm
<1>1. CASE ~Trades(w, f)
  <2>1. Trade(w, s, c) = w
    BY <1>1 DEF Trade
  <2> QED BY <2>1 DEF Balanced, Others
<1>2. CASE Trades(w, f) /\ f \in Market
  <2>1. f \notin Mine /\ f \notin Factory
    BY <1>2, FirmAssumption
  <2>2. Trade(w, s, c) = MarketTrade(w, f, s, c)
    BY <1>2, <2>1 DEF Trade
  <2> QED BY <1>2, <2>2, MarketTradeFact DEF Given
<1>3. CASE Trades(w, f) /\ f \in Mine
  <2>1. f \notin Market /\ f \notin Factory
    BY <1>3, FirmAssumption
  <2>2. Trade(w, s, c) = MineTrade(w, f, s)
    BY <1>3, <2>1 DEF Trade
  <2> QED BY <1>3, <2>2, MineTradeFact
<1>4. CASE Trades(w, f) /\ f \in Factory
  <2>1. f \notin Market /\ f \notin Mine
    BY <1>4, FirmAssumption
  <2>2. Trade(w, s, c) = FactoryTrade(w, f, s, c)
    BY <1>4, <2>1 DEF Trade
  <2> QED BY <1>4, <2>2, FactoryTradeFact
<1> QED BY <1>1, <1>2, <1>3, <1>4 DEF Firm

-----------------------------------------------------------------------------
(* Trade of the firms with each other *)

MarketsSet == [Market -> SlotSet]
MinesSet == [Mine -> MineSet]
FactoriesSet == [Factory -> FactorySet]

\* The worlds that the firms' trade can make of w.
With(w, market, mine, factory) ==
    [w EXCEPT !.market = market, !.mine = mine, !.factory = factory]
Worlds(w) ==
    {w} \cup {With(w, market, mine, factory) :
                market \in MarketsSet, mine \in MinesSet, factory \in FactoriesSet}

LEMMA WithFact ==
    ASSUME NEW w, DOMAIN w = Field, NEW a, NEW b, NEW c
    PROVE  /\ Others(w, With(w, a, b, c)) /\ With(w, a, b, c).cargo = w.cargo
           /\ With(w, a, b, c).market = a /\ With(w, a, b, c).mine = b
           /\ With(w, a, b, c).factory = c
BY DEF With, Field, Others

LEMMA WorldsFact ==
    ASSUME NEW w, DOMAIN w = Field, NEW u \in Worlds(w)
    PROVE  Others(w, u) /\ u.cargo = w.cargo
<1>1. CASE u = w
  BY <1>1 DEF Others
<1>2. CASE u # w
  <2>1. PICK a \in MarketsSet, b \in MinesSet, c \in FactoriesSet : u = With(w, a, b, c)
    BY <1>2 DEF Worlds
  <2> QED BY <2>1, WithFact
<1> QED BY <1>1, <1>2

LEMMA WorldsPut ==
    ASSUME NEW w, DOMAIN w = Field, Stock(w), NEW u \in Worlds(w)
    PROVE  /\ \A m \in Market : \A slot \in SlotSet : PutMarket(u, m, slot) \in Worlds(w)
           /\ \A f \in Mine : \A new \in MineSet : PutMine(u, f, new) \in Worlds(w)
           /\ \A f \in Factory : \A new \in FactorySet : PutFactory(u, f, new) \in Worlds(w)
<1> DEFINE Puts(a, b, c) ==
             /\ \A m \in Market : \A slot \in SlotSet :
                    PutMarket(u, m, slot) = With(w, [a EXCEPT ![m] = slot], b, c)
             /\ \A f \in Mine : \A new \in MineSet :
                    PutMine(u, f, new) = With(w, a, [b EXCEPT ![f] = new], c)
             /\ \A f \in Factory : \A new \in FactorySet :
                    PutFactory(u, f, new) = With(w, a, b, [c EXCEPT ![f] = new])
<1>1. PICK a \in MarketsSet, b \in MinesSet, c \in FactoriesSet : Puts(a, b, c)
  <2>1. CASE u = w
    <3>1. w.market \in MarketsSet /\ w.mine \in MinesSet /\ w.factory \in FactoriesSet
      BY DEF Stock, MarketsSet, MinesSet, FactoriesSet
    <3>2. Puts(w.market, w.mine, w.factory)
      BY <2>1 DEF PutMarket, PutMine, PutFactory, With, Field
    <3> HIDE DEF Puts
    <3> QED BY <3>1, <3>2
  <2>2. CASE u # w
    <3>1. PICK a \in MarketsSet, b \in MinesSet, c \in FactoriesSet : u = With(w, a, b, c)
      BY <2>2 DEF Worlds
    <3>2. Puts(a, b, c)
      BY <3>1 DEF PutMarket, PutMine, PutFactory, With, Field
    <3> HIDE DEF Puts
    <3> QED BY <3>2
  <2> QED BY <2>1, <2>2
<1>2. \A x \in MarketsSet, y \in MinesSet, z \in FactoriesSet : With(w, x, y, z) \in Worlds(w)
  BY DEF Worlds
<1>3. ASSUME NEW m \in Market, NEW slot \in SlotSet PROVE PutMarket(u, m, slot) \in Worlds(w)
  <2> DEFINE x == [a EXCEPT ![m] = slot]
  <2>1. PutMarket(u, m, slot) = With(w, x, b, c) /\ x \in MarketsSet
    BY <1>1 DEF MarketsSet
  <2> HIDE DEF x
  <2> QED BY <1>2, <2>1
<1>4. ASSUME NEW f \in Mine, NEW new \in MineSet PROVE PutMine(u, f, new) \in Worlds(w)
  <2> DEFINE y == [b EXCEPT ![f] = new]
  <2>1. PutMine(u, f, new) = With(w, a, y, c) /\ y \in MinesSet
    BY <1>1 DEF MinesSet
  <2> HIDE DEF y
  <2> QED BY <1>2, <2>1
<1>5. ASSUME NEW f \in Factory, NEW new \in FactorySet PROVE PutFactory(u, f, new) \in Worlds(w)
  <2> DEFINE z == [c EXCEPT ![f] = new]
  <2>1. PutFactory(u, f, new) = With(w, a, b, z) /\ z \in FactoriesSet
    BY <1>1 DEF FactoriesSet
  <2> HIDE DEF z
  <2> QED BY <1>2, <2>1
<1> QED BY <1>3, <1>4, <1>5

LEMMA LinkedFact == \A f \in Firm : Linked[f] \in Seq(Firm)
BY FirmAssumption

\* An input of raw material on its way through the list of links of k.
RawSet(w, k, output) ==
    {t \in [world : Worlds(w), factory : {k}, output : {output}, purse : Nat] :
        Balanced(w, t.world)}

LEMMA AffordFact ==
    ASSUME NEW t, t.purse \in Nat, NEW s, NEW m \in Nat, NEW n, n = Afford(t, s, m)
    PROVE  /\ n \in Nat /\ n <= m
           /\ (IF Afford(t, s, MaxStock) = MaxStock THEN t.purse ELSE t.purse - n) \in Nat
<1>1. CASE t.world.firm[s].owner = t.world.firm[t.factory].owner
  <2>1. n = m /\ Afford(t, s, MaxStock) = MaxStock
    BY <1>1 DEF Afford
  <2> QED BY <2>1
<1>2. CASE t.world.firm[s].owner # t.world.firm[t.factory].owner
  <2>1. n = Least(m, t.purse)
    BY <1>2 DEF Afford
  <2>2. n \in {m, t.purse} /\ n <= m /\ n <= t.purse
    BY <2>1, LeastFact
  <2>3. n \in Nat /\ t.purse - n \in Nat
    BY <2>2
  <2> QED BY <2>2, <2>3
<1> QED BY <1>1, <1>2

\* A firm gives n units to the factory k.
LEMMA RawMoves ==
    ASSUME NEW u, DOMAIN u = Field, Stock(u), NEW k \in Factory, NEW n \in Nat,
           u.factory[k].raw + n <= MaxStock,
           NEW new, new = [u.factory[k] EXCEPT !.raw = @ + n]
    PROVE  /\ new \in FactorySet
           /\ \A r \in Raw : OfFactory(new, r) - OfFactory(u.factory[k], r)
                                 = IF u.factory[k].product = r THEN n ELSE 0
<1> DEFINE old == u.factory[k]
<1>1. old \in FactorySet /\ old.product \in Raw /\ old.raw \in 0..MaxStock /\ old.stock \in 0..MaxStock
  BY DEF Stock, FactorySet
<1>2. old.raw \in Int /\ old.stock \in Int /\ old.raw + n \in 0..MaxStock
  BY <1>1, GoodsFact
<1> HIDE DEF old
<1>3. new = [old EXCEPT !.raw = @ + n] /\ old.raw + n <= MaxStock
  BY DEF old
<1>4. new \in FactorySet /\ new.product = old.product /\ new.raw = old.raw + n /\ new.stock = old.stock
  BY <1>1, <1>2, <1>3 DEF FactorySet
<1>5. ASSUME NEW r \in Raw
      PROVE  OfFactory(new, r) - OfFactory(old, r) = IF old.product = r THEN n ELSE 0
  BY <1>2, <1>4 DEF OfFactory
<1> QED BY <1>4, <1>5 DEF old

\* A factory that takes in raw material from one firm conserves it.
LEMMA RawFromFact ==
    ASSUME NEW w, DOMAIN w = Field, Stock(w), NEW k \in Factory, NEW output,
           NEW t \in RawSet(w, k, output), NEW s \in Firm
    PROVE  RawFrom(t, s) \in RawSet(w, k, output)
<1> DEFINE u == t.world
           f == t.factory
           old == u.factory[f]
           same == IF s \in Market THEN {i \in Slot : u.market[s][i].good = old.product} ELSE {}
           i == Min(same)
           have == IF s \in Mine THEN u.mine[s].stock ELSE u.market[s][i].stock
           n == Afford(t, s, Least(MaxStock - old.raw, have))
           left == IF Afford(t, s, MaxStock) = MaxStock THEN t.purse ELSE t.purse - n
           paid == [t EXCEPT !.world.factory[f].raw = @ + n, !.purse = left]
           new == [old EXCEPT !.raw = @ + n]
           a == PutFactory(u, f, new)
           b == PutMine(a, s, [u.mine[s] EXCEPT !.stock = @ - n])
           c == PutMarket(a, s, [u.market[s] EXCEPT ![i].stock = u.market[s][i].stock - n])
           Became(v) == [t EXCEPT !.world = v, !.purse = left]
<1>1. /\ t \in [world : Worlds(w), factory : {k}, output : {output}, purse : Nat]
      /\ f = k /\ t.purse \in Nat /\ u \in Worlds(w) /\ Balanced(w, u)
  BY DEF RawSet
<1>2. DOMAIN u = Field /\ Stock(u) /\ f \in Factory
  BY <1>1 DEF Balanced, Others
<1>3. RawFrom(t, s) =
        CASE s \in t.output \cap Mine /\ RawId[s] = old.product ->
                [paid EXCEPT !.world.mine[s].stock = @ - n]
          [] s \in t.output \cap Market /\ same # {} ->
                [paid EXCEPT !.world.market[s][i].stock = @ - n]
          [] OTHER -> t
  BY Zenon DEF RawFrom
<1> HIDE DEF n, same, i, left
<1>4. paid = [t EXCEPT !.world = a, !.purse = left]
  BY <1>1, <1>2 DEF PutFactory, Field
<1>5. /\ DOMAIN a = Field /\ a.mine = u.mine /\ a.market = u.market
  BY <1>2 DEF PutFactory, Field
<1>6. [paid EXCEPT !.world.mine[s].stock = @ - n] = Became(b)
  <2> HIDE DEF a, paid
  <2> QED BY <1>1, <1>4, <1>5 DEF PutMine, Field
<1>7. [paid EXCEPT !.world.market[s][i].stock = @ - n] = Became(c)
  <2> HIDE DEF a, paid
  <2> QED BY <1>1, <1>4, <1>5 DEF PutMarket, Field
<1> DEFINE p == old.product
<1>8. old \in FactorySet /\ p \in Raw /\ old.raw \in 0..MaxStock
  BY <1>2 DEF Stock, FactorySet
<1>9. ASSUME have \in 0..MaxStock
      PROVE  /\ n \in Nat /\ n <= have /\ left \in Nat /\ Stock(a) /\ a \in Worlds(w)
             /\ \A r \in Raw : HeldBy(a, r) = HeldBy(w, r) + (IF p = r THEN n ELSE 0)
  <2> DEFINE x == Least(MaxStock - old.raw, have)
  <2>1. x \in Nat /\ x <= have /\ old.raw + x <= MaxStock
    <3> DEFINE y == MaxStock - old.raw
    <3>1. y \in Nat /\ old.raw \in Nat /\ old.raw + y = MaxStock /\ have \in Nat
      BY <1>8, <1>9, GoodsFact
    <3> HIDE DEF y, have, old
    <3>2. Least(y, have) \in {y, have} /\ Least(y, have) <= y /\ Least(y, have) <= have
      BY <3>1, LeastFact
    <3>3. Least(y, have) \in Nat /\ old.raw + Least(y, have) <= MaxStock
      BY <3>1, <3>2
    <3> QED BY <3>2, <3>3 DEF y
  <2> HIDE DEF x
  <2>2. n = Afford(t, s, x)
    BY DEF n, x
  <2>3. /\ n \in Nat /\ n <= x
        /\ (IF Afford(t, s, MaxStock) = MaxStock THEN t.purse ELSE t.purse - n) \in Nat
    BY <1>1, <2>1, <2>2, AffordFact
  <2>4. left \in Nat
    BY <2>3 DEF left
  <2> HIDE DEF have
  <2>5. old.raw + n <= MaxStock /\ n <= have
    <3>1. have \in Int /\ old.raw \in Int /\ MaxStock \in Int
      BY <1>8, <1>9, GoodsFact
    <3> HIDE DEF old
    <3> QED BY <2>1, <2>3, <3>1
  <2>6. /\ new \in FactorySet
        /\ \A r \in Raw : OfFactory(new, r) - OfFactory(old, r) = IF p = r THEN n ELSE 0
    BY <1>2, <2>3, <2>5, RawMoves
  <2> HIDE DEF new
  <2>7. /\ Stock(a)
        /\ \A r \in Raw : HeldBy(a, r) = HeldBy(u, r) + (OfFactory(new, r) - OfFactory(old, r))
    BY <1>2, <2>6, PutFactoryFact
  <2>8. a \in Worlds(w)
    BY <1>1, <1>2, <2>6, WorldsPut
  <2>9. \A r \in Raw : HeldBy(u, r) = HeldBy(w, r)
    BY <1>1 DEF Balanced
  <2> HIDE DEF a, old
  <2>10. \A r \in Raw : HeldBy(a, r) = HeldBy(w, r) + (IF p = r THEN n ELSE 0)
    BY <2>6, <2>7, <2>9
  <2> QED BY <2>3, <2>4, <2>5, <2>7, <2>8, <2>10
<1> HIDE DEF new, a, paid
<1>10. ASSUME NEW v \in Worlds(w), Stock(v), \A r \in Raw : HeldBy(v, r) = HeldBy(w, r), left \in Nat
       PROVE  Became(v) \in RawSet(w, k, output)
  <2>1. Balanced(w, v)
    BY <1>10, WorldsFact DEF Balanced
  <2>2. /\ Became(v) \in [world : Worlds(w), factory : {k}, output : {output}, purse : Nat]
        /\ Became(v).world = v
    BY <1>1, <1>10
  <2> HIDE DEF Became
  <2> QED BY <2>1, <2>2 DEF RawSet
<1> HIDE DEF Became
<1>11. CASE s \in t.output \cap Mine /\ RawId[s] = p
  <2> DEFINE x == u.mine[s]
             y == [x EXCEPT !.stock = @ - n]
  <2>1. s \notin Market /\ s \in Mine
    BY <1>11, FirmAssumption
  <2>2. RawFrom(t, s) = Became(b)
    BY <1>3, <1>6, <1>11, <2>1
  <2>3. x \in MineSet /\ have = x.stock /\ x.stock \in 0..MaxStock /\ x.reserve \in Nat
    BY <1>2, <2>1 DEF Stock, MineSet
  <2>4. /\ n \in Nat /\ n <= x.stock /\ left \in Nat /\ Stock(a) /\ a \in Worlds(w)
        /\ \A r \in Raw : HeldBy(a, r) = HeldBy(w, r) + (IF p = r THEN n ELSE 0)
    BY <1>9, <2>3
  <2> HIDE DEF x, have
  <2>5. y \in MineSet /\ y.stock = x.stock - n /\ y.reserve = x.reserve
    <3>1. x.stock - n \in 0..MaxStock
      BY <2>3, <2>4, GoodsFact
    <3> QED BY <2>3, <3>1 DEF MineSet
  <2> HIDE DEF y
  <2>6. \A r \in Raw : OfMine(s, y, r) - OfMine(s, x, r) = IF p = r THEN - n ELSE 0
    <3>1. x.stock \in Int /\ x.reserve \in Int /\ n \in Int
      BY <2>3, <2>4, GoodsFact
    <3> QED BY <1>11, <2>5, <3>1 DEF OfMine
  <2>7. b = PutMine(a, s, y)
    BY DEF x, y
  <2> HIDE DEF b
  <2>8. /\ Stock(b)
        /\ \A r \in Raw : HeldBy(b, r) = HeldBy(a, r) + (OfMine(s, y, r) - OfMine(s, x, r))
    <3>1. a.mine[s] = x
      BY <1>5 DEF x
    <3>2. /\ Stock(b)
          /\ \A r \in Raw : HeldBy(b, r) = HeldBy(a, r) + (OfMine(s, y, r) - OfMine(s, a.mine[s], r))
      BY <1>5, <2>1, <2>4, <2>5, <2>7, PutMineFact
    <3> QED BY <3>1, <3>2
  <2>9. b \in Worlds(w)
    BY <2>1, <2>4, <2>5, <2>7, WorldsPut
  <2>10. ASSUME NEW r \in Raw PROVE HeldBy(b, r) = HeldBy(w, r)
    <3>1. HeldBy(w, r) \in Int
      BY HeldByFact, PartsFact
    <3> QED BY <2>4, <2>6, <2>8, <3>1
  <2> QED BY <1>10, <2>2, <2>4, <2>8, <2>9, <2>10
<1>12. CASE s \in t.output \cap Market /\ same # {}
  <2> DEFINE x == u.market[s]
             q == x[i].stock - n
             y == [x EXCEPT ![i].stock = q]
  <2>1. s \notin Mine /\ s \in Market
    BY <1>12, FirmAssumption
  <2>2. RawFrom(t, s) = Became(c)
    <3>1. ~(s \in t.output \cap Mine)
      BY <2>1
    <3> QED BY <1>3, <1>7, <1>12, <3>1
  <2>3. i \in Slot /\ x[i].good = p
    <3>1. same = {j \in Slot : x[j].good = p}
      BY <2>1 DEF same
    <3>2. i \in same
      <4>1. same \in SUBSET Nat
        BY <3>1, GoodsFact
      <4> QED BY <1>12, <4>1, MinIsLeast DEF i
    <3> QED BY <3>1, <3>2
  <2>4. x \in SlotSet /\ SlotsOf(x) /\ have = x[i].stock /\ x[i].stock \in 0..MaxStock
    BY <1>2, <2>1, <2>3 DEF Stock, SlotSet
  <2>5. /\ n \in Nat /\ n <= x[i].stock /\ left \in Nat /\ Stock(a) /\ a \in Worlds(w)
        /\ \A r \in Raw : HeldBy(a, r) = HeldBy(w, r) + (IF p = r THEN n ELSE 0)
    BY <1>9, <2>4
  <2> HIDE DEF x, have
  <2>6. q \in 0..MaxStock /\ q - x[i].stock = - n
    BY <2>4, <2>5, GoodsFact
  <2>7. p # 0
    BY <1>8, GoodsFact
  <2> HIDE DEF q, p
  <2>8. /\ y \in SlotSet /\ SlotsOf(y)
        /\ \A r \in Raw : OfSlots(y, r) = OfSlots(x, r)
               + (IF x[i].good \in {r, r + MaxRaw} THEN q - x[i].stock ELSE 0)
    <3>1. y = Restocked(x, i, q)
      BY DEF Restocked
    <3>2. x[i].good # 0
      BY <2>3, <2>7
    <3>3. x \in SlotSet /\ SlotsOf(x) /\ i \in Slot /\ q \in 0..MaxStock
      BY <2>3, <2>4, <2>6
    <3> HIDE DEF y, i
    <3> QED BY ONLY <3>1, <3>2, <3>3, SlotChange
  <2>9. c = PutMarket(a, s, y)
    BY DEF x, y, q
  <2> HIDE DEF y, c
  <2>10. \A r \in Raw : OfSlots(y, r) - OfSlots(x, r) = IF p = r THEN - n ELSE 0
    <3> SUFFICES ASSUME NEW r \in Raw
                 PROVE  OfSlots(y, r) - OfSlots(x, r) = IF p = r THEN - n ELSE 0
      OBVIOUS
    <3>1. OfSlots(x, r) \in Int
      BY <2>4, ShareFact
    <3>2. x[i].good \in {r, r + MaxRaw} <=> p = r
      BY <1>8, <2>3, MaterialFact DEF p
    <3>3. OfSlots(y, r) = OfSlots(x, r) + (IF p = r THEN - n ELSE 0)
      BY <2>6, <2>8, <3>2
    <3> QED BY <2>5, <3>1, <3>3
  <2>11. /\ Stock(c)
         /\ \A r \in Raw : HeldBy(c, r) = HeldBy(a, r) + (OfSlots(y, r) - OfSlots(x, r))
    <3>1. a.market[s] = x
      BY <1>5 DEF x
    <3>2. /\ Stock(c)
          /\ \A r \in Raw : HeldBy(c, r) = HeldBy(a, r) + (OfSlots(y, r) - OfSlots(a.market[s], r))
      BY <1>5, <2>1, <2>5, <2>8, <2>9, PutMarketFact
    <3> QED BY <3>1, <3>2
  <2>12. c \in Worlds(w)
    BY <2>1, <2>5, <2>8, <2>9, WorldsPut
  <2>13. ASSUME NEW r \in Raw PROVE HeldBy(c, r) = HeldBy(w, r)
    <3>1. HeldBy(w, r) \in Int
      BY HeldByFact, PartsFact
    <3> QED BY <2>5, <2>10, <2>11, <3>1
  <2> QED BY <1>10, <2>2, <2>5, <2>11, <2>12, <2>13
<1>13. CASE ~(s \in t.output \cap Mine /\ RawId[s] = p) /\ ~(s \in t.output \cap Market /\ same # {})
  <2>1. RawFrom(t, s) = t
    BY <1>3, <1>13, Zenon
  <2> QED BY <2>1
<1> QED BY <1>11, <1>12, <1>13

\* What one firm's delivery keeps, the deliveries of all keep.
LEMMA RawFromFold ==
    ASSUME NEW k \in Firm, NEW T, NEW base \in T, \A t \in T : \A i \in Firm : RawFrom(t, i) \in T
    PROVE  FoldLeft(RawFrom, base, Linked[k]) \in T
<1> DEFINE D == DOMAIN Linked[k]
           pick == [s \in SUBSET D |-> Max(s)]
           F == [y \in D \X T |-> RawFrom(y[2], Linked[k][y[1]])]
           Step(g, s) == LET x == Max(s) IN RawFrom(g[s \ {x}], Linked[k][x])
           Right(g) == g = [s \in SUBSET D |-> IF s = {} THEN base ELSE Step(g, s)]
           run == CHOOSE g : Right(g)
<1>1. FoldLeft(RawFrom, base, Linked[k]) = run[D]
  BY DEF FoldLeft, MapThenFoldSet
<1>2. IsFiniteSet(D) /\ Picks(D, pick) /\ \A i \in D : Linked[k][i] \in Firm
  BY LinkedFact, MaxPicks, SeqFact
<1>3. F \in [D \X T -> T]
  BY <1>2
<1> HIDE DEF D
<1>4. \A s \in SUBSET D : s # {} => pick[s] = Max(s) /\ Max(s) \in D
  BY <1>2 DEF Picks
<1>5. PICK iter : Folding(D, pick, T, base, F, iter)
  <2> HIDE DEF pick, F
  <2> QED BY <1>2, <1>3, FoldExists
<1>6. Right(iter)
  <2>1. ASSUME NEW s \in SUBSET D PROVE iter[s] = IF s = {} THEN base ELSE Step(iter, s)
    <3>1. CASE s = {}
      BY <1>5, <3>1 DEF Folding
    <3>2. CASE s # {}
      <4> DEFINE x == Max(s)
      <4>1. x \in D /\ pick[s] = x
        BY <1>4, <3>2
      <4> HIDE DEF x
      <4>2. iter[s \ {x}] \in T /\ iter[s] = F[<<x, iter[s \ {x}]>>]
        BY <1>5, <3>2, <4>1 DEF Folding
      <4>3. iter[s] = RawFrom(iter[s \ {x}], Linked[k][x])
        BY <4>1, <4>2
      <4> QED BY <3>2, <4>3 DEF x
    <3> QED BY <3>1, <3>2
  <2>2. DOMAIN iter = SUBSET D
    BY <1>5 DEF Folding
  <2>3. iter = [s \in SUBSET D |-> iter[s]]
    BY <1>5 DEF Folding
  <2> HIDE DEF Step
  <2> QED BY <2>1, <2>3
<1>7. Right(run)
  BY <1>6
<1> HIDE DEF run
<1>8. run[{}] = base /\ \A s \in SUBSET D : s # {} => run[s] = Step(run, s)
  <2> HIDE DEF Step
  <2> QED BY <1>7
<1>9. ASSUME NEW s \in SUBSET D, s # {}, run[s \ {pick[s]}] \in T PROVE run[s] \in T
  <2> DEFINE x == Max(s)
  <2>1. x \in D /\ pick[s] = x /\ run[s] = RawFrom(run[s \ {x}], Linked[k][x])
    BY <1>4, <1>8, <1>9
  <2> HIDE DEF x, pick
  <2> QED BY <1>2, <1>9, <2>1
<1> HIDE DEF Right, pick
<1>10. \A s \in SUBSET D : run[s] \in T
  BY <1>2, <1>8, <1>9, FoldStays
<1> QED BY <1>1, <1>10

\* Only what is in the stores counts.
LEMMA SameStores ==
    ASSUME NEW w, NEW v, v.market = w.market, v.mine = w.mine, v.factory = w.factory, v.cargo = w.cargo
    PROVE  /\ Stock(w) <=> Stock(v)
           /\ \A r : HeldBy(v, r) = HeldBy(w, r)
<1>1. Stock(w) <=> Stock(v)
  BY DEF Stock
<1>2. ASSUME NEW r PROVE HeldBy(v, r) = HeldBy(w, r)
  <2>1. /\ Carried(v, r) = Carried(w, r) /\ InMarkets(v, r) = InMarkets(w, r)
        /\ InMines(v, r) = InMines(w, r) /\ InFactories(v, r) = InFactories(w, r)
    BY DEF Carried, InMarkets, InMines, InFactories
  <2> QED BY <2>1, HeldByFact
<1> QED BY <1>1, <1>2

\* The world with the stocks of another in which nothing was lost.
LEMMA StockedBalanced ==
    ASSUME NEW w, DOMAIN w = Field, NEW u \in Worlds(w), Balanced(w, u)
    PROVE  /\ Balanced(w, Stocked(w, u))
           /\ Stocked(w, u).market = u.market /\ Stocked(w, u).factory = u.factory
<1> DEFINE v == With(w, u.market, u.mine, u.factory)
<1>1. Stocked(w, u) = v
  BY DEF Stocked, With
<1>2. /\ Others(w, v) /\ v.cargo = u.cargo
      /\ v.market = u.market /\ v.mine = u.mine /\ v.factory = u.factory
  BY WithFact, WorldsFact
<1> HIDE DEF v
<1>3. Stock(v) /\ \A r \in Raw : HeldBy(v, r) = HeldBy(u, r)
  BY <1>2, SameStores DEF Balanced
<1> QED BY <1>1, <1>2, <1>3 DEF Balanced

\* A factory takes in raw material from all the firms linked to it (input_raw).
LEMMA InputRawFact ==
    ASSUME NEW w, DOMAIN w = Field, Stock(w), NEW k \in Factory, NEW output, NEW purse \in Nat
    PROVE  Balanced(w, InputRaw(w, k, output, purse))
<1> DEFINE T == RawSet(w, k, output)
           base == [world |-> w, factory |-> k, output |-> output, purse |-> purse]
           t == FoldLeft(RawFrom, base, Linked[k])
<1>1. base \in T
  BY DEF RawSet, Worlds, Balanced, Others
<1>2. \A e \in T : \A s \in Firm : RawFrom(e, s) \in T
  BY RawFromFact
<1>3. k \in Firm
  BY DEF Firm
<1> HIDE DEF T, base
<1>4. t \in T
  BY <1>1, <1>2, <1>3, RawFromFold
<1>5. t.world \in Worlds(w) /\ Balanced(w, t.world)
  <2> HIDE DEF t
  <2> QED BY <1>4 DEF T, RawSet
<1>6. InputRaw(w, k, output, purse) = Stocked(w, t.world)
  BY Zenon DEF InputRaw, base
<1> HIDE DEF t
<1> QED BY <1>5, <1>6, StockedBalanced

\* Raw material becomes as much product.
LEMMA ManufactureBalanced ==
    ASSUME NEW w, DOMAIN w = Field, Stock(w), NEW k \in Factory, NEW most \in Nat
    PROVE  Balanced(w, Manufacture(w, k, most))
<1> DEFINE old == w.factory[k]
           a == Least(old.raw, most)
           qty == Least(a, MaxStock - old.stock)
           new == [old EXCEPT !.raw = @ - qty, !.stock = @ + qty]
           v == PutFactory(w, k, new)
<1>1. old \in FactorySet /\ old.raw \in 0..MaxStock /\ old.stock \in 0..MaxStock
  BY DEF Stock, FactorySet
<1>2. Manufacture(w, k, most) = v
  BY DEF Manufacture, PutFactory, Field
<1> HIDE DEF old
<1>3. old.raw \in Nat /\ old.stock \in Nat /\ MaxStock - old.stock \in Nat /\ MaxStock \in Nat
      /\ old.raw <= MaxStock
  BY <1>1, GoodsFact
<1>4. a \in {old.raw, most} /\ a <= old.raw
  BY <1>3, LeastFact
<1> HIDE DEF a
<1>5. a \in Nat
  BY <1>3, <1>4
<1>6. qty \in {a, MaxStock - old.stock} /\ qty <= a /\ qty <= MaxStock - old.stock
  BY <1>3, <1>5, LeastFact
<1> HIDE DEF qty
<1>7. qty \in Nat
  BY <1>3, <1>5, <1>6
<1>8. old.raw - qty \in 0..MaxStock /\ old.stock + qty \in 0..MaxStock
  BY <1>3, <1>4, <1>5, <1>6, <1>7
<1>9. /\ new \in FactorySet /\ new.product = old.product
      /\ new.raw = old.raw - qty /\ new.stock = old.stock + qty
  BY <1>1, <1>8 DEF FactorySet
<1> HIDE DEF new
<1>10. \A r \in Raw : OfFactory(new, r) - OfFactory(old, r) = 0
  BY <1>3, <1>7, <1>9 DEF OfFactory
<1> HIDE DEF v
<1>11. /\ Others(w, v) /\ Stock(v)
       /\ \A r \in Raw : HeldBy(v, r) = HeldBy(w, r) + (OfFactory(new, r) - OfFactory(w.factory[k], r))
  <2>1. new \in FactorySet
    BY <1>9
  <2> QED BY <2>1, PutFactoryFact DEF v
<1>12. ASSUME NEW r \in Raw PROVE HeldBy(v, r) = HeldBy(w, r)
  <2>1. HeldBy(w, r) \in Int
    BY HeldByFact, PartsFact
  <2>2. HeldBy(v, r) = HeldBy(w, r) + (OfFactory(new, r) - OfFactory(old, r))
    BY <1>11 DEF old
  <2> QED BY <1>10, <2>1, <2>2
<1> QED BY <1>2, <1>11, <1>12 DEF Balanced

LEMMA GoodOfFact ==
    ASSUME NEW u, Stock(u), NEW s \in Producer
    PROVE  /\ s \in Firm /\ GoodOf(u, s) \in Goods /\ GoodOf(u, s) # 0
           /\ StoreOf(u, s) \in 0..MaxStock /\ (s \notin Mine => s \in Factory)
<1>1. CASE s \in Mine
  <2>1. RawId[s] \in Goods /\ u.mine[s].stock \in 0..MaxStock
    BY <1>1, FirmsFact, GoodsFact DEF Stock, MineSet
  <2>2. GoodOf(u, s) = RawId[s] /\ StoreOf(u, s) = u.mine[s].stock
    BY <1>1 DEF GoodOf, StoreOf
  <2> QED BY <1>1, <2>1, <2>2, GoodsFact DEF Firm
<1>2. CASE s \in Factory /\ s \notin Mine
  <2>1. u.factory[s].product \in Raw /\ u.factory[s].stock \in 0..MaxStock
    BY <1>2 DEF Stock, FactorySet
  <2>2. GoodOf(u, s) = u.factory[s].product + MaxRaw /\ StoreOf(u, s) = u.factory[s].stock
    BY <1>2 DEF GoodOf, StoreOf
  <2> QED BY <1>2, <2>1, <2>2, GoodsFact DEF Firm
<1> QED BY <1>1, <1>2 DEF Producer

\* A producer gives away some of what it has.
LEMMA TakeFromFact ==
    ASSUME NEW u, DOMAIN u = Field, Stock(u), NEW s \in Producer,
           NEW n \in Nat, n <= StoreOf(u, s), NEW v, v = TakeFrom(u, s, n)
    PROVE  /\ Others(u, v) /\ Stock(v) /\ v.market = u.market /\ v.cargo = u.cargo
           /\ \A f \in Factory : v.factory[f].product = u.factory[f].product
           /\ \A r \in Raw : HeldBy(v, r) = HeldBy(u, r)
                  + (IF GoodOf(u, s) \in {r, r + MaxRaw} THEN - n ELSE 0)
           /\ \A w : DOMAIN w = Field /\ Stock(w) /\ u \in Worlds(w) => v \in Worlds(w)
<1>1. CASE s \in Mine
  <2> DEFINE x == u.mine[s]
             y == [x EXCEPT !.stock = @ - n]
  <2>1. v = PutMine(u, s, y)
    BY <1>1 DEF TakeFrom, PutMine, Field
  <2>2. x \in MineSet /\ x.stock \in 0..MaxStock /\ x.reserve \in Int /\ n <= x.stock
    BY <1>1 DEF Stock, MineSet, StoreOf
  <2> HIDE DEF x
  <2>3. y \in MineSet /\ y.stock = x.stock - n /\ y.reserve = x.reserve
    <3>1. x.stock - n \in 0..MaxStock
      BY <2>2, GoodsFact
    <3> QED BY <2>2, <3>1 DEF MineSet
  <2> HIDE DEF y
  <2>4. \A r \in Raw : OfMine(s, y, r) - OfMine(s, x, r) = IF RawId[s] = r THEN - n ELSE 0
    BY <2>2, <2>3, GoodsFact DEF OfMine
  <2>5. /\ Others(u, v) /\ Stock(v)
        /\ v.market = u.market /\ v.factory = u.factory /\ v.cargo = u.cargo
        /\ \A r \in Raw : HeldBy(v, r) = HeldBy(u, r) + (OfMine(s, y, r) - OfMine(s, u.mine[s], r))
    BY <1>1, <2>1, <2>3, PutMineFact
  <2>6. ASSUME NEW r \in Raw
        PROVE  HeldBy(v, r) = HeldBy(u, r) + (IF GoodOf(u, s) \in {r, r + MaxRaw} THEN - n ELSE 0)
    <3>1. GoodOf(u, s) = RawId[s] /\ RawId[s] \in Raw
      BY <1>1, FirmsFact DEF GoodOf
    <3>2. GoodOf(u, s) \in {r, r + MaxRaw} <=> RawId[s] = r
      BY <3>1, MaterialFact
    <3>3. HeldBy(v, r) = HeldBy(u, r) + (OfMine(s, y, r) - OfMine(s, x, r))
      BY <2>5 DEF x
    <3> QED BY <2>4, <3>2, <3>3
  <2>7. ASSUME NEW w, DOMAIN w = Field, Stock(w), u \in Worlds(w) PROVE v \in Worlds(w)
    BY <1>1, <2>1, <2>3, <2>7, WorldsPut
  <2> QED BY <2>5, <2>6, <2>7
<1>2. CASE s \in Factory /\ s \notin Mine
  <2> DEFINE x == u.factory[s]
             y == [x EXCEPT !.stock = @ - n]
  <2>1. v = PutFactory(u, s, y)
    BY <1>2 DEF TakeFrom, PutFactory, Field
  <2>2. x \in FactorySet /\ x.stock \in 0..MaxStock /\ x.raw \in Int /\ n <= x.stock /\ x.product \in Raw
    BY <1>2, GoodsFact DEF Stock, FactorySet, StoreOf
  <2> HIDE DEF x
  <2>3. y \in FactorySet /\ y.stock = x.stock - n /\ y.raw = x.raw /\ y.product = x.product
    <3>1. x.stock - n \in 0..MaxStock
      BY <2>2, GoodsFact
    <3> QED BY <2>2, <3>1 DEF FactorySet
  <2> HIDE DEF y
  <2>4. \A r \in Raw : OfFactory(y, r) - OfFactory(x, r) = IF x.product = r THEN - n ELSE 0
    <3>1. x.stock \in Int
      BY <2>2, GoodsFact
    <3> QED BY <2>2, <2>3, <3>1, GoodsFact DEF OfFactory
  <2>5. /\ Others(u, v) /\ Stock(v)
        /\ v.market = u.market /\ v.mine = u.mine /\ v.cargo = u.cargo
        /\ \A f \in Factory : v.factory[f] = IF f = s THEN y ELSE u.factory[f]
        /\ \A r \in Raw : HeldBy(v, r) = HeldBy(u, r) + (OfFactory(y, r) - OfFactory(u.factory[s], r))
    BY <1>2, <2>1, <2>3, PutFactoryFact
  <2>6. ASSUME NEW r \in Raw
        PROVE  HeldBy(v, r) = HeldBy(u, r) + (IF GoodOf(u, s) \in {r, r + MaxRaw} THEN - n ELSE 0)
    <3>1. GoodOf(u, s) = x.product + MaxRaw
      BY <1>2 DEF GoodOf, x
    <3>2. GoodOf(u, s) \in {r, r + MaxRaw} <=> x.product = r
      BY <2>2, <3>1, MaterialFact
    <3>3. HeldBy(v, r) = HeldBy(u, r) + (OfFactory(y, r) - OfFactory(x, r))
      BY <2>5 DEF x
    <3> QED BY <2>4, <3>2, <3>3
  <2>7. ASSUME NEW w, DOMAIN w = Field, Stock(w), u \in Worlds(w) PROVE v \in Worlds(w)
    BY <1>2, <2>1, <2>3, <2>7, WorldsPut
  <2>8. \A f \in Factory : v.factory[f].product = u.factory[f].product
    BY <2>3, <2>5 DEF x
  <2> QED BY <2>5, <2>6, <2>7, <2>8
<1> QED BY <1>1, <1>2 DEF Producer

\* The goods are the same as in w, whatever there is of them.
SameGoods(w, v, m) ==
    /\ \A f \in Factory : v.factory[f].product = w.factory[f].product
    /\ \A i \in Slot : v.market[m][i].good = w.market[m][i].good

\* An input of goods on its way through the list of links of m.
InputSet(w, m, from, output) ==
    {t \in [world : Worlds(w), market : {m}, from : {from}, output : {output},
            inputing : SUBSET Slot, queued : Firm \cup {NoFirm}] :
        /\ Balanced(w, t.world) /\ SameGoods(w, t.world, m)
        /\ t.queued # NoFirm =>
              /\ t.queued \in Producer
              /\ \A i \in Slot : w.market[m][i].good # GoodOf(w, t.queued)}

\* A market gets n units of the goods in a slot from the producer s.
LEMMA MarketGets ==
    ASSUME NEW u, DOMAIN u = Field, Stock(u), NEW s \in Producer, NEW m \in Market,
           NEW i \in Slot, u.market[m][i].good = GoodOf(u, s),
           NEW n \in Nat, n <= StoreOf(u, s), NEW q \in 0..MaxStock, q = u.market[m][i].stock + n,
           NEW v, v = PutMarket(TakeFrom(u, s, n), m, Restocked(u.market[m], i, q))
    PROVE  /\ Balanced(u, v) /\ SameGoods(u, v, m)
           /\ \A w : DOMAIN w = Field /\ Stock(w) /\ u \in Worlds(w) => v \in Worlds(w)
<1> DEFINE a == TakeFrom(u, s, n)
           x == u.market[m]
           y == Restocked(x, i, q)
           g == GoodOf(u, s)
<1>1. /\ Others(u, a) /\ Stock(a) /\ a.market = u.market /\ a.cargo = u.cargo
      /\ \A f \in Factory : a.factory[f].product = u.factory[f].product
      /\ \A r \in Raw : HeldBy(a, r) = HeldBy(u, r) + (IF g \in {r, r + MaxRaw} THEN - n ELSE 0)
      /\ \A w : DOMAIN w = Field /\ Stock(w) /\ u \in Worlds(w) => a \in Worlds(w)
  BY TakeFromFact
<1>2. v = PutMarket(a, m, y)
  OBVIOUS
<1> HIDE DEF a
<1>3. x \in SlotSet /\ SlotsOf(x) /\ x[i].good # 0 /\ x[i].stock \in Int
  BY GoodOfFact, GoodsFact DEF Stock, SlotSet
<1>4. \A j \in Slot : y[j].good = x[j].good
  BY <1>3 DEF Restocked, SlotSet
<1>5. q - x[i].stock = n /\ x[i].good = g
  BY <1>3
<1> HIDE DEF x, g
<1>6. /\ y \in SlotSet /\ SlotsOf(y)
      /\ \A r \in Raw : OfSlots(y, r) = OfSlots(x, r)
             + (IF x[i].good \in {r, r + MaxRaw} THEN q - x[i].stock ELSE 0)
  BY <1>3, SlotChange
<1> HIDE DEF y
<1>7. /\ Others(a, v) /\ Stock(v)
      /\ \A e \in Market : v.market[e] = IF e = m THEN y ELSE a.market[e]
      /\ v.mine = a.mine /\ v.factory = a.factory /\ v.cargo = a.cargo
      /\ \A r \in Raw : HeldBy(v, r) = HeldBy(a, r) + (OfSlots(y, r) - OfSlots(a.market[m], r))
  <2>1. DOMAIN a = Field
    BY <1>1 DEF Others
  <2> QED BY <1>1, <1>2, <1>6, <2>1, PutMarketFact
<1>8. ASSUME NEW r \in Raw PROVE HeldBy(v, r) = HeldBy(u, r)
  <2>1. HeldBy(u, r) \in Int /\ OfSlots(x, r) \in Int
    BY <1>3, HeldByFact, PartsFact, ShareFact
  <2>2. HeldBy(v, r) = HeldBy(a, r) + (OfSlots(y, r) - OfSlots(x, r))
    BY <1>1, <1>7 DEF x
  <2>3. OfSlots(y, r) = OfSlots(x, r) + (IF g \in {r, r + MaxRaw} THEN n ELSE 0)
    BY <1>5, <1>6
  <2>4. HeldBy(a, r) = HeldBy(u, r) + (IF g \in {r, r + MaxRaw} THEN - n ELSE 0)
    BY <1>1
  <2> DEFINE mine == g \in {r, r + MaxRaw}
  <2> HIDE DEF mine
  <2>5. OfSlots(y, r) = OfSlots(x, r) + (IF mine THEN n ELSE 0)
    BY <2>3 DEF mine
  <2>6. HeldBy(a, r) = HeldBy(u, r) + (IF mine THEN - n ELSE 0)
    BY <2>4 DEF mine
  <2> QED BY <2>1, <2>2, <2>5, <2>6
<1>9. Balanced(u, v)
  BY <1>1, <1>7, <1>8 DEF Balanced, Others
<1>10. SameGoods(u, v, m)
  BY <1>1, <1>4, <1>7 DEF SameGoods, x
<1>11. ASSUME NEW w, DOMAIN w = Field, Stock(w), u \in Worlds(w) PROVE v \in Worlds(w)
  BY <1>1, <1>2, <1>6, <1>11, WorldsPut
<1> QED BY <1>9, <1>10, <1>11

\* A market that takes in goods from one firm conserves them.
LEMMA InputFromFact ==
    ASSUME NEW w, DOMAIN w = Field, Stock(w), NEW m \in Market, NEW from, NEW output,
           NEW t \in InputSet(w, m, from, output), NEW s \in Firm
    PROVE  InputFrom(t, s) \in InputSet(w, m, from, output)
<1> DEFINE u == t.world
           g == GoodOf(u, s)
           same == {j \in Slot : u.market[t.market][j].good = g}
           i == Min(same)
           most == Least(StoreOf(u, s), MaxInput)
           n == Least(most, MaxStock - u.market[t.market][i].stock)
           c == [TakeFrom(u, s, n) EXCEPT !.market[t.market][i].stock = @ + n]
           T == InputSet(w, m, from, output)
<1>1. /\ t \in [world : Worlds(w), market : {m}, from : {from}, output : {output},
                inputing : SUBSET Slot, queued : Firm \cup {NoFirm}]
      /\ t.market = m /\ u \in Worlds(w) /\ Balanced(w, u) /\ SameGoods(w, u, m)
      /\ t.queued # NoFirm => /\ t.queued \in Producer
                              /\ \A j \in Slot : w.market[m][j].good # GoodOf(w, t.queued)
  BY DEF InputSet
<1>2. DOMAIN u = Field /\ Stock(u)
  BY <1>1 DEF Balanced, Others
<1>3. InputFrom(t, s) =
        CASE s \notin t.from \cap Producer -> t
          [] s \in t.from \cap Producer /\ same # {} ->
                [t EXCEPT !.inputing = @ \cup {i}, !.world = IF s \in t.output THEN c ELSE u]
          [] s \in t.from \cap Producer /\ same = {} ->
                IF StoreOf(u, s) > 0 /\ t.queued = NoFirm THEN [t EXCEPT !.queued = s] ELSE t
  BY Zenon DEF InputFrom
<1> HIDE DEF same, i, n, c, T
<1>4. CASE s \notin t.from \cap Producer
  <2>1. InputFrom(t, s) = t
    BY <1>3, <1>4, Zenon
  <2> QED BY <2>1
<1>5. CASE s \in t.from \cap Producer /\ same # {}
  <2>1. InputFrom(t, s) =
          [t EXCEPT !.inputing = @ \cup {i}, !.world = IF s \in t.output THEN c ELSE u]
    BY <1>3, <1>5, Zenon
  <2>2. i \in Slot /\ u.market[m][i].good = g
    <3>1. same \in SUBSET Nat
      BY GoodsFact DEF same
    <3>2. i \in same
      BY <1>5, <3>1, MinIsLeast DEF i
    <3> QED BY <1>1, <3>2 DEF same
  <2>3. s \in Producer /\ StoreOf(u, s) \in 0..MaxStock
    BY <1>2, <1>5, GoodOfFact
  <2> DEFINE x == u.market[m]
             p == x[i].stock
             q == p + n
             v == PutMarket(TakeFrom(u, s, n), m, Restocked(x, i, q))
  <2>4. n \in Nat /\ n <= StoreOf(u, s) /\ q \in 0..MaxStock
    <3>1. p \in 0..MaxStock
      BY <1>2, <2>2 DEF Stock, SlotSet
    <3>2. n = Least(most, MaxStock - p)
      BY <1>1 DEF n
    <3> HIDE DEF p
    <3>3. MaxStock - p \in Nat /\ p \in Nat /\ MaxStock \in Nat /\ MaxInput \in Nat /\ StoreOf(u, s) \in Nat
      BY <2>3, <3>1, GoodsFact, NumberAssumption
    <3>4. most \in {StoreOf(u, s), MaxInput} /\ most <= StoreOf(u, s)
      BY <3>3, LeastFact
    <3> HIDE DEF most
    <3>5. most \in Nat
      BY <3>3, <3>4
    <3>6. n \in {most, MaxStock - p} /\ n <= most /\ n <= MaxStock - p
      BY <3>2, <3>3, <3>5, LeastFact
    <3>7. n \in Nat
      BY <3>3, <3>5, <3>6
    <3> QED BY <3>3, <3>4, <3>5, <3>6, <3>7
  <2>5. c = v
    <3> DEFINE a == TakeFrom(u, s, n)
    <3>1. DOMAIN a = Field /\ a.market = u.market
      BY <1>2 DEF TakeFrom, Field
    <3>2. c = [a EXCEPT !.market[m][i].stock = @ + n]
      BY <1>1 DEF c
    <3> HIDE DEF a
    <3>3. [a EXCEPT !.market[m][i].stock = @ + n] = PutMarket(a, m, Restocked(x, i, q))
      BY <3>1 DEF PutMarket, Restocked, Field
    <3> QED BY <3>2, <3>3 DEF a
  <2> HIDE DEF q
  <2>6. q = u.market[m][i].stock + n
    BY DEF q
  <2>7. /\ Balanced(u, v) /\ SameGoods(u, v, m)
        /\ \A z : DOMAIN z = Field /\ Stock(z) /\ u \in Worlds(z) => v \in Worlds(z)
    BY <1>2, <2>2, <2>3, <2>4, <2>6, MarketGets
  <2> HIDE DEF v
  <2>8. Balanced(w, v) /\ SameGoods(w, v, m) /\ v \in Worlds(w)
    <3>1. Balanced(w, v)
      BY <1>1, <2>7 DEF Balanced, Others
    <3>2. SameGoods(w, v, m)
      BY <1>1, <2>7 DEF SameGoods
    <3> QED BY <1>1, <2>7, <3>1, <3>2
  <2> DEFINE z == IF s \in t.output THEN c ELSE u
  <2>9. z \in Worlds(w) /\ Balanced(w, z) /\ SameGoods(w, z, m)
    BY <1>1, <2>5, <2>8
  <2> HIDE DEF z
  <2> DEFINE e == [t EXCEPT !.inputing = @ \cup {i}, !.world = z]
  <2>10. /\ e \in [world : Worlds(w), market : {m}, from : {from}, output : {output},
                   inputing : SUBSET Slot, queued : Firm \cup {NoFirm}]
         /\ e.world = z /\ e.queued = t.queued
    BY <1>1, <2>2, <2>9
  <2>11. InputFrom(t, s) = e
    BY <2>1 DEF z
  <2> HIDE DEF e
  <2> QED BY <1>1, <2>9, <2>10, <2>11 DEF T, InputSet
<1>6. CASE s \in t.from \cap Producer /\ same = {}
  <2>1. InputFrom(t, s) =
          IF StoreOf(u, s) > 0 /\ t.queued = NoFirm THEN [t EXCEPT !.queued = s] ELSE t
    BY <1>3, <1>6, Zenon
  <2> DEFINE e == [t EXCEPT !.queued = s]
  <2>2. /\ e \in [world : Worlds(w), market : {m}, from : {from}, output : {output},
                  inputing : SUBSET Slot, queued : Firm \cup {NoFirm}]
        /\ e.world = u /\ e.queued = s
    BY <1>1
  <2>3. \A j \in Slot : w.market[m][j].good # GoodOf(w, s)
    <3>1. GoodOf(w, s) = g
      BY <1>1, <1>6 DEF GoodOf, SameGoods, Producer
    <3>2. \A j \in Slot : u.market[m][j].good # g
      BY <1>1, <1>6 DEF same
    <3> QED BY <1>1, <3>1, <3>2 DEF SameGoods
  <2> HIDE DEF e
  <2>4. e \in T
    BY <1>1, <1>6, <2>2, <2>3 DEF T, InputSet
  <2> QED BY <2>1, <2>4 DEF e, T
<1> QED BY <1>4, <1>5, <1>6 DEF T

\* What the input from one firm keeps, the inputs from all keep.
LEMMA InputFromFold ==
    ASSUME NEW k \in Firm, NEW T, NEW base \in T, \A t \in T : \A i \in Firm : InputFrom(t, i) \in T
    PROVE  FoldLeft(InputFrom, base, Linked[k]) \in T
<1> DEFINE D == DOMAIN Linked[k]
           pick == [s \in SUBSET D |-> Max(s)]
           F == [y \in D \X T |-> InputFrom(y[2], Linked[k][y[1]])]
           Step(g, s) == LET x == Max(s) IN InputFrom(g[s \ {x}], Linked[k][x])
           Right(g) == g = [s \in SUBSET D |-> IF s = {} THEN base ELSE Step(g, s)]
           run == CHOOSE g : Right(g)
<1>1. FoldLeft(InputFrom, base, Linked[k]) = run[D]
  BY DEF FoldLeft, MapThenFoldSet
<1>2. IsFiniteSet(D) /\ Picks(D, pick) /\ \A i \in D : Linked[k][i] \in Firm
  BY LinkedFact, MaxPicks, SeqFact
<1>3. F \in [D \X T -> T]
  BY <1>2
<1> HIDE DEF D
<1>4. \A s \in SUBSET D : s # {} => pick[s] = Max(s) /\ Max(s) \in D
  BY <1>2 DEF Picks
<1>5. PICK iter : Folding(D, pick, T, base, F, iter)
  <2> HIDE DEF pick, F
  <2> QED BY <1>2, <1>3, FoldExists
<1>6. Right(iter)
  <2>1. ASSUME NEW s \in SUBSET D PROVE iter[s] = IF s = {} THEN base ELSE Step(iter, s)
    <3>1. CASE s = {}
      BY <1>5, <3>1 DEF Folding
    <3>2. CASE s # {}
      <4> DEFINE x == Max(s)
      <4>1. x \in D /\ pick[s] = x
        BY <1>4, <3>2
      <4> HIDE DEF x
      <4>2. iter[s \ {x}] \in T /\ iter[s] = F[<<x, iter[s \ {x}]>>]
        BY <1>5, <3>2, <4>1 DEF Folding
      <4>3. iter[s] = InputFrom(iter[s \ {x}], Linked[k][x])
        BY <4>1, <4>2
      <4> QED BY <3>2, <4>3 DEF x
    <3> QED BY <3>1, <3>2
  <2>2. DOMAIN iter = SUBSET D
    BY <1>5 DEF Folding
  <2>3. iter = [s \in SUBSET D |-> iter[s]]
    BY <1>5 DEF Folding
  <2> HIDE DEF Step
  <2> QED BY <2>1, <2>3
<1>7. Right(run)
  BY <1>6
<1> HIDE DEF run
<1>8. run[{}] = base /\ \A s \in SUBSET D : s # {} => run[s] = Step(run, s)
  <2> HIDE DEF Step
  <2> QED BY <1>7
<1>9. ASSUME NEW s \in SUBSET D, s # {}, run[s \ {pick[s]}] \in T PROVE run[s] \in T
  <2> DEFINE x == Max(s)
  <2>1. x \in D /\ pick[s] = x /\ run[s] = InputFrom(run[s \ {x}], Linked[k][x])
    BY <1>4, <1>8, <1>9
  <2> HIDE DEF x, pick
  <2> QED BY <1>2, <1>9, <2>1
<1> HIDE DEF Right, pick
<1>10. \A s \in SUBSET D : run[s] \in T
  BY <1>2, <1>8, <1>9, FoldStays
<1> QED BY <1>1, <1>10

\* A market takes in goods from all the firms linked to it (input_goods).
LEMMA MarketInputBalanced ==
    ASSUME NEW w, DOMAIN w = Field, Stock(w), NEW m \in Market, NEW from, NEW output
    PROVE  Balanced(w, MarketInput(w, m, from, output))
<1> DEFINE T == InputSet(w, m, from, output)
           base == [world |-> w, market |-> m, from |-> from, output |-> output,
                    inputing |-> {}, queued |-> NoFirm]
           t == FoldLeft(InputFrom, base, Linked[m])
           u == t.world
           empty == {j \in Slot \ t.inputing : u.market[m][j].stock = 0}
           i == Min(empty)
           v == Stocked(w, u)
           g == GoodOf(w, t.queued)
           b == [v EXCEPT !.market[m][i].good = g]
<1>1. base \in T
  <2>1. Balanced(w, w) /\ SameGoods(w, w, m) /\ w \in Worlds(w)
    BY DEF Worlds, Balanced, Others, SameGoods
  <2>2. /\ base \in [world : Worlds(w), market : {m}, from : {from}, output : {output},
                     inputing : SUBSET Slot, queued : Firm \cup {NoFirm}]
        /\ base.world = w /\ base.queued = NoFirm
    BY <2>1
  <2> HIDE DEF base
  <2> QED BY <2>1, <2>2 DEF InputSet
<1>2. \A e \in T : \A s \in Firm : InputFrom(e, s) \in T
  BY InputFromFact
<1>3. m \in Firm
  BY DEF Firm
<1> HIDE DEF T, base
<1>4. t \in T
  BY <1>1, <1>2, <1>3, InputFromFold
<1> HIDE DEF t
<1>5. /\ u \in Worlds(w) /\ Balanced(w, u) /\ SameGoods(w, u, m)
      /\ t.queued # NoFirm => /\ t.queued \in Producer
                              /\ \A j \in Slot : w.market[m][j].good # g
  BY <1>4 DEF T, InputSet
<1>6. Balanced(w, v) /\ v.market = u.market
  BY <1>5, StockedBalanced
<1>7. MarketInput(w, m, from, output) = IF t.queued = NoFirm \/ empty = {} THEN v ELSE b
  BY Zenon DEF MarketInput, t, base
<1> HIDE DEF v, g, i, empty
<1>8. CASE t.queued # NoFirm /\ empty # {}
  <2> DEFINE x == v.market[m]
             y == [x EXCEPT ![i] = [good |-> g, stock |-> 0]]
  <2>1. i \in Slot /\ u.market[m][i].stock = 0
    <3>1. empty \in SUBSET Nat
      BY GoodsFact DEF empty
    <3>2. i \in empty
      BY <1>8, <3>1, MinIsLeast DEF i
    <3> QED BY <3>2 DEF empty
  <2>2. x \in SlotSet /\ SlotsOf(x) /\ x[i].stock = 0 /\ DOMAIN v = Field /\ Stock(v)
    BY <1>6, <2>1 DEF Balanced, Others, Stock
  <2>3. g \in Goods
    BY <1>5, <1>8, GoodOfFact DEF g
  <2>4. /\ g \in {0} \cup Goods
        /\ \A j \in Slot : x[j].good = g => j = i \/ g = 0
    BY <1>5, <1>6, <1>8, <2>3 DEF SameGoods
  <2>10. y = Relabelled(x, i, g)
    BY DEF Relabelled
  <2>5. b = PutMarket(v, m, y)
    <3>1. b = PutMarket(v, m, [x EXCEPT ![i].good = g])
      BY <2>2 DEF PutMarket, Field
    <3>2. [x EXCEPT ![i].good = g] = y
      BY <2>1, <2>2 DEF SlotSet
    <3> QED BY <3>1, <3>2
  <2> HIDE DEF x, b, y
  <2>6. /\ y \in SlotSet /\ SlotsOf(y)
        /\ \A r \in Raw : OfSlots(y, r) = OfSlots(x, r)
    BY <2>1, <2>2, <2>4, <2>10, RelabelFact
  <2>7. /\ Others(v, b) /\ Stock(b)
        /\ \A r \in Raw : HeldBy(b, r) = HeldBy(v, r) + (OfSlots(y, r) - OfSlots(v.market[m], r))
    BY <2>2, <2>5, <2>6, PutMarketFact
  <2>8. ASSUME NEW r \in Raw PROVE HeldBy(b, r) = HeldBy(w, r)
    <3>1. HeldBy(v, r) = HeldBy(w, r)
      BY <1>6 DEF Balanced
    <3>2. HeldBy(b, r) = HeldBy(v, r) + (OfSlots(x, r) - OfSlots(x, r))
      BY <2>6, <2>7 DEF x
    <3>3. HeldBy(v, r) \in Int /\ OfSlots(x, r) \in Int
      BY <2>2, HeldByFact, PartsFact, ShareFact
    <3> QED BY <3>1, <3>2, <3>3
  <2>9. Balanced(w, b)
    BY <1>6, <2>7, <2>8 DEF Balanced, Others
  <2> QED BY <1>7, <1>8, <2>9
<1>9. CASE t.queued = NoFirm \/ empty = {}
  BY <1>6, <1>7, <1>9
<1> QED BY <1>8, <1>9

-----------------------------------------------------------------------------
(* The end of goods *)

\* Nothing is made of nothing.
Shrunk(w, v) == Others(w, v) /\ Stock(v) /\ \A r \in Raw : HeldBy(v, r) <= HeldBy(w, r)

\* A firm is left with less than it had, or with nothing.
LEMMA ShrinkMarket ==
    ASSUME NEW w, DOMAIN w = Field, Stock(w), NEW m \in Market,
           NEW slot \in SlotSet, SlotsOf(slot), NEW v, v = PutMarket(w, m, slot),
           \A i \in Slot : /\ slot[i].good \in {0, w.market[m][i].good}
                           /\ slot[i].stock <= w.market[m][i].stock
    PROVE  Shrunk(w, v)
<1> DEFINE x == w.market[m]
<1>1. x \in SlotSet
  BY DEF Stock
<1>2. ASSUME NEW r \in Raw PROVE OfSlots(slot, r) <= OfSlots(x, r)
  <2> DEFINE a == Share(slot, r)
             b == Share(x, r)
  <2>1. a \in [Slot -> Int] /\ b \in [Slot -> Int]
    BY <1>1, ShareFact
  <2>2. ASSUME NEW i \in Slot PROVE a[i] <= b[i]
    <3>1. /\ a[i] = (IF slot[i].good \in {r, r + MaxRaw} THEN slot[i].stock ELSE 0)
          /\ b[i] = (IF x[i].good \in {r, r + MaxRaw} THEN x[i].stock ELSE 0)
      BY DEF Share
    <3>2. slot[i].stock \in Nat /\ x[i].stock \in Nat
      BY <1>1, GoodsFact DEF SlotSet
    <3>3. slot[i].good \in {r, r + MaxRaw} => x[i].good \in {r, r + MaxRaw}
      BY GoodsFact
    <3> HIDE DEF a, b
    <3>4. slot[i].stock <= x[i].stock
      OBVIOUS
    <3> HIDE DEF x
    <3> QED BY <3>1, <3>2, <3>3, <3>4
  <2> HIDE DEF a, b
  <2>3. SumFunction(a) <= SumFunction(b)
    BY <2>1, <2>2, GoodsFact, SumLess
  <2> QED BY <2>3 DEF a, b, OfSlots
<1>3. /\ Others(w, v) /\ Stock(v)
      /\ \A r \in Raw : HeldBy(v, r) = HeldBy(w, r) + (OfSlots(slot, r) - OfSlots(x, r))
  BY PutMarketFact
<1>4. ASSUME NEW r \in Raw PROVE HeldBy(v, r) <= HeldBy(w, r)
  <2>1. HeldBy(w, r) \in Int /\ OfSlots(slot, r) \in Int /\ OfSlots(x, r) \in Int
    BY <1>1, HeldByFact, PartsFact, ShareFact
  <2> HIDE DEF x
  <2> QED BY <1>2, <1>3, <2>1
<1> QED BY <1>3, <1>4 DEF Shrunk

LEMMA ShrinkMine ==
    ASSUME NEW w, DOMAIN w = Field, Stock(w), NEW f \in Mine, NEW new \in MineSet,
           NEW v, v = PutMine(w, f, new), new.stock + new.reserve <= w.mine[f].stock + w.mine[f].reserve
    PROVE  Shrunk(w, v)
<1> DEFINE x == w.mine[f]
<1>1. x.stock \in Int /\ x.reserve \in Int /\ new.stock \in Int /\ new.reserve \in Int
  BY GoodsFact DEF Stock, MineSet
<1>2. ASSUME NEW r \in Raw
      PROVE  /\ OfMine(f, new, r) \in Int /\ OfMine(f, x, r) \in Int
             /\ OfMine(f, new, r) <= OfMine(f, x, r)
  BY <1>1 DEF OfMine
<1>3. /\ Others(w, v) /\ Stock(v)
      /\ \A r \in Raw : HeldBy(v, r) = HeldBy(w, r) + (OfMine(f, new, r) - OfMine(f, x, r))
  BY PutMineFact
<1>4. ASSUME NEW r \in Raw PROVE HeldBy(v, r) <= HeldBy(w, r)
  <2>1. HeldBy(w, r) \in Int
    BY HeldByFact, PartsFact
  <2> HIDE DEF x
  <2> QED BY <1>2, <1>3, <2>1
<1> QED BY <1>3, <1>4 DEF Shrunk

\* A mine that brings up what is in the ground.
LEMMA MineSame ==
    ASSUME NEW w, DOMAIN w = Field, Stock(w), NEW f \in Mine, NEW new \in MineSet,
           NEW v, v = PutMine(w, f, new), new.stock + new.reserve = w.mine[f].stock + w.mine[f].reserve
    PROVE  Balanced(w, v)
<1> DEFINE x == w.mine[f]
<1>1. x.stock \in Int /\ x.reserve \in Int /\ new.stock \in Int /\ new.reserve \in Int
  BY GoodsFact DEF Stock, MineSet
<1>2. ASSUME NEW r \in Raw
      PROVE  OfMine(f, new, r) \in Int /\ OfMine(f, new, r) = OfMine(f, x, r)
  BY <1>1 DEF OfMine
<1>3. /\ Others(w, v) /\ Stock(v)
      /\ \A r \in Raw : HeldBy(v, r) = HeldBy(w, r) + (OfMine(f, new, r) - OfMine(f, x, r))
  BY PutMineFact
<1>4. ASSUME NEW r \in Raw PROVE HeldBy(v, r) = HeldBy(w, r)
  <2>1. HeldBy(w, r) \in Int
    BY HeldByFact, PartsFact
  <2> HIDE DEF x
  <2> QED BY <1>2, <1>3, <2>1
<1> QED BY <1>3, <1>4 DEF Balanced

LEMMA ShrinkFactory ==
    ASSUME NEW w, DOMAIN w = Field, Stock(w), NEW f \in Factory, NEW new \in FactorySet,
           NEW v, v = PutFactory(w, f, new), new.raw = 0, new.stock = 0
    PROVE  Shrunk(w, v)
<1> DEFINE x == w.factory[f]
<1>1. x.stock \in Nat /\ x.raw \in Nat
  BY GoodsFact DEF Stock, FactorySet
<1>2. ASSUME NEW r \in Raw
      PROVE  /\ OfFactory(new, r) = 0 /\ OfFactory(x, r) \in Int
             /\ 0 <= OfFactory(x, r)
  BY <1>1 DEF OfFactory
<1>3. /\ Others(w, v) /\ Stock(v)
      /\ \A r \in Raw : HeldBy(v, r) = HeldBy(w, r) + (OfFactory(new, r) - OfFactory(x, r))
  BY PutFactoryFact
<1>4. ASSUME NEW r \in Raw PROVE HeldBy(v, r) <= HeldBy(w, r)
  <2>1. HeldBy(w, r) \in Int
    BY HeldByFact, PartsFact
  <2> HIDE DEF x
  <2> QED BY <1>2, <1>3, <2>1
<1> QED BY <1>3, <1>4 DEF Shrunk

-----------------------------------------------------------------------------
(* What a frame and an order do with goods *)

\* The fields have their types, but for the stores and the list.
Course(w) ==
    /\ w.firm \in [Firm -> [status : {"none", "building", "ready"}, owner : Nation, site : {1, 2}]]
    /\ w.treaty \subseteq Foreign
    /\ w.journey \in {"none", "on_way", "surround", "inside"}
    /\ w.inside \in Firm \cup {NoFirm} /\ {w.place, w.goal, w.door} \subseteq Firm \cup {Road}
    /\ w.moving \in BOOLEAN /\ w.wait \in Nat

Untraded(w, v) ==
    v.market = w.market /\ v.mine = w.mine /\ v.factory = w.factory /\ v.cargo = w.cargo

\* Types are kept, and of each material there is as much as before.
Keeps(w, v) ==
    /\ DOMAIN v = Field
    /\ Stock(w) /\ Course(w) =>
          Stock(v) /\ Course(v) /\ \A r \in Raw : HeldBy(v, r) = HeldBy(w, r)

LEMMA KeepsTrans ==
    ASSUME NEW w, NEW u, NEW v, Keeps(w, u), Keeps(u, v) PROVE Keeps(w, v)
BY DEF Keeps

\* A step that leaves the stores alone keeps what there is.
LEMMA UntradedKeeps ==
    ASSUME NEW w, NEW v, DOMAIN v = Field, Untraded(w, v), Course(w) => Course(v)
    PROVE  Keeps(w, v)
BY SameStores DEF Keeps, Untraded

LEMMA SelfKeeps == ASSUME NEW w, DOMAIN w = Field PROVE Keeps(w, w)
BY DEF Keeps

\* The list has nothing to do with goods.
Listed(w, stop, num, dest) ==
    [w EXCEPT !.stop = stop, !.stop_defined_num = num, !.dest = dest]
Dropped(w) ==
    [w EXCEPT !.stop = NoStops, !.stop_defined_num = 0, !.dest = 0, !.journey = "on_way"]
PutStops(w, stop) == [w EXCEPT !.stop = stop]
PutCounted(w, stop, num) == [w EXCEPT !.stop = stop, !.stop_defined_num = num]
PutDest(w, dest) == [w EXCEPT !.dest = dest]

LEMMA ListedKeeps ==
    ASSUME NEW w, DOMAIN w = Field, NEW stop, NEW num, NEW dest
    PROVE  /\ Keeps(w, Listed(w, stop, num, dest)) /\ Keeps(w, Dropped(w))
           /\ Keeps(w, PutStops(w, stop)) /\ Keeps(w, PutCounted(w, stop, num))
           /\ Keeps(w, PutDest(w, dest))
<1>1. ASSUME NEW v \in {Listed(w, stop, num, dest), Dropped(w), PutStops(w, stop),
                       PutCounted(w, stop, num), PutDest(w, dest)}
      PROVE  DOMAIN v = Field /\ Untraded(w, v) /\ (Course(w) => Course(v))
  <2>1. CASE v = Listed(w, stop, num, dest)
    BY <2>1 DEF Listed, Field, Untraded, Course
  <2>2. CASE v = Dropped(w)
    BY <2>2 DEF Dropped, Field, Untraded, Course
  <2>3. CASE v = PutStops(w, stop)
    BY <2>3 DEF PutStops, Field, Untraded, Course
  <2>4. CASE v = PutCounted(w, stop, num)
    BY <2>4 DEF PutCounted, Field, Untraded, Course
  <2>5. CASE v = PutDest(w, dest)
    BY <2>5 DEF PutDest, Field, Untraded, Course
  <2> QED BY <1>1, <2>1, <2>2, <2>3, <2>4, <2>5
<1> QED BY <1>1, UntradedKeeps

\* Nothing that is done with the list of stops touches the goods.
LEMMA UpdateListKeeps ==
    ASSUME NEW w, DOMAIN w = Field PROVE Keeps(w, UpdateStopList(w))
<1> DEFINE valid == ValidStops(w)
           r == Round(valid)
           count == w.stop_defined_num - (Cardinality(Defined(w)) - Len(valid))
           same == {i \in DOMAIN r : r[i].firm = DestFirm(w)}
           to == IF same # {} THEN Min(same) ELSE Len(r)
           v == UpdateStopList(w)
<1>1. v = CASE count < 1 -> Listed(w, NoStops, count, 0)
            [] count = 1 -> Listed(w, Packed(<<Head(valid)>>), 1, 1)
            [] count > 1 /\ \A i \in DOMAIN r : ~Ours(w, r[i].firm) -> Dropped(w)
            [] OTHER -> Listed(w, Packed(r), count - (Len(valid) - Len(r)), to)
  BY Zenon DEF UpdateStopList, KeepStops, Listed, Dropped
<1> HIDE DEF count, to, r, valid, v
<1> DEFINE first == Packed(<<Head(valid)>>)
           list == Packed(r)
           num == count - (Len(valid) - Len(r))
<1>2. v \in {Listed(w, NoStops, count, 0), Listed(w, first, 1, 1), Dropped(w), Listed(w, list, num, to)}
  <2>1. v = CASE count < 1 -> Listed(w, NoStops, count, 0)
              [] count = 1 -> Listed(w, first, 1, 1)
              [] count > 1 /\ \A i \in DOMAIN r : ~Ours(w, r[i].firm) -> Dropped(w)
              [] OTHER -> Listed(w, list, num, to)
    BY <1>1
  <2> HIDE DEF first, list, num
  <2> QED BY <2>1
<1> HIDE DEF first, list, num
<1>3. Keeps(w, Dropped(w)) /\ \A stop, n, dest : Keeps(w, Listed(w, stop, n, dest))
  BY ListedKeeps
<1>4. Keeps(w, v)
  BY <1>2, <1>3
<1> QED BY <1>4 DEF v

LEMMA UpdatePickUpsKeeps ==
    ASSUME NEW w, DOMAIN w = Field PROVE Keeps(w, UpdateAllPickUps(w))
<1> DEFINE new == [i \in StopId |->
                     IF w.stop[i].firm = NoFirm THEN w.stop[i] ELSE UpdatePickUp(w, w.stop[i])]
<1>1. UpdateAllPickUps(w) = PutStops(w, new)
  BY DEF UpdateAllPickUps, PutStops
<1> HIDE DEF new
<1> QED BY <1>1, ListedKeeps

\* Where the caravan is going has nothing to do with goods.
LEMMA MoveKeeps ==
    ASSUME NEW w, DOMAIN w = Field, NEW f \in Firm,
           NEW journey \in {"none", "on_way", "surround", "inside", w.journey}
    PROVE  /\ Keeps(w, StopMoving(w)) /\ Keeps(w, MoveToFirmSurround(w, f))
           /\ Keeps(w, Off(w, f, journey)) /\ Keeps(w, Mark(w, journey))
<1>1. ASSUME NEW v \in {StopMoving(w), MoveToFirmSurround(w, f), Off(w, f, journey), Mark(w, journey)}
      PROVE  DOMAIN v = Field /\ Untraded(w, v) /\ (Course(w) => Course(v))
  <2>1. CASE v = StopMoving(w)
    BY <2>1 DEF StopMoving, Field, Untraded, Course
  <2>2. CASE v = MoveToFirmSurround(w, f)
    BY <2>2 DEF MoveToFirmSurround, Field, Untraded, Course
  <2>3. CASE v = Off(w, f, journey)
    BY <2>3 DEF Off, MoveToFirmSurround, Field, Untraded, Course
  <2>4. CASE v = Mark(w, journey)
    BY <2>4 DEF Mark, Field, Untraded, Course
  <2> QED BY <1>1, <2>1, <2>2, <2>3, <2>4
<1> QED BY <1>1, UntradedKeeps

\* The stops of a list in order are at firms.
LEMMA StopsFact ==
    ASSUME NEW w, Good(w)
    PROVE  /\ DOMAIN w = Field /\ w.stop_defined_num \in Nat
           /\ \A i \in 1 .. w.stop_defined_num : i \in StopId /\ w.stop[i].firm \in Firm
           /\ w.dest # 0 => DestFirm(w) \in Firm
           /\ w.stop_defined_num # 0 => DestFirm(w) \in Firm /\ w.dest # 0
<1> DEFINE n == w.stop_defined_num
<1>1. /\ DOMAIN w = Field /\ n \in 0 .. MaxStopForCaravan
      /\ \A i \in StopId : IsStop(w.stop[i]) /\ (w.stop[i].firm # NoFirm <=> i <= n)
      /\ IF n = 0 THEN w.dest = 0 ELSE w.dest \in 1 .. n
  BY DEF Good, Wide, InOrder
<1> HIDE DEF n
<1>2. n \in Nat /\ \A i \in 1 .. n : i \in StopId /\ i <= n /\ i # 0
  BY <1>1, StopIdFact
<1>3. \A i \in 1 .. n : w.stop[i].firm \in Firm
  BY <1>1, <1>2 DEF IsStop
<1>4. w.dest # 0 => w.dest \in 1 .. n
  BY <1>1
<1>5. w.dest # 0 => DestFirm(w) \in Firm
  BY <1>3, <1>4 DEF DestFirm
<1>6. n # 0 => w.dest # 0
  BY <1>1, <1>2
<1> QED BY <1>1, <1>2, <1>3, <1>5, <1>6 DEF n

\* Nor do orders.
LEMMA SetStopKeeps ==
    ASSUME NEW w, Good(w), NEW id \in StopId, NEW f \in Firm
    PROVE  Keeps(w, SetStop(w, id, f))
<1> DEFINE num == IF w.stop[id].firm = NoFirm THEN w.stop_defined_num + 1 ELSE w.stop_defined_num
           list == [w.stop EXCEPT ![id] = NewStop(w, f)]
           put == [w EXCEPT !.stop[id] = NewStop(w, f),
                            !.stop_defined_num = IF w.stop[id].firm = NoFirm THEN @ + 1 ELSE @]
           u == UpdateStopList(put)
<1>1. DOMAIN w = Field /\ Keeps(w, w)
  BY SelfKeeps DEF Good, Wide
<1>8. IsStop(NewStop(w, f)) /\ NewStop(w, f).firm = f
  BY NewStopFact
<1>2. Wide(put) /\ Counted(put) /\ SameJourney(w, put)
  BY <1>8, PutFact
<1>3. Keeps(w, put)
  <2>1. put = PutCounted(w, list, num)
    BY <1>1 DEF PutCounted, Field
  <2> HIDE DEF put, list, num
  <2> QED BY <1>1, <2>1, ListedKeeps
<1> HIDE DEF put
<1>4. Good(u) /\ Keeps(w, u)
  <2>1. Keeps(put, u)
    BY <1>3, UpdateListKeeps DEF Keeps
  <2> QED BY <1>2, <1>3, <2>1, UpdateStopListFact, KeepsTrans
<1>5. SetStop(w, id, f) = IF ~CanSetStop(w, f) \/ w.stop[id].firm = f THEN w ELSE Redirect(w, u)
  BY Zenon DEF SetStop, put
<1> HIDE DEF u
<1>6. Keeps(u, Redirect(w, u))
  <2>1. DOMAIN u = Field /\ Keeps(u, u) /\ (u.dest # 0 => DestFirm(u) \in Firm)
    BY <1>4, StopsFact, SelfKeeps
  <2>2. CASE u.dest = 0
    <3>1. Redirect(w, u) = StopMoving(u)
      BY <2>2, Zenon DEF Redirect
    <3> QED BY <2>1, <3>1, MoveKeeps
  <2>3. CASE u.dest # 0 /\ DestFirm(u) = DestFirm(w)
    <3>1. Redirect(w, u) = u
      BY <2>3, Zenon DEF Redirect
    <3> QED BY <2>1, <3>1
  <2>4. CASE u.dest # 0 /\ DestFirm(u) # DestFirm(w)
    <3>1. Redirect(w, u) = Off(u, DestFirm(u), "on_way")
      BY <2>4, Zenon DEF Redirect, Off
    <3> QED BY <2>1, <2>4, <3>1, MoveKeeps
  <2> QED BY <2>2, <2>3, <2>4
<1>7. Keeps(w, Redirect(w, u))
  BY <1>4, <1>6, KeepsTrans
<1> QED BY <1>1, <1>5, <1>7

LEMMA DelStopKeeps ==
    ASSUME NEW w, DOMAIN w = Field, NEW id PROVE Keeps(w, DelStop(w, id))
<1> DEFINE v == [w EXCEPT !.stop[id] = NoStop, !.stop_defined_num = @ - 1]
           list == [w.stop EXCEPT ![id] = NoStop]
           num == w.stop_defined_num - 1
<1>1. DelStop(w, id) = IF Remote /\ w.stop[id].firm = NoFirm THEN w ELSE UpdateStopList(v)
  BY DEF DelStop
<1>2. Keeps(w, v)
  <2>1. v = PutCounted(w, list, num)
    BY DEF PutCounted, Field
  <2> HIDE DEF v, list, num
  <2> QED BY <2>1, ListedKeeps
<1> HIDE DEF v
<1>3. Keeps(v, UpdateStopList(v))
  BY <1>2, UpdateListKeeps DEF Keeps
<1> QED BY <1>1, <1>2, <1>3, KeepsTrans, SelfKeeps

LEMMA SetPickUpKeeps ==
    ASSUME NEW w, DOMAIN w = Field, NEW id, NEW type
    PROVE  Keeps(w, SetStopPickUp(w, id, type))
<1> DEFINE v == IF Remote /\ type \notin Goods THEN UpdateAllPickUps(w) ELSE w
           s == v.stop[id]
           several == Cardinality(GoodsOf(w, w.stop[id].firm)) > 1
           ready == ~Remote \/ several \/ s.type \in {AutoPickUp, NoPickUp}
           new == CASE type = AutoPickUp /\ ready -> PickUpSetAuto(s)
                    [] type = NoPickUp /\ ready -> PickUpSetNone(s)
                    [] type \in GoodsOf(w, w.stop[id].firm) -> PickUpToggle(s, type)
                    [] OTHER -> s
           gone == \E i \in StopId : w.stop[i].firm # NoFirm /\ Deleted(w, w.stop[i].firm)
           dead == [w EXCEPT !.life = "crashed"]
           changed == [v EXCEPT !.stop[id] = new]
<1>1. Keeps(w, w) /\ Keeps(w, v)
  BY SelfKeeps, UpdatePickUpsKeeps
<1>2. SetStopPickUp(w, id, type) \in {w, dead, changed}
  <2>1. SetStopPickUp(w, id, type) =
            CASE Deleted(w, w.stop[id].firm) \/ w.stop_defined_num < id -> w
              [] type \notin Goods /\ Remote /\ gone -> dead
              [] OTHER -> changed
    BY Zenon DEF SetStopPickUp
  <2> HIDE DEF dead, changed, gone
  <2> QED BY <2>1
<1>3. Keeps(w, dead)
  <2>1. DOMAIN dead = Field /\ Untraded(w, dead) /\ (Course(w) => Course(dead))
    BY DEF Field, Untraded, Course
  <2> HIDE DEF dead
  <2> QED BY <2>1, UntradedKeeps
<1> HIDE DEF v, new
<1>4. Keeps(w, changed)
  <2> DEFINE list == [v.stop EXCEPT ![id] = new]
  <2>1. changed = PutStops(v, list)
    BY DEF PutStops
  <2> HIDE DEF changed, list
  <2>2. Keeps(v, changed)
    BY <1>1, <2>1, ListedKeeps DEF Keeps
  <2> QED BY <1>1, <2>2, KeepsTrans
<1> HIDE DEF dead, changed
<1> QED BY <1>1, <1>2, <1>3, <1>4

LEMMA ExecuteKeeps ==
    ASSUME NEW w, Good(w), NEW o, IsOrder(o) PROVE Keeps(w, Execute(w, o))
<1> DEFINE v == Execute(w, o)
<1>1. DOMAIN w = Field /\ Keeps(w, w)
  BY SelfKeeps DEF Good, Wide
<1>2. CASE ~Visible(w)
  <2>1. v = w
    BY <1>2 DEF Execute
  <2> QED BY <1>1, <2>1
<1>3. CASE Visible(w) /\ o.kind = "set"
  <2>1. v = IF w.firm[o.firm].site = o.site THEN SetStop(w, o.id, o.firm) ELSE w
    BY <1>3 DEF Execute
  <2>2. Keeps(w, SetStop(w, o.id, o.firm))
    BY <1>3, SetStopKeeps DEF IsOrder
  <2> QED BY <1>1, <2>1, <2>2
<1>4. CASE Visible(w) /\ o.kind = "del"
  <2>1. v = DelStop(w, o.id)
    BY <1>4 DEF Execute
  <2> QED BY <1>1, <2>1, DelStopKeeps
<1>5. CASE Visible(w) /\ o.kind = "goods"
  <2>1. v = SetStopPickUp(w, o.id, o.type)
    BY <1>5 DEF Execute
  <2> QED BY <1>1, <2>1, SetPickUpKeeps
<1> QED BY <1>2, <1>3, <1>4, <1>5 DEF IsOrder

LEMMA RefreshKeeps ==
    ASSUME NEW w, DOMAIN w = Field PROVE Keeps(w, UpdateAllPickUps(UpdateStopList(w)))
<1> DEFINE u == UpdateStopList(w)
<1>1. Keeps(w, u)
  BY UpdateListKeeps
<1> HIDE DEF u
<1>2. Keeps(u, UpdateAllPickUps(u))
  BY <1>1, UpdatePickUpsKeeps DEF Keeps
<1>3. Keeps(w, UpdateAllPickUps(u))
  BY <1>1, <1>2, KeepsTrans
<1> QED BY <1>3 DEF u

LEMMA NoStopLeftKeeps ==
    ASSUME NEW w, DOMAIN w = Field PROVE Keeps(w, NoStopLeft(w))
<1> DEFINE u == IF w.journey = "none" THEN w ELSE StopMoving(w)
<1>1. ASSUME NEW e, DOMAIN e = Field PROVE Keeps(e, StopMoving(e)) /\ Keeps(e, Mark(e, "none"))
  <2>1. DOMAIN StopMoving(e) = Field /\ Untraded(e, StopMoving(e)) /\ (Course(e) => Course(StopMoving(e)))
    BY <1>1 DEF StopMoving, Field, Untraded, Course
  <2>2. /\ DOMAIN Mark(e, "none") = Field /\ Untraded(e, Mark(e, "none"))
        /\ Course(e) => Course(Mark(e, "none"))
    BY <1>1 DEF Mark, Field, Untraded, Course
  <2> QED BY <2>1, <2>2, UntradedKeeps
<1>2. Keeps(w, u)
  BY <1>1, SelfKeeps
<1>3. NoStopLeft(w) = Mark(u, "none")
  BY DEF NoStopLeft, Mark
<1> HIDE DEF u
<1>4. Keeps(u, Mark(u, "none"))
  BY <1>1, <1>2 DEF Keeps
<1> QED BY <1>2, <1>3, <1>4, KeepsTrans

\* Time spent waiting.
Waiting(w, n) == [w EXCEPT !.wait = n]

LEMMA WaitKeeps ==
    ASSUME NEW w, DOMAIN w = Field
    PROVE  /\ w.wait > 0 => Keeps(w, Waiting(w, w.wait - 1))
           /\ Keeps(w, Waiting(w, WaitTerm * WaitFactor))
<1>1. WaitTerm * WaitFactor \in Nat
  BY NumberAssumption
<1>2. ASSUME NEW n, w.wait \in Nat => n \in Nat PROVE Keeps(w, Waiting(w, n))
  <2> DEFINE v == Waiting(w, n)
  <2>1. DOMAIN v = Field /\ Untraded(w, v) /\ (Course(w) => Course(v))
    BY <1>2 DEF Waiting, Field, Untraded, Course
  <2> HIDE DEF v
  <2> QED BY <2>1, UntradedKeeps DEF v
<1>3. w.wait > 0 => (w.wait \in Nat => w.wait - 1 \in Nat)
  OBVIOUS
<1> QED BY <1>1, <1>2, <1>3

\* Trade at a stop, whatever it amounts to.
LEMMA TradeKeeps ==
    ASSUME NEW w, DOMAIN w = Field, NEW s, s.firm \in Firm, NEW c, Given(c)
    PROVE  Keeps(w, Trade(w, s, c))
<1> DEFINE v == Trade(w, s, c)
<1>1. DOMAIN v = Field /\ (Stock(w) => Balanced(w, v))
  BY TradeFact, TradeBalanced
<1> HIDE DEF v
<1>2. Stock(w) => (Course(w) => Course(v))
  BY <1>1 DEF Balanced, Others, Course, Field
<1> QED BY <1>1, <1>2 DEF v, Keeps, Balanced

\* A frame of a caravan that has one stop.
LEMMA OneStopKeeps ==
    ASSUME NEW w, Good(w), w.stop_defined_num = 1, NEW c, Given(c)
    PROVE  Keeps(w, OneStop(w, c))
<1> DEFINE s == w.stop[1]
           f == s.firm
           near == Mark(w, "surround")
           up == UpdateStopList(w)
           waits == Waiting(near, near.wait - 1)
           traded == Trade(near, PickUpSetNone(s), c)
           trades == Waiting(traded, WaitTerm * WaitFactor)
           off == MoveToFirmSurround(w, f)
<1>1. DOMAIN w = Field /\ IsStop(s) /\ f \in Firm
  <2>1. 1 \in 1 .. w.stop_defined_num /\ 1 \in StopId
    BY StopIdFact
  <2> QED BY <2>1, StopsFact DEF Good, Wide
<1>2. Keeps(w, up) /\ Keeps(w, off) /\ Keeps(w, near) /\ Keeps(w, Mark(w, "on_way"))
  BY <1>1, UpdateListKeeps, MoveKeeps
<1> HIDE DEF near, up, off
<1>3. near.wait > 0 => Keeps(w, waits)
  <2>1. near.wait > 0 => Keeps(near, waits)
    BY <1>2, WaitKeeps DEF Keeps
  <2> HIDE DEF waits
  <2> QED BY <1>2, <2>1, KeepsTrans
<1>4. Keeps(w, trades)
  <2>1. PickUpSetNone(s).firm \in Firm
    BY <1>1, PickUpFact
  <2>2. Keeps(near, traded)
    BY <1>2, <2>1, TradeKeeps DEF Keeps
  <2> HIDE DEF traded
  <2>3. Keeps(traded, trades)
    BY <2>2, WaitKeeps DEF Keeps
  <2> HIDE DEF trades
  <2> QED BY <1>2, <2>2, <2>3, KeepsTrans
<1>5. near.wait = w.wait
  BY <1>1 DEF near, Mark, Field
<1>6. OneStop(w, c) \in {up, Mark(w, "on_way"), off, near, trades}
      \/ (OneStop(w, c) = waits /\ near.wait > 0)
  <2>1. CASE Deleted(w, f)
    BY <2>1, Zenon DEF OneStop, up
  <2>2. CASE ~Deleted(w, f) /\ w.firm[f].site # s.site
    BY <2>2, Zenon DEF OneStop, up
  <2>3. CASE ~Deleted(w, f) /\ ~(w.firm[f].site # s.site)
    <3>1. OneStop(w, c) =
              CASE w.place # f /\ w.moving -> Mark(w, "on_way")
                [] w.place # f /\ ~w.moving -> off
                [] w.place = f /\ ~Trades(w, f) -> near
                [] w.place = f /\ Trades(w, f) ->
                      IF w.wait > 0 THEN [near EXCEPT !.wait = @ - 1] ELSE trades
      BY <2>3, Zenon DEF OneStop, Mark, near, off, Waiting
    <3>2. [near EXCEPT !.wait = @ - 1] = waits
      BY DEF Waiting
    <3> HIDE DEF waits, trades, f
    <3> QED BY <1>5, <3>1, <3>2
  <2> QED BY <2>1, <2>2, <2>3
<1> HIDE DEF waits, trades
<1> QED BY <1>2, <1>3, <1>4, <1>6

LEMMA GetNextKeeps ==
    ASSUME NEW w, DOMAIN w = Field, NEW cur
    PROVE  Keeps(w, GetNextStopId(w, cur).world)
<1> DEFINE to == IF cur >= w.stop_defined_num THEN 1 ELSE cur + 1
           u == UpdateStopList(w)
           id == StopAfter(u, w.stop[cur].firm)
<1>1. GetNextStopId(w, cur) = IF Valid(w, w.stop[to]) THEN [world |-> w, id |-> to]
                              ELSE [world |-> u, id |-> id]
  BY Zenon DEF GetNextStopId
<1>2. Keeps(w, u) /\ Keeps(w, w)
  BY UpdateListKeeps, SelfKeeps
<1> HIDE DEF u, id, to
<1> QED BY <1>1, <1>2

LEMMA GoOnKeeps ==
    ASSUME NEW next, Good(next.world),
           IF next.world.stop_defined_num = 0 THEN next.id = 0
           ELSE next.id \in 1 .. next.world.stop_defined_num
    PROVE  Keeps(next.world, GoOn(next))
<1> DEFINE u == next.world
           v == PutDest(u, next.id)
<1>1. /\ DOMAIN u = Field
      /\ \A i \in 1 .. u.stop_defined_num : i \in StopId /\ u.stop[i].firm \in Firm
  BY StopsFact
<1>2. DOMAIN v = Field /\ v.stop = u.stop /\ v.dest = next.id
  BY <1>1 DEF PutDest, Field
<1>3. Keeps(u, v)
  BY <1>1, ListedKeeps
<1>4. GoOn(next) = CASE next.id = 0 -> Mark(v, "none")
                     [] next.id # 0 /\ next.id = next.world.dest -> Mark(v, "surround")
                     [] OTHER -> Off(v, DestFirm(v), "on_way")
  BY Zenon DEF GoOn, Mark, Off, PutDest
<1> HIDE DEF v
<1>5. CASE next.id = 0
  <2>1. GoOn(next) = Mark(v, "none")
    BY <1>4, <1>5
  <2>2. DOMAIN Mark(v, "none") = Field /\ Untraded(v, Mark(v, "none"))
        /\ (Course(v) => Course(Mark(v, "none")))
    BY <1>2 DEF Mark, Field, Untraded, Course
  <2>3. Keeps(v, Mark(v, "none"))
    BY <2>2, UntradedKeeps
  <2> QED BY <1>3, <2>1, <2>3, KeepsTrans
<1>6. CASE next.id # 0
  <2>1. next.id \in 1 .. u.stop_defined_num
    BY <1>6
  <2>2. DestFirm(v) \in Firm
    BY <1>1, <1>2, <1>6, <2>1 DEF DestFirm
  <2>3. Keeps(v, Mark(v, "surround")) /\ Keeps(v, Off(v, DestFirm(v), "on_way"))
    BY <1>2, <2>2, MoveKeeps
  <2>4. GoOn(next) \in {Mark(v, "surround"), Off(v, DestFirm(v), "on_way")}
    BY <1>4, <1>6
  <2> QED BY <1>3, <2>3, <2>4, KeepsTrans
<1> QED BY <1>5, <1>6

\* A frame of a caravan in a firm.
LEMMA InFirmKeeps ==
    ASSUME NEW w, Good(w), w.stop_defined_num > 1, NEW c
    PROVE  Keeps(w, CaravanInFirm(w, c))
<1> DEFINE at == IF c.blocked = "door" THEN w.inside ELSE w.door
           out == [w EXCEPT !.inside = NoFirm, !.place = at, !.goal = at, !.moving = FALSE]
           dead == [w EXCEPT !.life = "dead"]
           waits == Waiting(w, w.wait - 1)
           again == Waiting(w, WaitTerm * WaitFactor)
           next == GetNextStopId(out, w.dest)
<1>1. DOMAIN w = Field /\ w.dest \in 1 .. w.stop_defined_num
  <2>1. w.stop_defined_num # 0
    OBVIOUS
  <2> QED BY <2>1 DEF Good, Wide, InOrder
<1>2. Keeps(w, dead)
  <2>1. DOMAIN dead = Field /\ Untraded(w, dead) /\ (Course(w) => Course(dead))
    BY <1>1 DEF Field, Untraded, Course
  <2> HIDE DEF dead
  <2> QED BY <2>1, UntradedKeeps
<1>3. (w.wait > 0 => Keeps(w, waits)) /\ Keeps(w, again)
  BY <1>1, WaitKeeps
<1>4. ASSUME ~Deleted(w, w.inside) PROVE Keeps(w, GoOn(next))
  <2>1. SameStops(w, out) /\ DOMAIN out = Field /\ Untraded(w, out)
    BY <1>1 DEF SameStops, Field, Untraded
  <2>2. Course(w) => Course(out)
    <3>1. Course(w) => w.inside \in Firm
      BY <1>4 DEF Course, Deleted
    <3>2. Course(w) => at \in Firm \cup {Road}
      BY <3>1 DEF Course
    <3> HIDE DEF at
    <3> QED BY <1>1, <3>2 DEF Course, Field
  <2> HIDE DEF out
  <2>3. Keeps(w, out) /\ Good(out) /\ out.stop_defined_num = w.stop_defined_num
    BY <2>1, <2>2, UntradedKeeps, GoodKept DEF SameStops
  <2>4. Keeps(out, next.world)
    BY <2>1, GetNextKeeps
  <2>5. /\ Good(next.world)
        /\ IF next.world.stop_defined_num = 0 THEN next.id = 0
           ELSE next.id \in 1 .. next.world.stop_defined_num
    BY <1>1, <2>3, GetNextFact
  <2> HIDE DEF next
  <2>6. Keeps(next.world, GoOn(next))
    BY <2>5, GoOnKeeps
  <2>7. Keeps(w, next.world)
    BY <2>3, <2>4, KeepsTrans
  <2> QED BY <2>6, <2>7, KeepsTrans
<1>5. \/ CaravanInFirm(w, c) \in {dead, again}
      \/ CaravanInFirm(w, c) = waits /\ w.wait > 0
      \/ CaravanInFirm(w, c) = GoOn(next) /\ ~Deleted(w, w.inside)
  <2>1. CASE Deleted(w, w.inside)
    BY <2>1, Zenon DEF CaravanInFirm
  <2>2. CASE ~Deleted(w, w.inside) /\ w.wait > 0
    BY <2>2, Zenon DEF CaravanInFirm, Waiting
  <2>3. CASE ~Deleted(w, w.inside) /\ ~(w.wait > 0)
    <3>1. CaravanInFirm(w, c) = IF c.blocked = "all" THEN again ELSE GoOn(next)
      BY <2>3, Zenon DEF CaravanInFirm, Waiting
    <3> HIDE DEF again, next
    <3> QED BY <2>3, <3>1
  <2> QED BY <2>1, <2>2, <2>3
<1> HIDE DEF dead, again, waits, next
<1> QED BY <1>2, <1>3, <1>4, <1>5

\* A caravan that goes into a firm trades there.
LEMMA EnterKeeps ==
    ASSUME NEW w, Good(w), w.stop_defined_num > 1, NEW c, Given(c)
    PROVE  Keeps(w, EnterFirm(w, c))
<1> DEFINE d == w.dest
           s == UpdatePickUp(w, w.stop[d])
           list == [w.stop EXCEPT ![d] = s]
           u == PutStops(w, list)
           t == Trade(u, s, c)
           v == EnterFirm(w, c)
           goal == w.goal
<1>1. DOMAIN w = Field /\ IsStop(w.stop[d]) /\ w.stop[d].firm \in Firm
  <2>1. d \in 1 .. w.stop_defined_num
    <3>1. w.stop_defined_num # 0
      OBVIOUS
    <3> QED BY <3>1 DEF Good, InOrder
  <2>2. d \in StopId /\ w.stop[d].firm \in Firm
    BY <2>1, StopsFact
  <2> QED BY <2>2 DEF Good, Wide
<1>2. s.firm \in Firm
  BY <1>1, PickUpFact
<1>3. v = [t EXCEPT !.inside = s.firm, !.door = goal, !.wait = WaitTerm, !.moving = FALSE,
                    !.journey = "inside"]
  <2>1. u = [w EXCEPT !.stop[w.dest] = s]
    BY DEF PutStops
  <2> QED BY <2>1, Zenon DEF EnterFirm
<1> HIDE DEF s, list
<1>4. Keeps(w, u) /\ u.goal = goal
  BY <1>1, ListedKeeps DEF PutStops, Field
<1> HIDE DEF u
<1>5. Keeps(u, t) /\ (Stock(u) => t.goal = u.goal)
  <2>1. DOMAIN u = Field
    BY <1>4 DEF Keeps
  <2>2. Keeps(u, t)
    BY <1>2, <2>1, TradeKeeps
  <2>3. Stock(u) => Balanced(u, t)
    BY <1>2, <2>1, TradeBalanced
  <2> HIDE DEF t
  <2> QED BY <2>2, <2>3 DEF Balanced, Others, Field
<1> HIDE DEF t, v, goal
<1>6. Keeps(w, t)
  BY <1>4, <1>5, KeepsTrans
<1>7. DOMAIN v = Field /\ Untraded(t, v)
  BY <1>3, <1>6 DEF Keeps, Field, Untraded
<1>8. Course(w) /\ Course(t) => Course(v)
  <2> SUFFICES ASSUME Course(w), Course(t) PROVE Course(v)
    OBVIOUS
  <2>1. goal \in Firm \cup {Road} /\ WaitTerm \in Nat
    BY NumberAssumption DEF Course, goal
  <2>2. DOMAIN t = Field
    BY <1>6 DEF Keeps
  <2>3. /\ v.firm = t.firm /\ v.treaty = t.treaty /\ v.journey = "inside" /\ v.inside = s.firm
        /\ v.place = t.place /\ v.goal = t.goal /\ v.door = goal /\ v.moving = FALSE
        /\ v.wait = WaitTerm
    BY <1>3, <2>2 DEF Field
  <2> QED BY <1>2, <2>1, <2>3 DEF Course
<1>9. /\ Stock(t) <=> Stock(v)
      /\ \A r : HeldBy(v, r) = HeldBy(t, r)
  BY <1>7, SameStores DEF Untraded
<1>10. Keeps(w, v)
  BY <1>6, <1>7, <1>8, <1>9 DEF Keeps
<1> QED BY <1>10 DEF v

\* A frame of a caravan on its way.
LEMMA OnWayKeeps ==
    ASSUME NEW w, Good(w), w.stop_defined_num > 1, NEW c, Given(c)
    PROVE  Keeps(w, CaravanOnWay(w, c))
<1> DEFINE f == DestFirm(w)
           idle == ~w.moving /\ w.journey # "surround"
           here == w.journey = "surround" \/ (w.place = w.goal /\ w.place = f)
           u == UpdateStopList(w)
           journey == IF w.place = f THEN "surround" ELSE w.journey
           off == Off(w, f, journey)
           on == MoveToFirmSurround(u, u.stop[u.stop_defined_num].firm)
<1>1. DOMAIN w = Field /\ f \in Firm /\ Keeps(w, w)
  <2>1. w.stop_defined_num # 0
    OBVIOUS
  <2> QED BY <2>1, StopsFact, SelfKeeps
<1>2. Keeps(w, u) /\ Good(u)
  BY <1>1, UpdateListKeeps, InOrderCounted, UpdateStopListFact DEF Good
<1>3. Keeps(w, off)
  <2>1. journey \in {"none", "on_way", "surround", "inside", w.journey}
    OBVIOUS
  <2> HIDE DEF journey, f
  <2> QED BY <1>1, <2>1, MoveKeeps
<1> HIDE DEF u
<1>4. u.stop_defined_num # 0 => Keeps(w, on)
  <2> SUFFICES ASSUME u.stop_defined_num # 0 PROVE Keeps(w, on)
    OBVIOUS
  <2>1. DOMAIN u = Field /\ u.stop[u.stop_defined_num].firm \in Firm
    <3> DEFINE n == u.stop_defined_num
    <3>1. DOMAIN u = Field /\ n \in Nat /\ \A i \in 1 .. n : u.stop[i].firm \in Firm
      BY <1>2, StopsFact
    <3>2. n # 0
      OBVIOUS
    <3> HIDE DEF n
    <3>3. n \in 1 .. n
      BY <3>1, <3>2
    <3> QED BY <3>1, <3>3 DEF n
  <2>2. Keeps(u, on)
    BY <2>1, MoveKeeps
  <2> HIDE DEF on
  <2> QED BY <1>2, <2>2, KeepsTrans
<1>5. CASE ~Deleted(w, f) /\ idle
  <2>1. CaravanOnWay(w, c) = off
    <3>1. CaravanOnWay(w, c) =
            [MoveToFirmSurround(w, f) EXCEPT !.journey = IF w.place = f THEN "surround" ELSE @]
      BY <1>5, Zenon DEF CaravanOnWay
    <3>2. MoveToFirmSurround(w, f).journey = w.journey
      BY <1>1, MoveFact DEF SameJourney
    <3> QED BY <3>1, <3>2 DEF Off
  <2> HIDE DEF off
  <2> QED BY <1>3, <2>1
<1>6. CASE ~Deleted(w, f) /\ ~idle
  <2>1. CaravanOnWay(w, c) = IF here THEN EnterFirm(w, c) ELSE w
    BY <1>6, Zenon DEF CaravanOnWay
  <2> HIDE DEF here
  <2> QED BY <1>1, <2>1, EnterKeeps
<1>7. CASE Deleted(w, f)
  <2>1. CaravanOnWay(w, c) = IF u.stop_defined_num = 0 THEN u ELSE on
    BY <1>7, Zenon DEF CaravanOnWay, u
  <2> HIDE DEF on
  <2> QED BY <1>2, <1>4, <2>1
<1> QED BY <1>5, <1>6, <1>7

LEMMA PreProcessKeeps ==
    ASSUME NEW w, Good(w), NEW c, Given(c) PROVE Keeps(w, PreProcess(w, c))
<1> DEFINE n == w.stop_defined_num
<1>1. n \in Nat /\ DOMAIN w = Field
  BY StopsFact
<1>2. CASE n = 0
  <2>1. PreProcess(w, c) = NoStopLeft(w)
    <3>1. n # 1 /\ ~(n > 1)
      BY <1>2
    <3> QED BY <1>2, <3>1 DEF PreProcess
  <2> QED BY <1>1, <2>1, NoStopLeftKeeps
<1>3. CASE n = 1
  <2>1. PreProcess(w, c) = OneStop(w, c)
    BY <1>3 DEF PreProcess
  <2> QED BY <1>3, <2>1, OneStopKeeps
<1>4. CASE n > 1 /\ w.journey = "inside"
  <2>1. PreProcess(w, c) = CaravanInFirm(w, c)
    <3>1. n # 0 /\ n # 1
      BY <1>1, <1>4
    <3> QED BY <1>4, <3>1, Zenon DEF PreProcess
  <2> QED BY <1>4, <2>1, InFirmKeeps
<1>5. CASE n > 1 /\ w.journey # "inside"
  <2>1. PreProcess(w, c) = CaravanOnWay(w, c)
    <3>1. n # 0 /\ n # 1
      BY <1>1, <1>5
    <3> QED BY <1>5, <3>1, Zenon DEF PreProcess
  <2> QED BY <1>5, <2>1, OnWayKeeps
<1> QED BY <1>1, <1>2, <1>3, <1>4, <1>5

LEMMA MoveOnKeeps ==
    ASSUME NEW w, DOMAIN w = Field, NEW c, c.move \in {"on", "arrives", "blocked"}
    PROVE  Keeps(w, MoveOn(w, c))
<1> DEFINE stops == [w EXCEPT !.moving = FALSE]
           road == [w EXCEPT !.place = Road]
           there == [w EXCEPT !.place = w.goal]
<1>1. ASSUME NEW v \in {stops, road, there, StopMoving(w)} PROVE Keeps(w, v)
  <2>1. DOMAIN v = Field /\ Untraded(w, v) /\ (Course(w) => Course(v))
    <3>1. CASE v = stops
      BY <3>1 DEF Field, Untraded, Course
    <3>2. CASE v = road
      BY <3>2 DEF Field, Untraded, Course
    <3>3. CASE v = there
      BY <3>3 DEF Field, Untraded, Course
    <3>4. CASE v = StopMoving(w)
      BY <3>4 DEF StopMoving, Field, Untraded, Course
    <3> QED BY <1>1, <3>1, <3>2, <3>3, <3>4
  <2> QED BY <2>1, UntradedKeeps
<1>2. MoveOn(w, c) \in {w, stops, road, there, StopMoving(w)}
  <2>1. CASE ~Visible(w) \/ ~w.moving
    BY <2>1, Zenon DEF MoveOn
  <2>2. CASE ~(~Visible(w) \/ ~w.moving) /\ w.place = w.goal
    BY <2>2, Zenon DEF MoveOn
  <2>3. CASE ~(~Visible(w) \/ ~w.moving) /\ w.place # w.goal
    <3>1. MoveOn(w, c) = CASE c.move = "on" -> road
                           [] c.move = "arrives" -> there
                           [] c.move = "blocked" -> StopMoving(w)
      BY <2>3, Zenon DEF MoveOn
    <3> HIDE DEF road, there
    <3> QED BY <3>1
  <2> QED BY <2>1, <2>2, <2>3
<1> HIDE DEF stops, road, there
<1> QED BY <1>1, <1>2, SelfKeeps

\* A frame conserves every material.
LEMMA FrameKeeps ==
    ASSUME NEW w, Good(w), NEW c \in Circumstances(w)
    PROVE  Keeps(w, MoveOn(PreProcess(w, c), c))
<1> DEFINE f == DestFirm(w)
           trades == Visible(w) /\ f # NoFirm /\ (w.journey = "surround" \/ w.place = f)
           unsold == IF f \in Market THEN {i \in Slot : w.market[f][i].stock = 0} ELSE {}
           v == PreProcess(w, c)
<1>1. c.move \in {"on", "arrives", "blocked"}
  <2>1. c.move \in IF Visible(w) THEN {"on", "arrives", "blocked"} ELSE {"on"}
    BY DEF Circumstances
  <2> QED BY <2>1
<1>2. Given(c)
  <2>1. /\ c.supplied \in IF trades THEN SUBSET unsold ELSE {{}}
        /\ c.purse \in IF trades /\ ~Ours(w, f) THEN 0..MaxCarry ELSE {0}
    BY DEF Circumstances
  <2>2. unsold \in SUBSET Slot
    OBVIOUS
  <2> DEFINE ours == Ours(w, f)
  <2>3. c.purse \in IF trades /\ ~ours THEN 0..MaxCarry ELSE {0}
    BY <2>1
  <2> HIDE DEF unsold, trades, f, ours
  <2>4. c.supplied \in SUBSET Slot
    BY <2>1, <2>2
  <2>5. c.purse \in Nat
    <3>1. c.purse \in 0..MaxCarry \/ c.purse \in {0}
      BY <2>3
    <3> QED BY <3>1
  <2> QED BY <2>4, <2>5 DEF Given
<1>3. Keeps(w, v)
  BY <1>2, PreProcessKeeps
<1> HIDE DEF v
<1>4. Keeps(v, MoveOn(v, c))
  BY <1>1, <1>3, MoveOnKeeps DEF Keeps
<1>5. Keeps(w, MoveOn(v, c))
  BY <1>3, <1>4, KeepsTrans
<1> QED BY <1>5 DEF v

-----------------------------------------------------------------------------
(* What the firms' own steps do with goods *)

\* Types are kept, and of no material there is more than before.
Loses(w, v) ==
    /\ DOMAIN v = Field
    /\ Stock(w) /\ Course(w) =>
          Stock(v) /\ Course(v) /\ \A r \in Raw : HeldBy(v, r) <= HeldBy(w, r)

LEMMA HeldByInt ==
    ASSUME NEW w, Stock(w), NEW r \in Raw PROVE HeldBy(w, r) \in Int
BY PartsFact, HeldByFact

LEMMA KeepsLoses ==
    ASSUME NEW w, NEW v, Keeps(w, v) PROVE Loses(w, v)
<1>1. ASSUME Stock(w), Course(w), NEW r \in Raw PROVE HeldBy(v, r) <= HeldBy(w, r)
  <2>1. HeldBy(v, r) = HeldBy(w, r) /\ HeldBy(w, r) \in Int
    BY <1>1, HeldByInt DEF Keeps
  <2> QED BY <2>1
<1> QED BY <1>1 DEF Keeps, Loses

LEMMA LosesTrans ==
    ASSUME NEW w, NEW u, NEW v, Keeps(w, u), Loses(u, v) PROVE Loses(w, v)
BY DEF Keeps, Loses

LEMMA OthersCourse ==
    ASSUME NEW w, NEW v, Others(w, v), Course(w) PROVE Course(v)
BY DEF Others, Course, Field

\* What balances keeps, and what shrinks loses.
LEMMA BalancedKeeps ==
    ASSUME NEW w, NEW v, DOMAIN v = Field, Stock(w) => Balanced(w, v) PROVE Keeps(w, v)
BY OthersCourse DEF Balanced, Keeps

LEMMA ShrunkLoses ==
    ASSUME NEW w, NEW v, DOMAIN v = Field, Stock(w) => Shrunk(w, v) PROVE Loses(w, v)
BY OthersCourse DEF Shrunk, Loses

\* Firms are built, captured and completed, treaties begin and end, and the
\* caravan is sent somewhere or dies.
Changed(w, f, new) == [w EXCEPT !.firm[f] = new]
Sent(w) == [w EXCEPT !.goal = Road, !.moving = TRUE]
Dead(w) == [w EXCEPT !.life = "dead"]
Treated(w, s) == [w EXCEPT !.treaty = s]

\* A firm changes its state or its owner.
LEMMA FirmKeeps ==
    ASSUME NEW w, DOMAIN w = Field, NEW f \in Firm,
           NEW new, w.firm[f] \in [status : {"none", "building", "ready"}, owner : Nation, site : {1, 2}]
                        => new \in [status : {"none", "building", "ready"}, owner : Nation, site : {1, 2}]
    PROVE  Keeps(w, Changed(w, f, new))
<1> DEFINE v == Changed(w, f, new)
<1>1. DOMAIN v = Field /\ Untraded(w, v)
  BY DEF Changed, Field, Untraded
<1>2. /\ v.treaty = w.treaty /\ v.journey = w.journey /\ v.inside = w.inside /\ v.place = w.place
      /\ v.goal = w.goal /\ v.door = w.door /\ v.moving = w.moving /\ v.wait = w.wait
      /\ v.firm = [w.firm EXCEPT ![f] = new]
  BY DEF Changed, Field
<1> HIDE DEF v
<1>3. Course(w) => Course(v)
  BY <1>2 DEF Course
<1> QED BY <1>1, <1>3, UntradedKeeps DEF v

LEMMA StateKeeps ==
    ASSUME NEW w, DOMAIN w = Field, NEW s, s \subseteq w.treaty \cup Foreign
    PROVE  Keeps(w, Sent(w)) /\ Keeps(w, Dead(w)) /\ Keeps(w, Treated(w, s))
<1>1. ASSUME NEW v \in {Sent(w), Dead(w), Treated(w, s)}
      PROVE  DOMAIN v = Field /\ Untraded(w, v) /\ (Course(w) => Course(v))
  <2>1. CASE v = Sent(w)
    BY <2>1 DEF Sent, Field, Untraded, Course
  <2>2. CASE v = Dead(w)
    BY <2>2 DEF Dead, Field, Untraded, Course
  <2>3. CASE v = Treated(w, s)
    BY <2>3 DEF Treated, Field, Untraded, Course
  <2> QED BY <1>1, <2>1, <2>2, <2>3
<1> QED BY <1>1, UntradedKeeps

\* What a mine produces comes out of the ground.
LEMMA ProduceRawKeeps ==
    ASSUME DOMAIN world = Field, NEW f \in Mine, ProduceRaw(f)
    PROVE  Keeps(world, world')
<1> DEFINE m == world.mine[f]
           room == MaxStock - m.stock
           New(n) == [stock |-> m.stock + n, reserve |-> m.reserve - n]
<1>1. PICK n \in 1 .. Least(MaxMake, Least(m.reserve, room)) : world' = PutMine(world, f, New(n))
  BY DEF ProduceRaw, Daily, PutMine
<1>2. DOMAIN PutMine(world, f, New(n)) = Field
  BY DEF PutMine
<1>3. ASSUME Stock(world) PROVE Balanced(world, PutMine(world, f, New(n)))
  <2>1. m \in MineSet
    BY <1>3 DEF Stock
  <2>2. m.stock \in 0 .. MaxStock /\ m.reserve \in Nat /\ MaxStock \in Nat /\ MaxMake \in Int
    BY <2>1, NumberAssumption DEF MineSet
  <2> HIDE DEF m
  <2>3. n \in Nat /\ n <= m.reserve /\ n <= room
    <3>1. room \in Int /\ m.reserve \in Int
      BY <2>2
    <3> HIDE DEF room
    <3>2. /\ Least(m.reserve, room) \in Int /\ Least(m.reserve, room) <= m.reserve
          /\ Least(m.reserve, room) <= room
      BY <3>1, LeastFact
    <3>3. /\ Least(MaxMake, Least(m.reserve, room)) \in Int
          /\ Least(MaxMake, Least(m.reserve, room)) <= Least(m.reserve, room)
      BY <2>2, <3>2, LeastFact
    <3> QED BY <1>1, <3>1, <3>2, <3>3
  <2>4. New(n) \in MineSet /\ New(n).stock + New(n).reserve = m.stock + m.reserve
    BY <2>2, <2>3 DEF MineSet
  <2> HIDE DEF New
  <2> QED BY <1>3, <2>4, MineSame DEF m
<1> HIDE DEF New
<1> QED BY <1>1, <1>2, <1>3, BalancedKeeps

LEMMA ProductionKeeps ==
    ASSUME DOMAIN world = Field, NEW f \in Factory, Production(f)
    PROVE  Keeps(world, world')
<1>1. PICK output \in SUBSET Open(f), purse \in 0..MaxStock, most \in 0..MaxMake :
          world' = Manufacture(InputRaw(world, f, output, purse), f, most)
  BY DEF Production, Daily
<1> DEFINE u == InputRaw(world, f, output, purse)
           v == Manufacture(u, f, most)
<1>2. DOMAIN v = Field
  BY ProductionFact DEF Kept
<1>3. ASSUME Stock(world) PROVE Balanced(world, v)
  <2>1. purse \in Nat /\ most \in Nat
    BY NumberAssumption
  <2>2. Balanced(world, u)
    BY <1>3, <2>1, InputRawFact
  <2> HIDE DEF u
  <2>3. Balanced(u, v)
    BY <2>1, <2>2, ManufactureBalanced DEF Balanced, Others
  <2> HIDE DEF v
  <2> QED BY <2>2, <2>3 DEF Balanced, Others
<1> QED BY <1>1, <1>2, <1>3, BalancedKeeps

LEMMA InputGoodsKeeps ==
    ASSUME DOMAIN world = Field, NEW f \in Market, InputGoods(f)
    PROVE  Keeps(world, world')
<1>1. PICK from, output : world' = MarketInput(world, f, from, output)
  BY DEF InputGoods, Daily
<1>2. DOMAIN MarketInput(world, f, from, output) = Field
  BY MarketInputFact DEF Kept
<1> QED BY <1>1, <1>2, MarketInputBalanced, BalancedKeeps

\* Goods are sold, dropped, or lost with the product a factory made.
LEMMA SellGoodsLoses ==
    ASSUME DOMAIN world = Field, NEW f \in Market, SellGoods(f)
    PROVE  Loses(world, world')
<1> DEFINE old == world.market[f]
           Left(sold) == [i \in Slot |-> [old[i] EXCEPT !.stock = @ - sold[i]]]
<1>1. PICK sold \in [Slot -> 0..MaxMake] :
          /\ \A i \in Slot : sold[i] <= old[i].stock
          /\ world' = [world EXCEPT !.market[f] = Left(sold)]
  BY DEF SellGoods, Daily
<1> DEFINE new == Left(sold)
<1>2. world' = PutMarket(world, f, new) /\ DOMAIN PutMarket(world, f, new) = Field
  BY <1>1 DEF PutMarket
<1>3. ASSUME Stock(world) PROVE Shrunk(world, PutMarket(world, f, new))
  <2>1. old \in SlotSet /\ SlotsOf(old)
    BY <1>3 DEF Stock
  <2> HIDE DEF old
  <2>2. ASSUME NEW i \in Slot
        PROVE  /\ new[i] \in [good : {0} \cup Goods, stock : 0..MaxStock]
               /\ new[i].good = old[i].good /\ new[i].stock <= old[i].stock
               /\ old[i].stock = 0 => new[i].stock = 0
    <3>1. /\ old[i] \in [good : {0} \cup Goods, stock : 0..MaxStock]
          /\ sold[i] \in 0 .. MaxMake /\ sold[i] <= old[i].stock
      BY <1>1, <2>1 DEF SlotSet
    <3>2. new[i] = [old[i] EXCEPT !.stock = @ - sold[i]]
      OBVIOUS
    <3>3. MaxStock \in Nat /\ MaxMake \in Nat
      BY NumberAssumption
    <3> HIDE DEF new
    <3> QED BY <3>1, <3>2, <3>3
  <2>3. DOMAIN new = Slot /\ new = [i \in Slot |-> new[i]]
    OBVIOUS
  <2> HIDE DEF new
  <2>4. new \in SlotSet
    BY <2>2, <2>3 DEF SlotSet
  <2>5. SlotsOf(new)
    BY <2>1, <2>2 DEF SlotsOf
  <2> QED BY <1>3, <2>2, <2>4, <2>5, ShrinkMarket DEF old
<1> HIDE DEF new
<1> QED BY <1>2, <1>3, ShrunkLoses

LEMMA ClearGoodsLoses ==
    ASSUME DOMAIN world = Field, NEW f \in Market, NEW i \in Slot, ClearGoods(f, i)
    PROVE  Loses(world, world')
<1> DEFINE old == world.market[f]
           none == [good |-> 0, stock |-> 0]
           new == [old EXCEPT ![i] = none]
<1>1. world' = PutMarket(world, f, new) /\ DOMAIN PutMarket(world, f, new) = Field
  BY DEF ClearGoods, Event, PutMarket
<1>2. ASSUME Stock(world) PROVE Shrunk(world, PutMarket(world, f, new))
  <2>1. old \in SlotSet /\ SlotsOf(old) /\ MaxStock \in Nat
    BY <1>2, NumberAssumption DEF Stock
  <2> HIDE DEF old
  <2>2. new \in SlotSet /\ \A j \in Slot : new[j] = IF j = i THEN none ELSE old[j]
    BY <2>1 DEF SlotSet
  <2> HIDE DEF new
  <2>3. SlotsOf(new)
    BY <2>1, <2>2 DEF SlotsOf
  <2>4. \A j \in Slot : new[j].good \in {0, old[j].good} /\ new[j].stock <= old[j].stock
    <3>1. \A j \in Slot : old[j].stock \in 0 .. MaxStock
      BY <2>1 DEF SlotSet
    <3> QED BY <2>1, <2>2, <3>1
  <2> QED BY <1>2, <2>2, <2>3, <2>4, ShrinkMarket DEF old
<1> HIDE DEF new
<1> QED BY <1>1, <1>2, ShrunkLoses

LEMMA ChangeProductionLoses ==
    ASSUME DOMAIN world = Field, NEW f \in Factory, NEW r \in Raw, ChangeProduction(f, r)
    PROVE  Loses(world, world')
<1> DEFINE new == [product |-> r, raw |-> 0, stock |-> 0]
<1>1. world' = PutFactory(world, f, new) /\ DOMAIN PutFactory(world, f, new) = Field
  BY DEF ChangeProduction, Event, PutFactory
<1>2. new \in FactorySet /\ new.raw = 0 /\ new.stock = 0
  BY NumberAssumption DEF FactorySet
<1> HIDE DEF new
<1>3. Stock(world) => Shrunk(world, PutFactory(world, f, new))
  BY <1>2, ShrinkFactory
<1> QED BY <1>1, <1>3, ShrunkLoses

\* The firm's goods are gone with it, and a caravan in front of it is on the road.
Closed(w, f, new, place, goal, door) ==
    [w EXCEPT !.firm[f] = new, !.place = place, !.goal = goal, !.door = door]

LEMMA ClosedKeeps ==
    ASSUME NEW w, DOMAIN w = Field, NEW f \in Firm,
           NEW new, new = [w.firm[f] EXCEPT !.status = "none"],
           NEW place \in {w.place, Road}, NEW goal \in {w.goal, Road}, NEW door \in {w.door, Road}
    PROVE  Keeps(w, Closed(w, f, new, place, goal, door))
<1> DEFINE v == Closed(w, f, new, place, goal, door)
<1>1. DOMAIN v = Field /\ Untraded(w, v)
  BY DEF Closed, Field, Untraded
<1>2. /\ v.treaty = w.treaty /\ v.journey = w.journey /\ v.inside = w.inside /\ v.place = place
      /\ v.goal = goal /\ v.door = door /\ v.moving = w.moving /\ v.wait = w.wait
      /\ v.firm = [w.firm EXCEPT ![f] = new]
  BY DEF Closed, Field
<1> HIDE DEF v
<1>3. Course(w) => Course(v)
  BY <1>2 DEF Course
<1> QED BY <1>1, <1>3, UntradedKeeps DEF v

LEMMA IdleFact ==
    ASSUME NEW x \in FactorySet, NEW y, y = [x EXCEPT !.raw = 0, !.stock = 0]
    PROVE  y \in FactorySet /\ y.raw = 0 /\ y.stock = 0
<1>1. PICK p \in Raw, n \in 0..MaxStock, q \in 0..MaxStock : x = [product |-> p, raw |-> n, stock |-> q]
  BY DEF FactorySet
<1>2. y = [product |-> p, raw |-> 0, stock |-> 0]
  BY <1>1
<1>3. MaxStock \in Nat
  BY NumberAssumption
<1> QED BY <1>2, <1>3 DEF FactorySet

\* The end of a market, a mine or a factory.
LEMMA DelFirmLoses ==
    ASSUME DOMAIN world = Field, NEW f \in Firm, DelFirm(f)
    PROVE  Loses(world, world')
<1> DEFINE Elsewhere(p) == IF p = f THEN Road ELSE p
           gone == [world.firm[f] EXCEPT !.status = "none"]
           u == Closed(world, f, gone, Elsewhere(world.place), Elsewhere(world.goal),
                       Elsewhere(world.door))
           dry == [stock |-> 0, reserve |-> 0]
           idle == [world.factory[f] EXCEPT !.raw = 0, !.stock = 0]
<1>1. Keeps(world, u) /\ DOMAIN u = Field
  <2>1. /\ Elsewhere(world.place) \in {world.place, Road}
        /\ Elsewhere(world.goal) \in {world.goal, Road}
        /\ Elsewhere(world.door) \in {world.door, Road}
    OBVIOUS
  <2> HIDE DEF Elsewhere, gone
  <2>2. Keeps(world, u)
    BY <2>1, ClosedKeeps DEF gone
  <2> QED BY <2>2 DEF Keeps
<1>2. u.market = world.market /\ u.mine = world.mine /\ u.factory = world.factory
  BY DEF Closed, Field
<1>3. MaxStock \in Nat /\ Firm = Market \cup Mine \cup Factory
  BY NumberAssumption DEF Firm
<1>4. CASE f \in Market
  <2>1. world' = PutMarket(u, f, EmptySlots) /\ DOMAIN PutMarket(u, f, EmptySlots) = Field
    BY <1>4, FirmAssumption DEF DelFirm, Event, PutMarket, Closed, Field
  <2> HIDE DEF u
  <2>2. ASSUME Stock(u) PROVE Shrunk(u, PutMarket(u, f, EmptySlots))
    <3>1. EmptySlots \in SlotSet /\ SlotsOf(EmptySlots)
      BY <1>3 DEF EmptySlots, SlotSet, SlotsOf
    <3>2. \A i \in Slot : EmptySlots[i].good = 0 /\ EmptySlots[i].stock = 0
      BY DEF EmptySlots
    <3>3. \A i \in Slot : u.market[f][i].stock \in 0 .. MaxStock
      BY <1>4, <2>2 DEF Stock, SlotSet
    <3>4. \A i \in Slot : /\ EmptySlots[i].good \in {0, u.market[f][i].good}
                          /\ EmptySlots[i].stock <= u.market[f][i].stock
      BY <1>3, <3>2, <3>3
    <3> QED BY <1>1, <1>4, <2>2, <3>1, <3>4, ShrinkMarket
  <2> QED BY <1>1, <2>1, <2>2, ShrunkLoses, LosesTrans
<1>5. CASE f \in Mine
  <2>1. world' = PutMine(u, f, dry) /\ DOMAIN PutMine(u, f, dry) = Field
    BY <1>5, FirmAssumption DEF DelFirm, Event, PutMine, Closed, Field
  <2> HIDE DEF u
  <2>2. ASSUME Stock(u) PROVE Shrunk(u, PutMine(u, f, dry))
    <3>1. dry \in MineSet /\ dry.stock + dry.reserve = 0
      BY <1>3 DEF MineSet
    <3>2. u.mine[f].stock \in Nat /\ u.mine[f].reserve \in Nat
      BY <1>3, <1>5, <2>2 DEF Stock, MineSet
    <3> HIDE DEF dry
    <3>3. dry.stock + dry.reserve <= u.mine[f].stock + u.mine[f].reserve
      BY <3>1, <3>2
    <3> QED BY <1>1, <1>5, <2>2, <3>1, <3>3, ShrinkMine
  <2> QED BY <1>1, <2>1, <2>2, ShrunkLoses, LosesTrans
<1>6. CASE f \in Factory
  <2>1. DOMAIN world' = Field
    BY FirmsStepFact, <1>6 DEF Kept, FirmsStep
  <2>2. ASSUME Stock(u) PROVE world' = PutFactory(u, f, idle) /\ Shrunk(u, PutFactory(u, f, idle))
    <3> DEFINE factory == [world.factory EXCEPT ![f].raw = 0, ![f].stock = 0]
    <3>1. world.factory \in [Factory -> FactorySet] /\ world.factory[f] \in FactorySet
      BY <1>2, <1>6, <2>2 DEF Stock
    <3>2. factory = [world.factory EXCEPT ![f] = idle]
      BY <1>6, <3>1
    <3>3. world' = [u EXCEPT !.factory = factory]
      <4> DEFINE market == IF f \in Market THEN [world.market EXCEPT ![f] = EmptySlots] ELSE world.market
                 mine == IF f \in Mine THEN [world.mine EXCEPT ![f] = dry] ELSE world.mine
                 store == IF f \in Factory THEN factory ELSE world.factory
                 Put(a, b, c) ==
                   [world EXCEPT !.firm[f].status = "none", !.market = a, !.mine = b, !.factory = c,
                                 !.place = Elsewhere(world.place), !.goal = Elsewhere(world.goal),
                                 !.door = Elsewhere(world.door)]
      <4>1. Event(Put(market, mine, store))
        BY Zenon DEF DelFirm
      <4>2. market = world.market /\ mine = world.mine /\ store = factory
        BY <1>6, FirmAssumption
      <4>3. world' = Put(world.market, world.mine, factory)
        <5> HIDE DEF market, mine, store, factory, Put
        <5> QED BY <4>1, <4>2 DEF Event
      <4> HIDE DEF factory, Elsewhere
      <4>4. Put(world.market, world.mine, factory) = [u EXCEPT !.factory = factory]
        BY DEF Closed, Field
      <4> QED BY <4>3, <4>4
    <3>4. idle \in FactorySet /\ idle.raw = 0 /\ idle.stock = 0
      BY <3>1, IdleFact
    <3> HIDE DEF u, idle, factory
    <3>5. world' = PutFactory(u, f, idle)
      BY <1>1, <1>2, <3>2, <3>3 DEF PutFactory, Field
    <3> QED BY <1>1, <1>6, <2>2, <3>4, <3>5, ShrinkFactory
  <2> HIDE DEF u, idle
  <2>3. Loses(u, world')
    BY <2>1, <2>2, ShrunkLoses
  <2> QED BY <1>1, <2>3, LosesTrans
<1> QED BY <1>3, <1>4, <1>5, <1>6

\* What may yet be spent is counted down.
BudgetOK == budget \in [orders : Nat, events : Nat]

\* An event is counted, so that its step is told from the trade that must lose
\* nothing.
LEMMA BudgetFact ==
    ASSUME BudgetOK
    PROVE  /\ \A w : Event(w) => BudgetOK' /\ budget' # budget
           /\ \A w : Daily(w) => BudgetOK'
<1>1. budget.events \in Nat /\ budget.orders \in Nat
  BY DEF BudgetOK
<1>2. ASSUME NEW w, Event(w) PROVE BudgetOK' /\ budget' # budget
  <2>1. budget.events > 0 /\ budget' = [budget EXCEPT !.events = @ - 1]
    BY <1>2 DEF Event
  <2>2. budget' = [orders |-> budget.orders, events |-> budget.events - 1]
    BY <2>1 DEF BudgetOK
  <2>3. budget.events - 1 \in Nat /\ budget'.events # budget.events
    BY <1>1, <2>1, <2>2
  <2>4. BudgetOK'
    BY <1>1, <2>2, <2>3 DEF BudgetOK
  <2> QED BY <2>3, <2>4
<1>3. ASSUME NEW w, Daily(w) PROVE BudgetOK'
  BY <1>3 DEF Daily, BudgetOK
<1> QED BY <1>2, <1>3

\* A step of the firms conserves the goods, or is one in which they are spent.
LEMMA FirmsStepGoods ==
    ASSUME DOMAIN world = Field, BudgetOK, FirmsStep
    PROVE  BudgetOK' /\ Loses(world, world') /\ (Spent \/ Keeps(world, world'))
<1> DEFINE Right == BudgetOK' /\ Loses(world, world') /\ (Spent \/ Keeps(world, world'))
<1>1. ASSUME NEW w, Daily(w), Keeps(world, world') PROVE Right
  BY <1>1, BudgetFact, KeepsLoses
<1>2. ASSUME NEW w, Event(w), Loses(world, world') PROVE Right
  BY <1>2, BudgetFact DEF Spent
<1>3. ASSUME NEW w, Event(w), Keeps(world, w) PROVE Right
  <2>1. world' = w
    BY <1>3 DEF Event
  <2>2. Loses(world, world')
    BY <1>3, <2>1, KeepsLoses
  <2> QED BY <1>2, <1>3, <2>2
<1> HIDE DEF Right
<1>4. ASSUME MoveOrder \/ CaravanDies PROVE Right
  <2>1. Event(Sent(world)) \/ Event(Dead(world))
    BY <1>4 DEF MoveOrder, CaravanDies, Sent, Dead
  <2>2. Keeps(world, Sent(world)) /\ Keeps(world, Dead(world))
    BY StateKeeps
  <2> QED BY <1>3, <2>1, <2>2
<1>5. ASSUME NEW f \in Mine, ProduceRaw(f) PROVE Right
  <2>1. \E w : Daily(w)
    BY <1>5 DEF ProduceRaw
  <2> QED BY <1>1, <1>5, <2>1, ProduceRawKeeps
<1>6. ASSUME NEW f \in Factory, Production(f) PROVE Right
  <2>1. \E w : Daily(w)
    BY <1>6 DEF Production
  <2> QED BY <1>1, <1>6, <2>1, ProductionKeeps
<1>7. ASSUME NEW f \in Factory, NEW r \in Raw, ChangeProduction(f, r) PROVE Right
  <2>1. \E w : Event(w)
    BY <1>7 DEF ChangeProduction
  <2> QED BY <1>2, <1>7, <2>1, ChangeProductionLoses
<1>8. ASSUME NEW f \in Market, InputGoods(f) PROVE Right
  <2>1. \E w : Daily(w)
    BY <1>8 DEF InputGoods
  <2> QED BY <1>1, <1>8, <2>1, InputGoodsKeeps
<1>9. ASSUME NEW f \in Market, SellGoods(f) PROVE Right
  <2>1. \E w : Daily(w)
    BY <1>9 DEF SellGoods
  <2>2. BudgetOK'
    BY <2>1, BudgetFact
  <2>3. Spent
    BY <1>9 DEF Spent
  <2> QED BY <1>9, <2>2, <2>3, SellGoodsLoses DEF Right
<1>10. ASSUME NEW f \in Market, NEW i \in Slot, ClearGoods(f, i) PROVE Right
  <2>1. \E w : Event(w)
    BY <1>10 DEF ClearGoods
  <2> QED BY <1>2, <1>10, <2>1, ClearGoodsLoses
<1>11. ASSUME NEW f \in Firm, DelFirm(f) PROVE Right
  <2>1. \E w : Event(w)
    BY <1>11 DEF DelFirm
  <2> QED BY <1>2, <1>11, <2>1, DelFirmLoses
<1> DEFINE Is(s) == s \in [status : {"none", "building", "ready"}, owner : Nation, site : {1, 2}]
<1>12. ASSUME NEW f \in Firm, NEW n \in Nation, CaptureFirm(f, n) PROVE Right
  <2> DEFINE new == [world.firm[f] EXCEPT !.owner = n]
  <2>1. Event(Changed(world, f, new))
    BY <1>12 DEF CaptureFirm, Changed
  <2>2. Is(world.firm[f]) => Is(new)
    OBVIOUS
  <2> HIDE DEF new
  <2>3. Keeps(world, Changed(world, f, new))
    BY <2>2, FirmKeeps
  <2> QED BY <1>3, <2>1, <2>3
<1>13. ASSUME NEW f \in Market, NEW n \in Nation, NEW site \in {1, 2}, BuildFirm(f, n, site) PROVE Right
  <2> DEFINE new == [status |-> "building", owner |-> n, site |-> site]
  <2>1. Event(Changed(world, f, new))
    BY <1>13 DEF BuildFirm, Changed
  <2>2. Is(new) /\ f \in Firm
    BY DEF Firm
  <2> HIDE DEF new
  <2>3. Keeps(world, Changed(world, f, new))
    BY <2>2, FirmKeeps
  <2> QED BY <1>3, <2>1, <2>3
<1>14. ASSUME NEW f \in Market, CompleteFirm(f) PROVE Right
  <2> DEFINE new == [world.firm[f] EXCEPT !.status = "ready"]
  <2>1. Daily(Changed(world, f, new))
    BY <1>14 DEF CompleteFirm, Changed
  <2>2. (Is(world.firm[f]) => Is(new)) /\ f \in Firm
    BY DEF Firm
  <2> HIDE DEF new
  <2>3. Keeps(world, Changed(world, f, new))
    BY <2>2, FirmKeeps
  <2>4. world' = Changed(world, f, new)
    BY <2>1 DEF Daily
  <2>5. Keeps(world, world')
    BY <2>3, <2>4
  <2> QED BY <1>1, <2>1, <2>5
<1>15. ASSUME NEW n \in Foreign, TreatyBegins(n) \/ TreatyEnds(n) PROVE Right
  <2> DEFINE more == world.treaty \cup {n}
             less == world.treaty \ {n}
  <2>1. Event(Treated(world, more)) \/ Event(Treated(world, less))
    BY <1>15 DEF TreatyBegins, TreatyEnds, Treated
  <2>2. more \subseteq world.treaty \cup Foreign /\ less \subseteq world.treaty \cup Foreign
    OBVIOUS
  <2> HIDE DEF more, less
  <2>3. Keeps(world, Treated(world, more)) /\ Keeps(world, Treated(world, less))
    BY <2>2, StateKeeps
  <2> QED BY <1>3, <2>1, <2>3
<1>16. Right
  BY <1>4, <1>5, <1>6, <1>7, <1>8, <1>9, <1>10, <1>11, <1>12, <1>13, <1>14, <1>15,
     Zenon DEF FirmsStep
<1> QED BY <1>16 DEF Right

-----------------------------------------------------------------------------
(* The invariant about goods *)

GoodsInv == RoundInv /\ Stock(world) /\ Course(world) /\ BudgetOK

LEMMA InitGoods ==
    ASSUME Init PROVE GoodsInv
<1>1. PICK s \in Start : world = s.world /\ budget = s.budget
  BY DEF Init
<1>2. Typed(world) /\ BudgetOK
  BY <1>1, StartAssumption DEF BudgetOK
<1>3. Stock(world)
  BY <1>2 DEF Typed, Stock, SlotSet, MineSet, FactorySet, Cargoes
<1>4. Course(world)
  BY <1>2 DEF Typed, Course
<1> QED BY <1>2, <1>3, <1>4, InitRound DEF GoodsInv

\* What one step does with goods.
LEMMA StepGoods ==
    ASSUME GoodsInv, [Next]_vars
    PROVE  BudgetOK' /\ Loses(world, world') /\ (Spent \/ Keeps(world, world'))
<1>1. Good(world) /\ OrdersOK /\ DOMAIN world = Field /\ BudgetOK
  BY DEF GoodsInv, RoundInv, Good, Wide
<1>2. ASSUME BudgetOK', Keeps(world, world')
      PROVE  BudgetOK' /\ Loses(world, world') /\ (Spent \/ Keeps(world, world'))
  BY <1>2, KeepsLoses
<1>3. ASSUME UNCHANGED budget PROVE BudgetOK'
  BY <1>1, <1>3 DEF BudgetOK
<1>4. CASE Frame
  <2>1. PICK c \in Circumstances(world) : world' = MoveOn(PreProcess(world, c), c)
    BY <1>4 DEF Frame
  <2>2. Keeps(world, world')
    BY <1>1, <2>1, FrameKeeps
  <2>3. UNCHANGED budget
    BY <1>4 DEF Frame
  <2> QED BY <1>2, <1>3, <2>2, <2>3
<1>5. CASE Refresh
  <2>1. world' = UpdateAllPickUps(UpdateStopList(world)) /\ UNCHANGED budget
    BY <1>5 DEF Refresh
  <2>2. Keeps(world, world')
    BY <1>1, <2>1, RefreshKeeps
  <2> QED BY <1>2, <1>3, <2>1, <2>2
<1>6. CASE GiveOrder
  <2>1. PICK o \in Clicks(world) :
            /\ budget.orders > 0 /\ budget' = [budget EXCEPT !.orders = @ - 1]
            /\ IF Remote THEN orders' = Append(orders, o) /\ UNCHANGED world
               ELSE world' = Execute(world, o) /\ UNCHANGED orders
    BY <1>6 DEF GiveOrder
  <2>2. BudgetOK'
    BY <1>1, <2>1 DEF BudgetOK
  <2>3. Keeps(world, world) /\ Keeps(world, Execute(world, o))
    <3>1. IsOrder(o)
      BY <1>1, ClicksFact
    <3> QED BY <1>1, <3>1, ExecuteKeeps, SelfKeeps
  <2>4. world' \in {world, Execute(world, o)}
    BY <2>1
  <2>5. Keeps(world, world')
    BY <2>3, <2>4
  <2> QED BY <1>2, <2>2, <2>5
<1>7. CASE ExecuteOrder
  <2>1. orders # <<>> /\ world' = Execute(world, Head(orders)) /\ UNCHANGED budget
    BY <1>7 DEF ExecuteOrder
  <2>2. PICK T : orders \in Seq(T) /\ \A e \in T : IsOrder(e)
    BY <1>1 DEF OrdersOK
  <2>3. IsOrder(Head(orders))
    BY <2>1, <2>2, TailFact
  <2>4. Keeps(world, world')
    BY <1>1, <2>1, <2>3, ExecuteKeeps
  <2> QED BY <1>2, <1>3, <2>1, <2>4
<1>8. CASE FirmsStep
  BY <1>1, <1>8, FirmsStepGoods
<1>9. CASE UNCHANGED vars
  <2>1. world' = world /\ UNCHANGED budget
    BY <1>9 DEF vars
  <2>2. Keeps(world, world')
    BY <1>1, <2>1, SelfKeeps
  <2> QED BY <1>2, <1>3, <2>1, <2>2
<1>10. Next => Frame \/ Refresh \/ GiveOrder \/ ExecuteOrder \/ FirmsStep
  BY Zenon DEF Next, FirmsStep
<1> QED BY <1>4, <1>5, <1>6, <1>7, <1>8, <1>9, <1>10

LEMMA NextGoods ==
    ASSUME GoodsInv, [Next]_vars PROVE GoodsInv'
<1>1. RoundInv'
  BY NextRound DEF GoodsInv
<1>2. BudgetOK' /\ Loses(world, world')
  BY StepGoods
<1>3. Stock(world') /\ Course(world')
  BY <1>2 DEF GoodsInv, Loses
<1> QED BY <1>1, <1>2, <1>3 DEF GoodsInv

\* Besides the list, what there is of goods and where the caravan is have their
\* types, whatever happens.
THEOREM GoodsAlways == Spec => []GoodsInv
<1>1. Init => GoodsInv
  BY InitGoods
<1>2. GoodsInv /\ [Next]_vars => GoodsInv'
  BY NextGoods
<1> QED BY <1>1, <1>2, PTL DEF Spec

\* No stock and no cargo is ever negative or beyond its capacity (the err_when of
\* the trade functions in OU_CARAT.cpp), and a market has at most one slot for
\* each of its goods and none for no goods.
THEOREM TypeAlwaysOK == Spec => []TypeOK
<1>1. GoodsInv => TypeOK
  <2>1. SUFFICES ASSUME GoodsInv PROVE Typed(world)
    BY DEF TypeOK
  <2>2. Stock(world) /\ Course(world) /\ Good(world)
    BY <2>1 DEF GoodsInv, RoundInv
  <2>3. world.stop_defined_num \in 0..MaxStopForCaravan /\ world.dest \in 0..MaxStopForCaravan
    <3>1. /\ world.stop_defined_num \in 0..MaxStopForCaravan
          /\ world.dest = 0 \/ world.dest \in 1..world.stop_defined_num
      BY <2>2 DEF Good, Wide, InOrder
    <3> QED BY <3>1, NumberAssumption
  <2> QED BY <2>2, <2>3 DEF Typed, Stock, Course, SlotSet, MineSet, FactorySet, Cargoes
<1> QED BY <1>1, GoodsAlways, PTL

\* Trade neither loses goods nor makes any: of each material, in the ground, as
\* raw material and as product, a step leaves no more than there was, and less
\* only if goods are sold, or a player drops them or a firm ends (OU_CARAT.cpp,
\* input_goods, input_raw).
THEOREM GoodsAlwaysConserved == Spec => GoodsConserved
<1>1. GoodsInv /\ [Next]_vars =>
        [Stores(world') # Stores(world) =>
            \A r \in Raw : /\ HeldBy(world', r) <= HeldBy(world, r)
                           /\ ~Spent => HeldBy(world', r) = HeldBy(world, r)]_vars
  <2>1. SUFFICES ASSUME GoodsInv, [Next]_vars, NEW r \in Raw
                 PROVE  /\ HeldBy(world', r) <= HeldBy(world, r)
                        /\ ~Spent => HeldBy(world', r) = HeldBy(world, r)
    OBVIOUS
  <2>2. Loses(world, world') /\ (Spent \/ Keeps(world, world'))
    BY <2>1, StepGoods
  <2> QED BY <2>1, <2>2 DEF GoodsInv, Loses, Keeps
<1> QED BY <1>1, GoodsAlways, PTL DEF Spec, GoodsConserved
=============================================================================
