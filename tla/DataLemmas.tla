----------------------------- MODULE DataLemmas -----------------------------
(***************************************************************************)
(* What the proofs need to know of data: numbers reused modulo M, least    *)
(* numbers and induction, the lists that SequencesExt builds, and folds    *)
(* and sums over finite sets.                                              *)
(***************************************************************************)
EXTENDS Integers, SequencesExt, SequenceTheorems, FiniteSetTheorems, WellFoundedInduction, TLAPS

-----------------------------------------------------------------------------
(* Remainders, as the frame ids of OERRCTRL.h are *)

(* Division with remainder. *)
LEMMA DivMod ==
    ASSUME NEW M \in Nat \ {0}, NEW a \in Nat
    PROVE  /\ (a % M) \in 0 .. M - 1
           /\ (a \div M) \in Nat
           /\ a = M * (a \div M) + (a % M)
    BY SMT

(* The remainder is the only number below M that goes with a multiple of M. *)
LEMMA ModUnique ==
    ASSUME NEW M \in Nat \ {0}, NEW q \in Nat, NEW r \in 0 .. M - 1
    PROVE  (M * q + r) % M = r
    BY SMT

(* Going d < M places ahead adds d to the remainder and wraps at most once. *)
LEMMA Distance ==
    ASSUME NEW M \in Nat \ {0}, NEW a \in Nat, NEW b \in Nat, a <= b, b < a + M
    PROVE  \/ (b % M) = (a % M) + (b - a) /\ (a % M) + (b - a) < M
           \/ (b % M) = (a % M) + (b - a) - M /\ (a % M) + (b - a) >= M
<1> DEFINE q == a \div M
           r == a % M
           d == b - a
<1>1. q \in Nat /\ r \in 0 .. M - 1 /\ a = M * q + r
  BY DivMod
<1>2. d \in 0 .. M - 1 /\ b = M * q + r + d
  BY <1>1
<1> HIDE DEF q, r, d
<1>3. CASE r + d < M
  <2>1. r + d \in 0 .. M - 1
    BY <1>1, <1>2, <1>3
  <2>2. (M * q + (r + d)) % M = r + d
    BY <1>1, <2>1, ModUnique
  <2>3. b = M * q + (r + d)
    BY <1>1, <1>2
  <2> QED BY <1>3, <2>2, <2>3 DEF r, d
<1>4. CASE r + d >= M
  <2>1. r + d - M \in 0 .. M - 1 /\ q + 1 \in Nat
    BY <1>1, <1>2, <1>4
  <2>2. (M * (q + 1) + (r + d - M)) % M = r + d - M
    BY <2>1, ModUnique
  <2>3. b = M * (q + 1) + (r + d - M)
    BY <1>1, <1>2
  <2> QED BY <1>4, <2>2, <2>3 DEF r, d
<1> QED BY <1>1, <1>2, <1>3, <1>4

(* Numbers with the same remainder that are less than M apart are equal. *)
LEMMA SameRemainder ==
    ASSUME NEW M \in Nat \ {0}, NEW a \in Nat, NEW b \in Nat,
           a < b + M, b < a + M, a % M = b % M
    PROVE  a = b
<1>1. (a % M) \in 0 .. M - 1
  BY DivMod
<1>2. CASE a <= b
  <2>1. \/ (b % M) = (a % M) + (b - a) /\ (a % M) + (b - a) < M
        \/ (b % M) = (a % M) + (b - a) - M /\ (a % M) + (b - a) >= M
    BY <1>2, Distance
  <2> QED BY <1>1, <2>1
<1>3. CASE b <= a
  <2>1. \/ (a % M) = (b % M) + (a - b) /\ (b % M) + (a - b) < M
        \/ (a % M) = (b % M) + (a - b) - M /\ (b % M) + (a - b) >= M
    BY <1>3, Distance
  <2> QED BY <1>1, <2>1
<1> QED BY <1>2, <1>3

(* Remainders may be taken before adding. *)
LEMMA ModAdd ==
    ASSUME NEW M \in Nat \ {0}, NEW a \in Nat, NEW i \in Nat
    PROVE  ((a % M) + i) % M = (a + i) % M
<1> DEFINE q == a \div M
           r == a % M
<1>1. q \in Nat /\ r \in 0 .. M - 1 /\ a = M * q + r
  BY DivMod
<1> HIDE DEF q, r
<1>2. r + i \in Nat
  BY <1>1
<1> DEFINE s == (r + i) \div M
           t == (r + i) % M
<1>3. s \in Nat /\ t \in 0 .. M - 1 /\ r + i = M * s + t
  BY <1>2, DivMod
<1> HIDE DEF s, t
<1>4. a + i = M * (q + s) + t /\ q + s \in Nat
  BY <1>1, <1>3
<1>5. (M * (q + s) + t) % M = t
  BY <1>3, <1>4, ModUnique
<1> QED BY <1>4, <1>5 DEF r, t

-----------------------------------------------------------------------------
(* Least numbers, induction, lists *)

(* A set of numbers that is not empty has a least one. *)
LEMMA HasLeast ==
    ASSUME NEW A \in SUBSET Nat, A # {}
    PROVE  \E m \in A : \A k \in A : m <= k
<1> DEFINE less == OpToRel(<, Nat)
<1>1. IsWellFoundedOn(less, Nat)
  BY NatLessThanWellFounded
<1>2. \A i, j \in Nat : <<i, j>> \in less <=> i < j
  BY DEF OpToRel
<1> HIDE DEF less
<1>3. PICK m \in A : \A k \in A : ~ (<<k, m>> \in less)
  BY <1>1, WFMin
<1>4. \A k \in A : ~(k < m)
  BY <1>2, <1>3
<1>5. \A k \in A : m <= k
  BY <1>4, SMT
<1> QED BY <1>5

(* Min gives it. *)
LEMMA MinIsLeast ==
    ASSUME NEW A \in SUBSET Nat, A # {}
    PROVE  Min(A) \in A /\ \A k \in A : Min(A) <= k
BY HasLeast, Zenon DEF Min

LEMMA MinUnique ==
    ASSUME NEW A \in SUBSET Nat, NEW m \in A, \A k \in A : m <= k
    PROVE  Min(A) = m
<1>1. Min(A) \in A /\ \A k \in A : Min(A) <= k
  BY MinIsLeast
<1>2. Min(A) <= m /\ m <= Min(A) /\ m \in Nat /\ Min(A) \in Nat
  BY <1>1
<1> HIDE DEF Min
<1> QED BY <1>2, SMT

(* Induction: a set of numbers with 0 and all successors has all numbers. *)
LEMMA Induction ==
    ASSUME NEW A \in SUBSET Nat, 0 \in A, \A n \in A : n + 1 \in A
    PROVE  A = Nat
<1> SUFFICES ASSUME Nat \ A # {} PROVE FALSE
  OBVIOUS
<1>1. PICK m \in Nat \ A : \A k \in Nat \ A : m <= k
  BY HasLeast
<1>2. m # 0 /\ m - 1 \in Nat /\ m - 1 \in A
  BY <1>1
<1> QED BY <1>1, <1>2

(* What a sequence is, in one place. *)
LEMMA SeqFact ==
    ASSUME NEW T, NEW s \in Seq(T)
    PROVE  /\ Len(s) \in Nat /\ DOMAIN s = 1 .. Len(s) /\ DOMAIN s \in SUBSET Nat
           /\ \A i \in DOMAIN s : s[i] \in T
<1>1. Len(s) \in Nat /\ DOMAIN s = 1 .. Len(s)
  BY LenProperties
<1>2. \A i \in DOMAIN s : s[i] \in T
  BY <1>1, ElementOfSeq
<1>3. DOMAIN s \in SUBSET Nat
  BY <1>1
<1> QED BY <1>1, <1>2, <1>3

(* What Append makes of it. *)
LEMMA AppendFact ==
    ASSUME NEW T, NEW s \in Seq(T), NEW e \in T
    PROVE  /\ Append(s, e) \in Seq(T)
           /\ DOMAIN Append(s, e) = DOMAIN s \cup {Len(s) + 1}
           /\ Len(s) + 1 \in Nat \ {0} /\ Len(s) + 1 \notin DOMAIN s
           /\ \A i \in DOMAIN s : i \in Nat \ {0} /\ i < Len(s) + 1 /\ Append(s, e)[i] = s[i]
           /\ Append(s, e)[Len(s) + 1] = e
<1>1. /\ Append(s, e) \in Seq(T) /\ Len(Append(s, e)) = Len(s) + 1
      /\ \A i \in 1 .. Len(s) : Append(s, e)[i] = s[i]
      /\ Append(s, e)[Len(s) + 1] = e
  BY AppendProperties
<1>2. Len(s) \in Nat /\ DOMAIN s = 1 .. Len(s)
  BY SeqFact
<1>3. DOMAIN Append(s, e) = 1 .. Len(s) + 1
  BY <1>1, SeqFact
<1> DEFINE t == Append(s, e)
           n == Len(s)
<1> HIDE DEF t, n
<1>4. 1 .. n + 1 = (1 .. n) \cup {n + 1} /\ n + 1 \in Nat \ {0} /\ n + 1 \notin 1 .. n
      /\ \A i \in 1 .. n : i \in Nat \ {0} /\ i < n + 1
  BY <1>2 DEF n
<1> QED BY <1>1, <1>2, <1>3, <1>4 DEF n

-----------------------------------------------------------------------------
(* FlattenSeq *)

(* f lays the first n pieces end to end, the way FlattenSeq does it. *)
EndToEnd(T, ss, n, f) ==
    /\ f \in [1 .. n -> Seq(T)]
    /\ \A i \in 1 .. n : f[i] = IF i = 1 THEN ss[i] ELSE f[i - 1] \o ss[i]

(* There is such a function. *)
LEMMA EndToEndExists ==
    ASSUME NEW T, NEW ss \in Seq(Seq(T))
    PROVE  \E f : EndToEnd(T, ss, Len(ss), f)
<1> DEFINE A == {n \in Nat : n <= Len(ss) => \E f : EndToEnd(T, ss, n, f)}
<1>1. Len(ss) \in Nat /\ \A i \in 1 .. Len(ss) : ss[i] \in Seq(T)
  BY LenProperties, ElementOfSeq
<1>2. 0 \in A
  <2> DEFINE f == [i \in 1 .. 0 |-> <<>>]
  <2>1. EndToEnd(T, ss, 0, f)
    BY DEF EndToEnd
  <2> QED BY <2>1
<1>3. ASSUME NEW n \in Nat, n \in A PROVE n + 1 \in A
  <2> SUFFICES ASSUME n + 1 <= Len(ss) PROVE \E f : EndToEnd(T, ss, n + 1, f)
    OBVIOUS
  <2>1. PICK g : EndToEnd(T, ss, n, g)
    BY <1>1, <1>3
  <2> DEFINE last == IF n = 0 THEN ss[1] ELSE g[n] \o ss[n + 1]
             f == [i \in 1 .. n + 1 |-> IF i = n + 1 THEN last ELSE g[i]]
  <2>2. last \in Seq(T)
    <3>1. CASE n = 0
      BY <1>1, <3>1
    <3>2. CASE n # 0
      <4>1. g[n] \in Seq(T) /\ ss[n + 1] \in Seq(T)
        BY <1>1, <2>1, <3>2 DEF EndToEnd
      <4> QED BY <3>2, <4>1, ConcatProperties
    <3> QED BY <3>1, <3>2
  <2> HIDE DEF last
  <2>3. \A i \in 1 .. n : f[i] = g[i]
    OBVIOUS
  <2>4. f[n + 1] = last
    OBVIOUS
  <2>5. f \in [1 .. n + 1 -> Seq(T)]
    BY <2>1, <2>2 DEF EndToEnd
  <2> HIDE DEF f
  <2>6. ASSUME NEW i \in 1 .. n + 1
        PROVE  f[i] = IF i = 1 THEN ss[i] ELSE f[i - 1] \o ss[i]
    <3>1. CASE i \in 1 .. n
      <4>1. i # 1 => i - 1 \in 1 .. n
        BY <3>1
      <4>2. f[i] = g[i] /\ (i # 1 => f[i - 1] = g[i - 1])
        BY <2>3, <3>1, <4>1
      <4> QED BY <2>1, <3>1, <4>2 DEF EndToEnd
    <3>2. CASE i = n + 1
      <4>1. n # 0 => i # 1 /\ i - 1 = n /\ f[n] = g[n]
        BY <2>3, <3>2
      <4>2. n = 0 => i = 1
        BY <3>2
      <4> QED BY <2>4, <3>2, <4>1, <4>2 DEF last
    <3> QED BY <3>1, <3>2
  <2> QED BY <2>5, <2>6 DEF EndToEnd
<1>4. A \in SUBSET Nat
  OBVIOUS
<1> HIDE DEF A
<1>5. A = Nat
  BY <1>2, <1>3, <1>4, Induction
<1>6. Len(ss) \in A
  BY <1>1, <1>5
<1> QED BY <1>1, <1>6 DEF A

(* FlattenSeq is its last element. *)
LEMMA FlattenDef ==
    ASSUME NEW T, NEW ss \in Seq(Seq(T)), Len(ss) # 0
    PROVE  \E f : EndToEnd(T, ss, Len(ss), f) /\ FlattenSeq(ss) = f[Len(ss)]
<1> DEFINE flatten == CHOOSE f : f = [i \in 1 .. Len(ss) |->
                            IF i = 1 THEN ss[i] ELSE f[i - 1] \o ss[i]]
           A == {i \in Nat : i \in 1 .. Len(ss) => flatten[i] \in Seq(T)}
<1>1. Len(ss) \in Nat /\ \A i \in 1 .. Len(ss) : ss[i] \in Seq(T)
  BY LenProperties, ElementOfSeq
<1>2. PICK g : EndToEnd(T, ss, Len(ss), g)
  BY EndToEndExists
<1>3. g = [i \in 1 .. Len(ss) |-> IF i = 1 THEN ss[i] ELSE g[i - 1] \o ss[i]]
  BY <1>2 DEF EndToEnd
<1>4. flatten = [i \in 1 .. Len(ss) |-> IF i = 1 THEN ss[i] ELSE flatten[i - 1] \o ss[i]]
  BY <1>3, Zenon
<1>5. FlattenSeq(ss) = flatten[Len(ss)]
  BY DEF FlattenSeq
<1> HIDE DEF flatten
<1>6. \A i \in 1 .. Len(ss) : flatten[i] = IF i = 1 THEN ss[i] ELSE flatten[i - 1] \o ss[i]
  BY <1>4
<1>7. 0 \in A
  OBVIOUS
<1>8. ASSUME NEW i \in Nat, i \in A PROVE i + 1 \in A
  <2> SUFFICES ASSUME i + 1 \in 1 .. Len(ss) PROVE flatten[i + 1] \in Seq(T)
    OBVIOUS
  <2>1. CASE i = 0
    BY <1>1, <1>6, <2>1
  <2>2. CASE i # 0
    <3>1. i \in 1 .. Len(ss) /\ i + 1 # 1 /\ (i + 1) - 1 = i
      BY <2>2
    <3>2. flatten[i] \in Seq(T) /\ ss[i + 1] \in Seq(T)
      BY <1>1, <1>8, <3>1
    <3>3. flatten[i + 1] = flatten[i] \o ss[i + 1]
      BY <1>6, <3>1
    <3> QED BY <3>2, <3>3, ConcatProperties
  <2> QED BY <2>1, <2>2
<1>9. A \in SUBSET Nat
  OBVIOUS
<1> HIDE DEF A
<1>10. A = Nat
  BY <1>7, <1>8, <1>9, Induction
<1>11. \A i \in 1 .. Len(ss) : flatten[i] \in Seq(T)
  <2> SUFFICES ASSUME NEW i \in 1 .. Len(ss) PROVE flatten[i] \in Seq(T)
    OBVIOUS
  <2>1. i \in A
    BY <1>1, <1>10
  <2> QED BY <2>1 DEF A
<1>12. flatten \in [1 .. Len(ss) -> Seq(T)]
  BY <1>4, <1>11
<1>13. EndToEnd(T, ss, Len(ss), flatten)
  BY <1>6, <1>12 DEF EndToEnd
<1> QED BY <1>5, <1>13

(* The elements of s are those of the first n pieces. *)
SameElements(ss, n, s) ==
    /\ \A i \in 1 .. n : \A j \in DOMAIN ss[i] : \E k \in DOMAIN s : s[k] = ss[i][j]
    /\ \A k \in DOMAIN s : \E i \in 1 .. n : \E j \in DOMAIN ss[i] : s[k] = ss[i][j]

(* FlattenSeq gives a sequence, with all elements of the pieces and no others. *)
LEMMA FlattenProperties ==
    ASSUME NEW T, NEW ss \in Seq(Seq(T))
    PROVE  /\ FlattenSeq(ss) \in Seq(T)
           /\ SameElements(ss, Len(ss), FlattenSeq(ss))
<1>1. Len(ss) \in Nat /\ DOMAIN ss = 1 .. Len(ss) /\ \A i \in 1 .. Len(ss) : ss[i] \in Seq(T)
  BY LenProperties, ElementOfSeq
<1>2. CASE Len(ss) = 0
  <2>1. FlattenSeq(ss) = ss /\ ss = << >>
    BY <1>2, EmptySeq DEF FlattenSeq
  <2> QED BY <1>2, <2>1 DEF SameElements
<1>3. CASE Len(ss) # 0
  <2>1. PICK f : EndToEnd(T, ss, Len(ss), f) /\ FlattenSeq(ss) = f[Len(ss)]
    BY <1>3, FlattenDef
  <2> DEFINE A == {n \in Nat : n \in 1 .. Len(ss) => SameElements(ss, n, f[n])}
  <2>2. 0 \in A /\ A \in SUBSET Nat
    OBVIOUS
  <2>3. ASSUME NEW n \in Nat, n \in A PROVE n + 1 \in A
    <3> SUFFICES ASSUME n + 1 \in 1 .. Len(ss) PROVE SameElements(ss, n + 1, f[n + 1])
      OBVIOUS
    <3>1. CASE n = 0
      <4>1. f[1] = ss[1] /\ 1 \in 1 .. Len(ss)
        <5>1. 1 \in 1 .. Len(ss)
          BY <1>1, <3>1
        <5> QED BY <2>1, <5>1 DEF EndToEnd
      <4>2. n + 1 = 1 /\ 1 \in 1 .. 1 /\ \A i \in 1 .. 1 : i = 1
        BY <3>1
      <4> QED BY <4>1, <4>2 DEF SameElements
    <3>2. CASE n # 0
      <4>1. n \in 1 .. Len(ss) /\ n + 1 # 1 /\ (n + 1) - 1 = n
        BY <3>2
      <4> DEFINE s == f[n]
                 t == ss[n + 1]
                 u == f[n + 1]
      <4>2. s \in Seq(T) /\ t \in Seq(T) /\ u = s \o t
        BY <1>1, <2>1, <4>1 DEF EndToEnd
      <4>3. SameElements(ss, n, s)
        BY <2>3, <4>1
      <4> HIDE DEF s, t, u
      <4>4. /\ DOMAIN s = 1 .. Len(s) /\ DOMAIN t = 1 .. Len(t)
            /\ Len(s) \in Nat /\ Len(t) \in Nat
            /\ DOMAIN u = 1 .. Len(s) + Len(t)
            /\ \A i \in 1 .. Len(s) + Len(t) : u[i] =
                     IF i <= Len(s) THEN s[i] ELSE t[i - Len(s)]
        BY <4>2, LenProperties, ConcatProperties
      <4>5. \A k \in DOMAIN s : k \in DOMAIN u /\ u[k] = s[k]
        BY <4>4
      <4>6. \A j \in DOMAIN t : Len(s) + j \in DOMAIN u /\ u[Len(s) + j] = t[j]
        <5> SUFFICES ASSUME NEW j \in 1 .. Len(t)
                     PROVE  Len(s) + j \in DOMAIN u /\ u[Len(s) + j] = t[j]
          BY <4>4
        <5>1. /\ Len(s) + j \in 1 .. Len(s) + Len(t)
              /\ ~(Len(s) + j <= Len(s)) /\ (Len(s) + j) - Len(s) = j
          BY <4>4
        <5> QED BY <4>4, <5>1
      <4>7. \A k \in DOMAIN u : \/ k \in DOMAIN s /\ u[k] = s[k]
                                \/ k - Len(s) \in DOMAIN t /\ u[k] = t[k - Len(s)]
        BY <4>4
      <4>8. ASSUME NEW i \in 1 .. n + 1, NEW j \in DOMAIN ss[i]
            PROVE  \E k \in DOMAIN f[n + 1] : f[n + 1][k] = ss[i][j]
        <5>1. CASE i = n + 1
          BY <4>6, <5>1 DEF t, u
        <5>2. CASE i # n + 1
          <6>1. i \in 1 .. n
            BY <5>2
          <6>2. PICK k \in DOMAIN f[n] : f[n][k] = ss[i][j]
            BY <4>3, <6>1 DEF SameElements, s
          <6> QED BY <4>5, <6>2 DEF s, u
        <5> QED BY <5>1, <5>2
      <4>9. ASSUME NEW k \in DOMAIN f[n + 1]
            PROVE  \E i \in 1 .. n + 1 : \E j \in DOMAIN ss[i] : f[n + 1][k] = ss[i][j]
        <5>1. CASE k \in DOMAIN s /\ u[k] = s[k]
          <6>1. PICK i \in 1 .. n : \E j \in DOMAIN ss[i] : f[n][k] = ss[i][j]
            BY <4>3, <5>1 DEF SameElements, s
          <6>2. i \in 1 .. n + 1
            OBVIOUS
          <6> QED BY <5>1, <6>1, <6>2 DEF s, u
        <5>2. CASE k - Len(s) \in DOMAIN t /\ u[k] = t[k - Len(s)]
          <6>1. n + 1 \in 1 .. n + 1
            OBVIOUS
          <6> QED BY <5>2, <6>1 DEF t, u
        <5> QED BY <4>7, <5>1, <5>2 DEF u
      <4> QED BY <4>8, <4>9 DEF SameElements
    <3> QED BY <3>1, <3>2
  <2> HIDE DEF A
  <2>4. A = Nat
    BY <2>2, <2>3, Induction
  <2>5. Len(ss) \in A /\ Len(ss) \in 1 .. Len(ss)
    BY <1>1, <1>3, <2>4
  <2>6. SameElements(ss, Len(ss), f[Len(ss)])
    BY <2>5 DEF A
  <2>7. f[Len(ss)] \in Seq(T)
    BY <2>1, <2>5 DEF EndToEnd
  <2> QED BY <2>1, <2>6, <2>7
<1> QED BY <1>2, <1>3

-----------------------------------------------------------------------------
(* Joining, taking the first, and choosing elements *)

(* The elements of s \o t are those of s, then those of t. *)
LEMMA ConcatFact ==
    ASSUME NEW T, NEW s \in Seq(T), NEW t \in Seq(T)
    PROVE  /\ s \o t \in Seq(T)
           /\ \A k \in DOMAIN s : k \in DOMAIN (s \o t) /\ (s \o t)[k] = s[k]
           /\ \A k \in DOMAIN t : Len(s) + k \in DOMAIN (s \o t) /\ (s \o t)[Len(s) + k] = t[k]
           /\ \A k \in DOMAIN (s \o t) : \/ k \in DOMAIN s
                                         \/ k - Len(s) \in DOMAIN t /\ k = Len(s) + (k - Len(s))
           /\ \A k \in DOMAIN s : k \in Nat /\ 1 <= k /\ k <= Len(s)
           /\ \A k \in DOMAIN t : k \in Nat /\ 1 <= k
           /\ Len(s) \in Nat
<1>1. /\ s \o t \in Seq(T) /\ Len(s) \in Nat /\ Len(t) \in Nat
      /\ DOMAIN s = 1 .. Len(s) /\ DOMAIN t = 1 .. Len(t)
      /\ DOMAIN (s \o t) = 1 .. Len(s) + Len(t)
      /\ \A i \in 1 .. Len(s) + Len(t) : (s \o t)[i] =
               IF i <= Len(s) THEN s[i] ELSE t[i - Len(s)]
  BY LenProperties, ConcatProperties
<1> DEFINE u == s \o t
           n == Len(s)
           l == Len(t)
<1>2. /\ u \in Seq(T) /\ n \in Nat /\ l \in Nat
      /\ DOMAIN s = 1 .. n /\ DOMAIN t = 1 .. l /\ DOMAIN u = 1 .. n + l
      /\ \A i \in 1 .. n + l : u[i] = IF i <= n THEN s[i] ELSE t[i - n]
  BY <1>1
<1> HIDE DEF u, n, l
<1>3. \A k \in DOMAIN s : k \in DOMAIN u /\ u[k] = s[k]
  BY <1>2
<1>4. ASSUME NEW k \in DOMAIN t PROVE n + k \in DOMAIN u /\ u[n + k] = t[k]
  <2>1. n + k \in 1 .. n + l /\ ~(n + k <= n) /\ (n + k) - n = k
    BY <1>2
  <2> QED BY <1>2, <2>1
<1>5. \A k \in DOMAIN u : k \in DOMAIN s \/ (k - n \in DOMAIN t /\ k = n + (k - n))
  BY <1>2
<1>6. /\ \A k \in DOMAIN s : k \in Nat /\ 1 <= k /\ k <= n
      /\ \A k \in DOMAIN t : k \in Nat /\ 1 <= k
  BY <1>2
<1> QED BY <1>2, <1>3, <1>4, <1>5, <1>6 DEF u, n

(* What is left when the first element is taken. *)
LEMMA TailFact ==
    ASSUME NEW T, NEW s \in Seq(T), s # << >>
    PROVE  /\ Tail(s) \in Seq(T) /\ Head(s) = s[1] /\ s[1] \in T /\ 1 \in DOMAIN s
           /\ \A k \in DOMAIN Tail(s) :
                  k \in Nat /\ 1 <= k /\ k + 1 \in DOMAIN s /\ Tail(s)[k] = s[k + 1]
           /\ \A k \in DOMAIN s : k = 1 \/ (k - 1 \in DOMAIN Tail(s) /\ Tail(s)[k - 1] = s[k])
           /\ \A k \in DOMAIN s : k \in Nat /\ 1 <= k
<1>1. /\ Len(s) \in Nat /\ Len(s) # 0 /\ DOMAIN s = 1 .. Len(s)
      /\ \A i \in 1 .. Len(s) : s[i] \in T
  BY SeqFact, EmptySeq
<1>2. Tail(s) \in Seq(T) /\ Len(Tail(s)) = Len(s) - 1 /\ Head(s) = s[1]
      /\ \A i \in 1 .. Len(Tail(s)) : Tail(s)[i] = s[i + 1]
  BY <1>1, HeadTailProperties, SMT
<1>3. DOMAIN Tail(s) = 1 .. Len(s) - 1
  BY <1>2, SeqFact
<1> DEFINE t == Tail(s)
           n == Len(s)
<1>4. /\ n \in Nat /\ n # 0 /\ DOMAIN s = 1 .. n /\ DOMAIN t = 1 .. n - 1
      /\ \A i \in 1 .. n - 1 : t[i] = s[i + 1]
  BY <1>1, <1>2, <1>3
<1> HIDE DEF t, n
<1>5. \A k \in 1 .. n - 1 : k \in Nat /\ 1 <= k /\ k + 1 \in 1 .. n
  BY <1>4
<1>6. ASSUME NEW k \in 1 .. n, k # 1 PROVE k - 1 \in 1 .. n - 1 /\ t[k - 1] = s[k]
  <2>1. k - 1 \in 1 .. n - 1 /\ (k - 1) + 1 = k
    BY <1>4, <1>6
  <2> QED BY <1>4, <2>1
<1>7. 1 \in 1 .. n /\ \A k \in 1 .. n : k \in Nat /\ 1 <= k
  BY <1>4
<1> QED BY <1>1, <1>2, <1>4, <1>5, <1>6, <1>7 DEF t, n

(* s consists of the elements of list at the places P up to n, in their order. *)
ChosenUpTo(list, P, n, s, f) ==
    /\ f \in [DOMAIN s -> P] /\ \A k \in DOMAIN s : s[k] = list[f[k]] /\ f[k] <= n
    /\ \A k, l \in DOMAIN s : k < l => f[k] < f[l]
    /\ \A p \in P : p <= n => \E k \in DOMAIN s : f[k] = p

(* One more element, chosen or not. *)
LEMMA ChooseNext ==
    ASSUME NEW T, NEW list \in Seq(T), NEW P \in SUBSET DOMAIN list,
           NEW n \in Nat, n + 1 \in DOMAIN list,
           NEW s \in Seq(T), NEW f, ChosenUpTo(list, P, n, s, f)
    PROVE  LET t == IF n + 1 \in P THEN <<list[n + 1]>> ELSE << >>
           IN  s \o t \in Seq(T) /\ \E g : ChosenUpTo(list, P, n + 1, s \o t, g)
<1>0. /\ list[n + 1] \in T /\ DOMAIN list \in SUBSET Nat /\ Len(s) \in Nat
      /\ DOMAIN s = 1 .. Len(s)
  BY SeqFact
<1>1. CASE n + 1 \in P
  <2> DEFINE t == <<list[n + 1]>>
             u == s \o t
             N == Len(s)
  <2>1. t \in Seq(T) /\ DOMAIN t = {1} /\ t[1] = list[n + 1]
    BY <1>0
  <2> HIDE DEF t
  <2>2. /\ u \in Seq(T)
        /\ \A k \in DOMAIN s : k \in DOMAIN u /\ u[k] = s[k]
        /\ N + 1 \in DOMAIN u /\ u[N + 1] = list[n + 1]
        /\ \A k \in DOMAIN u : k \in DOMAIN s \/ (k - N = 1 /\ k = N + (k - N))
    BY <2>1, ConcatFact
  <2> HIDE DEF u
  <2>3. \A k \in DOMAIN u : k \in DOMAIN s \/ k = N + 1
    BY <2>2
  <2>4. \A k \in DOMAIN s : k \in Nat /\ k < N + 1
    BY <1>0
  <2> DEFINE g == [k \in DOMAIN u |-> IF k \in DOMAIN s THEN f[k] ELSE n + 1]
  <2>5. /\ \A k \in DOMAIN s : g[k] = f[k] /\ f[k] \in P /\ f[k] \in Nat /\ f[k] <= n /\ s[k] = list[f[k]]
        /\ g[N + 1] = n + 1
    BY <1>0, <2>2, <2>4 DEF ChosenUpTo
  <2>6. g \in [DOMAIN u -> P]
    BY <1>1, <2>2, <2>3, <2>5
  <2> HIDE DEF g, N
  <2>7. \A k \in DOMAIN u : u[k] = list[g[k]] /\ g[k] <= n + 1
    <3> SUFFICES ASSUME NEW k \in DOMAIN u PROVE u[k] = list[g[k]] /\ g[k] <= n + 1
      OBVIOUS
    <3>1. CASE k \in DOMAIN s
      BY <2>2, <2>5, <3>1
    <3>2. CASE k = N + 1
      BY <2>2, <2>5, <3>2
    <3> QED BY <2>3, <3>1, <3>2
  <2>8. \A k, l \in DOMAIN u : k < l => g[k] < g[l]
    <3> SUFFICES ASSUME NEW k \in DOMAIN u, NEW l \in DOMAIN u, k < l PROVE g[k] < g[l]
      OBVIOUS
    <3>1. N \in Nat
      BY <1>0 DEF N
    <3>2. k \in DOMAIN s
      BY <2>3, <2>4, <3>1
    <3>3. CASE l \in DOMAIN s
      BY <2>5, <3>2, <3>3 DEF ChosenUpTo
    <3>4. CASE l = N + 1
      BY <2>5, <3>2, <3>4
    <3> QED BY <2>3, <3>3, <3>4
  <2>9. \A p \in P : p <= n + 1 => \E k \in DOMAIN u : g[k] = p
    <3> SUFFICES ASSUME NEW p \in P, p <= n + 1 PROVE \E k \in DOMAIN u : g[k] = p
      OBVIOUS
    <3>1. CASE p <= n
      <4>1. PICK k \in DOMAIN s : f[k] = p
        BY <3>1 DEF ChosenUpTo
      <4> QED BY <2>2, <2>5, <4>1
    <3>2. CASE p = n + 1
      BY <2>2, <2>5, <3>2
    <3> QED BY <1>0, <3>1, <3>2
  <2>10. ChosenUpTo(list, P, n + 1, u, g)
    BY <2>6, <2>7, <2>8, <2>9 DEF ChosenUpTo
  <2> QED BY <1>1, <2>2, <2>10 DEF t, u
<1>2. CASE n + 1 \notin P
  <2>1. s \o << >> = s
    BY ConcatEmptySeq
  <2>2. \A p \in P : p <= n + 1 => p <= n
    BY <1>0, <1>2
  <2>3. \A k \in DOMAIN s : f[k] \in Nat /\ (f[k] <= n => f[k] <= n + 1)
    BY <1>0 DEF ChosenUpTo
  <2>4. ChosenUpTo(list, P, n + 1, s, f)
    BY <2>2, <2>3 DEF ChosenUpTo
  <2> QED BY <1>2, <2>1, <2>4
<1> QED BY <1>1, <1>2

(* FlattenSeq picks the elements at the places P, in their order. *)
LEMMA ChosenFact ==
    ASSUME NEW T, NEW list \in Seq(T), NEW P \in SUBSET DOMAIN list
    PROVE  LET s == FlattenSeq([k \in DOMAIN list |-> IF k \in P THEN <<list[k]>> ELSE << >>])
           IN  s \in Seq(T) /\ \E f : ChosenUpTo(list, P, Len(list), s, f)
<1> DEFINE piece(k) == IF k \in P THEN <<list[k]>> ELSE << >>
           ss == [k \in DOMAIN list |-> piece(k)]
<1>1. Len(list) \in Nat /\ DOMAIN list = 1 .. Len(list) /\ \A k \in DOMAIN list : list[k] \in T
  BY SeqFact
<1>2. \A k \in DOMAIN list : piece(k) \in Seq(T)
  BY <1>1
<1> HIDE DEF piece
<1>3. ss \in Seq(Seq(T)) /\ Len(ss) = Len(list) /\ \A k \in DOMAIN list : ss[k] = piece(k)
  BY <1>1, <1>2
<1> HIDE DEF ss
<1>4. ASSUME NEW f PROVE ChosenUpTo(list, P, 0, << >>, f) <=> f \in [{} -> P]
  <2>1. DOMAIN << >> = {} /\ \A p \in P : p \in Nat /\ ~(p <= 0)
    BY <1>1
  <2> QED BY <2>1 DEF ChosenUpTo
<1>5. PICK f0 : ChosenUpTo(list, P, 0, << >>, f0)
  <2>1. [k \in {} |-> 0] \in [{} -> P]
    OBVIOUS
  <2> QED BY <1>4, <2>1
<1>6. CASE Len(list) = 0
  <2>1. FlattenSeq(ss) = << >>
    BY <1>3, <1>6, EmptySeq DEF FlattenSeq
  <2> QED BY <1>5, <1>6, <2>1, EmptySeq DEF ss, piece
<1>7. CASE Len(list) # 0
  <2>1. PICK f : EndToEnd(T, ss, Len(ss), f) /\ FlattenSeq(ss) = f[Len(ss)]
    BY <1>3, <1>7, FlattenDef
  <2> DEFINE Done(s, n) == s \in Seq(T) /\ \E g : ChosenUpTo(list, P, n, s, g)
             A == {n \in Nat : n \in 1 .. Len(list) => Done(f[n], n)}
  <2>2. ASSUME NEW n \in Nat, NEW s, n + 1 \in 1 .. Len(list), Done(s, n)
        PROVE  Done(s \o piece(n + 1), n + 1)
    <3>1. PICK g : ChosenUpTo(list, P, n, s, g)
      BY <2>2
    <3> QED BY <1>1, <2>2, <3>1, ChooseNext DEF piece
  <2>3. Done(<< >>, 0)
    BY <1>5
  <2>4. 0 \in A /\ A \in SUBSET Nat
    OBVIOUS
  <2>5. ASSUME NEW n \in Nat, n \in A PROVE n + 1 \in A
    <3> SUFFICES ASSUME n + 1 \in 1 .. Len(list) PROVE Done(f[n + 1], n + 1)
      OBVIOUS
    <3> HIDE DEF Done
    <3>1. CASE n = 0
      <4>1. 1 \in 1 .. Len(list) /\ f[1] = piece(1) /\ piece(1) \in Seq(T)
        <5>1. 1 \in 1 .. Len(list)
          BY <3>1
        <5>2. f[1] = ss[1]
          BY <1>3, <2>1, <5>1 DEF EndToEnd
        <5> QED BY <1>1, <1>2, <1>3, <5>1, <5>2
      <4>2. << >> \o piece(1) = piece(1)
        BY <4>1, ConcatEmptySeq
      <4>3. Done(<< >> \o piece(0 + 1), 0 + 1)
        BY <2>2, <2>3, <3>1
      <4> QED BY <3>1, <4>1, <4>2, <4>3
    <3>2. CASE n # 0
      <4>1. n \in 1 .. Len(list) /\ n + 1 # 1 /\ (n + 1) - 1 = n
        BY <3>2
      <4>2. f[n + 1] = f[n] \o piece(n + 1)
        BY <1>1, <1>3, <2>1, <4>1 DEF EndToEnd
      <4>3. Done(f[n], n)
        BY <2>5, <4>1
      <4> QED BY <2>2, <4>2, <4>3
    <3> QED BY <3>1, <3>2
  <2> HIDE DEF A, Done
  <2>6. A = Nat
    BY <2>4, <2>5, Induction
  <2>7. Len(list) \in A /\ Len(list) \in 1 .. Len(list)
    BY <1>1, <1>7, <2>6
  <2>8. Done(f[Len(list)], Len(list))
    BY <2>7 DEF A
  <2> QED BY <1>3, <2>1, <2>8 DEF Done, ss, piece
<1> QED BY <1>6, <1>7

-----------------------------------------------------------------------------
(* Folds.  The sets on the way of a fold are the subsets s of a finite set; *)
(* pick[s] is the element whose turn it is.                                 *)

\* Taking a picked element away leaves fewer.
LEMMA PickFewer ==
    ASSUME NEW S, IsFiniteSet(S), NEW s \in SUBSET S, s # {}, NEW x \in s
    PROVE  /\ s \ {x} \in SUBSET S /\ Cardinality(s) \in Nat \ {0}
           /\ Cardinality(s \ {x}) = Cardinality(s) - 1
<1>1. IsFiniteSet(s)
  BY FS_Subset
<1>2. Cardinality(s) \in Nat /\ Cardinality(s) # 0
  BY <1>1, FS_CardinalityType, FS_EmptySet
<1>3. Cardinality(s \ {x}) = Cardinality(s) - 1
  BY <1>1, FS_RemoveElement
<1> QED BY <1>2, <1>3

Picks(S, pick) == \A s \in SUBSET S : s # {} => pick[s] \in s

\* What every step of a fold keeps, the fold keeps.
LEMMA FoldStays ==
    ASSUME NEW S, IsFiniteSet(S), NEW pick, Picks(S, pick),
           NEW iter, NEW T, iter[{}] \in T,
           \A s \in SUBSET S : s # {} /\ iter[s \ {pick[s]}] \in T => iter[s] \in T
    PROVE  \A s \in SUBSET S : iter[s] \in T
<1> USE DEF Picks
<1> DEFINE A == {n \in Nat : \A s \in SUBSET S : Cardinality(s) = n => iter[s] \in T}
<1>1. 0 \in A
  <2>1. \A s \in SUBSET S : Cardinality(s) = 0 => s = {}
    BY FS_Subset, FS_EmptySet
  <2> QED BY <2>1
<1>2. ASSUME NEW n \in A PROVE n + 1 \in A
  <2>1. ASSUME NEW s \in SUBSET S, Cardinality(s) = n + 1 PROVE iter[s] \in T
    <3>1. s # {}
      <4>1. n + 1 # 0
        OBVIOUS
      <4> QED BY <2>1, <4>1, FS_EmptySet
    <3> DEFINE x == pick[s]
    <3>2. x \in s
      BY <3>1
    <3> HIDE DEF x
    <3>3. s \ {x} \in SUBSET S /\ Cardinality(s \ {x}) = Cardinality(s) - 1
      BY <3>1, <3>2, PickFewer
    <3>4. Cardinality(s \ {x}) = n
      BY <2>1, <3>3
    <3>5. iter[s \ {x}] \in T
      BY <3>3, <3>4
    <3> QED BY <3>1, <3>5 DEF x
  <2> QED BY <2>1
<1> HIDE DEF A
<1>3. A = Nat
  <2>1. A \in SUBSET Nat
    BY DEF A
  <2> QED BY <1>1, <1>2, <2>1, Induction
<1>4. ASSUME NEW s \in SUBSET S PROVE iter[s] \in T
  <2>1. Cardinality(s) \in A
    BY <1>3, FS_Subset, FS_CardinalityType
  <2> QED BY <2>1 DEF A
<1> QED BY <1>4

\* The results of a fold for all the sets on its way.
Folding(S, pick, T, base, F, iter) ==
    /\ iter \in [SUBSET S -> T]
    /\ \A s \in SUBSET S :
          iter[s] = IF s = {} THEN base ELSE F[<<pick[s], iter[s \ {pick[s]}]>>]

LEMMA FoldExists ==
    ASSUME NEW S, IsFiniteSet(S), NEW pick, Picks(S, pick),
           NEW T, NEW base \in T, NEW F \in [S \X T -> T]
    PROVE  \E iter : Folding(S, pick, T, base, F, iter)
<1> USE DEF Picks
<1> DEFINE Right(g, s) == /\ g[s] \in T
                          /\ g[s] = IF s = {} THEN base ELSE F[<<pick[s], g[s \ {pick[s]}]>>]
           UpTo(n, g) == \A s \in SUBSET S : Cardinality(s) <= n => Right(g, s)
           A == {n \in Nat : \E g : UpTo(n, g)}
<1>0. \A s \in SUBSET S : Cardinality(s) \in Nat
  BY FS_Subset, FS_CardinalityType
<1>1. 0 \in A
  <2> DEFINE g == [s \in SUBSET S |-> base]
  <2>1. ASSUME NEW s \in SUBSET S, Cardinality(s) <= 0 PROVE Right(g, s)
    <3>1. s = {}
      <4>1. Cardinality(s) = 0
        BY <1>0, <2>1
      <4> QED BY <4>1, FS_Subset, FS_EmptySet
    <3> QED BY <3>1
  <2> QED BY <2>1
<1>2. ASSUME NEW n \in A PROVE n + 1 \in A
  <2>1. PICK g : UpTo(n, g)
    OBVIOUS
  <2> DEFINE h == [s \in SUBSET S |-> IF Cardinality(s) <= n THEN g[s]
                                      ELSE F[<<pick[s], g[s \ {pick[s]}]>>]]
  <2>2. ASSUME NEW s \in SUBSET S, Cardinality(s) <= n + 1 PROVE Right(h, s)
    <3>1. CASE s = {}
      <4>1. Cardinality(s) = 0 /\ Cardinality(s) <= n
        BY <3>1, FS_EmptySet
      <4>2. h[s] = g[s] /\ Right(g, s)
        BY <2>1, <4>1
      <4> QED BY <3>1, <4>2
    <3>2. CASE s # {}
      <4> DEFINE x == pick[s]
                 r == s \ {x}
      <4>1. x \in s /\ x \in S
        BY <3>2
      <4> HIDE DEF x
      <4>2. r \in SUBSET S /\ Cardinality(r) = Cardinality(s) - 1
        BY <3>2, <4>1, PickFewer
      <4>3. Cardinality(r) <= n /\ Cardinality(s) \in Nat
        BY <1>0, <2>2, <4>2
      <4>4. h[r] = g[r] /\ g[r] \in T
        BY <2>1, <4>2, <4>3
      <4>5. h[s] = F[<<x, g[r]>>]
        <5>1. CASE Cardinality(s) <= n
          <6>1. h[s] = g[s] /\ Right(g, s)
            BY <2>1, <5>1
          <6> QED BY <3>2, <6>1 DEF x
        <5>2. CASE ~(Cardinality(s) <= n)
          BY <5>2 DEF x
        <5> QED BY <5>1, <5>2
      <4> HIDE DEF h
      <4>6. h[s] \in T
        BY <4>1, <4>4, <4>5
      <4> QED BY <3>2, <4>4, <4>5, <4>6 DEF x
    <3> QED BY <3>1, <3>2
  <2> HIDE DEF h, Right
  <2>3. UpTo(n + 1, h)
    BY <2>2
  <2> QED BY <2>3
<1> HIDE DEF A
<1>3. A = Nat
  <2>1. A \in SUBSET Nat
    BY DEF A
  <2> QED BY <1>1, <1>2, <2>1, Induction
<1>4. Cardinality(S) \in A
  BY <1>3, FS_CardinalityType
<1>5. PICK g : UpTo(Cardinality(S), g)
  BY <1>4 DEF A
<1> DEFINE iter == [s \in SUBSET S |-> g[s]]
<1>6. ASSUME NEW s \in SUBSET S PROVE Right(g, s)
  <2>1. Cardinality(s) <= Cardinality(S)
    BY FS_Subset
  <2> HIDE DEF Right
  <2> QED BY <1>5, <2>1
<1>7. iter \in [SUBSET S -> T]
  BY <1>6
<1>8. ASSUME NEW s \in SUBSET S
      PROVE  iter[s] = IF s = {} THEN base ELSE F[<<pick[s], iter[s \ {pick[s]}]>>]
  <2>1. iter[s] = g[s] /\ (s \ {pick[s]}) \in SUBSET S
    OBVIOUS
  <2>2. iter[s \ {pick[s]}] = g[s \ {pick[s]}]
    BY <2>1
  <2> HIDE DEF iter
  <2> QED BY <1>6, <2>1, <2>2
<1> HIDE DEF iter
<1> QED BY <1>7, <1>8 DEF Folding

-----------------------------------------------------------------------------
(* Sums *)

\* The sums over the subsets of a domain: taking an element away subtracts it.
Sums(S, f, sum) ==
    /\ sum \in [SUBSET S -> Int] /\ sum[{}] = 0
    /\ \A s \in SUBSET S : \A x \in s : sum[s] = f[x] + sum[s \ {x}]

LEMMA SumFact ==
    ASSUME NEW S, IsFiniteSet(S), NEW f \in [S -> Int]
    PROVE  \E sum : Sums(S, f, sum) /\ SumFunction(f) = sum[S]
<1> DEFINE pick == [s \in SUBSET S |-> CHOOSE x \in s : TRUE]
           F == [y \in S \X Int |-> f[y[1]] + y[2]]
           Right(sum) == sum = [s \in SUBSET S |->
                                  IF s = {} THEN 0
                                  ELSE f[CHOOSE x \in s : TRUE] + sum[s \ {CHOOSE x \in s : TRUE}]]
<1>1. Picks(S, pick)
  BY DEF Picks
<1>2. F \in [S \X Int -> Int]
  OBVIOUS
<1>3. PICK iter \in [SUBSET S -> Int] :
          \A s \in SUBSET S :
              iter[s] = IF s = {} THEN 0 ELSE F[<<pick[s], iter[s \ {pick[s]}]>>]
  <2> DEFINE Z == Int
             zero == 0
  <2>1. zero \in Z /\ F \in [S \X Z -> Z]
    BY <1>2
  <2> HIDE DEF pick, F, Z, zero
  <2>2. PICK iter : Folding(S, pick, Z, zero, F, iter)
    BY <1>1, <2>1, FoldExists
  <2> QED BY <2>2 DEF Z, zero, Folding
<1>4. Right(iter)
  <2>1. ASSUME NEW s \in SUBSET S
        PROVE  iter[s] = IF s = {} THEN 0
                         ELSE f[CHOOSE x \in s : TRUE] + iter[s \ {CHOOSE x \in s : TRUE}]
    <3>1. CASE s = {}
      BY <1>3, <3>1
    <3>2. CASE s # {}
      <4> DEFINE x == CHOOSE y \in s : TRUE
      <4>1. pick[s] = x /\ x \in S
        BY <3>2
      <4>2. iter[s \ {x}] \in Int
        BY <1>3
      <4> HIDE DEF x
      <4>3. iter[s] = F[<<x, iter[s \ {x}]>>]
        BY <1>3, <3>2, <4>1
      <4>4. iter[s] = f[x] + iter[s \ {x}]
        BY <4>1, <4>2, <4>3
      <4> QED BY <3>2, <4>4 DEF x
    <3> QED BY <3>1, <3>2
  <2> QED BY <1>3, <2>1
<1> DEFINE sum == CHOOSE g : Right(g)
<1>5. SumFunction(f) = sum[S]
  BY DEF SumFunction, SumFunctionOnSet, FoldFunctionOnSet, MapThenFoldSet
<1>6. Right(sum)
  BY <1>4
<1> HIDE DEF sum
<1>7. sum[{}] = 0 /\ DOMAIN sum = SUBSET S
  BY <1>6
<1>8. \A s \in SUBSET S : s # {} => pick[s] \in s /\ sum[s] = f[pick[s]] + sum[s \ {pick[s]}]
  BY <1>6
<1>9. \A s \in SUBSET S : sum[s] \in Int
  <2> DEFINE Z == Int
  <2>1. sum[{}] \in Z
    BY <1>7
  <2>2. ASSUME NEW s \in SUBSET S, s # {}, sum[s \ {pick[s]}] \in Z PROVE sum[s] \in Z
    <3>1. pick[s] \in S
      BY <1>8, <2>2
    <3> DEFINE x == pick[s]
               rest == sum[s \ {x}]
    <3>2. f[x] \in Int /\ rest \in Int /\ sum[s] = f[x] + rest
      BY <1>8, <2>2, <3>1
    <3> HIDE DEF x, rest
    <3> QED BY <3>2
  <2> HIDE DEF Z, pick
  <2>3. \A s \in SUBSET S : sum[s] \in Z
    BY <1>1, <2>1, <2>2, FoldStays
  <2> QED BY <2>3 DEF Z
\* The element whose turn it is can be exchanged for any other.
<1>10. \A s \in SUBSET S : \A x \in s : sum[s] = f[x] + sum[s \ {x}]
  <2> HIDE DEF pick, Right
  <2> DEFINE Swaps(s) == \A x \in s : sum[s] = f[x] + sum[s \ {x}]
             A == {n \in Nat : \A s \in SUBSET S : Cardinality(s) = n => Swaps(s)}
  <2>1. 0 \in A
    <3>1. \A s \in SUBSET S : Cardinality(s) = 0 => s = {}
      BY FS_Subset, FS_EmptySet
    <3> QED BY <3>1
  <2>2. ASSUME NEW n \in A PROVE n + 1 \in A
    <3> SUFFICES ASSUME NEW s \in SUBSET S, Cardinality(s) = n + 1, NEW x \in s
                 PROVE  sum[s] = f[x] + sum[s \ {x}]
      OBVIOUS
    <3> DEFINE y == pick[s]
    <3>1. y \in s /\ sum[s] = f[y] + sum[s \ {y}]
      BY <1>8
    <3> HIDE DEF y
    <3>2. CASE x = y
      BY <3>1, <3>2
    <3>3. CASE x # y
      <4> DEFINE r == s \ {x}
                 t == s \ {y}
                 u == s \ {x, y}
      <4>1. /\ r \in SUBSET S /\ Cardinality(r) = n
            /\ t \in SUBSET S /\ Cardinality(t) = n
        BY <3>1, PickFewer
      <4>2. y \in r /\ r \ {y} = u /\ x \in t /\ t \ {x} = u /\ u \in SUBSET S
        BY <3>1, <3>3
      <4>3. Swaps(r) /\ Swaps(t)
        BY <4>1
      <4>4. sum[r] = f[y] + sum[u] /\ sum[t] = f[x] + sum[u]
        BY <4>2, <4>3
      <4>5. {sum[r], sum[t], sum[u], f[x], f[y], sum[s]} \subseteq Int
        BY <1>9, <3>1, <4>1, <4>2
      <4> HIDE DEF r, t, u
      <4>6. sum[s] = f[y] + sum[t]
        BY <3>1 DEF t
      <4>7. sum[s] = f[x] + sum[r]
        BY <4>4, <4>5, <4>6
      <4> QED BY <4>7 DEF r
    <3> QED BY <3>2, <3>3
  <2> HIDE DEF A
  <2>3. A = Nat
    <3>1. A \in SUBSET Nat
      BY DEF A
    <3> QED BY <2>1, <2>2, <3>1, Induction
  <2>4. ASSUME NEW s \in SUBSET S PROVE Swaps(s)
    <3>1. Cardinality(s) \in A
      BY <2>3, FS_Subset, FS_CardinalityType
    <3> QED BY <3>1 DEF A
  <2> QED BY <2>4
<1>11. sum \in [SUBSET S -> Int]
  BY <1>6, <1>7, <1>9
<1> QED BY <1>5, <1>7, <1>10, <1>11 DEF Sums

\* A sum is a number, and no less than none if its terms are.
LEMMA SumType ==
    ASSUME NEW S, IsFiniteSet(S), NEW f \in [S -> Int]
    PROVE  SumFunction(f) \in Int
<1>1. PICK sum : Sums(S, f, sum) /\ SumFunction(f) = sum[S]
  BY SumFact
<1> QED BY <1>1 DEF Sums

\* Terms that are not greater make a sum that is not greater.
LEMMA SumLess ==
    ASSUME NEW S, IsFiniteSet(S), NEW f \in [S -> Int], NEW g \in [S -> Int],
           \A x \in S : f[x] <= g[x]
    PROVE  SumFunction(f) <= SumFunction(g)
<1>1. PICK sum : Sums(S, f, sum) /\ SumFunction(f) = sum[S]
  BY SumFact
<1>2. PICK tot : Sums(S, g, tot) /\ SumFunction(g) = tot[S]
  BY SumFact
<1> DEFINE A == {n \in Nat : \A s \in SUBSET S : Cardinality(s) = n => sum[s] <= tot[s]}
<1>3. 0 \in A
  <2>1. \A s \in SUBSET S : Cardinality(s) = 0 => s = {}
    BY FS_Subset, FS_EmptySet
  <2>2. sum[{}] <= tot[{}]
    BY <1>1, <1>2 DEF Sums
  <2> QED BY <2>1, <2>2
<1>4. ASSUME NEW n \in A PROVE n + 1 \in A
  <2> SUFFICES ASSUME NEW s \in SUBSET S, Cardinality(s) = n + 1 PROVE sum[s] <= tot[s]
    OBVIOUS
  <2>1. PICK x : x \in s
    <3>1. n + 1 # 0
      OBVIOUS
    <3> QED BY <3>1, FS_EmptySet
  <2>2. s \ {x} \in SUBSET S /\ Cardinality(s \ {x}) = n
    BY <2>1, PickFewer
  <2>3. sum[s \ {x}] <= tot[s \ {x}]
    BY <2>2
  <2>4. sum[s] = f[x] + sum[s \ {x}] /\ tot[s] = g[x] + tot[s \ {x}]
    BY <1>1, <1>2, <2>1 DEF Sums
  <2>5. {sum[s \ {x}], tot[s \ {x}], f[x], g[x]} \subseteq Int /\ f[x] <= g[x]
    BY <1>1, <1>2, <2>1, <2>2 DEF Sums
  <2> QED BY <2>3, <2>4, <2>5
<1> HIDE DEF A
<1>5. A = Nat
  <2>1. A \in SUBSET Nat
    BY DEF A
  <2> QED BY <1>3, <1>4, <2>1, Induction
<1>6. sum[S] <= tot[S]
  <2>1. Cardinality(S) \in A
    BY <1>5, FS_CardinalityType
  <2> QED BY <2>1 DEF A
<1> QED BY <1>1, <1>2, <1>6

\* Another term in the place of one.
LEMMA SumChange ==
    ASSUME NEW S, IsFiniteSet(S), NEW f \in [S -> Int], NEW g \in [S -> Int], NEW y \in S,
           \A x \in S : x # y => g[x] = f[x]
    PROVE  /\ SumFunction(f) \in Int
           /\ SumFunction(g) = SumFunction(f) + (g[y] - f[y])
<1> DEFINE zero == [x \in S |-> IF x = y THEN 0 ELSE f[x]]
<1>1. PICK sum : Sums(S, f, sum) /\ SumFunction(f) = sum[S]
  BY SumFact
<1>2. PICK tot : Sums(S, g, tot) /\ SumFunction(g) = tot[S]
  BY SumFact
<1> DEFINE A == {n \in Nat : \A s \in SUBSET S : Cardinality(s) = n /\ y \notin s => sum[s] = tot[s]}
<1>3. 0 \in A
  <2>1. \A s \in SUBSET S : Cardinality(s) = 0 => s = {}
    BY FS_Subset, FS_EmptySet
  <2>2. sum[{}] = tot[{}]
    BY <1>1, <1>2 DEF Sums
  <2> QED BY <2>1, <2>2
<1>4. ASSUME NEW n \in A PROVE n + 1 \in A
  <2> SUFFICES ASSUME NEW s \in SUBSET S, Cardinality(s) = n + 1, y \notin s PROVE sum[s] = tot[s]
    OBVIOUS
  <2>1. PICK x : x \in s
    <3>1. n + 1 # 0
      OBVIOUS
    <3> QED BY <3>1, FS_EmptySet
  <2>2. s \ {x} \in SUBSET S /\ Cardinality(s \ {x}) = n
    BY <2>1, PickFewer
  <2>3. sum[s \ {x}] = tot[s \ {x}]
    BY <2>2
  <2>4. sum[s] = f[x] + sum[s \ {x}] /\ tot[s] = g[x] + tot[s \ {x}]
    BY <1>1, <1>2, <2>1 DEF Sums
  <2>5. f[x] = g[x]
    BY <2>1
  <2> QED BY <2>3, <2>4, <2>5
<1> HIDE DEF A
<1>5. A = Nat
  <2>1. A \in SUBSET Nat
    BY DEF A
  <2> QED BY <1>3, <1>4, <2>1, Induction
<1>6. sum[S \ {y}] = tot[S \ {y}]
  <2>1. IsFiniteSet(S \ {y})
    BY FS_RemoveElement
  <2>2. Cardinality(S \ {y}) \in A
    BY <1>5, <2>1, FS_CardinalityType
  <2> QED BY <2>2 DEF A
<1>7. sum[S] = f[y] + sum[S \ {y}] /\ tot[S] = g[y] + tot[S \ {y}]
  BY <1>1, <1>2 DEF Sums
<1>8. {f[y], g[y], sum[S], tot[S], sum[S \ {y}]} \subseteq Int
  BY <1>1, <1>2 DEF Sums
<1> QED BY <1>1, <1>2, <1>6, <1>7, <1>8

\* A set of numbers that are not greater than n has a greatest one.
LEMMA MaxIsGreatest ==
    ASSUME NEW n \in Nat, NEW A \in SUBSET (0 .. n), A # {}
    PROVE  Max(A) \in A /\ \A k \in A : k <= Max(A)
<1> DEFINE B == {n - k : k \in A}
<1>1. B \in SUBSET Nat /\ B # {}
  <2>1. \A k \in A : n - k \in Nat
    OBVIOUS
  <2> QED BY <2>1
<1>2. PICK m \in B : \A k \in B : m <= k
  <2> HIDE DEF B
  <2> QED BY <1>1, HasLeast
<1>3. PICK x \in A : m = n - x
  OBVIOUS
<1>4. \A k \in A : x >= k
  BY <1>2, <1>3
<1>5. Max(A) \in A /\ \A k \in A : Max(A) >= k
  BY <1>4, Zenon DEF Max
<1> QED BY <1>5

\* FoldLeft takes the last element of what is left of a list.
LEMMA MaxPicks ==
    ASSUME NEW U, NEW list \in Seq(U)
    PROVE  /\ IsFiniteSet(DOMAIN list)
           /\ Picks(DOMAIN list, [s \in SUBSET DOMAIN list |-> Max(s)])
<1> DEFINE D == DOMAIN list
           pick == [s \in SUBSET D |-> Max(s)]
<1>1. Len(list) \in Nat /\ D = 1 .. Len(list)
  BY SeqFact
<1>2. IsFiniteSet(D)
  BY <1>1, FS_Interval
<1>3. ASSUME NEW s \in SUBSET D, s # {} PROVE pick[s] \in s
  <2>1. s \in SUBSET (0 .. Len(list))
    BY <1>1
  <2>2. Max(s) \in s
    BY <1>1, <1>3, <2>1, MaxIsGreatest
  <2> QED BY <2>2
<1> QED BY <1>2, <1>3 DEF Picks
=============================================================================
