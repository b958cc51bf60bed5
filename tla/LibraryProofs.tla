--------------------------- MODULE LibraryProofs ---------------------------
(***************************************************************************)
(* Proofs about the containers and the small components, for any elements, *)
(* nodes, capacities and sequences of calls.                               *)
(***************************************************************************)
EXTENDS Containers, DateTime, Bytes, FiniteSetTheorems, WellFoundedInduction, TLAPS

-----------------------------------------------------------------------------
(* Natural numbers. *)

\* Every set of natural numbers with a member has a least one.
LEMMA NatLeast ==
  ASSUME NEW S \in SUBSET Nat, S # {}
  PROVE  \E m \in S : \A k \in S : m <= k
<1>1. PICK m \in S : \A k \in S : ~(<<k, m>> \in OpToRel(<, Nat))
  BY NatLessThanWellFounded, WFMin
<1>2. \A k \in S : ~(k < m)
  BY <1>1 DEF OpToRel
<1> QED BY <1>2

\* What holds of 0 and of the successor of each number it holds of, holds of all.
LEMMA AllNumbers ==
  ASSUME NEW S \in SUBSET Nat, 0 \in S, \A n \in S : n + 1 \in S
  PROVE  S = Nat
<1> SUFFICES ASSUME Nat \ S # {}
             PROVE  FALSE
  OBVIOUS
<1>1. PICK m \in Nat \ S : \A k \in Nat \ S : m <= k
  BY NatLeast
<1>2. m - 1 \in S
  BY <1>1
<1> QED BY <1>1, <1>2

\* A set of n members has at least n subsets.
LEMMA PowersGrow ==
  ASSUME NEW n \in Nat
  PROVE  2^n \in Nat /\ 2^n >= n
<1> DEFINE S == 1..n
<1>1. IsFiniteSet(S) /\ Cardinality(S) = n
  BY FS_Interval
<1>2. IsFiniteSet(SUBSET S) /\ Cardinality(SUBSET S) = 2^n
  BY <1>1, FS_SUBSET
<1>3. 2^n \in Nat
  BY <1>2, FS_CardinalityType
<1> DEFINE f == [i \in S |-> {i}]
<1>4. f \in Injection(S, SUBSET S)
  BY DEF Injection, IsInjective
<1>5. Cardinality(S) <= Cardinality(SUBSET S)
  BY <1>2, <1>4, FS_Injection
<1> QED BY <1>1, <1>2, <1>3, <1>5

\* The capacity ct_vector_impl_reserve rounds a request up to is enough for it.
LEMMA RoundUpFits ==
  ASSUME NEW n \in Nat
  PROVE  RoundUp(n) \in Nat /\ RoundUp(n) >= n
<1> DEFINE enough == {p \in {2^k : k \in 0..n} : p >= n}
<1>1. enough \in SUBSET Nat
  BY PowersGrow
<1>2. enough # {}
  BY PowersGrow
<1>3. \E p \in enough : \A q \in enough : p <= q
  BY <1>1, <1>2, NatLeast
<1>4. RoundUp(n) = CHOOSE p \in enough : \A q \in enough : p <= q
  BY DEF RoundUp
<1>5. RoundUp(n) \in enough
  BY <1>3, <1>4
<1> QED BY <1>1, <1>5

-----------------------------------------------------------------------------
(* Elements of sequences. *)

\* Two sequences of the same length with the same elements are the same.
LEMMA SameElements ==
  ASSUME NEW S, NEW T, NEW s \in Seq(S), NEW t \in Seq(T), Len(s) = Len(t),
         \A k \in 1..Len(s) : s[k] = t[k]
  PROVE  s = t
OBVIOUS

LEMMA PartElements ==
  ASSUME NEW S, NEW s \in Seq(S), NEW m \in Nat, NEW n \in Nat, m >= 1, n <= Len(s)
  PROVE  /\ SubSeq(s, m, n) \in Seq(S)
         /\ Len(SubSeq(s, m, n)) = IF m <= n THEN n - m + 1 ELSE 0
         /\ \A k \in 1..(n - m + 1) : SubSeq(s, m, n)[k] = s[m + k - 1]
OBVIOUS

LEMMA JoinedElements ==
  ASSUME NEW S, NEW s \in Seq(S), NEW t \in Seq(S)
  PROVE  /\ s \o t \in Seq(S) /\ Len(s \o t) = Len(s) + Len(t)
         /\ Len(s) \in Nat /\ Len(t) \in Nat
         /\ \A k \in 1..(Len(s) + Len(t)) : (s \o t)[k] = IF k <= Len(s) THEN s[k] ELSE t[k - Len(s)]
OBVIOUS

\* What is made of a sequence has a name, so that the facts about it apply to it alone.
IsInsertion(t, s, i, e) == t = InsertAt(s, i, e)
IsRemoval(t, s, i) == t = RemoveAt(s, i)

\* InsertAt moves the elements from the place on up by one.
LEMMA InsertElements ==
  ASSUME NEW S, NEW s \in Seq(S), NEW i \in 1..Len(s) + 1, NEW e \in S, NEW t, IsInsertion(t, s, i, e)
  PROVE  /\ t \in Seq(S) /\ Len(t) = Len(s) + 1
         /\ Len(s) \in Nat
         /\ \A k \in 1..Len(s) + 1 :
              t[k] = IF k < i THEN s[k] ELSE IF k = i THEN e ELSE s[k - 1]
<1> DEFINE a == SubSeq(s, 1, i - 1)
           b == SubSeq(s, i, Len(s))
<1>0. Len(s) \in Nat /\ i \in Nat /\ i >= 1 /\ i - 1 \in Nat /\ i - 1 <= Len(s)
  OBVIOUS
<1>1. a \in Seq(S) /\ Len(a) = i - 1 /\ \A k \in 1..(i - 1) : a[k] = s[k]
  BY <1>0
<1>2. b \in Seq(S) /\ Len(b) = Len(s) - i + 1 /\ \A k \in 1..(Len(s) - i + 1) : b[k] = s[i + k - 1]
  BY <1>0
<1>3. t = a \o <<e>> \o b
  BY DEF InsertAt, IsInsertion
<1> HIDE DEF a, b
<1>4. /\ a \o <<e>> \in Seq(S) /\ Len(a \o <<e>>) = i
      /\ \A k \in 1..i : (a \o <<e>>)[k] = IF k < i THEN s[k] ELSE e
  BY <1>0, <1>1
<1> DEFINE c == a \o <<e>>
<1>5. c \in Seq(S) /\ Len(c) = i /\ t = c \o b
  BY <1>3, <1>4
<1> HIDE DEF c
<1>6. /\ c \o b \in Seq(S) /\ Len(c \o b) = Len(s) + 1
      /\ \A k \in 1..Len(s) + 1 : (c \o b)[k] = IF k <= i THEN c[k] ELSE b[k - i]
  <2>1. Len(c) + Len(b) = Len(s) + 1 /\ Len(c) = i
    BY <1>0, <1>2, <1>5
  <2>2. /\ c \o b \in Seq(S) /\ Len(c \o b) = Len(c) + Len(b)
        /\ \A k \in 1..(Len(c) + Len(b)) : (c \o b)[k] = IF k <= Len(c) THEN c[k] ELSE b[k - Len(c)]
    BY <1>2, <1>5, JoinedElements
  <2> QED BY <2>1, <2>2
<1>7. ASSUME NEW k \in 1..Len(s) + 1
      PROVE  (c \o b)[k] = IF k < i THEN s[k] ELSE IF k = i THEN e ELSE s[k - 1]
  <2>1. CASE k <= i
    BY <1>0, <1>4, <1>6, <2>1 DEF c
  <2>2. CASE k > i
    <3>1. k - i \in 1..(Len(s) - i + 1) /\ i + (k - i) - 1 = k - 1
      BY <1>0, <2>2
    <3> QED BY <1>0, <1>2, <1>6, <2>2, <3>1
  <2>3. k <= i \/ k > i
    BY <1>0
  <2> QED BY <2>1, <2>2, <2>3
<1> QED BY <1>0, <1>5, <1>6, <1>7

\* RemoveAt moves the elements behind the place down by one.
LEMMA RemoveElements ==
  ASSUME NEW S, NEW s \in Seq(S), NEW i \in 1..Len(s), NEW t, IsRemoval(t, s, i)
  PROVE  /\ t \in Seq(S) /\ Len(t) = Len(s) - 1
         /\ Len(s) \in Nat
         /\ \A k \in 1..Len(s) - 1 : t[k] = IF k < i THEN s[k] ELSE s[k + 1]
<1> DEFINE a == SubSeq(s, 1, i - 1)
           b == SubSeq(s, i + 1, Len(s))
<1>0. Len(s) \in Nat /\ i \in Nat /\ i >= 1 /\ i <= Len(s)
  OBVIOUS
<1>1. a \in Seq(S) /\ Len(a) = i - 1 /\ \A k \in 1..(i - 1) : a[k] = s[k]
  BY <1>0
<1>2. b \in Seq(S) /\ Len(b) = Len(s) - i /\ \A k \in 1..(Len(s) - i) : b[k] = s[i + k]
  BY <1>0
<1>3. t = a \o b
  BY DEF RemoveAt, IsRemoval
<1> HIDE DEF a, b
<1>4. /\ a \o b \in Seq(S) /\ Len(a \o b) = Len(a) + Len(b)
      /\ \A k \in 1..(Len(a) + Len(b)) : (a \o b)[k] = IF k <= Len(a) THEN a[k] ELSE b[k - Len(a)]
  BY <1>1, <1>2, JoinedElements
<1>6. Len(a) + Len(b) = Len(s) - 1
  BY <1>0, <1>1, <1>2
<1>5. ASSUME NEW k \in 1..Len(s) - 1
      PROVE  (a \o b)[k] = IF k < i THEN s[k] ELSE s[k + 1]
  <2>1. CASE k < i
    <3>1. k \in 1..(i - 1) /\ k <= Len(a)
      BY <1>0, <1>1, <2>1
    <3>2. (a \o b)[k] = a[k]
      BY <1>4, <1>6, <3>1
    <3> QED BY <1>1, <2>1, <3>1, <3>2
  <2>2. CASE ~(k < i)
    <3>1. PICK m \in 1..(Len(s) - i) : m = k - Len(a)
      BY <1>0, <1>1, <2>2
    <3>2. ~(k <= Len(a)) /\ i + m = k + 1
      BY <1>0, <1>1, <2>2, <3>1
    <3>3. (a \o b)[k] = b[m]
      BY <1>4, <1>6, <3>1, <3>2
    <3> QED BY <1>2, <2>2, <3>1, <3>2, <3>3
  <2> QED BY <2>1, <2>2
<1> QED BY <1>0, <1>3, <1>4, <1>5, <1>6

-----------------------------------------------------------------------------
(* The linked list. *)

\* No element is in two places.
OnePlaceEach ==
  \A g, h \in LsHeads : \A j \in 1..Len(lsRef[g]), k \in 1..Len(lsRef[h]) :
    lsRef[g][j] = lsRef[h][k] => g = h /\ j = k

LsTypes ==
  /\ next \in [LsAll -> LsAll] /\ prev \in [LsAll -> LsAll]
  /\ lsRef \in [LsHeads -> Seq(LsNodes)]

LsInv == LsTypes /\ OnePlaceEach /\ ListIntact

\* The places of the circles: the sentinel at both ends, and no node at two of them.
LEMMA Places ==
  ASSUME LsTypes, OnePlaceEach, NEW h \in LsHeads
  PROVE  /\ Len(lsRef[h]) \in Nat
         /\ At(h, 0) = h /\ At(h, Len(lsRef[h]) + 1) = h
         /\ \A k \in 1..Len(lsRef[h]) : At(h, k) = lsRef[h][k] /\ At(h, k) \in LsNodes
         /\ \A k \in 0..Len(lsRef[h]) + 1 : At(h, k) \in LsAll
         /\ \A g \in LsHeads : \A j \in 0..Len(lsRef[g]), k \in 0..Len(lsRef[h]) :
              /\ At(g, j) = At(h, k) => g = h /\ j = k
              /\ At(g, j + 1) = At(h, k + 1) => g = h /\ j = k
<1>1. lsRef[h] \in Seq(LsNodes)
  BY DEF LsTypes
<1>2. \A k \in 1..Len(lsRef[h]) : At(h, k) = lsRef[h][k] /\ At(h, k) \in LsNodes
  BY <1>1 DEF At
<1>3. Len(lsRef[h]) \in Nat /\ At(h, 0) = h /\ At(h, Len(lsRef[h]) + 1) = h
  BY <1>1 DEF At
<1>4. \A k \in 0..Len(lsRef[h]) + 1 : At(h, k) \in LsAll
  BY <1>1 DEF At, LsAll
<1>5. ASSUME NEW g \in LsHeads, NEW j \in 0..Len(lsRef[g]), NEW k \in 0..Len(lsRef[h]),
             At(g, j) = At(h, k)
      PROVE  g = h /\ j = k
  <2>0. lsRef[g] \in Seq(LsNodes) /\ Len(lsRef[g]) \in Nat /\ j \in Nat /\ k \in Nat
    BY <1>3 DEF LsTypes
  <2>1. /\ j = 0 => At(g, j) = g
        /\ j # 0 => At(g, j) = lsRef[g][j] /\ At(g, j) \in LsNodes /\ j \in 1..Len(lsRef[g])
    BY <2>0 DEF At
  <2>2. /\ k = 0 => At(h, k) = h
        /\ k # 0 => At(h, k) = lsRef[h][k] /\ At(h, k) \in LsNodes /\ k \in 1..Len(lsRef[h])
    BY <1>2, <1>3, <2>0
  <2>3. CASE j = 0
    BY <1>5, <2>1, <2>2, <2>3, LsAssumption
  <2>4. CASE j # 0
    BY <1>5, <2>1, <2>2, <2>4, LsAssumption DEF OnePlaceEach
  <2> QED BY <2>3, <2>4
<1>6. ASSUME NEW g \in LsHeads, NEW j \in 0..Len(lsRef[g]), NEW k \in 0..Len(lsRef[h]),
             At(g, j + 1) = At(h, k + 1)
      PROVE  g = h /\ j = k
  <2>0. lsRef[g] \in Seq(LsNodes) /\ Len(lsRef[g]) \in Nat /\ j \in Nat /\ k \in Nat
    BY <1>3 DEF LsTypes
  <2>1. PICK a \in 0..Len(lsRef[g]) : /\ At(g, j + 1) = At(g, a)
                                     /\ a = IF j = Len(lsRef[g]) THEN 0 ELSE j + 1
    BY <2>0 DEF At
  <2>2. PICK b \in 0..Len(lsRef[h]) : /\ At(h, k + 1) = At(h, b)
                                     /\ b = IF k = Len(lsRef[h]) THEN 0 ELSE k + 1
    BY <1>1, <1>3, <2>0 DEF At
  <2>3. g = h /\ a = b
    BY <1>5, <1>6, <2>1, <2>2
  <2> QED BY <1>3, <2>0, <2>1, <2>2, <2>3
<1> QED BY <1>2, <1>3, <1>4, <1>5, <1>6

\* A node that is in no list goes between places p and p + 1 of the circle of h.
LEMMA LinkedAt ==
  ASSUME LsInv, NEW h \in LsHeads, NEW node \in Unlisted, NEW p \in 0..Len(lsRef[h]),
         LinkBetween(At(h, p), node, At(h, p + 1)),
         lsRef' = [lsRef EXCEPT ![h] = InsertAt(lsRef[h], p + 1, node)]
  PROVE  LsInv'
<1> USE DEF LsInv
<1> DEFINE len == Len(lsRef[h])
           s == InsertAt(lsRef[h], p + 1, node)
<1>0. /\ node \in LsNodes /\ lsRef[h] \in Seq(LsNodes) /\ len \in Nat /\ p + 1 \in 1..len + 1
      /\ lsRef \in [LsHeads -> Seq(LsNodes)]
  BY DEF LsTypes, Unlisted
<1>1. /\ s \in Seq(LsNodes) /\ Len(s) = len + 1
      /\ \A k \in 1..len + 1 :
           s[k] = IF k < p + 1 THEN lsRef[h][k] ELSE IF k = p + 1 THEN node ELSE lsRef[h][k - 1]
  <2>0. PICK q \in 1..Len(lsRef[h]) + 1 : q = p + 1
    BY <1>0
  <2> DEFINE c == InsertAt(lsRef[h], q, node)
  <2>1. lsRef[h] \in Seq(LsNodes) /\ node \in LsNodes /\ q \in 1..Len(lsRef[h]) + 1
    BY <1>0
  <2>3. s = c /\ IsInsertion(c, lsRef[h], q, node)
    BY <2>0 DEF IsInsertion
  <2> HIDE DEF c, s
  <2>2. /\ c \in Seq(LsNodes) /\ Len(c) = len + 1
        /\ \A k \in 1..len + 1 :
             c[k] = IF k < q THEN lsRef[h][k] ELSE IF k = q THEN node ELSE lsRef[h][k - 1]
    BY <2>1, <2>3, InsertElements
  <2> QED BY <2>0, <2>2, <2>3
<1>2. lsRef'[h] = s /\ \A g \in LsHeads : g # h => lsRef'[g] = lsRef[g]
  BY <1>0
<1>3. \A g \in LsHeads : \A k \in 0..Len(lsRef[g]) + 1 : At(g, k) # node
  <2> SUFFICES ASSUME NEW g \in LsHeads, NEW k \in 0..Len(lsRef[g]) + 1, At(g, k) = node
               PROVE  FALSE
    OBVIOUS
  <2>1. lsRef[g] \in Seq(LsNodes)
    BY <1>0
  <2>2. CASE k \in DOMAIN lsRef[g]
    BY <2>1, <2>2 DEF At, Unlisted, ToSet
  <2>3. CASE k \notin DOMAIN lsRef[g]
    BY <1>0, <2>3, LsAssumption DEF At
  <2> QED BY <2>2, <2>3
<1> HIDE DEF s
<1>4. LsTypes'
  <2>1. At(h, p) \in LsAll /\ At(h, p + 1) \in LsAll /\ node \in LsAll
    BY <1>0, Places DEF LsAll
  <2>2. lsRef' \in [LsHeads -> Seq(LsNodes)]
    BY <1>0, <1>1 DEF s
  <2> QED BY <2>1, <2>2 DEF LsTypes, LinkBetween
<1>5. OnePlaceEach'
  <2>1. \A g \in LsHeads : \A k \in 1..Len(lsRef[g]) : lsRef[g][k] # node
    BY <1>0 DEF Unlisted, ToSet
  <2>2. ASSUME NEW g \in LsHeads, NEW i \in LsHeads,
               NEW j \in 1..Len(lsRef'[g]), NEW k \in 1..Len(lsRef'[i]),
               lsRef'[g][j] = lsRef'[i][k]
        PROVE  g = i /\ j = k
    <3>0. /\ Len(lsRef[g]) \in Nat /\ Len(lsRef[i]) \in Nat
          /\ j \in Int /\ k \in Int /\ p \in Int
      BY <1>0, <1>1, <1>2
    <3> DEFINE Elsewhere(f, m, n) ==
                 f # h /\ m \in 1..len + 1 /\ n \in 1..Len(lsRef[f]) /\ s[m] = lsRef[f][n]
    <3>1. CASE g # h /\ i # h
      BY <1>2, <2>2, <3>1 DEF OnePlaceEach
    <3>a. ASSUME NEW f \in LsHeads, NEW m \in Int, NEW n \in Int, Elsewhere(f, m, n)
          PROVE  FALSE
      <4>1. lsRef[f][n] # node /\ m \in 1..len + 1
        BY <2>1, <3>a
      <4>2. m # p + 1
        BY <1>1, <3>a, <4>1
      <4>3. PICK q \in 1..len : lsRef[h][q] = s[m]
        <5>1. CASE m < p + 1
          <6>1. m \in 1..len /\ s[m] = lsRef[h][m]
            BY <1>0, <1>1, <3>0, <4>1, <5>1, SMTT(60)
          <6> QED BY <6>1
        <5>2. CASE ~(m < p + 1)
          <6>1. m - 1 \in 1..len /\ s[m] = lsRef[h][m - 1]
            BY <1>0, <1>1, <3>0, <4>1, <4>2, <5>2
          <6> QED BY <6>1
        <5> QED BY <5>1, <5>2
      <4> QED BY <3>a, <4>3 DEF OnePlaceEach
    <3>2. CASE g = h /\ i # h
      <4>1. Elsewhere(i, j, k)
        BY <1>1, <1>2, <2>2, <3>2
      <4> QED BY <3>0, <3>a, <4>1
    <3>3. CASE g # h /\ i = h
      <4>1. Elsewhere(g, k, j)
        BY <1>1, <1>2, <2>2, <3>3
      <4> QED BY <3>0, <3>a, <4>1
    <3>4. CASE g = h /\ i = h
      <4>1. /\ s[j] = IF j < p + 1 THEN lsRef[h][j] ELSE IF j = p + 1 THEN node ELSE lsRef[h][j - 1]
            /\ s[k] = IF k < p + 1 THEN lsRef[h][k] ELSE IF k = p + 1 THEN node ELSE lsRef[h][k - 1]
            /\ j \in 1..len + 1 /\ k \in 1..len + 1 /\ s[j] = s[k]
        BY <1>1, <1>2, <2>2, <3>4
      <4>2. CASE j = p + 1 \/ k = p + 1
        <5>1. j < p + 1 => j \in 1..len
          BY <1>0, <4>1
        <5>2. j > p + 1 => j - 1 \in 1..len
          BY <1>0, <4>1
        <5>3. k < p + 1 => k \in 1..len
          BY <1>0, <4>1
        <5>4. k > p + 1 => k - 1 \in 1..len
          BY <1>0, <4>1
        <5> QED BY <2>1, <3>0, <3>4, <4>1, <4>2, <5>1, <5>2, <5>3, <5>4, SMTT(60)
      <4>3. CASE j # p + 1 /\ k # p + 1
        <5> DEFINE a == IF j < p + 1 THEN j ELSE j - 1
                   b == IF k < p + 1 THEN k ELSE k - 1
        <5>1. a \in 1..len /\ b \in 1..len /\ (a = b => j = k)
          BY <1>0, <3>0, <4>1, <4>3
        <5>2. lsRef[h][a] = lsRef[h][b]
          BY <3>0, <4>1, <4>3
        <5> QED BY <3>4, <5>1, <5>2 DEF OnePlaceEach
      <4> QED BY <4>2, <4>3
    <3> QED BY <3>1, <3>2, <3>3, <3>4
  <2> QED BY <2>2 DEF OnePlaceEach
<1>6. ListIntact'
  <2>1. ASSUME NEW g \in LsHeads, NEW k \in 0..Len(lsRef'[g])
        PROVE  next'[At(g, k)'] = At(g, k + 1)' /\ prev'[At(g, k + 1)'] = At(g, k)'
    <3>0. /\ next' = [next EXCEPT ![node] = At(h, p + 1), ![At(h, p)] = node]
          /\ prev' = [prev EXCEPT ![node] = At(h, p), ![At(h, p + 1)] = node]
          /\ next \in [LsAll -> LsAll] /\ prev \in [LsAll -> LsAll] /\ node \in LsAll
      BY <1>0 DEF LinkBetween, LsTypes, LsAll
    <3>1. CASE g # h
      <4>1. /\ At(g, k)' = At(g, k) /\ At(g, k + 1)' = At(g, k + 1) /\ k \in 0..Len(lsRef[g])
            /\ next[At(g, k)] = At(g, k + 1) /\ prev[At(g, k + 1)] = At(g, k)
        BY <1>2, <3>1 DEF At, ListIntact
      <4>2. At(g, k) # node /\ At(g, k) # At(h, p) /\ At(g, k) \in LsAll
        BY <1>0, <1>3, <3>1, <4>1, Places
      <4>3. At(g, k + 1) # node /\ At(g, k + 1) # At(h, p + 1) /\ At(g, k + 1) \in LsAll
        <5>1. k + 1 \in 0..Len(lsRef[g]) + 1
          BY <1>0, <4>1
        <5> QED BY <1>0, <1>3, <3>1, <4>1, <5>1, Places
      <4> QED BY <3>0, <4>1, <4>2, <4>3
    <3>2. CASE g = h
      <4>1. /\ \A j \in 0..p : At(h, j)' = At(h, j)
            /\ At(h, p + 1)' = node
            /\ \A j \in p + 2..len + 2 : At(h, j)' = At(h, j - 1)
        BY <1>0, <1>1, <1>2, SMTT(60) DEF At
      <4>2. k \in 0..len + 1 /\ k \in Int /\ p \in Int
        BY <1>0, <1>1, <1>2, <3>2
      <4>3. CASE k < p
        <5>1. /\ next[At(h, k)] = At(h, k + 1) /\ prev[At(h, k + 1)] = At(h, k)
              /\ At(h, k)' = At(h, k) /\ At(h, k + 1)' = At(h, k + 1)
          <6>1. k \in 0..len /\ k \in 0..p /\ k + 1 \in 0..p
            BY <1>0, <4>2, <4>3
          <6>2. next[At(h, k)] = At(h, k + 1) /\ prev[At(h, k + 1)] = At(h, k)
            BY <6>1 DEF ListIntact
          <6> QED BY <4>1, <6>1, <6>2
        <5>2. At(h, k) # node /\ At(h, k) # At(h, p) /\ At(h, k) \in LsAll
          BY <1>0, <1>3, <4>2, <4>3, Places
        <5>3. At(h, k + 1) # node /\ At(h, k + 1) # At(h, p + 1) /\ At(h, k + 1) \in LsAll
          <6>1. k + 1 \in 0..len + 1 /\ k \in 0..len /\ k # p
            BY <1>0, <4>2, <4>3
          <6> QED BY <1>0, <1>3, <6>1, Places
        <5> QED BY <3>0, <3>2, <5>1, <5>2, <5>3
      <4>4. CASE k = p
        <5>1. At(h, k)' = At(h, p) /\ At(h, k + 1)' = node
          BY <4>1, <4>2, <4>4
        <5>2. At(h, p) # node /\ At(h, p + 1) # node /\ At(h, p) \in LsAll /\ At(h, p + 1) \in LsAll
          BY <1>0, <1>3, Places
        <5> QED BY <3>0, <3>2, <5>1, <5>2
      <4>5. CASE k = p + 1
        <5>1. At(h, k)' = node /\ At(h, k + 1)' = At(h, p + 1)
          BY <1>0, <4>1, <4>2, <4>5
        <5>2. At(h, p) # node /\ At(h, p + 1) # node /\ At(h, p) \in LsAll /\ At(h, p + 1) \in LsAll
          BY <1>0, <1>3, Places
        <5> QED BY <3>0, <3>2, <5>1, <5>2
      <4>6. CASE k > p + 1
        <5>0. k - 1 \in 0..len /\ k - 1 \in Int /\ (k - 1) + 1 = k /\ (k + 1) - 1 = k /\ k - 1 # p
          BY <1>0, <4>2, <4>6
        <5>1. /\ next[At(h, k - 1)] = At(h, k) /\ prev[At(h, k)] = At(h, k - 1)
              /\ At(h, k)' = At(h, k - 1) /\ At(h, k + 1)' = At(h, k)
          <6>1. k \in p + 2..len + 2 /\ k + 1 \in p + 2..len + 2
            BY <1>0, <4>2, <4>6
          <6>2. next[At(h, k - 1)] = At(h, (k - 1) + 1) /\ prev[At(h, (k - 1) + 1)] = At(h, k - 1)
            BY <5>0 DEF ListIntact
          <6> QED BY <4>1, <5>0, <6>1, <6>2
        <5>2. At(h, k - 1) # node /\ At(h, k - 1) # At(h, p) /\ At(h, k - 1) \in LsAll
          BY <1>0, <1>3, <5>0, Places
        <5>3. At(h, k) # node /\ At(h, k) # At(h, p + 1) /\ At(h, k) \in LsAll
          <6>1. k \in 0..len + 1
            BY <4>2
          <6>2. At(h, (k - 1) + 1) # At(h, p + 1)
            BY <1>0, <5>0, Places
          <6> QED BY <1>0, <1>3, <5>0, <6>1, <6>2, Places
        <5> QED BY <3>0, <3>2, <5>1, <5>2, <5>3
      <4> QED BY <4>2, <4>3, <4>4, <4>5, <4>6
    <3> QED BY <3>1, <3>2
  <2> QED BY <2>1 DEF ListIntact
<1> QED BY <1>4, <1>5, <1>6

\* ct_list_append, prepend, before and after.
LEMMA ListInserts ==
  ASSUME LsInv, NEW h \in LsHeads, NEW node \in Unlisted,
         \/ ListAppend(h, node) \/ ListPrepend(h, node)
         \/ \E i \in DOMAIN lsRef[h] : ListBefore(h, i, node) \/ ListAfter(h, i, node)
  PROVE  LsInv'
<1> DEFINE len == Len(lsRef[h])
<1>0. /\ node \in LsNodes /\ lsRef[h] \in Seq(LsNodes) /\ len \in Nat
      /\ DOMAIN lsRef[h] = 1..len
  BY DEF LsInv, LsTypes, Unlisted
<1>1. ASSUME ListAppend(h, node)
      PROVE  LsInv'
  <2>1. prev[h] = At(h, len) /\ h = At(h, len + 1)
    BY <1>0, Places DEF LsInv, ListIntact
  <2>2. Append(lsRef[h], node) = InsertAt(lsRef[h], len + 1, node)
    <3>0. PICK q \in 1..len + 1 : q = len + 1
      BY <1>0
    <3>1. /\ InsertAt(lsRef[h], len + 1, node) \in Seq(LsNodes)
          /\ Len(InsertAt(lsRef[h], len + 1, node)) = len + 1
          /\ \A k \in 1..len + 1 : InsertAt(lsRef[h], len + 1, node)[k]
                                   = IF k < len + 1 THEN lsRef[h][k] ELSE node
      <4> DEFINE c == InsertAt(lsRef[h], q, node)
      <4>0. IsInsertion(c, lsRef[h], q, node)
        BY DEF IsInsertion
      <4>3. c = InsertAt(lsRef[h], len + 1, node)
        BY <3>0
      <4> HIDE DEF c
      <4>1. /\ c \in Seq(LsNodes) /\ Len(c) = len + 1
            /\ \A k \in 1..len + 1 :
                 c[k] = IF k < q THEN lsRef[h][k] ELSE IF k = q THEN node ELSE lsRef[h][k - 1]
        <5>1. lsRef[h] \in Seq(LsNodes) /\ node \in LsNodes /\ q \in 1..Len(lsRef[h]) + 1
          BY <1>0
        <5> QED BY <4>0, <5>1, InsertElements
      <4>2. \A k \in 1..len + 1 : c[k] = IF k < len + 1 THEN lsRef[h][k] ELSE node
        BY <1>0, <3>0, <4>1
      <4> QED BY <4>1, <4>2, <4>3
    <3>2. /\ Append(lsRef[h], node) \in Seq(LsNodes) /\ Len(Append(lsRef[h], node)) = len + 1
          /\ \A k \in 1..len + 1 : Append(lsRef[h], node)[k]
                                   = IF k < len + 1 THEN lsRef[h][k] ELSE node
      BY <1>0
    <3> DEFINE a == Append(lsRef[h], node)
               b == InsertAt(lsRef[h], len + 1, node)
    <3>3. /\ a \in Seq(LsNodes) /\ b \in Seq(LsNodes) /\ Len(a) = Len(b)
          /\ \A k \in 1..Len(a) : a[k] = b[k]
      BY <3>1, <3>2
    <3> HIDE DEF a, b
    <3>4. a = b
      BY <3>3, SameElements
    <3> QED BY <3>4 DEF a, b
  <2>3. LinkBetween(At(h, len), node, At(h, len + 1))
    BY <1>1, <2>1 DEF ListAppend
  <2>4. lsRef' = [lsRef EXCEPT ![h] = InsertAt(lsRef[h], len + 1, node)]
    BY <1>1, <2>2 DEF ListAppend
  <2>5. len \in 0..len
    BY <1>0
  <2> QED BY <2>3, <2>4, <2>5, LinkedAt
<1>2. ASSUME ListPrepend(h, node)
      PROVE  LsInv'
  <2>1. next[h] = At(h, 0 + 1) /\ h = At(h, 0)
    BY <1>0, Places DEF LsInv, ListIntact
  <2>2. <<node>> \o lsRef[h] = InsertAt(lsRef[h], 0 + 1, node)
    <3> DEFINE a == <<node>> \o lsRef[h]
               b == InsertAt(lsRef[h], 1, node)
    <3>0. 1 \in 1..len + 1
      BY <1>0
    <3>1. /\ b \in Seq(LsNodes) /\ Len(b) = len + 1
          /\ \A k \in 1..len + 1 :
               b[k] = IF k < 1 THEN lsRef[h][k] ELSE IF k = 1 THEN node ELSE lsRef[h][k - 1]
      <4>1. IsInsertion(b, lsRef[h], 1, node)
        BY DEF IsInsertion
      <4> HIDE DEF b
      <4> QED BY <1>0, <3>0, <4>1, InsertElements
    <3>2. \A k \in 1..len + 1 : b[k] = IF k = 1 THEN node ELSE lsRef[h][k - 1]
      BY <1>0, <3>1
    <3>3. /\ a \in Seq(LsNodes) /\ Len(a) = len + 1
          /\ \A k \in 1..len + 1 : a[k] = IF k = 1 THEN node ELSE lsRef[h][k - 1]
      <4> DEFINE one == <<node>>
      <4>1. one \in Seq(LsNodes) /\ Len(one) = 1 /\ one[1] = node
        BY <1>0
      <4> HIDE DEF one
      <4>2. /\ one \o lsRef[h] \in Seq(LsNodes) /\ Len(one \o lsRef[h]) = 1 + len
            /\ \A k \in 1..1 + len :
                 (one \o lsRef[h])[k] = IF k <= 1 THEN one[k] ELSE lsRef[h][k - 1]
        BY <1>0, <4>1, JoinedElements, SMTT(60)
      <4>3. a = one \o lsRef[h]
        BY DEF one
      <4> QED BY <1>0, <4>1, <4>2, <4>3
    <3> HIDE DEF a, b
    <3>5. \A k \in 1..Len(a) : a[k] = b[k]
      BY <1>0, <3>2, <3>3
    <3>6. a = b
      BY <3>1, <3>3, <3>5, SameElements
    <3> QED BY <3>6 DEF a, b
  <2>3. LinkBetween(At(h, 0), node, At(h, 0 + 1))
    BY <1>2, <2>1 DEF ListPrepend
  <2>4. lsRef' = [lsRef EXCEPT ![h] = InsertAt(lsRef[h], 0 + 1, node)]
    BY <1>2, <2>2 DEF ListPrepend
  <2>5. 0 \in 0..len
    BY <1>0
  <2> QED BY <2>3, <2>4, <2>5, LinkedAt
<1>3. ASSUME NEW i \in DOMAIN lsRef[h], ListBefore(h, i, node)
      PROVE  LsInv'
  <2>1. i - 1 \in 0..len /\ (i - 1) + 1 = i /\ i \in 1..len
    BY <1>0
  <2>2. lsRef[h][i] = At(h, (i - 1) + 1) /\ prev[lsRef[h][i]] = At(h, i - 1)
    BY <1>0, <2>1, Places DEF LsInv, ListIntact
  <2>3. LinkBetween(At(h, i - 1), node, At(h, (i - 1) + 1))
    BY <1>3, <2>2 DEF ListBefore
  <2>4. lsRef' = [lsRef EXCEPT ![h] = InsertAt(lsRef[h], (i - 1) + 1, node)]
    BY <1>3, <2>1 DEF ListBefore
  <2> QED BY <2>1, <2>3, <2>4, LinkedAt
<1>4. ASSUME NEW i \in DOMAIN lsRef[h], ListAfter(h, i, node)
      PROVE  LsInv'
  <2>1. i \in 0..len /\ i \in 1..len
    BY <1>0
  <2>2. lsRef[h][i] = At(h, i) /\ next[lsRef[h][i]] = At(h, i + 1)
    BY <1>0, <2>1, Places DEF LsInv, ListIntact
  <2>3. LinkBetween(At(h, i), node, At(h, i + 1))
    BY <1>4, <2>2 DEF ListAfter
  <2>4. lsRef' = [lsRef EXCEPT ![h] = InsertAt(lsRef[h], i + 1, node)]
    BY <1>4, <2>1 DEF ListAfter
  <2> QED BY <2>1, <2>3, <2>4, LinkedAt
<1> QED BY <1>1, <1>2, <1>3, <1>4

\* ct_list_remove: the neighbours of place i are linked to each other.
LEMMA ListRemoves ==
  ASSUME LsInv, NEW h \in LsHeads, NEW i \in DOMAIN lsRef[h], ListRemove(h, i)
  PROVE  LsInv'
<1> USE DEF LsInv
<1> DEFINE len == Len(lsRef[h])
           s == RemoveAt(lsRef[h], i)
<1>0. /\ lsRef[h] \in Seq(LsNodes) /\ len \in Nat /\ i \in 1..len /\ i \in Int
      /\ lsRef \in [LsHeads -> Seq(LsNodes)]
  BY DEF LsTypes
<1>1. /\ s \in Seq(LsNodes) /\ Len(s) = len - 1
      /\ \A k \in 1..len - 1 : s[k] = IF k < i THEN lsRef[h][k] ELSE lsRef[h][k + 1]
  <2>1. IsRemoval(s, lsRef[h], i)
    BY DEF IsRemoval
  <2> HIDE DEF s
  <2> QED BY <1>0, <2>1, RemoveElements, SMTT(60)
<1>2. lsRef' = [lsRef EXCEPT ![h] = s]
  BY DEF ListRemove
<1> HIDE DEF s
<1>3. lsRef'[h] = s /\ \A g \in LsHeads : g # h => lsRef'[g] = lsRef[g]
  BY <1>0, <1>2
<1>4. /\ next' = [next EXCEPT ![At(h, i - 1)] = At(h, i + 1)]
      /\ prev' = [prev EXCEPT ![At(h, i + 1)] = At(h, i - 1)]
  <2>1. i - 1 \in 0..len /\ i \in 0..len /\ (i - 1) + 1 = i
    BY <1>0
  <2>2. lsRef[h][i] = At(h, i) /\ prev[At(h, i)] = At(h, i - 1) /\ next[At(h, i)] = At(h, i + 1)
    <3>1. prev[At(h, (i - 1) + 1)] = At(h, i - 1) /\ next[At(h, i)] = At(h, i + 1)
      BY <2>1 DEF ListIntact
    <3> QED BY <1>0, <2>1, <3>1, Places
  <2> QED BY <2>2 DEF ListRemove
<1>5. /\ i - 1 \in 0..len /\ i \in 0..len /\ (i - 1) + 1 = i
      /\ At(h, i - 1) \in LsAll /\ At(h, i + 1) \in LsAll
  <2>1. i - 1 \in 0..len + 1 /\ i + 1 \in 0..len + 1 /\ i - 1 \in 0..len /\ i \in 0..len
    BY <1>0
  <2> QED BY <1>0, <2>1, Places
<1>6. LsTypes'
  <2>1. lsRef' \in [LsHeads -> Seq(LsNodes)]
    BY <1>0, <1>1, <1>2
  <2> QED BY <1>4, <1>5, <2>1 DEF LsTypes
<1>7. OnePlaceEach'
  <2>1. ASSUME NEW g \in LsHeads, NEW j \in 1..Len(lsRef'[g])
        PROVE  \E a \in 1..Len(lsRef[g]) : /\ lsRef'[g][j] = lsRef[g][a]
                                           /\ a = IF g # h \/ j < i THEN j ELSE j + 1
    <3>0. Len(lsRef[g]) \in Nat
      BY <1>0
    <3>1. CASE g # h
      BY <1>3, <3>1
    <3>2. CASE g = h /\ j < i
      BY <1>0, <1>1, <1>3, <3>2, SMTT(60)
    <3>3. CASE g = h /\ ~(j < i)
      <4>1. j + 1 \in 1..len /\ lsRef'[g][j] = lsRef[h][j + 1]
        BY <1>0, <1>1, <1>3, <3>3
      <4> QED BY <3>3, <4>1
    <3> QED BY <3>1, <3>2, <3>3
  <2>2. ASSUME NEW g \in LsHeads, NEW f \in LsHeads,
               NEW j \in 1..Len(lsRef'[g]), NEW k \in 1..Len(lsRef'[f]),
               lsRef'[g][j] = lsRef'[f][k]
        PROVE  g = f /\ j = k
    <3>1. PICK a \in 1..Len(lsRef[g]) : /\ lsRef'[g][j] = lsRef[g][a]
                                       /\ a = IF g # h \/ j < i THEN j ELSE j + 1
      BY <2>1
    <3>2. PICK b \in 1..Len(lsRef[f]) : /\ lsRef'[f][k] = lsRef[f][b]
                                       /\ b = IF f # h \/ k < i THEN k ELSE k + 1
      BY <2>1
    <3>3. g = f /\ a = b
      <4>1. lsRef[g][a] = lsRef[f][b]
        BY <2>2, <3>1, <3>2
      <4> QED BY <4>1 DEF OnePlaceEach
    <3>4. j \in Int /\ k \in Int
      BY <1>0, <1>1, <1>3
    <3> QED BY <1>0, <3>1, <3>2, <3>3, <3>4
  <2> QED BY <2>2 DEF OnePlaceEach
<1>8. ListIntact'
  <2>1. ASSUME NEW g \in LsHeads, NEW k \in 0..Len(lsRef'[g])
        PROVE  \E a, b \in 0..Len(lsRef[g]) :
                 /\ At(g, k)' = At(g, a) /\ At(g, k + 1)' = At(g, b + 1)
                 /\ IF g = h /\ k = i - 1 THEN a = i - 1 /\ b = i
                    ELSE a = b /\ (g = h => a # i - 1 /\ a # i)
    <3>0. Len(lsRef[g]) \in Nat
      BY <1>0
    <3>1. CASE g # h
      BY <1>3, <3>1 DEF At
    <3>2. CASE g = h
      <4>1. /\ \A j \in 0..i - 1 : At(h, j)' = At(h, j)
            /\ \A j \in i..len : At(h, j)' = At(h, j + 1)
        <5>1. DOMAIN lsRef[h] = 1..len /\ DOMAIN s = 1..len - 1
          BY <1>0, <1>1
        <5>2. \A j : At(h, j)' = IF j \in 1..len - 1 THEN s[j] ELSE h
          BY <1>3, <5>1 DEF At
        <5>3. \A j : At(h, j) = IF j \in 1..len THEN lsRef[h][j] ELSE h
          BY <5>1 DEF At
        <5>4. ASSUME NEW j \in 0..i - 1
              PROVE  At(h, j)' = At(h, j)
          <6>1. CASE j = 0
            <7>1. j \notin 1..len - 1 /\ j \notin 1..len
              BY <6>1
            <7> QED BY <5>2, <5>3, <7>1
          <6>2. CASE j # 0
            <7>1. j \in 1..len - 1 /\ j \in 1..len /\ j < i
              BY <1>0, <6>2
            <7>2. s[j] = lsRef[h][j]
              BY <1>1, <7>1
            <7> QED BY <5>2, <5>3, <7>1, <7>2
          <6> QED BY <6>1, <6>2
        <5>5. ASSUME NEW j \in i..len
              PROVE  At(h, j)' = At(h, j + 1)
          <6>1. CASE j = len
            <7>1. j \notin 1..len - 1 /\ j + 1 \notin 1..len
              BY <1>0, <6>1
            <7> QED BY <5>2, <5>3, <7>1
          <6>2. CASE j # len
            <7>1. j \in 1..len - 1 /\ j + 1 \in 1..len /\ ~(j < i)
              BY <1>0, <6>2
            <7>2. s[j] = lsRef[h][j + 1]
              BY <1>1, <7>1
            <7> QED BY <5>2, <5>3, <7>1, <7>2
          <6> QED BY <6>1, <6>2
        <5> QED BY <5>4, <5>5
      <4>2. k \in 0..len - 1 /\ k \in Int
        BY <1>0, <1>1, <1>3, <3>2
      <4>3. CASE k < i - 1
        <5>1. k \in 0..len /\ k # i - 1 /\ k # i /\ k \in 0..i - 1 /\ k + 1 \in 0..i - 1
          BY <1>0, <4>2, <4>3
        <5> QED BY <3>2, <4>1, <5>1
      <4>4. CASE k = i - 1
        <5>1. k \in 0..i - 1 /\ k + 1 \in i..len /\ k + 1 = i
          BY <1>0, <4>2, <4>4
        <5> QED BY <1>5, <3>2, <4>1, <4>4, <5>1
      <4>5. CASE k > i - 1
        <5>1. /\ k \in i..len /\ k + 1 \in i..len /\ k + 1 \in 0..len
              /\ k + 1 # i - 1 /\ k + 1 # i /\ k # i - 1
          BY <1>0, <4>2, <4>5
        <5> QED BY <3>2, <4>1, <5>1
      <4>6. k < i - 1 \/ k = i - 1 \/ k > i - 1
        BY <1>0, <4>2
      <4> QED BY <4>3, <4>4, <4>5, <4>6
    <3> QED BY <3>1, <3>2
  <2>2. ASSUME NEW g \in LsHeads, NEW k \in 0..Len(lsRef'[g])
        PROVE  next'[At(g, k)'] = At(g, k + 1)' /\ prev'[At(g, k + 1)'] = At(g, k)'
    <3>1. PICK a, b \in 0..Len(lsRef[g]) :
                 /\ At(g, k)' = At(g, a) /\ At(g, k + 1)' = At(g, b + 1)
                 /\ IF g = h /\ k = i - 1 THEN a = i - 1 /\ b = i
                    ELSE a = b /\ (g = h => a # i - 1 /\ a # i)
      BY <2>1
    <3>2. At(g, a) \in LsAll /\ At(g, b + 1) \in LsAll
      <4>1. Len(lsRef[g]) \in Nat
        BY <1>0
      <4>2. a \in 0..Len(lsRef[g]) + 1 /\ b + 1 \in 0..Len(lsRef[g]) + 1
        BY <4>1
      <4> QED BY <4>2, Places
    <3>3. next \in [LsAll -> LsAll] /\ prev \in [LsAll -> LsAll]
      BY DEF LsTypes
    <3>4. CASE g = h /\ k = i - 1
      BY <1>4, <1>5, <3>1, <3>2, <3>3, <3>4
    <3>5. CASE ~(g = h /\ k = i - 1)
      <4>1. a = b /\ next[At(g, a)] = At(g, a + 1) /\ prev[At(g, a + 1)] = At(g, a)
        BY <3>1, <3>5 DEF ListIntact
      <4>2. At(g, a) # At(h, i - 1) /\ At(g, a + 1) # At(h, i + 1)
        BY <1>5, <3>1, <3>5, <4>1, Places, SMTT(60)
      <4> QED BY <1>4, <1>5, <3>1, <3>2, <3>3, <4>1, <4>2
    <3> QED BY <3>4, <3>5
  <2> QED BY <2>2 DEF ListIntact
<1> QED BY <1>6, <1>7, <1>8

\* The elements of src go, as a segment, between places p and p + 1 of the circle of
\* self, and src is left empty.
SpliceBetween(self, src, p) ==
  LET n == Len(lsRef[self])
      m == Len(lsRef[src])
  IN  /\ next' = [next EXCEPT ![At(self, p)] = At(src, 1), ![At(src, m)] = At(self, p + 1), ![src] = src]
      /\ prev' = [prev EXCEPT ![At(self, p + 1)] = At(src, m), ![At(src, 1)] = At(self, p), ![src] = src]
      /\ lsRef' \in [LsHeads -> Seq(LsNodes)]
      /\ \A h \in LsHeads : h # self /\ h # src => lsRef'[h] = lsRef[h]
      /\ lsRef'[src] = << >> /\ Len(lsRef'[self]) = n + m
      /\ \A k \in 1..n + m :
           lsRef'[self][k] = IF k <= p THEN lsRef[self][k]
                             ELSE IF k <= p + m THEN lsRef[src][k - p] ELSE lsRef[self][k - m]

LEMMA SplicedAt ==
  ASSUME LsInv, NEW self \in LsHeads, NEW src \in LsHeads, self # src,
         NEW p \in 0..Len(lsRef[self]), Len(lsRef[src]) > 0, SpliceBetween(self, src, p)
  PROVE  LsInv'
<1> USE DEF LsInv
<1> DEFINE n == Len(lsRef[self])
           m == Len(lsRef[src])
<1>0. /\ lsRef \in [LsHeads -> Seq(LsNodes)] /\ n \in Nat /\ m \in Nat
      /\ m >= 1 /\ p \in Int /\ p >= 0 /\ p <= n
      /\ DOMAIN lsRef[self] = 1..n /\ DOMAIN lsRef[src] = 1..m
  BY DEF LsTypes
<1>r. /\ lsRef' \in [LsHeads -> Seq(LsNodes)] /\ lsRef'[src] = << >>
      /\ \A h \in LsHeads : h # self /\ h # src => lsRef'[h] = lsRef[h]
      /\ Len(lsRef'[self]) = n + m /\ DOMAIN lsRef'[self] = 1..n + m
      /\ \A k \in 1..n + m :
           lsRef'[self][k] = IF k <= p THEN lsRef[self][k]
                             ELSE IF k <= p + m THEN lsRef[src][k - p] ELSE lsRef[self][k - m]
  <2>1. /\ lsRef' \in [LsHeads -> Seq(LsNodes)] /\ lsRef'[src] = << >>
        /\ \A h \in LsHeads : h # self /\ h # src => lsRef'[h] = lsRef[h]
        /\ Len(lsRef'[self]) = n + m
        /\ \A k \in 1..n + m :
             lsRef'[self][k] = IF k <= p THEN lsRef[self][k]
                               ELSE IF k <= p + m THEN lsRef[src][k - p] ELSE lsRef[self][k - m]
    BY DEF SpliceBetween
  <2>2. DOMAIN lsRef'[self] = 1..n + m
    <3>1. lsRef'[self] \in Seq(LsNodes)
      BY <2>1
    <3> QED BY <2>1, <3>1
  <2> QED BY <2>1, <2>2
<1>1. /\ At(self, p) \in LsAll /\ At(self, p + 1) \in LsAll /\ At(src, 1) \in LsAll
      /\ At(src, m) \in LsAll /\ src \in LsAll /\ At(src, 0) = src /\ At(src, m + 1) = src
      /\ At(src, 1) \in LsNodes /\ At(src, m) \in LsNodes
  <2>1. p \in 0..n + 1 /\ p + 1 \in 0..n + 1 /\ 1 \in 1..m /\ m \in 1..m /\ 1 \in 0..m + 1 /\ m \in 0..m + 1
    BY <1>0
  <2> QED BY <2>1, Places DEF LsAll
<1>2. /\ At(self, p) # At(src, m) /\ At(self, p) # src /\ At(src, m) # src
      /\ At(self, p + 1) # At(src, 1) /\ At(self, p + 1) # src /\ At(src, 1) # src
  <2>1. p \in 0..n /\ 0 \in 0..m /\ m \in 0..m /\ m # 0 /\ 0 + 1 = 1
    BY <1>0
  <2>2. At(self, p) # At(src, m) /\ At(self, p) # src /\ At(src, m) # src
    BY <1>1, <2>1, Places
  <2>3. At(self, p + 1) # At(src, 0 + 1) /\ At(self, p + 1) # At(src, m + 1) /\ At(src, 0 + 1) # At(src, m + 1)
    BY <2>1, Places
  <2> QED BY <1>1, <2>1, <2>2, <2>3
<1>3. next \in [LsAll -> LsAll] /\ prev \in [LsAll -> LsAll]
  BY DEF LsTypes
<1>4. LsTypes'
  BY <1>1, <1>3 DEF LsTypes, SpliceBetween
<1>5. /\ next'[At(self, p)] = At(src, 1) /\ next'[At(src, m)] = At(self, p + 1) /\ next'[src] = src
      /\ \A x \in LsAll : x \notin {At(self, p), At(src, m), src} => next'[x] = next[x]
      /\ prev'[At(self, p + 1)] = At(src, m) /\ prev'[At(src, 1)] = At(self, p) /\ prev'[src] = src
      /\ \A x \in LsAll : x \notin {At(self, p + 1), At(src, 1), src} => prev'[x] = prev[x]
  BY <1>1, <1>2, <1>3 DEF SpliceBetween
\* Where the node at a place stood before.
<1>6. /\ At(src, 0)' = src /\ At(src, 1)' = src /\ Len(lsRef'[src]) = 0
      /\ \A h \in LsHeads : h # self /\ h # src => \A k : At(h, k)' = At(h, k)
  BY <1>r DEF At
<1>7. /\ \A k \in 0..p : At(self, k)' = At(self, k)
      /\ \A k \in p + 1..p + m : At(self, k)' = At(src, k - p)
      /\ \A k \in p + m + 1..n + m + 1 : At(self, k)' = At(self, k - m)
  <2>1. \A k : At(self, k)' = IF k \in 1..n + m THEN lsRef'[self][k] ELSE self
    BY <1>r DEF At
  <2>2. \A k : At(self, k) = IF k \in 1..n THEN lsRef[self][k] ELSE self
    BY <1>0 DEF At
  <2>3. \A k : At(src, k) = IF k \in 1..m THEN lsRef[src][k] ELSE src
    BY <1>0 DEF At
  <2>4. ASSUME NEW k \in 0..p
        PROVE  At(self, k)' = At(self, k)
    BY <1>0, <1>r, <2>1, <2>2, SMTT(60)
  <2>5. ASSUME NEW k \in p + 1..p + m
        PROVE  At(self, k)' = At(src, k - p)
    <3>1. k \in 1..n + m /\ k - p \in 1..m /\ ~(k <= p) /\ k <= p + m
      BY <1>0
    <3> QED BY <1>r, <2>1, <2>3, <3>1
  <2>6. ASSUME NEW k \in p + m + 1..n + m + 1
        PROVE  At(self, k)' = At(self, k - m)
    <3>1. (k \in 1..n + m <=> k - m \in 1..n) /\ ~(k <= p) /\ ~(k <= p + m)
      BY <1>0
    <3> QED BY <1>r, <2>1, <2>2, <3>1
  <2> QED BY <2>4, <2>5, <2>6
<1>8. OnePlaceEach'
  <2> DEFINE From(g, j, f, a) ==
               /\ a \in 1..Len(lsRef[f]) /\ lsRef'[g][j] = lsRef[f][a]
               /\ \/ g # self /\ f = g /\ a = j
                  \/ g = self /\ f = self /\ j <= p /\ a = j
                  \/ g = self /\ f = src /\ j > p /\ j <= p + m /\ a = j - p
                  \/ g = self /\ f = self /\ j > p + m /\ a = j - m
  <2>1. ASSUME NEW g \in LsHeads, NEW j \in 1..Len(lsRef'[g])
        PROVE  \E f \in LsHeads, a \in Int : From(g, j, f, a)
    <3>0. g # src /\ j \in Int /\ (g = self => j \in 1..n + m)
      BY <1>0, <1>r, SMTT(60)
    <3>1. CASE g # self
      <4>1. From(g, j, g, j)
        BY <1>r, <3>0, <3>1
      <4> QED BY <3>0, <4>1
    <3>2. CASE g = self /\ j <= p
      <4>1. j \in 1..n
        BY <1>0, <3>0, <3>2
      <4>2. From(g, j, self, j)
        BY <1>r, <3>0, <3>2, <4>1
      <4> QED BY <3>0, <4>2
    <3>3. CASE g = self /\ j > p /\ j <= p + m
      <4>1. j - p \in 1..m /\ j - p \in Int /\ ~(j <= p)
        BY <1>0, <3>0, <3>3
      <4>2. From(g, j, src, j - p)
        BY <1>r, <3>0, <3>3, <4>1
      <4> QED BY <4>1, <4>2
    <3>4. CASE g = self /\ j > p + m
      <4>1. j - m \in 1..n /\ j - m \in Int /\ ~(j <= p) /\ ~(j <= p + m)
        BY <1>0, <3>0, <3>4
      <4>2. From(g, j, self, j - m)
        BY <1>r, <3>0, <3>4, <4>1
      <4> QED BY <4>1, <4>2
    <3>5. j <= p \/ (j > p /\ j <= p + m) \/ j > p + m
      BY <1>0, <3>0
    <3> QED BY <3>1, <3>2, <3>3, <3>4, <3>5
  <2>2. ASSUME NEW g \in LsHeads, NEW h \in LsHeads,
               NEW j \in 1..Len(lsRef'[g]), NEW k \in 1..Len(lsRef'[h]),
               lsRef'[g][j] = lsRef'[h][k]
        PROVE  g = h /\ j = k
    <3>1. PICK f \in LsHeads, a \in Int : From(g, j, f, a)
      BY <2>1
    <3>2. PICK e \in LsHeads, b \in Int : From(h, k, e, b)
      BY <2>1
    <3>3. f = e /\ a = b
      <4>1. lsRef[f][a] = lsRef[e][b]
        BY <2>2, <3>1, <3>2
      <4>2. a \in 1..Len(lsRef[f]) /\ b \in 1..Len(lsRef[e])
        BY <3>1, <3>2
      <4> HIDE DEF From
      <4> QED BY <4>1, <4>2, SMTT(60) DEF OnePlaceEach
    <3>4. j \in Int /\ k \in Int /\ a \in Int /\ b \in Int /\ g # src /\ h # src
      BY <1>r, SMTT(60)
    <3>5. g = h
      BY <3>1, <3>2, <3>3, <3>4
    <3>6. j = k
      BY <1>0, <3>1, <3>2, <3>3, <3>4, SMTT(60)
    <3> QED BY <3>5, <3>6
  <2> QED BY <2>2 DEF OnePlaceEach
<1>9. ListIntact'
  <2>1. ASSUME NEW h \in LsHeads, NEW a \in 0..Len(lsRef[h]),
               <<h, a>> # <<self, p>>, <<h, a>> # <<src, 0>>, <<h, a>> # <<src, m>>
        PROVE  next'[At(h, a)] = At(h, a + 1) /\ prev'[At(h, a + 1)] = At(h, a)
    <3>1. next[At(h, a)] = At(h, a + 1) /\ prev[At(h, a + 1)] = At(h, a)
      BY DEF ListIntact
    <3>2. p \in 0..n /\ 0 \in 0..m /\ m \in 0..m /\ 0 + 1 = 1
      BY <1>0
    <3>3. At(h, a) \notin {At(self, p), At(src, m), src}
      <4>1. At(h, a) # At(self, p)
        BY <2>1, <3>2, Places
      <4>2. At(h, a) # At(src, m) /\ At(h, a) # At(src, 0)
        BY <2>1, <3>2, Places
      <4> QED BY <1>1, <4>1, <4>2
    <3>4. At(h, a + 1) \notin {At(self, p + 1), At(src, 0 + 1), At(src, m + 1)}
      BY <2>1, <3>2, Places, SMTT(60)
    <3>5. At(h, a) \in LsAll /\ At(h, a + 1) \in LsAll
      <4>1. Len(lsRef[h]) \in Nat
        BY <1>0
      <4>2. a \in 0..Len(lsRef[h]) + 1 /\ a + 1 \in 0..Len(lsRef[h]) + 1
        BY <4>1
      <4> QED BY <4>2, Places
    <3> QED BY <1>1, <1>5, <3>1, <3>2, <3>3, <3>4, <3>5
  <2>2. ASSUME NEW h \in LsHeads, NEW k \in 0..Len(lsRef'[h])
        PROVE  next'[At(h, k)'] = At(h, k + 1)' /\ prev'[At(h, k + 1)'] = At(h, k)'
    <3>1. CASE h # self /\ h # src
      BY <1>6, <1>r, <2>1, <3>1, SMTT(60)
    <3>2. CASE h = src
      <4>1. k = 0 /\ 0 + 1 = 1
        BY <1>6, <3>2
      <4> QED BY <1>5, <1>6, <3>2, <4>1
    <3>3. CASE h = self
      <4>0. k \in 0..n + m /\ k \in Int
        BY <1>0, <1>r, <3>3
      <4>1. CASE k < p
        <5>1. k \in 0..p /\ k + 1 \in 0..p /\ k \in 0..n /\ k # p
          BY <1>0, <4>0, <4>1
        <5>2. next'[At(self, k)] = At(self, k + 1) /\ prev'[At(self, k + 1)] = At(self, k)
          BY <2>1, <5>1
        <5> QED BY <1>7, <3>3, <5>1, <5>2
      <4>2. CASE k = p
        <5>1. k \in 0..p /\ k + 1 \in p + 1..p + m /\ (k + 1) - p = 1
          BY <1>0, <4>0, <4>2
        <5>2. At(self, k)' = At(self, p) /\ At(self, k + 1)' = At(src, 1)
          BY <1>7, <4>2, <5>1
        <5> QED BY <1>5, <3>3, <5>2
      <4>3. CASE k > p /\ k < p + m
        <5>1. /\ k \in p + 1..p + m /\ k + 1 \in p + 1..p + m /\ (k + 1) - p = (k - p) + 1
              /\ k - p \in 0..m /\ k - p # 0 /\ k - p # m
          BY <1>0, <4>0, <4>3
        <5>2. /\ next'[At(src, k - p)] = At(src, (k - p) + 1)
              /\ prev'[At(src, (k - p) + 1)] = At(src, k - p)
          BY <2>1, <5>1
        <5>3. At(self, k)' = At(src, k - p) /\ At(self, k + 1)' = At(src, (k - p) + 1)
          BY <1>7, <5>1
        <5> QED BY <3>3, <5>2, <5>3
      <4>4. CASE k = p + m
        <5>1. k \in p + 1..p + m /\ k + 1 \in p + m + 1..n + m + 1 /\ k - p = m /\ (k + 1) - m = p + 1
          BY <1>0, <4>0, <4>4
        <5>2. At(self, k)' = At(src, m) /\ At(self, k + 1)' = At(self, p + 1)
          BY <1>7, <5>1
        <5> QED BY <1>5, <3>3, <5>2
      <4>5. CASE k > p + m
        <5>1. /\ k \in p + m + 1..n + m + 1 /\ k + 1 \in p + m + 1..n + m + 1
              /\ (k + 1) - m = (k - m) + 1 /\ k - m \in 0..n /\ k - m # p
          BY <1>0, <4>0, <4>5
        <5>2. /\ next'[At(self, k - m)] = At(self, (k - m) + 1)
              /\ prev'[At(self, (k - m) + 1)] = At(self, k - m)
          BY <2>1, <5>1
        <5>3. At(self, k)' = At(self, k - m) /\ At(self, k + 1)' = At(self, (k - m) + 1)
          BY <1>7, <5>1
        <5> QED BY <3>3, <5>2, <5>3
      <4>6. k < p \/ k = p \/ (k > p /\ k < p + m) \/ k = p + m \/ k > p + m
        <5>1. k \in Int /\ p \in Int /\ m \in Int /\ m >= 1
          BY <1>0, <4>0
        <5> HIDE DEF m
        <5> QED BY <5>1
      <4> QED BY <4>1, <4>2, <4>3, <4>4, <4>5, <4>6
    <3> QED BY <3>1, <3>2, <3>3
  <2> QED BY <2>2 DEF ListIntact
<1> QED BY <1>4, <1>8, <1>9

\* ct_list_splice_prev and ct_list_splice_next.
LEMMA ListSplices ==
  ASSUME LsInv, NEW self \in LsHeads, NEW src \in LsHeads, self # src,
         SplicePrev(self, src) \/ SpliceNext(self, src)
  PROVE  LsInv'
<1> USE DEF LsInv
<1> DEFINE n == Len(lsRef[self])
           m == Len(lsRef[src])
<1>0. /\ lsRef \in [LsHeads -> Seq(LsNodes)] /\ lsRef[self] \in Seq(LsNodes) /\ lsRef[src] \in Seq(LsNodes)
      /\ next \in [LsAll -> LsAll] /\ prev \in [LsAll -> LsAll] /\ n \in Nat /\ m \in Nat
  BY DEF LsTypes
<1>1. /\ next[src] = At(src, 1) /\ prev[src] = At(src, m) /\ next[self] = At(self, 1) /\ prev[self] = At(self, n)
      /\ At(self, 0) = self /\ At(self, n + 1) = self /\ At(src, 0) = src /\ At(src, m + 1) = src
  <2>1. 0 \in 0..m /\ m \in 0..m /\ 0 \in 0..n /\ n \in 0..n /\ 0 + 1 = 1
    BY <1>0
  <2>2. /\ next[At(src, 0)] = At(src, 0 + 1) /\ prev[At(src, m + 1)] = At(src, m)
        /\ next[At(self, 0)] = At(self, 0 + 1) /\ prev[At(self, n + 1)] = At(self, n)
    BY <2>1 DEF ListIntact
  <2> QED BY <2>1, <2>2, Places
<1>2. m > 0
  <2>1. CASE m = 0
    <3>1. At(src, 0 + 1) = src /\ 0 + 1 = 1
      BY <1>1, <2>1
    <3>2. next[src] # src
      BY DEF SplicePrev, SpliceNext
    <3> QED BY <1>1, <3>1, <3>2
  <2> QED BY <1>0, <2>1
<1>3. /\ At(self, 0) # At(src, m) /\ At(self, n) # At(src, m) /\ At(src, m) # src
      /\ At(self, 1) # At(src, 1) /\ At(self, n + 1) # At(src, 1) /\ At(src, 1) # src
      /\ At(self, 1) # src /\ At(self, n) # src /\ self # src
      /\ At(self, n) \in LsAll /\ At(self, 1) \in LsAll /\ At(src, 1) \in LsAll /\ At(src, m) \in LsAll
  <2>1. /\ 0 \in 0..m /\ m \in 0..m /\ 0 \in 0..n /\ n \in 0..n /\ 0 + 1 = 1 /\ m # 0
        /\ 1 \in 1..m /\ m \in 1..m /\ 1 \in 0..n + 1 /\ n \in 0..n + 1
    BY <1>0, <1>2
  <2>2. At(self, 0) # At(src, m) /\ At(self, n) # At(src, m) /\ At(src, m) # At(src, 0) /\ At(self, n) # At(src, 0)
    BY <2>1, Places
  <2>3. /\ At(self, 0 + 1) # At(src, 0 + 1) /\ At(self, n + 1) # At(src, 0 + 1)
        /\ At(src, 0 + 1) # At(src, m + 1) /\ At(self, 0 + 1) # At(src, m + 1)
    BY <2>1, Places
  <2>4. At(self, n) \in LsAll /\ At(self, 1) \in LsAll /\ At(src, 1) \in LsAll /\ At(src, m) \in LsAll
    BY <2>1, Places DEF LsAll
  <2> QED BY <1>1, <2>1, <2>2, <2>3, <2>4
<1>4. self \in LsAll /\ src \in LsAll
  BY DEF LsAll
<1>5. CASE SplicePrev(self, src)
  <2> DEFINE c == lsRef[src] \o lsRef[self]
  <2>1. /\ c \in Seq(LsNodes) /\ Len(c) = m + n
        /\ \A k \in 1..m + n : c[k] = IF k <= m THEN lsRef[src][k] ELSE lsRef[self][k - m]
    BY <1>0, JoinedElements
  <2>2. lsRef' = [lsRef EXCEPT ![self] = c, ![src] = << >>]
    BY <1>5 DEF SplicePrev
  <2> HIDE DEF c
  <2>3. /\ lsRef' \in [LsHeads -> Seq(LsNodes)] /\ lsRef'[self] = c /\ lsRef'[src] = << >>
        /\ \A h \in LsHeads : h # self /\ h # src => lsRef'[h] = lsRef[h]
    BY <1>0, <2>1, <2>2
  <2>4. Len(lsRef'[self]) = n + m
    BY <1>0, <2>1, <2>3
  <2>5. ASSUME NEW k \in 1..n + m
        PROVE  lsRef'[self][k] = IF k <= 0 THEN lsRef[self][k]
                                 ELSE IF k <= 0 + m THEN lsRef[src][k - 0] ELSE lsRef[self][k - m]
    <3>1. k \in 1..m + n /\ ~(k <= 0) /\ k - 0 = k /\ 0 + m = m
      BY <1>0
    <3> QED BY <2>1, <2>3, <3>1
  <2>6. /\ next' = [next EXCEPT ![At(src, m)] = At(self, 1), ![At(self, 0)] = At(src, 1), ![src] = src]
        /\ prev' = [prev EXCEPT ![At(self, 1)] = At(src, m), ![At(src, 1)] = At(self, 0), ![src] = src]
    BY <1>1, <1>5 DEF SplicePrev
  <2>7. next' = [next EXCEPT ![At(self, 0)] = At(src, 1), ![At(src, m)] = At(self, 1), ![src] = src]
    BY <1>0, <1>1, <1>3, <1>4, <2>6
  <2>8. SpliceBetween(self, src, 0)
    <3>1. 0 + 1 = 1
      OBVIOUS
    <3>2. /\ next' = [next EXCEPT ![At(self, 0)] = At(src, 1), ![At(src, m)] = At(self, 0 + 1), ![src] = src]
          /\ prev' = [prev EXCEPT ![At(self, 0 + 1)] = At(src, m), ![At(src, 1)] = At(self, 0), ![src] = src]
      BY <2>6, <2>7, <3>1
    <3> QED BY <2>3, <2>4, <2>5, <3>2 DEF SpliceBetween
  <2>9. 0 \in 0..n
    BY <1>0
  <2> QED BY <1>2, <2>8, <2>9, SplicedAt
<1>6. CASE SpliceNext(self, src)
  <2> DEFINE c == lsRef[self] \o lsRef[src]
  <2>1. /\ c \in Seq(LsNodes) /\ Len(c) = n + m
        /\ \A k \in 1..n + m : c[k] = IF k <= n THEN lsRef[self][k] ELSE lsRef[src][k - n]
    BY <1>0, JoinedElements
  <2>2. lsRef' = [lsRef EXCEPT ![self] = c, ![src] = << >>]
    BY <1>6 DEF SpliceNext
  <2> HIDE DEF c
  <2>3. /\ lsRef' \in [LsHeads -> Seq(LsNodes)] /\ lsRef'[self] = c /\ lsRef'[src] = << >>
        /\ \A h \in LsHeads : h # self /\ h # src => lsRef'[h] = lsRef[h]
    BY <1>0, <2>1, <2>2
  <2>4. Len(lsRef'[self]) = n + m
    BY <2>1, <2>3
  <2>5. ASSUME NEW k \in 1..n + m
        PROVE  lsRef'[self][k] = IF k <= n THEN lsRef[self][k]
                                 ELSE IF k <= n + m THEN lsRef[src][k - n] ELSE lsRef[self][k - m]
    <3>1. k <= n + m
      BY <1>0
    <3> QED BY <2>1, <2>3, <3>1
  <2>6. /\ next' = [next EXCEPT ![At(self, n)] = At(src, 1), ![At(src, m)] = At(self, n + 1), ![src] = src]
        /\ prev' = [prev EXCEPT ![At(src, 1)] = At(self, n), ![At(self, n + 1)] = At(src, m), ![src] = src]
    BY <1>1, <1>6 DEF SpliceNext
  <2>7. prev' = [prev EXCEPT ![At(self, n + 1)] = At(src, m), ![At(src, 1)] = At(self, n), ![src] = src]
    BY <1>0, <1>1, <1>3, <1>4, <2>6
  <2>8. SpliceBetween(self, src, n)
    BY <2>3, <2>4, <2>5, <2>6, <2>7 DEF SpliceBetween
  <2>9. n \in 0..n
    BY <1>0
  <2> QED BY <1>2, <2>8, <2>9, SplicedAt
<1> QED BY <1>5, <1>6

LEMMA LsStep == LsInv /\ [LsNext]_lsVars => LsInv'
<1> SUFFICES ASSUME LsInv, [LsNext]_lsVars
             PROVE  LsInv'
  OBVIOUS
<1>1. CASE UNCHANGED lsVars
  BY <1>1 DEF lsVars, LsInv, LsTypes, OnePlaceEach, ListIntact, At
<1>2. ASSUME NEW h \in LsHeads, NEW node \in Unlisted,
             \/ ListAppend(h, node) \/ ListPrepend(h, node)
             \/ \E i \in DOMAIN lsRef[h] : ListBefore(h, i, node) \/ ListAfter(h, i, node)
      PROVE  LsInv'
  BY <1>2, ListInserts
<1>3. ASSUME NEW h \in LsHeads, NEW i \in DOMAIN lsRef[h], ListRemove(h, i)
      PROVE  LsInv'
  BY <1>3, ListRemoves
<1>4. ASSUME NEW self \in LsHeads, NEW src \in LsHeads, self # src,
             SplicePrev(self, src) \/ SpliceNext(self, src)
      PROVE  LsInv'
  BY <1>4, ListSplices
<1> QED BY <1>1, <1>2, <1>3, <1>4 DEF LsNext

\* Walking a list either way meets its elements in order, after any insertions,
\* removals and splices between any lists of any lengths (list.c).
THEOREM ListLinked == LsSpec => []ListIntact
<1>1. LsInit => LsInv
  <2> SUFFICES ASSUME LsInit
               PROVE  LsInv
    OBVIOUS
  <2>1. LsTypes /\ \A h \in LsHeads : Len(lsRef[h]) = 0 /\ lsRef[h] = << >>
    BY DEF LsInit, LsTypes
  <2>2. OnePlaceEach
    BY <2>1 DEF OnePlaceEach
  <2>3. \A h \in LsHeads : \A k : At(h, k) = h
    BY <2>1 DEF At
  <2>4. ListIntact
    BY <2>1, <2>3 DEF ListIntact, LsInit, LsAll
  <2> QED BY <2>1, <2>2, <2>4 DEF LsInv
<1>2. LsInv => ListIntact
  BY DEF LsInv
<1> QED BY <1>1, <1>2, LsStep, PTL DEF LsSpec

-----------------------------------------------------------------------------
(* The vector and the array. *)

Cells == VcIds \union {Zero, Junk}
Values == VcIds \union {Zero}

\* The storage v holds the elements of ref, in order, and no fresh cell among them.
Holds(v, ref) ==
  /\ v \in [mem : Seq(Cells), size : Nat] /\ v.size <= Len(v.mem)
  /\ ref \in Seq(Values) /\ Len(ref) = v.size
  /\ \A k \in 1..v.size : v.mem[k] = ref[k]

LEMMA HeldContents ==
  ASSUME NEW v, NEW ref, Holds(v, ref)
  PROVE  Contents(v) = ref /\ v.size <= Len(v.mem)
<1> DEFINE c == SubSeq(v.mem, 1, v.size)
<1>1. /\ v.mem \in Seq(Cells) /\ v.size \in Nat /\ v.size <= Len(v.mem)
      /\ ref \in Seq(Cells) /\ Len(ref) = v.size /\ \A k \in 1..v.size : v.mem[k] = ref[k]
  BY DEF Holds, Cells, Values
<1>2. c \in Seq(Cells) /\ Len(c) = v.size /\ \A k \in 1..v.size : c[k] = v.mem[k]
  BY <1>1
<1> HIDE DEF c
<1>3. c = ref
  BY <1>1, <1>2, SameElements
<1> QED BY <1>1, <1>3 DEF Contents, c

\* A reserve, successful or not, keeps what the storage holds.
LEMMA ReservedHolds ==
  ASSUME NEW v, NEW ref, Holds(v, ref), NEW n \in Nat, NEW r \in Reserved(v, n)
  PROVE  /\ Holds(r.v, ref) /\ r.v.size = v.size /\ r.ok \in BOOLEAN
         /\ r.ok => Len(r.v.mem) >= n
<1>0. v.mem \in Seq(Cells) /\ v.size \in Nat /\ Len(v.mem) \in Nat
  BY DEF Holds
<1>1. CASE r = Failed(v)
  BY <1>1 DEF Failed
<1>2. CASE n <= Len(v.mem) /\ r = Done(v)
  BY <1>0, <1>2 DEF Done
<1> DEFINE add == [i \in 1..(RoundUp(n) - Len(v.mem)) |-> Junk]
           m == v.mem \o add
<1>3. CASE ~(n <= Len(v.mem)) /\ r = Done([v EXCEPT !.mem = m])
  <2>1. RoundUp(n) \in Nat /\ RoundUp(n) >= n
    BY RoundUpFits
  <2>2. add \in Seq(Cells) /\ Len(add) = RoundUp(n) - Len(v.mem)
    <3>1. PICK x \in Nat : x = RoundUp(n) - Len(v.mem)
      BY <1>0, <1>3, <2>1
    <3>2. add = [i \in 1..x |-> Junk]
      BY <3>1
    <3> HIDE DEF add
    <3> QED BY <3>1, <3>2 DEF Cells
  <2> HIDE DEF add
  <2>3. /\ m \in Seq(Cells) /\ Len(m) = Len(v.mem) + Len(add)
        /\ \A k \in 1..Len(v.mem) + Len(add) : m[k] = IF k <= Len(v.mem) THEN v.mem[k] ELSE add[k - Len(v.mem)]
    BY <1>0, <2>2, JoinedElements
  <2> HIDE DEF m
  <2>4. r.ok = TRUE /\ r.v = [v EXCEPT !.mem = m]
    BY <1>3 DEF Done
  <2>5. r.v \in [mem : Seq(Cells), size : Nat] /\ r.v.mem = m /\ r.v.size = v.size
    BY <2>3, <2>4, SMTT(60) DEF Holds
  <2>6. Len(m) = RoundUp(n) /\ Len(m) >= n /\ Len(v.mem) <= Len(m)
    BY <1>0, <1>3, <2>1, <2>2, <2>3
  <2>7. v.size <= Len(v.mem) /\ \A k \in 1..v.size : v.mem[k] = ref[k]
    BY DEF Holds
  <2>8. \A k \in 1..v.size : m[k] = v.mem[k]
    BY <1>0, <2>2, <2>3, <2>6, <2>7, SMTT(60)
  <2>9. v.size <= Len(m)
    BY <1>0, <2>1, <2>6, <2>7
  <2> QED BY <2>4, <2>5, <2>6, <2>7, <2>8, <2>9 DEF Holds
<1>4. r = Failed(v) \/ (n <= Len(v.mem) /\ r = Done(v))
      \/ (~(n <= Len(v.mem)) /\ r = Done([v EXCEPT !.mem = m]))
  BY DEF Reserved
<1> QED BY <1>1, <1>2, <1>3, <1>4

\* What a resize leaves of a sequence: its front, or all of it and zero elements.
Fitted(ref, n) ==
  IF n <= Len(ref) THEN SubSeq(ref, 1, n) ELSE ref \o [i \in 1..(n - Len(ref)) |-> Zero]

LEMMA FittedElements ==
  ASSUME NEW ref \in Seq(Values), NEW n \in Nat
  PROVE  /\ Fitted(ref, n) \in Seq(Values) /\ Len(Fitted(ref, n)) = n
         /\ \A k \in 1..n : Fitted(ref, n)[k] = IF k <= Len(ref) THEN ref[k] ELSE Zero
<1>0. Len(ref) \in Nat
  OBVIOUS
<1>1. CASE n <= Len(ref)
  BY <1>0, <1>1 DEF Fitted
<1>2. CASE ~(n <= Len(ref))
  <2> DEFINE add == [i \in 1..(n - Len(ref)) |-> Zero]
  <2>1. add \in Seq(Values) /\ Len(add) = n - Len(ref) /\ \A k \in 1..(n - Len(ref)) : add[k] = Zero
    BY <1>0, <1>2 DEF Values
  <2>2. Fitted(ref, n) = ref \o add
    BY <1>2 DEF Fitted
  <2> HIDE DEF add
  <2>3. /\ ref \o add \in Seq(Values) /\ Len(ref \o add) = Len(ref) + Len(add)
        /\ \A k \in 1..Len(ref) + Len(add) : (ref \o add)[k] = IF k <= Len(ref) THEN ref[k] ELSE add[k - Len(ref)]
    BY <2>1, JoinedElements
  <2>4. ASSUME NEW k \in 1..n
        PROVE  (ref \o add)[k] = IF k <= Len(ref) THEN ref[k] ELSE Zero
    BY <1>0, <1>2, <2>1, <2>3
  <2> QED BY <1>0, <2>1, <2>2, <2>3, <2>4
<1> QED BY <1>1, <1>2

LEMMA ResizedHolds ==
  ASSUME NEW v, NEW ref, Holds(v, ref), NEW n \in Nat, NEW r \in Resized(v, n)
  PROVE  r.ok \in BOOLEAN /\ Holds(r.v, IF r.ok THEN Fitted(ref, n) ELSE ref)
<1>1. PICK q \in Reserved(v, n) :
        r = IF q.ok
            THEN Done([mem |-> [i \in DOMAIN q.v.mem |-> IF v.size < i /\ i <= n THEN Zero ELSE q.v.mem[i]],
                       size |-> n])
            ELSE q
  BY DEF Resized
<1>2. Holds(q.v, ref) /\ q.v.size = v.size /\ q.ok \in BOOLEAN /\ (q.ok => Len(q.v.mem) >= n)
  BY ReservedHolds
<1>3. CASE ~q.ok
  BY <1>1, <1>2, <1>3
<1>4. CASE q.ok
  <2> DEFINE m == [i \in DOMAIN q.v.mem |-> IF v.size < i /\ i <= n THEN Zero ELSE q.v.mem[i]]
  <2>0. /\ q.v.mem \in Seq(Cells) /\ v.size \in Nat /\ ref \in Seq(Values) /\ Len(ref) = v.size
        /\ \A k \in 1..v.size : q.v.mem[k] = ref[k]
    BY <1>2 DEF Holds
  <2>1. m \in Seq(Cells) /\ Len(m) = Len(q.v.mem) /\ Len(m) \in Nat
        /\ \A k \in 1..Len(q.v.mem) : m[k] = IF v.size < k /\ k <= n THEN Zero ELSE q.v.mem[k]
    BY <2>0, SMTT(60) DEF Cells
  <2>2. r.ok = TRUE /\ r.v = [mem |-> m, size |-> n]
    BY <1>1, <1>4 DEF Done
  <2> HIDE DEF m
  <2>3. /\ Fitted(ref, n) \in Seq(Values) /\ Len(Fitted(ref, n)) = n
        /\ \A k \in 1..n : Fitted(ref, n)[k] = IF k <= Len(ref) THEN ref[k] ELSE Zero
    BY <2>0, FittedElements
  <2>4. ASSUME NEW k \in 1..n
        PROVE  m[k] = Fitted(ref, n)[k]
    <3>1. k \in 1..Len(q.v.mem)
      BY <1>2, <1>4, <2>1
    <3>2. CASE k <= v.size
      BY <2>0, <2>1, <2>3, <3>1, <3>2
    <3>3. CASE ~(k <= v.size)
      BY <2>0, <2>1, <2>3, <3>1, <3>3
    <3> QED BY <3>2, <3>3
  <2>5. r.v \in [mem : Seq(Cells), size : Nat] /\ r.v.mem = m /\ r.v.size = n /\ n <= Len(m)
    BY <1>2, <1>4, <2>1, <2>2
  <2>6. Holds(r.v, Fitted(ref, n))
    BY <2>3, <2>4, <2>5 DEF Holds
  <2> QED BY <2>2, <2>6
<1> QED BY <1>2, <1>3, <1>4

\* A value put into the reference.
LEMMA ValueInserted ==
  ASSUME NEW ref \in Seq(Values), NEW i \in 1..Len(ref) + 1, NEW x \in Values, NEW new,
         IsInsertion(new, ref, i, x)
  PROVE  /\ new \in Seq(Values) /\ Len(new) = Len(ref) + 1 /\ Len(ref) \in Nat
         /\ \A k \in 1..Len(ref) + 1 :
              new[k] = IF k < i THEN ref[k] ELSE IF k = i THEN x ELSE ref[k - 1]
BY InsertElements

LEMMA InsertedHolds ==
  ASSUME NEW v, NEW ref, Holds(v, ref), NEW i \in Nat, NEW x \in Values, NEW r \in InsertedAt(v, i, x)
  PROVE  /\ r.ok \in BOOLEAN /\ (r.ok => i <= v.size)
         /\ Holds(r.v, IF r.ok THEN InsertAt(ref, i + 1, x) ELSE ref)
<1>0. v.size \in Nat /\ ref \in Seq(Values) /\ Len(ref) = v.size
  BY DEF Holds
<1>1. CASE i > v.size
  <2>1. r = Failed(v)
    BY <1>1 DEF InsertedAt
  <2>2. r.ok = FALSE /\ r.v = v
    BY <2>1 DEF Failed
  <2> QED BY <2>2
<1>2. CASE ~(i > v.size)
  <2>1. PICK q \in Reserved(v, v.size + 1) :
          r = IF q.ok
              THEN Done([mem |-> [k \in DOMAIN q.v.mem |->
                                    IF k = i + 1 THEN x
                                    ELSE IF i + 1 < k /\ k <= v.size + 1 THEN q.v.mem[k - 1]
                                    ELSE q.v.mem[k]],
                         size |-> v.size + 1])
              ELSE q
    BY <1>2 DEF InsertedAt
  <2>2. Holds(q.v, ref) /\ q.v.size = v.size /\ q.ok \in BOOLEAN /\ (q.ok => Len(q.v.mem) >= v.size + 1)
    <3>1. v.size + 1 \in Nat
      BY <1>0
    <3> QED BY <3>1, ReservedHolds
  <2>3. CASE ~q.ok
    BY <2>1, <2>2, <2>3
  <2>4. CASE q.ok
    <3> DEFINE m == [k \in DOMAIN q.v.mem |->
                       IF k = i + 1 THEN x
                       ELSE IF i + 1 < k /\ k <= v.size + 1 THEN q.v.mem[k - 1]
                       ELSE q.v.mem[k]]
               new == InsertAt(ref, i + 1, x)
    <3>0. /\ q.v.mem \in Seq(Cells) /\ Len(q.v.mem) \in Nat /\ Len(q.v.mem) >= v.size + 1
          /\ \A k \in 1..v.size : q.v.mem[k] = ref[k]
      BY <2>2, <2>4 DEF Holds
    <3>1. /\ m \in Seq(Cells) /\ Len(m) = Len(q.v.mem)
          /\ \A k \in 1..Len(q.v.mem) :
               m[k] = IF k = i + 1 THEN x
                      ELSE IF i + 1 < k /\ k <= v.size + 1 THEN q.v.mem[k - 1]
                      ELSE q.v.mem[k]
      <4>1. ASSUME NEW k \in 1..Len(q.v.mem)
            PROVE  m[k] \in Cells
        BY <1>0, <3>0, SMTT(60) DEF Cells, Values
      <4>2. m \in [1..Len(q.v.mem) -> Cells]
        <5>1. DOMAIN q.v.mem = 1..Len(q.v.mem)
          BY <3>0
        <5> QED BY <4>1, <5>1
      <4>3. m \in Seq(Cells) /\ Len(m) = Len(q.v.mem)
        <5> HIDE DEF m
        <5> QED BY <3>0, <4>2
      <4> QED BY <3>0, <4>3
    <3>2. r.ok = TRUE /\ r.v = [mem |-> m, size |-> v.size + 1]
      BY <2>1, <2>4 DEF Done
    <3> HIDE DEF m
    <3>3. PICK j \in 1..Len(ref) + 1 : j = i + 1
      BY <1>0, <1>2
    <3>4. /\ new \in Seq(Values) /\ Len(new) = Len(ref) + 1
          /\ \A k \in 1..Len(ref) + 1 : new[k] = IF k < j THEN ref[k] ELSE IF k = j THEN x ELSE ref[k - 1]
      <4>1. IsInsertion(new, ref, j, x)
        BY <3>3 DEF IsInsertion
      <4> HIDE DEF new
      <4>2. ref \in Seq(Values) /\ x \in Values
        BY <1>0
      <4> QED BY <4>1, <4>2, ValueInserted
    <3> HIDE DEF new
    <3>5. ASSUME NEW k \in 1..v.size + 1
          PROVE  m[k] = new[k]
      <4>1. k \in 1..Len(q.v.mem) /\ k \in 1..Len(ref) + 1 /\ k \in Int /\ j \in Int
        BY <1>0, <3>0
      <4>2. CASE k < j
        <5>1. k \in 1..v.size /\ k # i + 1 /\ ~(i + 1 < k)
          BY <1>0, <3>3, <4>1, <4>2
        <5> QED BY <3>0, <3>1, <3>4, <4>1, <4>2, <5>1
      <4>3. CASE k = j
        BY <3>1, <3>3, <3>4, <4>1, <4>3
      <4>4. CASE k > j
        <5>1. k - 1 \in 1..v.size /\ k # i + 1 /\ i + 1 < k /\ k <= v.size + 1 /\ ~(k < j) /\ k # j
          BY <1>0, <3>3, <4>1, <4>4
        <5> QED BY <3>0, <3>1, <3>4, <4>1, <5>1
      <4>5. k < j \/ k = j \/ k > j
        BY <4>1
      <4> QED BY <4>2, <4>3, <4>4, <4>5
    <3>6. /\ r.v \in [mem : Seq(Cells), size : Nat] /\ r.v.mem = m /\ r.v.size = v.size + 1
          /\ v.size + 1 <= Len(m) /\ Len(new) = v.size + 1
      BY <1>0, <3>0, <3>1, <3>2, <3>4
    <3>7. Holds(r.v, new)
      BY <3>4, <3>5, <3>6 DEF Holds
    <3>8. i <= v.size
      BY <1>0, <1>2
    <3>9. Holds(r.v, InsertAt(ref, i + 1, x))
      BY <3>7 DEF new
    <3> QED BY <3>2, <3>8, <3>9
  <2> QED BY <2>2, <2>3, <2>4
<1> QED BY <1>1, <1>2

LEMMA ErasedHolds ==
  ASSUME NEW v, NEW ref, Holds(v, ref), NEW i \in Nat, i < v.size
  PROVE  Erased(v, i).ok = TRUE /\ Holds(Erased(v, i).v, RemoveAt(ref, i + 1))
<1> DEFINE m == [k \in DOMAIN v.mem |-> IF i < k /\ k < v.size THEN v.mem[k + 1] ELSE v.mem[k]]
           new == RemoveAt(ref, i + 1)
<1>0. /\ v.size \in Nat /\ v.mem \in Seq(Cells) /\ Len(v.mem) \in Nat /\ v.size <= Len(v.mem)
      /\ ref \in Seq(Values) /\ Len(ref) = v.size /\ \A k \in 1..v.size : v.mem[k] = ref[k]
  BY DEF Holds
<1>1. Erased(v, i).ok = TRUE /\ Erased(v, i).v = [mem |-> m, size |-> v.size - 1]
  BY <1>0 DEF Erased, Done
<1>2. /\ m \in Seq(Cells) /\ Len(m) = Len(v.mem)
      /\ \A k \in 1..Len(v.mem) : m[k] = IF i < k /\ k < v.size THEN v.mem[k + 1] ELSE v.mem[k]
  <2>1. ASSUME NEW k \in 1..Len(v.mem)
        PROVE  m[k] \in Cells
    BY <1>0
  <2> QED BY <1>0, <2>1, SMTT(120)
<1> HIDE DEF m
<1>3. PICK j \in 1..Len(ref) : j = i + 1
  BY <1>0
<1>4. /\ new \in Seq(Values) /\ Len(new) = Len(ref) - 1
      /\ \A k \in 1..Len(ref) - 1 : new[k] = IF k < j THEN ref[k] ELSE ref[k + 1]
  <2>1. IsRemoval(new, ref, j)
    BY <1>3 DEF IsRemoval
  <2> HIDE DEF new
  <2> QED BY <1>0, <2>1, RemoveElements
<1> HIDE DEF new
<1>5. ASSUME NEW k \in 1..v.size - 1
      PROVE  m[k] = new[k]
  <2>1. k \in 1..Len(v.mem) /\ k \in 1..Len(ref) - 1 /\ k \in 1..v.size /\ k + 1 \in 1..v.size /\ k < v.size
    BY <1>0
  <2>2. CASE i < k
    <3>1. ~(k < j)
      BY <1>3, <2>2
    <3> QED BY <1>0, <1>2, <1>4, <2>1, <2>2, <3>1
  <2>3. CASE ~(i < k)
    <3>1. k < j
      BY <1>3, <2>3
    <3> QED BY <1>0, <1>2, <1>4, <2>1, <2>3, <3>1
  <2> QED BY <2>2, <2>3
<1>6. v.size - 1 \in Nat /\ v.size - 1 <= Len(m) /\ Len(new) = v.size - 1
  BY <1>0, <1>2, <1>4
<1>7. Holds([mem |-> m, size |-> v.size - 1], new)
  BY <1>2, <1>4, <1>5, <1>6 DEF Holds
<1> QED BY <1>1, <1>7 DEF new

\* A size set down, by a resize, a pop or a clear, keeps the front.
LEMMA CutHolds ==
  ASSUME NEW v, NEW ref, Holds(v, ref), NEW n \in Nat, n <= v.size
  PROVE  Holds([v EXCEPT !.size = n], SubSeq(ref, 1, n))
<1> DEFINE new == SubSeq(ref, 1, n)
<1>0. /\ v.size \in Nat /\ v.mem \in Seq(Cells) /\ Len(v.mem) \in Nat /\ v.size <= Len(v.mem)
      /\ ref \in Seq(Values) /\ Len(ref) = v.size /\ \A k \in 1..v.size : v.mem[k] = ref[k]
  BY DEF Holds
<1>1. new \in Seq(Values) /\ Len(new) = n /\ \A k \in 1..n : new[k] = ref[k]
  BY <1>0
<1> HIDE DEF new
<1>2. /\ [v EXCEPT !.size = n] \in [mem : Seq(Cells), size : Nat]
      /\ [v EXCEPT !.size = n].mem = v.mem /\ [v EXCEPT !.size = n].size = n
  BY DEF Holds
<1>3. n <= Len(v.mem) /\ \A k \in 1..n : k \in 1..v.size
  BY <1>0
<1>4. Holds([v EXCEPT !.size = n], new)
  BY <1>0, <1>1, <1>2, <1>3 DEF Holds
<1> QED BY <1>4 DEF new

LEMMA ShrunkHolds ==
  ASSUME NEW v, NEW ref, Holds(v, ref), NEW r \in Shrunk(v)
  PROVE  r.ok \in BOOLEAN /\ Holds(r.v, ref)
<1> DEFINE m == SubSeq(v.mem, 1, v.size)
<1>0. /\ v.size \in Nat /\ v.mem \in Seq(Cells) /\ Len(v.mem) \in Nat /\ v.size <= Len(v.mem)
      /\ ref \in Seq(Values) /\ Len(ref) = v.size /\ \A k \in 1..v.size : v.mem[k] = ref[k]
  BY DEF Holds
<1>1. CASE r = Done(v)
  <2>1. r.ok = TRUE /\ r.v = v
    BY <1>1 DEF Done
  <2> QED BY <2>1
<1>f. CASE r = Failed(v)
  <2>1. r.ok = FALSE /\ r.v = v
    BY <1>f DEF Failed
  <2> QED BY <2>1
<1>2. CASE r = Done([v EXCEPT !.mem = m])
  <2>1. m \in Seq(Cells) /\ Len(m) = v.size /\ \A k \in 1..v.size : m[k] = v.mem[k]
    BY <1>0
  <2> HIDE DEF m
  <2>2. r.ok = TRUE /\ r.v = [v EXCEPT !.mem = m]
    BY <1>2 DEF Done
  <2>3. r.v \in [mem : Seq(Cells), size : Nat] /\ r.v.mem = m /\ r.v.size = v.size
    BY <2>1, <2>2 DEF Holds
  <2>4. Holds(r.v, ref)
    BY <1>0, <2>1, <2>3 DEF Holds
  <2> QED BY <2>2, <2>4
<1>3. r = Done(v) \/ r = Failed(v) \/ r = Done([v EXCEPT !.mem = m])
  BY DEF Shrunk
<1> QED BY <1>1, <1>f, <1>2, <1>3

LEMMA NothingHolds == Holds(NoStorage, << >>)
BY DEF Holds, NoStorage

\* The elements with an identity in a sequence, and that each is there once.
Named(ref) == ToSet(ref) \ {Zero}
OnceEach(ref) == \A j, k \in 1..Len(ref) : ref[j] = ref[k] /\ ref[j] # Zero => j = k

LEMMA NamedInserted ==
  ASSUME NEW ref \in Seq(Values), OnceEach(ref), NEW i \in 1..Len(ref) + 1, NEW x \in Values,
         x = Zero \/ x \notin Named(ref)
  PROVE  /\ OnceEach(InsertAt(ref, i, x))
         /\ Named(InsertAt(ref, i, x)) = Named(ref) \union ({x} \ {Zero})
<1> DEFINE new == InsertAt(ref, i, x)
           n == Len(ref)
           Was(k) == IF k < i THEN k ELSE k - 1
<1>1. /\ new \in Seq(Values) /\ Len(new) = n + 1 /\ n \in Nat
      /\ \A k \in 1..n + 1 : new[k] = IF k < i THEN ref[k] ELSE IF k = i THEN x ELSE ref[k - 1]
  <2>1. IsInsertion(new, ref, i, x)
    BY DEF IsInsertion
  <2> HIDE DEF new
  <2> QED BY <2>1, ValueInserted
<1>2. DOMAIN new = 1..n + 1 /\ DOMAIN ref = 1..n
  BY <1>1
<1> HIDE DEF new
<1>3. ASSUME NEW k \in 1..n + 1, k # i
      PROVE  Was(k) \in 1..n /\ new[k] = ref[Was(k)]
  <2>1. CASE k < i
    BY <1>1, <1>3, <2>1
  <2>2. CASE ~(k < i)
    BY <1>1, <1>3, <2>2
  <2> QED BY <2>1, <2>2
<1>4. new[i] = x
  BY <1>1
<1>5. \A k \in 1..n : ref[k] \in Named(ref) \/ ref[k] = Zero
  BY <1>2 DEF Named, ToSet
<1>6. OnceEach(new)
  <2> SUFFICES ASSUME NEW j \in 1..n + 1, NEW k \in 1..n + 1, new[j] = new[k], new[j] # Zero
               PROVE  j = k
    BY <1>1 DEF OnceEach
  <2>1. CASE j = i \/ k = i
    BY <1>3, <1>4, <1>5, <2>1
  <2>2. CASE j # i /\ k # i
    <3>1. Was(j) = Was(k)
      <4>1. Was(j) \in 1..n /\ Was(k) \in 1..n /\ ref[Was(j)] = ref[Was(k)] /\ ref[Was(j)] # Zero
        BY <1>3, <2>2
      <4> HIDE DEF Was
      <4> QED BY <4>1 DEF OnceEach
    <3> QED BY <2>2, <3>1
  <2> QED BY <2>1, <2>2
<1>7. ASSUME NEW e, e # Zero
      PROVE  e \in ToSet(new) <=> e \in ToSet(ref) \/ e = x
  <2>1. ASSUME e \in ToSet(new)
        PROVE  e \in ToSet(ref) \/ e = x
    <3>1. PICK k \in 1..n + 1 : new[k] = e
      BY <1>2, <2>1 DEF ToSet
    <3>2. CASE k = i
      BY <1>4, <3>1, <3>2
    <3>3. CASE k # i
      <4>1. Was(k) \in 1..n /\ ref[Was(k)] = e
        BY <1>3, <3>1, <3>3
      <4> HIDE DEF Was
      <4> QED BY <1>2, <4>1 DEF ToSet
    <3> QED BY <3>2, <3>3
  <2>2. ASSUME e \in ToSet(ref)
        PROVE  e \in ToSet(new)
    <3>1. PICK k \in 1..n : ref[k] = e
      BY <1>2, <2>2 DEF ToSet
    <3>2. PICK j \in 1..n + 1 : new[j] = e
      <4>1. CASE k < i
        BY <1>1, <3>1, <4>1
      <4>2. CASE ~(k < i)
        <5>1. k + 1 \in 1..n + 1 /\ ~(k + 1 < i) /\ k + 1 # i /\ (k + 1) - 1 = k
          BY <1>1, <4>2
        <5> QED BY <1>1, <3>1, <5>1
      <4> QED BY <4>1, <4>2
    <3> QED BY <1>2, <3>2 DEF ToSet
  <2>3. x \in ToSet(new)
    BY <1>1, <1>2, <1>4 DEF ToSet
  <2> QED BY <2>1, <2>2, <2>3
<1>8. Named(new) = Named(ref) \union ({x} \ {Zero})
  BY <1>7 DEF Named
<1> QED BY <1>6, <1>8 DEF new

LEMMA NamedCut ==
  ASSUME NEW ref \in Seq(Values), OnceEach(ref), NEW n \in 0..Len(ref)
  PROVE  /\ OnceEach(SubSeq(ref, 1, n))
         /\ Named(SubSeq(ref, 1, n)) = Named(ref) \ ({ref[i] : i \in n + 1..Len(ref)} \ {Zero})
<1> DEFINE new == SubSeq(ref, 1, n)
<1>1. new \in Seq(Values) /\ Len(new) = n /\ Len(ref) \in Nat /\ \A k \in 1..n : new[k] = ref[k]
  OBVIOUS
<1>2. DOMAIN new = 1..n /\ DOMAIN ref = 1..Len(ref)
  BY <1>1
<1> HIDE DEF new
<1>3. OnceEach(new)
  BY <1>1 DEF OnceEach
<1>4. ASSUME NEW e, e # Zero
      PROVE  e \in ToSet(new) <=> e \in ToSet(ref) /\ e \notin {ref[i] : i \in n + 1..Len(ref)}
  <2>1. ASSUME e \in ToSet(new)
        PROVE  e \in ToSet(ref) /\ e \notin {ref[i] : i \in n + 1..Len(ref)}
    <3>1. PICK k \in 1..n : new[k] = e
      BY <1>2, <2>1 DEF ToSet
    <3>2. k \in 1..Len(ref) /\ ref[k] = e
      BY <1>1, <3>1
    <3>3. ASSUME NEW i \in n + 1..Len(ref), ref[i] = e
          PROVE  FALSE
      <4>1. i \in 1..Len(ref) /\ i # k
        BY <1>1
      <4> QED BY <1>4, <3>2, <3>3, <4>1 DEF OnceEach
    <3> QED BY <1>2, <3>2, <3>3 DEF ToSet
  <2>2. ASSUME e \in ToSet(ref), e \notin {ref[i] : i \in n + 1..Len(ref)}
        PROVE  e \in ToSet(new)
    <3>1. PICK k \in 1..Len(ref) : ref[k] = e
      BY <1>2, <2>2 DEF ToSet
    <3>2. k \in 1..n
      BY <1>1, <2>2, <3>1
    <3> QED BY <1>1, <1>2, <3>1, <3>2 DEF ToSet
  <2> QED BY <2>1, <2>2
<1>5. Named(new) = Named(ref) \ ({ref[i] : i \in n + 1..Len(ref)} \ {Zero})
  BY <1>4 DEF Named
<1> QED BY <1>3, <1>5 DEF new

LEMMA NamedRemoved ==
  ASSUME NEW ref \in Seq(Values), OnceEach(ref), NEW i \in 1..Len(ref)
  PROVE  /\ OnceEach(RemoveAt(ref, i))
         /\ Named(RemoveAt(ref, i)) = Named(ref) \ ({ref[i]} \ {Zero})
<1> DEFINE new == RemoveAt(ref, i)
           n == Len(ref)
           Was(k) == IF k < i THEN k ELSE k + 1
<1>1. /\ new \in Seq(Values) /\ Len(new) = n - 1 /\ n \in Nat
      /\ \A k \in 1..n - 1 : new[k] = IF k < i THEN ref[k] ELSE ref[k + 1]
  <2>1. IsRemoval(new, ref, i)
    BY DEF IsRemoval
  <2> HIDE DEF new
  <2> QED BY <2>1, RemoveElements
<1>2. DOMAIN new = 1..n - 1 /\ DOMAIN ref = 1..n
  BY <1>1
<1> HIDE DEF new
<1>3. ASSUME NEW k \in 1..n - 1
      PROVE  Was(k) \in 1..n /\ Was(k) # i /\ new[k] = ref[Was(k)]
  <2>1. CASE k < i
    BY <1>1, <2>1, SMTT(60)
  <2>2. CASE ~(k < i)
    BY <1>1, <2>2
  <2> QED BY <2>1, <2>2
<1>4. ASSUME NEW j \in 1..n, j # i
      PROVE  \E k \in 1..n - 1 : new[k] = ref[j]
  <2>1. CASE j < i
    <3>1. j \in 1..n - 1
      BY <1>1, <2>1
    <3> QED BY <1>1, <2>1, <3>1
  <2>2. CASE ~(j < i)
    <3>1. j - 1 \in 1..n - 1 /\ ~(j - 1 < i) /\ (j - 1) + 1 = j
      BY <1>1, <1>4, <2>2
    <3> QED BY <1>1, <3>1
  <2> QED BY <2>1, <2>2
<1>5. OnceEach(new)
  <2> SUFFICES ASSUME NEW j \in 1..n - 1, NEW k \in 1..n - 1, new[j] = new[k], new[j] # Zero
               PROVE  j = k
    BY <1>1 DEF OnceEach
  <2>1. Was(j) = Was(k)
    <3>1. Was(j) \in 1..n /\ Was(k) \in 1..n /\ ref[Was(j)] = ref[Was(k)] /\ ref[Was(j)] # Zero
      BY <1>3
    <3> HIDE DEF Was
    <3> QED BY <3>1 DEF OnceEach
  <2> QED BY <2>1
<1>6. ASSUME NEW e, e # Zero
      PROVE  e \in ToSet(new) <=> e \in ToSet(ref) /\ e # ref[i]
  <2>1. ASSUME e \in ToSet(new)
        PROVE  e \in ToSet(ref) /\ e # ref[i]
    <3>1. PICK k \in 1..n - 1 : new[k] = e
      BY <1>2, <2>1 DEF ToSet
    <3>2. Was(k) \in 1..n /\ Was(k) # i /\ ref[Was(k)] = e
      BY <1>3, <3>1
    <3> HIDE DEF Was
    <3>3. i \in 1..n /\ (ref[Was(k)] = ref[i] => Was(k) = i)
      BY <1>6, <3>2 DEF OnceEach
    <3> QED BY <1>2, <3>2, <3>3 DEF ToSet
  <2>2. ASSUME e \in ToSet(ref), e # ref[i]
        PROVE  e \in ToSet(new)
    <3>1. PICK j \in 1..n : ref[j] = e
      BY <1>2, <2>2 DEF ToSet
    <3>2. PICK k \in 1..n - 1 : new[k] = e
      BY <1>4, <2>2, <3>1
    <3> QED BY <1>2, <3>2 DEF ToSet
  <2> QED BY <2>1, <2>2
<1>7. Named(new) = Named(ref) \ ({ref[i]} \ {Zero})
  BY <1>6 DEF Named
<1> QED BY <1>5, <1>7 DEF new

LEMMA NamedAssigned ==
  ASSUME NEW ref \in Seq(Values), OnceEach(ref), NEW i \in 1..Len(ref), NEW x \in VcIds, x \notin Named(ref),
         NEW new \in Seq(Values), Len(new) = Len(ref), new[i] = x,
         \A k \in 1..Len(ref) : k # i => new[k] = ref[k]
  PROVE  OnceEach(new) /\ Named(new) = (Named(ref) \ ({ref[i]} \ {Zero})) \union {x}
<1> DEFINE n == Len(ref)
<1>1. /\ new \in Seq(Values) /\ Len(new) = n /\ n \in Nat /\ new[i] = x
      /\ \A k \in 1..n : k # i => new[k] = ref[k]
  OBVIOUS
<1>2. DOMAIN new = 1..n /\ DOMAIN ref = 1..n /\ x # Zero
  BY <1>1, VcAssumption
<1>3. \A k \in 1..n : ref[k] # x
  BY <1>2 DEF Named, ToSet
<1>4. OnceEach(new)
  BY <1>1, <1>3 DEF OnceEach
<1>5. ASSUME NEW e, e # Zero
      PROVE  e \in ToSet(new) <=> (e \in ToSet(ref) /\ e # ref[i]) \/ e = x
  <2>1. ASSUME e \in ToSet(new)
        PROVE  (e \in ToSet(ref) /\ e # ref[i]) \/ e = x
    <3>1. PICK k \in 1..n : new[k] = e
      BY <1>2, <2>1 DEF ToSet
    <3>2. CASE k = i
      BY <1>1, <3>1, <3>2
    <3>3. CASE k # i
      BY <1>1, <1>2, <1>5, <3>1, <3>3 DEF OnceEach, ToSet
    <3> QED BY <3>2, <3>3
  <2>2. ASSUME e \in ToSet(ref), e # ref[i]
        PROVE  e \in ToSet(new)
    <3>1. PICK j \in 1..n : ref[j] = e
      BY <1>2, <2>2 DEF ToSet
    <3> QED BY <1>1, <1>2, <2>2, <3>1 DEF ToSet
  <2>3. x \in ToSet(new)
    BY <1>1, <1>2 DEF ToSet
  <2> QED BY <2>1, <2>2, <2>3
<1>6. Named(new) = (Named(ref) \ ({ref[i]} \ {Zero})) \union {x}
  BY <1>2, <1>5 DEF Named
<1> QED BY <1>4, <1>6

\* Zero elements added behind have no identity.
LEMMA NamedFitted ==
  ASSUME NEW ref \in Seq(Values), OnceEach(ref), NEW n \in Nat, ~(n <= Len(ref))
  PROVE  OnceEach(Fitted(ref, n)) /\ Named(Fitted(ref, n)) = Named(ref)
<1> DEFINE new == Fitted(ref, n)
<1>1. /\ new \in Seq(Values) /\ Len(new) = n /\ Len(ref) \in Nat
      /\ \A k \in 1..n : new[k] = IF k <= Len(ref) THEN ref[k] ELSE Zero
  <2>1. /\ Fitted(ref, n) \in Seq(Values) /\ Len(Fitted(ref, n)) = n
        /\ \A k \in 1..n : Fitted(ref, n)[k] = IF k <= Len(ref) THEN ref[k] ELSE Zero
    BY FittedElements, Zenon
  <2> QED BY <2>1
<1>2. DOMAIN new = 1..n /\ DOMAIN ref = 1..Len(ref)
  BY <1>1
<1> HIDE DEF new
<1>3. \A k \in 1..Len(ref) : k \in 1..n /\ new[k] = ref[k]
  BY <1>1
<1>4. \A k \in 1..n : new[k] # Zero => k \in 1..Len(ref) /\ new[k] = ref[k]
  BY <1>1
<1>5. OnceEach(new)
  BY <1>1, <1>4 DEF OnceEach
<1>6. Named(new) = Named(ref)
  BY <1>2, <1>3, <1>4 DEF Named, ToSet
<1> QED BY <1>5, <1>6 DEF new

\* Nothing fresh is ever held, and what is alive is what the vector holds, once each:
\* without that a destructor could run twice, or not at all.
VcInv ==
  /\ Holds(vec, vcRef) /\ OnceEach(vcRef) /\ vcAlive = Named(vcRef)
  /\ Holds(arr, arRef)

LEMMA VecStep == VcInv /\ VecNext => VcInv'
<1> SUFFICES ASSUME VcInv, VecNext
             PROVE  VcInv'
  OBVIOUS
<1>0. /\ Holds(vec, vcRef) /\ OnceEach(vcRef) /\ vcAlive = Named(vcRef) /\ Holds(arr, arRef)
      /\ vcRef \in Seq(Values) /\ Len(vcRef) = vec.size /\ vec.size \in Nat
      /\ \A k \in 1..vec.size : vec.mem[k] = vcRef[k]
  BY DEF VcInv, Holds
\* What a call leaves, from what it does with the storage and with the elements.
<1>1. ASSUME NEW r, NEW alive, NEW ref, VecBecomes(r, alive, ref), r.ok \in BOOLEAN,
             Holds(r.v, IF r.ok THEN ref ELSE vcRef),
             r.ok => OnceEach(ref) /\ alive = Named(ref),
             ~r.ok => alive = vcAlive
      PROVE  VcInv'
  <2>1. /\ vec' = r.v /\ vcAlive' = alive /\ arr' = arr /\ arRef' = arRef
        /\ vcRef' = IF r.ok THEN ref ELSE vcRef
    BY <1>1 DEF VecBecomes
  <2>2. CASE r.ok
    BY <1>0, <1>1, <2>1, <2>2 DEF VcInv
  <2>3. CASE ~r.ok
    BY <1>0, <1>1, <2>1, <2>3 DEF VcInv
  <2> QED BY <1>1, <2>2, <2>3
<1>d. ASSUME NEW w, NEW alive, NEW ref, VecBecomes(Done(w), alive, ref),
             Holds(w, ref), OnceEach(ref), alive = Named(ref)
      PROVE  VcInv'
  <2>1. Done(w).ok = TRUE /\ Done(w).v = w
    BY DEF Done
  <2> HIDE DEF Done
  <2>2. Done(w).ok \in BOOLEAN /\ Holds(Done(w).v, IF Done(w).ok THEN ref ELSE vcRef)
    BY <1>d, <2>1
  <2> QED BY <1>1, <1>d, <2>1, <2>2
<1>n. ASSUME NEW n \in Nat, n <= vec.size
      PROVE  /\ Holds([vec EXCEPT !.size = n], SubSeq(vcRef, 1, n)) /\ OnceEach(SubSeq(vcRef, 1, n))
             /\ vcAlive \ Destroyed(vec, n + 1, vec.size) = Named(SubSeq(vcRef, 1, n))
  <2>1. Holds([vec EXCEPT !.size = n], SubSeq(vcRef, 1, n))
    BY <1>0, <1>n, CutHolds
  <2>2. n \in 0..Len(vcRef)
    BY <1>0, <1>n
  <2>3. Destroyed(vec, n + 1, vec.size) = {vcRef[i] : i \in n + 1..Len(vcRef)} \ {Zero}
    <3>1. \A i \in n + 1..vec.size : vec.mem[i] = vcRef[i]
      BY <1>0
    <3> QED BY <1>0, <3>1 DEF Destroyed
  <2> QED BY <1>0, <2>1, <2>2, <2>3, NamedCut
<1>2. ASSUME NEW n \in 0..VcMax, VecReserve(n)
      PROVE  VcInv'
  <2>1. PICK r \in Reserved(vec, n) : VecBecomes(r, vcAlive, vcRef)
    BY <1>2 DEF VecReserve
  <2>2. n \in Nat
    BY VcAssumption
  <2>3. Holds(r.v, vcRef) /\ r.ok \in BOOLEAN
    BY <1>0, <2>2, ReservedHolds
  <2> QED BY <1>0, <1>1, <2>1, <2>3
<1>3. ASSUME NEW n \in 0..VcMax, VecResize(n)
      PROVE  VcInv'
  <2>0. n \in Nat
    BY VcAssumption
  <2>1. CASE n <= vec.size
    <3>1. VecBecomes(Done([vec EXCEPT !.size = n]), vcAlive \ Destroyed(vec, n + 1, vec.size), SubSeq(vcRef, 1, n))
      BY <1>3, <2>1 DEF VecResize
    <3> QED BY <1>d, <1>n, <2>0, <2>1, <3>1
  <2>2. CASE ~(n <= vec.size)
    <3>1. Fitted(vcRef, n) = vcRef \o [i \in 1..(n - Len(vcRef)) |-> Zero]
      BY <1>0, <2>2 DEF Fitted
    <3>2. PICK r \in Resized(vec, n) : VecBecomes(r, vcAlive, Fitted(vcRef, n))
      BY <1>3, <2>2, <3>1 DEF VecResize
    <3>3. r.ok \in BOOLEAN /\ Holds(r.v, IF r.ok THEN Fitted(vcRef, n) ELSE vcRef)
      BY <1>0, <2>0, ResizedHolds
    <3>4. OnceEach(Fitted(vcRef, n)) /\ Named(Fitted(vcRef, n)) = Named(vcRef)
      BY <1>0, <2>0, <2>2, NamedFitted
    <3> QED BY <1>0, <1>1, <3>2, <3>3, <3>4
  <2> QED BY <2>1, <2>2
<1>4. ASSUME VecShrink
      PROVE  VcInv'
  <2>1. PICK r \in Shrunk(vec) : VecBecomes(r, vcAlive, vcRef)
    BY <1>4 DEF VecShrink
  <2>2. Holds(r.v, vcRef) /\ r.ok \in BOOLEAN
    BY <1>0, ShrunkHolds
  <2> QED BY <1>0, <1>1, <2>1, <2>2
<1>5. ASSUME VecPop
      PROVE  VcInv'
  <2>1. vec.size > 0 /\ vec.size - 1 \in Nat /\ vec.size - 1 <= vec.size /\ (vec.size - 1) + 1 = vec.size
    BY <1>0, <1>5 DEF VecPop
  <2>2. Front(vcRef) = SubSeq(vcRef, 1, vec.size - 1)
    BY <1>0 DEF Front
  <2>3. VecBecomes(Done([vec EXCEPT !.size = vec.size - 1]),
                   vcAlive \ Destroyed(vec, (vec.size - 1) + 1, vec.size), SubSeq(vcRef, 1, vec.size - 1))
    BY <1>5, <2>1, <2>2 DEF VecPop
  <2> QED BY <1>d, <1>n, <2>1, <2>3
<1>6. ASSUME VecClear
      PROVE  VcInv'
  <2>1. SubSeq(vcRef, 1, 0) = << >> /\ 0 \in Nat /\ 0 <= vec.size /\ 0 + 1 = 1
    BY <1>0
  <2>2. VecBecomes(Done([vec EXCEPT !.size = 0]), vcAlive \ Destroyed(vec, 0 + 1, vec.size), SubSeq(vcRef, 1, 0))
    BY <1>6, <2>1 DEF VecClear
  <2> QED BY <1>d, <1>n, <2>1, <2>2
<1>7. ASSUME VecDestroy
      PROVE  VcInv'
  <2>1. SubSeq(vcRef, 1, 0) = << >> /\ 0 \in Nat /\ 0 <= vec.size /\ 0 + 1 = 1
    BY <1>0
  <2>2. VecBecomes(Done(NoStorage), vcAlive \ Destroyed(vec, 0 + 1, vec.size), << >>)
    BY <1>7, <2>1 DEF VecDestroy
  <2>3. OnceEach(<< >>) /\ vcAlive \ Destroyed(vec, 0 + 1, vec.size) = Named(<< >>)
    BY <1>n, <2>1
  <2> QED BY <1>d, <2>2, <2>3, NothingHolds
<1>8. ASSUME NEW i \in 0..VcMax, VecErase(i)
      PROVE  VcInv'
  <2>1. i \in Nat /\ i < vec.size /\ i + 1 \in 1..Len(vcRef) /\ i + 1 \in 1..vec.size
    BY <1>0, <1>8, VcAssumption DEF VecErase
  <2>2. VecBecomes(Erased(vec, i), vcAlive \ Destroyed(vec, i + 1, i + 1), RemoveAt(vcRef, i + 1))
    BY <1>8 DEF VecErase
  <2>3. Erased(vec, i).ok = TRUE /\ Holds(Erased(vec, i).v, RemoveAt(vcRef, i + 1))
    BY <1>0, <2>1, ErasedHolds
  <2>4. Destroyed(vec, i + 1, i + 1) = {vcRef[i + 1]} \ {Zero}
    <3>1. vec.mem[i + 1] = vcRef[i + 1] /\ i + 1..i + 1 = {i + 1}
      BY <1>0, <2>1
    <3> QED BY <3>1 DEF Destroyed
  <2>5. OnceEach(RemoveAt(vcRef, i + 1)) /\ vcAlive \ Destroyed(vec, i + 1, i + 1) = Named(RemoveAt(vcRef, i + 1))
    BY <1>0, <2>1, <2>4, NamedRemoved
  <2> QED BY <1>1, <2>2, <2>3, <2>5
<1>9. ASSUME NEW i \in 0..VcMax, NEW x \in VcIds \ vcAlive, VecAssign(i, x)
      PROVE  VcInv'
  <2>1. i \in Nat /\ i < vec.size /\ i + 1 \in 1..Len(vcRef) /\ i + 1 \in 1..vec.size
    BY <1>0, <1>9, VcAssumption DEF VecAssign
  <2> DEFINE new == [vcRef EXCEPT ![i + 1] = x]
             w == [vec EXCEPT !.mem[i + 1] = x]
  <2>2. VecBecomes(Done(w), (vcAlive \ Destroyed(vec, i + 1, i + 1)) \union {x}, new)
    BY <1>9 DEF VecAssign
  <2>3. Destroyed(vec, i + 1, i + 1) = {vcRef[i + 1]} \ {Zero}
    <3>1. vec.mem[i + 1] = vcRef[i + 1] /\ i + 1..i + 1 = {i + 1}
      BY <1>0, <2>1
    <3> QED BY <3>1 DEF Destroyed
  <2>4. OnceEach(new) /\ (vcAlive \ Destroyed(vec, i + 1, i + 1)) \union {x} = Named(new)
    <3>1. PICK j \in 1..Len(vcRef) : j = i + 1
      BY <2>1
    <3>2. x \in VcIds /\ x \notin Named(vcRef)
      BY <1>0
    <3>3. /\ new \in Seq(Values) /\ Len(new) = Len(vcRef) /\ new[j] = x
          /\ \A k \in 1..Len(vcRef) : k # j => new[k] = vcRef[k]
      BY <1>0, <3>1 DEF Values
    <3> HIDE DEF new
    <3>4. OnceEach(new) /\ Named(new) = (Named(vcRef) \ ({vcRef[j]} \ {Zero})) \union {x}
      BY <1>0, <3>2, <3>3, NamedAssigned
    <3> QED BY <1>0, <2>3, <3>1, <3>4
  <2>5. Holds(w, new)
    <3>1. /\ vec.mem \in Seq(Cells) /\ Len(vec.mem) \in Nat /\ vec.size <= Len(vec.mem)
          /\ vec \in [mem : Seq(Cells), size : Nat]
      BY <1>0 DEF Holds
    <3> DEFINE m == [vec.mem EXCEPT ![i + 1] = x]
    <3>2. /\ m \in Seq(Cells) /\ Len(m) = Len(vec.mem) /\ m[i + 1] = x
          /\ \A k \in 1..Len(vec.mem) : k # i + 1 => m[k] = vec.mem[k]
      BY <1>0, <2>1, <3>1 DEF Cells
    <3>3. /\ new \in Seq(Values) /\ Len(new) = Len(vcRef) /\ new[i + 1] = x
          /\ \A k \in 1..Len(vcRef) : k # i + 1 => new[k] = vcRef[k]
      BY <1>0, <2>1 DEF Values
    <3>4. w = [vec EXCEPT !.mem = m]
      BY <3>1
    <3> HIDE DEF m, new, w
    <3>5. w \in [mem : Seq(Cells), size : Nat] /\ w.mem = m /\ w.size = vec.size
      BY <3>1, <3>2, <3>4
    <3>6. ASSUME NEW k \in 1..vec.size
          PROVE  m[k] = new[k]
      <4>1. k \in 1..Len(vec.mem) /\ k \in 1..Len(vcRef)
        BY <1>0, <3>1
      <4> QED BY <1>0, <3>2, <3>3, <4>1
    <3> QED BY <1>0, <3>1, <3>2, <3>3, <3>5, <3>6 DEF Holds
  <2> HIDE DEF new, w
  <2> QED BY <1>d, <2>2, <2>4, <2>5
<1>10. ASSUME NEW i \in 0..VcMax, NEW x \in (VcIds \ vcAlive) \union {Zero}, VecInsert(i, x)
       PROVE  VcInv'
  <2>1. i \in Nat /\ x \in Values /\ (x = Zero \/ x \notin Named(vcRef))
    BY <1>0, VcAssumption DEF Values
  <2>2. PICK r \in InsertedAt(vec, i, x) :
          VecBecomes(r, IF r.ok THEN vcAlive \union ({x} \ {Zero}) ELSE vcAlive, InsertAt(vcRef, i + 1, x))
    BY <1>10 DEF VecInsert
  <2>3. /\ r.ok \in BOOLEAN /\ (r.ok => i <= vec.size)
        /\ Holds(r.v, IF r.ok THEN InsertAt(vcRef, i + 1, x) ELSE vcRef)
    BY <1>0, <2>1, InsertedHolds
  <2>4. ASSUME r.ok
        PROVE  /\ OnceEach(InsertAt(vcRef, i + 1, x))
               /\ vcAlive \union ({x} \ {Zero}) = Named(InsertAt(vcRef, i + 1, x))
    <3>1. PICK j \in 1..Len(vcRef) + 1 : j = i + 1
      BY <1>0, <2>1, <2>3, <2>4
    <3>2. /\ OnceEach(InsertAt(vcRef, j, x))
          /\ vcAlive \union ({x} \ {Zero}) = Named(InsertAt(vcRef, j, x))
      BY <1>0, <2>1, NamedInserted
    <3> QED BY <3>1, <3>2
  <2> QED BY <1>1, <2>2, <2>3, <2>4
<1> QED BY <1>2, <1>3, <1>4, <1>5, <1>6, <1>7, <1>8, <1>9, <1>10 DEF VecNext

LEMMA ArrStep == VcInv /\ ArrNext => VcInv'
<1> SUFFICES ASSUME VcInv, ArrNext
             PROVE  VcInv'
  OBVIOUS
<1>0. /\ Holds(vec, vcRef) /\ OnceEach(vcRef) /\ vcAlive = Named(vcRef) /\ Holds(arr, arRef)
      /\ arRef \in Seq(Values) /\ Len(arRef) = arr.size /\ arr.size \in Nat
  BY DEF VcInv, Holds
<1>1. ASSUME NEW r, NEW ref, ArrBecomes(r, ref), r.ok \in BOOLEAN,
             Holds(r.v, IF r.ok THEN ref ELSE arRef)
      PROVE  VcInv'
  <2>1. /\ arr' = r.v /\ vcAlive' = vcAlive /\ vec' = vec /\ vcRef' = vcRef
        /\ arRef' = IF r.ok THEN ref ELSE arRef
    BY <1>1 DEF ArrBecomes
  <2>2. CASE r.ok
    BY <1>0, <1>1, <2>1, <2>2 DEF VcInv
  <2>3. CASE ~r.ok
    BY <1>0, <1>1, <2>1, <2>3 DEF VcInv
  <2> QED BY <1>1, <2>2, <2>3
<1>2. ASSUME NEW i \in 0..VcMax, NEW r \in Reserved(arr, i) \union Shrunk(arr), ArrBecomes(r, arRef)
      PROVE  VcInv'
  <2>1. i \in Nat
    BY VcAssumption
  <2>2. Holds(r.v, arRef) /\ r.ok \in BOOLEAN
    BY <1>0, <2>1, ReservedHolds, ShrunkHolds
  <2> QED BY <1>1, <1>2, <2>2
<1>3. ASSUME NEW i \in 0..VcMax, NEW r \in Resized(arr, i),
             ArrBecomes(r, IF i <= Len(arRef) THEN SubSeq(arRef, 1, i)
                           ELSE arRef \o [k \in 1..(i - Len(arRef)) |-> Zero])
      PROVE  VcInv'
  <2>1. i \in Nat
    BY VcAssumption
  <2>2. r.ok \in BOOLEAN /\ Holds(r.v, IF r.ok THEN Fitted(arRef, i) ELSE arRef)
    BY <1>0, <2>1, ResizedHolds
  <2>3. ArrBecomes(r, Fitted(arRef, i))
    BY <1>3 DEF Fitted
  <2> QED BY <1>1, <2>2, <2>3
<1>4. ASSUME NEW i \in 0..VcMax, NEW x \in VcIds \union {Zero}, NEW r \in InsertedAt(arr, i, x),
             ArrBecomes(r, InsertAt(arRef, i + 1, x))
      PROVE  VcInv'
  <2>1. i \in Nat /\ x \in Values
    BY VcAssumption DEF Values
  <2>2. r.ok \in BOOLEAN /\ Holds(r.v, IF r.ok THEN InsertAt(arRef, i + 1, x) ELSE arRef)
    BY <1>0, <2>1, InsertedHolds
  <2> QED BY <1>1, <1>4, <2>2
<1>5. ASSUME NEW i \in 0..VcMax, ArrBecomes(Erased(arr, i), RemoveAt(arRef, i + 1))
      PROVE  VcInv'
  <2>1. i \in Nat
    BY VcAssumption
  <2>2. CASE i < arr.size
    <3>1. Erased(arr, i).ok = TRUE /\ Holds(Erased(arr, i).v, RemoveAt(arRef, i + 1))
      BY <1>0, <2>1, <2>2, ErasedHolds
    <3> QED BY <1>1, <1>5, <3>1
  <2>3. CASE ~(i < arr.size)
    <3>1. Erased(arr, i) = Failed(arr)
      BY <1>0, <2>1, <2>3 DEF Erased
    <3>2. Erased(arr, i).ok = FALSE /\ Erased(arr, i).v = arr
      BY <3>1 DEF Failed
    <3> QED BY <1>0, <1>1, <1>5, <3>2
  <2> QED BY <2>2, <2>3
<1>6. ASSUME ArrBecomes(Done([arr EXCEPT !.size = 0]), << >>)
      PROVE  VcInv'
  <2>1. SubSeq(arRef, 1, 0) = << >> /\ 0 <= arr.size
    BY <1>0
  <2>2. Holds([arr EXCEPT !.size = 0], << >>)
    BY <1>0, <2>1, CutHolds
  <2> DEFINE w == [arr EXCEPT !.size = 0]
  <2>3. Done(w).ok = TRUE /\ Done(w).v = w
    BY DEF Done
  <2> QED BY <1>1, <1>6, <2>2, <2>3
<1>7. ASSUME ArrBecomes(Done(NoStorage), << >>)
      PROVE  VcInv'
  <2>1. Done(NoStorage).ok = TRUE /\ Done(NoStorage).v = NoStorage
    BY DEF Done
  <2> QED BY <1>1, <1>7, <2>1, NothingHolds
<1> QED BY <1>2, <1>3, <1>4, <1>5, <1>6, <1>7 DEF ArrNext

\* A vector holds what was put into it, in order, shows no fresh cell and destroys each
\* element that leaves once, for any elements, limits and calls, also those that find
\* no memory (vector.c, vector.h, array.c).
THEOREM VectorKeeps == VcSpec => []VectorIntact
<1>1. VcInit => VcInv
  <2>1. OnceEach(<< >>) /\ Named(<< >>) = {}
    BY DEF OnceEach, Named, ToSet
  <2> QED BY <2>1, NothingHolds DEF VcInit, VcInv
<1>2. VcInv /\ [VcNext]_vcVars => VcInv'
  <2>1. VcInv /\ UNCHANGED vcVars => VcInv'
    BY DEF VcInv, vcVars
  <2> QED BY <2>1, VecStep, ArrStep DEF VcNext
<1>3. VcInv => VectorIntact
  BY HeldContents DEF VcInv, VectorIntact, Named
<1> QED BY <1>1, <1>2, <1>3, PTL DEF VcSpec

-----------------------------------------------------------------------------
(* The ring buffer, the queue and the stack. *)

Bytes0 == RbBytes \union {0}

\* The cell that place k from the head falls in, across the end of the storage.
Cell(r, k) == IF r.head + k <= Cap(r) THEN r.head + k ELSE r.head + k - Cap(r)

\* The cells from the head on hold ref, and the tail is where it ends.
RingHolds(r, ref) ==
  /\ r \in [data : Seq(Bytes0), head : Nat, tail : Nat, len : Nat]
  /\ Cap(r) \in RbCaps /\ r.head < Cap(r) /\ r.len <= Cap(r)
  /\ r.tail = IF r.head + r.len < Cap(r) THEN r.head + r.len ELSE r.head + r.len - Cap(r)
  /\ ref \in Seq(Bytes0) /\ Len(ref) = r.len
  /\ \A k \in 1..r.len : r.data[Cell(r, k)] = ref[k]

\* What the arithmetic of the cursors rests on.
LEMMA RingFacts ==
  ASSUME NEW r, NEW ref, RingHolds(r, ref)
  PROVE  /\ r.data \in Seq(Bytes0) /\ Len(r.data) = Cap(r) /\ Cap(r) \in Nat /\ Cap(r) > 0 /\ Cap(r) \in RbCaps
         /\ Cap(r) + RbChunk < SizeRange /\ RbChunk \in Nat /\ SizeRange \in Nat
         /\ r.head \in Nat /\ r.tail \in Nat /\ r.len \in Nat
         /\ r.head < Cap(r) /\ r.tail < Cap(r) /\ r.len <= Cap(r)
         /\ r.tail = IF r.head + r.len < Cap(r) THEN r.head + r.len ELSE r.head + r.len - Cap(r)
         /\ ref \in Seq(Bytes0) /\ Len(ref) = r.len
         /\ \A k \in 1..r.len : r.data[Cell(r, k)] = ref[k]
<1>1. /\ r.data \in Seq(Bytes0) /\ Len(r.data) = Cap(r) /\ Cap(r) \in Nat
      /\ r.head \in Nat /\ r.tail \in Nat /\ r.len \in Nat
  BY DEF RingHolds, Cap
<1>2. Cap(r) \in RbCaps
  BY DEF RingHolds
<1>3. Cap(r) > 0 /\ Cap(r) + RbChunk < SizeRange /\ RbChunk \in Nat /\ SizeRange \in Nat
  BY <1>2, RbAssumption
<1>4. /\ r.head < Cap(r) /\ r.len <= Cap(r)
      /\ r.tail = IF r.head + r.len < Cap(r) THEN r.head + r.len ELSE r.head + r.len - Cap(r)
  BY DEF RingHolds
<1>5. r.tail < Cap(r)
  BY <1>1, <1>4
<1>6. ref \in Seq(Bytes0) /\ Len(ref) = r.len /\ \A k \in 1..r.len : r.data[Cell(r, k)] = ref[k]
  BY DEF RingHolds
<1> QED BY <1>1, <1>2, <1>3, <1>4, <1>5, <1>6

\* No cell serves two places, and the places behind the last are those from the tail on.
LEMMA CellsApart ==
  ASSUME NEW r, NEW ref, RingHolds(r, ref)
  PROVE  /\ \A k \in 1..Cap(r) : Cell(r, k) \in 1..Cap(r)
         /\ \A j, k \in 1..Cap(r) : Cell(r, j) = Cell(r, k) => j = k
         /\ \A k \in 1..(Cap(r) - r.len) :
              Cell(r, r.len + k) = IF r.tail + k <= Cap(r) THEN r.tail + k ELSE r.tail + k - Cap(r)
<1>1. /\ Cap(r) \in Nat /\ r.head \in Nat /\ r.tail \in Nat /\ r.len \in Nat /\ r.head < Cap(r) /\ r.len <= Cap(r)
      /\ r.tail = IF r.head + r.len < Cap(r) THEN r.head + r.len ELSE r.head + r.len - Cap(r)
  BY RingFacts
<1>2. ASSUME NEW k \in 1..Cap(r)
      PROVE  Cell(r, k) \in 1..Cap(r)
  BY <1>1 DEF Cell
<1>3. ASSUME NEW j \in 1..Cap(r), NEW k \in 1..Cap(r), Cell(r, j) = Cell(r, k)
      PROVE  j = k
  BY <1>1, <1>3 DEF Cell
<1>4. ASSUME NEW k \in 1..(Cap(r) - r.len)
      PROVE  Cell(r, r.len + k) = IF r.tail + k <= Cap(r) THEN r.tail + k ELSE r.tail + k - Cap(r)
  BY <1>1 DEF Cell
<1> QED BY <1>2, <1>3, <1>4

\* ct_rbuf_remove and ct_rbuf_read take from the front.
LEMMA ConsumedHolds ==
  ASSUME NEW r, NEW ref, RingHolds(r, ref), NEW n \in Nat
  PROVE  RingHolds(Consumed(r, n), SubSeq(ref, n + 1, Len(ref)))
<1> DEFINE m == AtMost(n, r.len)
           w == Consumed(r, n)
           new == SubSeq(ref, n + 1, Len(ref))
<1>0. /\ r.data \in Seq(Bytes0) /\ Cap(r) \in Nat /\ Cap(r) > 0 /\ Cap(r) \in RbCaps
      /\ r.head \in Nat /\ r.tail \in Nat /\ r.len \in Nat
      /\ r.head < Cap(r) /\ r.tail < Cap(r) /\ r.len <= Cap(r)
      /\ r.tail = IF r.head + r.len < Cap(r) THEN r.head + r.len ELSE r.head + r.len - Cap(r)
      /\ ref \in Seq(Bytes0) /\ Len(ref) = r.len
      /\ \A k \in 1..r.len : r.data[Cell(r, k)] = ref[k]
  BY RingFacts
<1>1. m \in Nat /\ m <= r.len /\ (n <= r.len => m = n) /\ (n > r.len => m = r.len)
  BY <1>0 DEF AtMost
<1>2. /\ w = [r EXCEPT !.head = IF r.head + m >= Cap(r) /\ m > 0 THEN r.head + m - Cap(r) ELSE r.head + m,
                        !.len = r.len - m]
  BY DEF Consumed
<1>3. r \in [data : Seq(Bytes0), head : Nat, tail : Nat, len : Nat]
  BY DEF RingHolds
<1> HIDE DEF m, w
<1>4. /\ w.data = r.data /\ w.tail = r.tail /\ w.len = r.len - m /\ Cap(w) = Cap(r)
      /\ w.head = IF r.head + m >= Cap(r) /\ m > 0 THEN r.head + m - Cap(r) ELSE r.head + m
  BY <1>2, <1>3 DEF Cap
<1>i. /\ Cap(r) \in Nat /\ Cap(r) > 0 /\ r.head \in Nat /\ r.tail \in Nat /\ r.len \in Nat
      /\ r.head < Cap(r) /\ r.tail < Cap(r) /\ r.len <= Cap(r)
      /\ r.tail = IF r.head + r.len < Cap(r) THEN r.head + r.len ELSE r.head + r.len - Cap(r)
  BY <1>0
<1>j. /\ w.tail = r.tail /\ w.len = r.len - m /\ Cap(w) = Cap(r) /\ m \in Nat /\ m <= r.len
      /\ w.head = IF r.head + m >= Cap(r) /\ m > 0 THEN r.head + m - Cap(r) ELSE r.head + m
  BY <1>1, <1>4
<1>5. w.head \in Nat /\ w.len \in Nat /\ w.head < Cap(w) /\ w.len <= Cap(w)
  BY <1>i, <1>j
<1>6. w \in [data : Seq(Bytes0), head : Nat, tail : Nat, len : Nat]
  <2>1. w = [data |-> w.data, head |-> w.head, tail |-> w.tail, len |-> w.len]
    BY <1>2, <1>3
  <2> QED BY <1>0, <1>4, <1>5, <2>1
<1>7. w.tail = IF w.head + w.len < Cap(w) THEN w.head + w.len ELSE w.head + w.len - Cap(w)
  BY <1>i, <1>j
<1>8. /\ new \in Seq(Bytes0) /\ Len(new) = w.len
      /\ \A k \in 1..w.len : new[k] = ref[m + k]
  <2>1. n + 1 \in Nat /\ n + 1 >= 1 /\ Len(ref) \in Nat /\ Len(ref) <= Len(ref)
    BY <1>0
  <2>2. /\ new \in Seq(Bytes0)
        /\ Len(new) = IF n + 1 <= Len(ref) THEN Len(ref) - (n + 1) + 1 ELSE 0
        /\ \A k \in 1..(Len(ref) - (n + 1) + 1) : new[k] = ref[(n + 1) + k - 1]
    BY <1>0, <2>1, PartElements
  <2> HIDE DEF new
  <2>3. Len(new) = w.len
    BY <1>0, <1>1, <1>4, <2>2, SMTT(120)
  <2>4. ASSUME NEW k \in 1..w.len
        PROVE  new[k] = ref[m + k]
    <3>1. n = m /\ k \in 1..(Len(ref) - (n + 1) + 1) /\ (n + 1) + k - 1 = m + k
      BY <1>0, <1>1, <1>4, SMTT(60)
    <3> QED BY <2>2, <3>1
  <2> QED BY <2>2, <2>3, <2>4
<1> HIDE DEF new
<1>9. ASSUME NEW k \in 1..w.len
      PROVE  w.data[Cell(w, k)] = new[k]
  <2>1. m + k \in 1..r.len
    BY <1>i, <1>j
  <2>2. Cell(w, k) = Cell(r, m + k)
    BY <1>i, <1>j, <2>1 DEF Cell
  <2> QED BY <1>0, <1>4, <1>8, <2>1, <2>2
<1>10. RingHolds(w, new)
  BY <1>0, <1>4, <1>5, <1>6, <1>7, <1>8, <1>9 DEF RingHolds
<1> QED BY <1>10 DEF w, new

\* Going on by n and then by m goes on by their sum.
LEMMA GoesOn ==
  ASSUME NEW c \in Nat, NEW h \in Nat, NEW n \in Nat, NEW m \in Nat, NEW t \in Nat, h < c, n + m <= c,
         t = IF h + n < c THEN h + n ELSE h + n - c
  PROVE  (IF t + m < c THEN t + m ELSE t + m - c) = IF h + (n + m) < c THEN h + (n + m) ELSE h + (n + m) - c
OBVIOUS

\* w is r with the elements of s put in the cells behind the last.
Puts(r, s, w) ==
  /\ w \in [data : Seq(Bytes0), head : Nat, tail : Nat, len : Nat]
  /\ Cap(w) = Cap(r) /\ w.head = r.head /\ w.len = r.len + Len(s)
  /\ w.tail = IF r.tail + Len(s) < Cap(r) THEN r.tail + Len(s) ELSE r.tail + Len(s) - Cap(r)
  /\ \A k \in 1..Len(s) : w.data[Cell(r, r.len + k)] = s[k]
  /\ \A i \in 1..Cap(r) :
       (\A k \in 1..Len(s) : i # Cell(r, r.len + k)) => w.data[i] = r.data[i]

\* They are then held behind what was held.
LEMMA AppendedHolds ==
  ASSUME NEW r, NEW ref, RingHolds(r, ref), NEW s \in Seq(Bytes0), Len(s) <= Cap(r) - r.len,
         NEW w, Puts(r, s, w)
  PROVE  RingHolds(w, ref \o s)
<1> DEFINE new == ref \o s
           m == Len(s)
<1>0. /\ Cap(r) \in Nat /\ Cap(r) \in RbCaps /\ r.head \in Nat /\ r.len \in Nat /\ m \in Nat
      /\ r.head < Cap(r) /\ r.len <= Cap(r)
      /\ r.tail = IF r.head + r.len < Cap(r) THEN r.head + r.len ELSE r.head + r.len - Cap(r)
      /\ ref \in Seq(Bytes0) /\ Len(ref) = r.len
      /\ \A k \in 1..r.len : r.data[Cell(r, k)] = ref[k]
  BY RingFacts
<1>1. /\ new \in Seq(Bytes0) /\ Len(new) = r.len + m
      /\ \A k \in 1..r.len + m : new[k] = IF k <= r.len THEN ref[k] ELSE s[k - r.len]
  <2>1. /\ new \in Seq(Bytes0) /\ Len(new) = Len(ref) + Len(s)
        /\ \A k \in 1..Len(ref) + Len(s) : new[k] = IF k <= Len(ref) THEN ref[k] ELSE s[k - Len(ref)]
    BY <1>0, JoinedElements
  <2> HIDE DEF new
  <2> QED BY <1>0, <2>1
<1> HIDE DEF new
<1>p. /\ w \in [data : Seq(Bytes0), head : Nat, tail : Nat, len : Nat]
      /\ Cap(w) = Cap(r) /\ w.head = r.head /\ w.len = r.len + m
      /\ w.tail = IF r.tail + m < Cap(r) THEN r.tail + m ELSE r.tail + m - Cap(r)
      /\ \A k \in 1..m : w.data[Cell(r, r.len + k)] = s[k]
      /\ \A i \in 1..Cap(r) :
           (\A k \in 1..m : i # Cell(r, r.len + k)) => w.data[i] = r.data[i]
  BY DEF Puts
<1>m. m <= Cap(r) - r.len
  OBVIOUS
<1> HIDE DEF m
<1>2. w.len <= Cap(w) /\ w.tail = IF w.head + w.len < Cap(w) THEN w.head + w.len ELSE w.head + w.len - Cap(w)
  <2>1. w.len <= Cap(w)
    BY <1>0, <1>m, <1>p, SMTT(60)
  <2>2. w.tail = IF w.head + w.len < Cap(w) THEN w.head + w.len ELSE w.head + w.len - Cap(w)
    <3>1. /\ Cap(r) \in Nat /\ r.head \in Nat /\ r.len \in Nat /\ m \in Nat /\ r.tail \in Nat
          /\ r.head < Cap(r) /\ r.len + m <= Cap(r)
          /\ r.tail = IF r.head + r.len < Cap(r) THEN r.head + r.len ELSE r.head + r.len - Cap(r)
      BY <1>0, <1>m, SMTT(60)
    <3>2. w.tail = IF r.head + (r.len + m) < Cap(r) THEN r.head + (r.len + m) ELSE r.head + (r.len + m) - Cap(r)
      <4>1. (IF r.tail + m < Cap(r) THEN r.tail + m ELSE r.tail + m - Cap(r))
            = IF r.head + (r.len + m) < Cap(r) THEN r.head + (r.len + m) ELSE r.head + (r.len + m) - Cap(r)
        <5>1. PICK c \in Nat, h \in Nat, n \in Nat, x \in Nat, e \in Nat :
                c = Cap(r) /\ h = r.head /\ n = r.len /\ x = m /\ e = r.tail
          BY <3>1
        <5>2. h < c /\ n + x <= c /\ e = IF h + n < c THEN h + n ELSE h + n - c
          BY <3>1, <5>1
        <5>3. (IF e + x < c THEN e + x ELSE e + x - c) = IF h + (n + x) < c THEN h + (n + x) ELSE h + (n + x) - c
          BY <5>2, GoesOn
        <5> QED BY <5>1, <5>3
      <4>2. w.tail = IF r.tail + m < Cap(r) THEN r.tail + m ELSE r.tail + m - Cap(r)
        BY <1>p
      <4> QED BY <4>1, <4>2
    <3>3. Cap(w) = Cap(r) /\ w.head = r.head /\ w.len = r.len + m
      BY <1>p
    <3> QED BY <3>2, <3>3
  <2> QED BY <2>1, <2>2
<1>3. ASSUME NEW k \in 1..w.len
      PROVE  w.data[Cell(w, k)] = new[k]
  <2>0. Cell(w, k) = Cell(r, k) /\ k \in 1..r.len + m /\ k \in 1..Cap(r)
    BY <1>0, <1>m, <1>p, SMTT(60) DEF Cell
  <2>1. CASE k <= r.len
    <3>1. k \in 1..r.len /\ \A j \in 1..m : r.len + j \in 1..Cap(r) /\ r.len + j # k
      BY <1>0, <1>m, <2>0, <2>1, SMTT(60)
    <3>2. \A j \in 1..m : Cell(r, k) # Cell(r, r.len + j)
      BY <2>0, <3>1, CellsApart
    <3>3. Cell(r, k) \in 1..Cap(r)
      BY <2>0, CellsApart
    <3>4. w.data[Cell(r, k)] = r.data[Cell(r, k)]
      BY <1>p, <3>2, <3>3
    <3> QED BY <1>0, <1>1, <2>0, <2>1, <3>1, <3>4
  <2>2. CASE ~(k <= r.len)
    <3>1. k - r.len \in 1..m /\ r.len + (k - r.len) = k
      BY <1>0, <1>m, <2>0, <2>2, SMTT(60)
    <3>2. w.data[Cell(r, r.len + (k - r.len))] = s[k - r.len]
      BY <1>p, <3>1
    <3> QED BY <1>1, <2>0, <2>2, <3>1, <3>2
  <2> QED BY <2>1, <2>2
<1>4. Cap(w) \in RbCaps /\ w.head < Cap(w) /\ Len(new) = w.len
  BY <1>0, <1>1, <1>p
<1>5. RingHolds(w, new)
  BY <1>1, <1>2, <1>3, <1>4, <1>p DEF RingHolds
<1> QED BY <1>5 DEF new

LEMMA CopiedCells ==
  ASSUME NEW data \in Seq(Bytes0), NEW s \in Seq(Bytes0), NEW at \in Nat
  PROVE  /\ Copied(data, at, s) \in Seq(Bytes0) /\ Len(Copied(data, at, s)) = Len(data)
         /\ \A i \in 1..Len(data) :
              Copied(data, at, s)[i] = IF at < i /\ i <= at + Len(s) THEN s[i - at] ELSE data[i]
<1> DEFINE c == Copied(data, at, s)
<1>1. DOMAIN data = 1..Len(data) /\ Len(data) \in Nat /\ Len(s) \in Nat
  OBVIOUS
<1>2. /\ c = [i \in 1..Len(data) |-> c[i]]
      /\ \A i \in 1..Len(data) : c[i] = IF at < i /\ i <= at + Len(s) THEN s[i - at] ELSE data[i]
  BY <1>1 DEF Copied
<1> HIDE DEF c
<1>3. \A i \in 1..Len(data) : c[i] \in Bytes0
  BY <1>1, <1>2
<1>4. c \in [1..Len(data) -> Bytes0]
  BY <1>2, <1>3
<1>5. c \in Seq(Bytes0) /\ Len(c) = Len(data)
  BY <1>1, <1>4
<1> QED BY <1>2, <1>5 DEF c

\* No request wraps the width of size_t, so the room is what is free.
LEMMA RoomIsFree ==
  ASSUME NEW r, NEW ref, RingHolds(r, ref), NEW n \in 0..RbChunk
  PROVE  Room(r, n) = AtMost(n, Cap(r) - r.len) /\ Room(r, n) \in 0..Cap(r) - r.len /\ Room(r, n) <= n
<1>1. /\ Cap(r) \in Nat /\ r.len \in Nat /\ r.len <= Cap(r) /\ n \in Nat
      /\ n + r.len < SizeRange /\ n + r.len \in Nat /\ SizeRange \in Nat
  BY RingFacts
<1>2. (n + r.len) % SizeRange = n + r.len
  BY <1>1
<1> QED BY <1>1, <1>2 DEF Room, AtMost

\* ct_rbuf_write, whole across the end of the storage.
LEMMA WrittenHolds ==
  ASSUME NEW r, NEW ref, RingHolds(r, ref), NEW src \in Seq(Bytes0), Len(src) <= RbChunk
  PROVE  RingHolds(Written(r, src), ref \o SubSeq(src, 1, AtMost(Len(src), Cap(r) - Len(ref))))
<1> DEFINE m == Room(r, Len(src))
           s == SubSeq(src, 1, m)
           first == Cap(r) - r.tail
           end == r.tail + Len(s)
           w == Written(r, src)
           a == SubSeq(s, 1, first)
           b == SubSeq(s, first + 1, Len(s))
           d == IF end <= Cap(r) THEN Copied(r.data, r.tail, s) ELSE Copied(Copied(r.data, r.tail, a), 0, b)
<1>0. /\ r.data \in Seq(Bytes0) /\ Len(r.data) = Cap(r) /\ Cap(r) \in Nat /\ Cap(r) > 0
      /\ r.head \in Nat /\ r.tail \in Nat /\ r.len \in Nat /\ r.tail < Cap(r) /\ r.len <= Cap(r)
      /\ RbChunk \in Nat /\ Len(ref) = r.len
  BY RingFacts
<1>1. m = AtMost(Len(src), Cap(r) - Len(ref)) /\ m \in 0..Cap(r) - r.len /\ m <= Len(src)
  <2>1. Len(src) \in 0..RbChunk
    BY <1>0
  <2> QED BY <1>0, <2>1, RoomIsFree
<1>w. w = [r EXCEPT !.data = d,
                    !.tail = IF end < Cap(r) THEN end ELSE IF end = Cap(r) THEN 0 ELSE Len(s) - first,
                    !.len = r.len + Len(s)]
  BY DEF Written
<1> HIDE DEF m, w
<1>2. s \in Seq(Bytes0) /\ Len(s) = m /\ m \in Nat /\ m <= Cap(r) - r.len
  BY <1>0, <1>1
<1> HIDE DEF s
<1>3. /\ d \in Seq(Bytes0) /\ Len(d) = Cap(r)
      /\ \A i \in 1..Cap(r) :
           d[i] = IF r.tail < i /\ i <= r.tail + m THEN s[i - r.tail]
                  ELSE IF i <= r.tail + m - Cap(r) THEN s[i + Cap(r) - r.tail]
                  ELSE r.data[i]
  <2>1. CASE end <= Cap(r)
    <3>1. d = Copied(r.data, r.tail, s)
      BY <2>1
    <3> HIDE DEF d
    <3>2. /\ d \in Seq(Bytes0) /\ Len(d) = Cap(r)
          /\ \A i \in 1..Cap(r) : d[i] = IF r.tail < i /\ i <= r.tail + m THEN s[i - r.tail] ELSE r.data[i]
      <4>1. /\ d \in Seq(Bytes0) /\ Len(d) = Len(r.data)
            /\ \A i \in 1..Len(r.data) :
                 d[i] = IF r.tail < i /\ i <= r.tail + Len(s) THEN s[i - r.tail] ELSE r.data[i]
        <5>1. r.data \in Seq(Bytes0) /\ s \in Seq(Bytes0) /\ r.tail \in Nat
          BY <1>0, <1>2
        <5> QED BY <3>1, <5>1, CopiedCells, ZenonT(60)
      <4> QED BY <1>0, <1>2, <4>1
    <3>3. \A i \in 1..Cap(r) : ~(i <= r.tail + m - Cap(r))
      BY <1>0, <1>2, <2>1
    <3> QED BY <3>2, <3>3
  <2>2. CASE ~(end <= Cap(r))
    <3>1. d = Copied(Copied(r.data, r.tail, a), 0, b)
      BY <2>2
    <3>2. first \in Nat /\ first > 0 /\ first < m /\ first + 1 <= m
      BY <1>0, <1>2, <2>2, SMTT(60)
    <3>3. a \in Seq(Bytes0) /\ Len(a) = first /\ \A k \in 1..first : a[k] = s[k]
      BY <1>2, <3>2
    <3>4. b \in Seq(Bytes0) /\ Len(b) = m - first /\ \A k \in 1..(m - first) : b[k] = s[first + k]
      <4>1. PICK q \in Nat : q = first + 1
        BY <3>2
      <4>2. /\ b = SubSeq(s, q, m) /\ q >= 1 /\ m <= Len(s) /\ q <= m /\ m - q + 1 = m - first
            /\ \A k \in 1..(m - first) : q + k - 1 = first + k
        BY <1>2, <3>2, <4>1, SMTT(120)
      <4> HIDE DEF b
      <4>3. /\ SubSeq(s, q, m) \in Seq(Bytes0)
            /\ Len(SubSeq(s, q, m)) = IF q <= m THEN m - q + 1 ELSE 0
            /\ \A k \in 1..(m - q + 1) : SubSeq(s, q, m)[k] = s[q + k - 1]
        BY <1>2, <4>2, PartElements
      <4> QED BY <4>2, <4>3
    <3> DEFINE c == Copied(r.data, r.tail, a)
    <3> HIDE DEF a, b, d
    <3>5. /\ c \in Seq(Bytes0) /\ Len(c) = Cap(r)
          /\ \A i \in 1..Cap(r) : c[i] = IF r.tail < i /\ i <= r.tail + first THEN a[i - r.tail] ELSE r.data[i]
      <4>1. r.data \in Seq(Bytes0) /\ a \in Seq(Bytes0) /\ r.tail \in Nat
        BY <1>0, <3>3
      <4>2. /\ c \in Seq(Bytes0) /\ Len(c) = Len(r.data)
            /\ \A i \in 1..Len(r.data) : c[i] = IF r.tail < i /\ i <= r.tail + Len(a) THEN a[i - r.tail] ELSE r.data[i]
        BY <4>1, CopiedCells, SMTT(60)
      <4> HIDE DEF c, first
      <4> QED BY <1>0, <3>3, <4>2
    <3>6. d = Copied(c, 0, b)
      BY <3>1
    <3> HIDE DEF c
    <3>7. /\ d \in Seq(Bytes0) /\ Len(d) = Cap(r)
          /\ \A i \in 1..Cap(r) : d[i] = IF 0 < i /\ i <= 0 + (m - first) THEN b[i - 0] ELSE c[i]
      <4>1. c \in Seq(Bytes0) /\ b \in Seq(Bytes0) /\ 0 \in Nat
        BY <3>4, <3>5
      <4>2. /\ d \in Seq(Bytes0) /\ Len(d) = Len(c)
            /\ \A i \in 1..Len(c) : d[i] = IF 0 < i /\ i <= 0 + Len(b) THEN b[i - 0] ELSE c[i]
        BY <3>6, <4>1, CopiedCells
      <4> HIDE DEF first
      <4> QED BY <3>4, <3>5, <4>2
    <3>8. ASSUME NEW i \in 1..Cap(r)
          PROVE  d[i] = IF r.tail < i /\ i <= r.tail + m THEN s[i - r.tail]
                        ELSE IF i <= r.tail + m - Cap(r) THEN s[i + Cap(r) - r.tail]
                        ELSE r.data[i]
      <4>1. CASE r.tail < i
        <5>0. first = Cap(r) - r.tail /\ i \in Int /\ i <= Cap(r) /\ m - first <= r.tail
          BY <1>0, <1>2, SMTT(60)
        <5> HIDE DEF first
        <5>i. r.tail \in Int /\ m \in Int /\ first \in Int /\ Cap(r) \in Int /\ first < m
          BY <1>0, <1>2, <3>2
        <5>j. i <= r.tail + first /\ i - r.tail \in 1..first
          BY <4>1, <5>0, <5>i, SMTT(60)
        <5>k. i <= r.tail + m
          BY <5>0, <5>i
        <5>l. ~(i <= 0 + (m - first))
          BY <4>1, <5>0, <5>i, SMTT(60)
        <5>1. i <= r.tail + m /\ i <= r.tail + first /\ ~(i <= 0 + (m - first)) /\ i - r.tail \in 1..first
          BY <5>j, <5>k, <5>l
        <5>2. d[i] = c[i]
          BY <3>2, <3>7, <5>1, <1>2
        <5> QED BY <3>3, <3>5, <4>1, <5>1, <5>2
      <4>2. CASE ~(r.tail < i) /\ i <= m - first
        <5>1. i \in 1..(m - first) /\ i - 0 = i /\ 0 < i /\ i <= 0 + (m - first)
              /\ i <= r.tail + m - Cap(r) /\ first + i = i + Cap(r) - r.tail
          BY <1>0, <1>2, <3>2, <4>2, SMTT(60)
        <5> QED BY <3>4, <3>7, <4>2, <5>1
      <4>3. CASE ~(r.tail < i) /\ ~(i <= m - first)
        <5>1. ~(i <= 0 + (m - first)) /\ ~(i <= r.tail + m - Cap(r))
          BY <1>0, <1>2, <3>2, <4>3, SMTT(60)
        <5> QED BY <3>5, <3>7, <4>3, <5>1
      <4> QED BY <4>1, <4>2, <4>3
    <3> QED BY <3>7, <3>8
  <2> QED BY <2>1, <2>2
<1> HIDE DEF d
<1>4. /\ w.data = d /\ w.head = r.head /\ w.len = r.len + m /\ Cap(w) = Cap(r)
      /\ w.tail = IF end < Cap(r) THEN end ELSE IF end = Cap(r) THEN 0 ELSE Len(s) - first
      /\ w = [data |-> w.data, head |-> w.head, tail |-> w.tail, len |-> w.len]
  <2>1. r \in [data : Seq(Bytes0), head : Nat, tail : Nat, len : Nat]
    BY DEF RingHolds
  <2> QED BY <1>2, <1>3, <1>w, <2>1 DEF Cap
<1>5. w.tail = IF r.tail + m < Cap(r) THEN r.tail + m ELSE r.tail + m - Cap(r)
  <2>1. Cap(r) \in Nat /\ r.tail \in Nat /\ m \in Nat /\ Len(s) = m
    BY <1>0, <1>2
  <2>2. w.tail = IF r.tail + m < Cap(r) THEN r.tail + m ELSE IF r.tail + m = Cap(r) THEN 0 ELSE m - (Cap(r) - r.tail)
    BY <1>4, <2>1
  <2> QED BY <2>1, <2>2
<1>6. w \in [data : Seq(Bytes0), head : Nat, tail : Nat, len : Nat]
  <2>1. w.tail \in Nat /\ w.len \in Nat
    BY <1>0, <1>2, <1>4, <1>5, SMTT(120)
  <2> QED BY <1>0, <1>3, <1>4, <2>1
<1>7. ASSUME NEW k \in 1..m
      PROVE  w.data[Cell(r, r.len + k)] = s[k]
  <2>1. k \in 1..(Cap(r) - r.len)
    BY <1>0, <1>2
  <2>2. Cell(r, r.len + k) = IF r.tail + k <= Cap(r) THEN r.tail + k ELSE r.tail + k - Cap(r)
    BY <2>1, CellsApart
  <2>3. CASE r.tail + k <= Cap(r)
    <3>1. r.tail + k \in 1..Cap(r) /\ r.tail < r.tail + k /\ r.tail + k <= r.tail + m /\ (r.tail + k) - r.tail = k
      BY <1>0, <1>2, <2>3, SMTT(60)
    <3> QED BY <1>3, <1>4, <2>2, <2>3, <3>1
  <2>4. CASE ~(r.tail + k <= Cap(r))
    <3> DEFINE i == r.tail + k - Cap(r)
    <3>1. i \in 1..Cap(r) /\ ~(r.tail < i) /\ i <= r.tail + m - Cap(r) /\ i + Cap(r) - r.tail = k
      BY <1>0, <1>2, <2>1, <2>4, SMTT(120)
    <3>2. Cell(r, r.len + k) = i
      BY <2>2, <2>4
    <3> HIDE DEF i
    <3> QED BY <1>3, <1>4, <3>1, <3>2
  <2> QED BY <2>3, <2>4
<1>8. ASSUME NEW i \in 1..Cap(r), \A k \in 1..m : i # Cell(r, r.len + k)
      PROVE  w.data[i] = r.data[i]
  <2>1. ~(r.tail < i /\ i <= r.tail + m)
    <3> SUFFICES ASSUME r.tail < i /\ i <= r.tail + m
                 PROVE  FALSE
      OBVIOUS
    <3>1. i - r.tail \in 1..m /\ i - r.tail \in 1..(Cap(r) - r.len) /\ r.tail + (i - r.tail) = i /\ i <= Cap(r)
      BY <1>0, <1>2, SMTT(60)
    <3>2. Cell(r, r.len + (i - r.tail)) = i
      BY <3>1, CellsApart
    <3> QED BY <1>8, <3>1, <3>2
  <2>2. ~(i <= r.tail + m - Cap(r))
    <3> SUFFICES ASSUME i <= r.tail + m - Cap(r)
                 PROVE  FALSE
      OBVIOUS
    <3> DEFINE k == i + Cap(r) - r.tail
    <3>1. k \in 1..m /\ k \in 1..(Cap(r) - r.len) /\ r.tail + k - Cap(r) = i /\ ~(r.tail + k <= Cap(r))
      BY <1>0, <1>2, SMTT(120)
    <3> HIDE DEF k
    <3>2. Cell(r, r.len + k) = i
      BY <3>1, CellsApart
    <3> QED BY <1>8, <3>1, <3>2
  <2> QED BY <1>3, <1>4, <2>1, <2>2
<1>9. RingHolds(w, ref \o s)
  <2>1. Puts(r, s, w)
    BY <1>2, <1>4, <1>5, <1>6, <1>7, <1>8 DEF Puts
  <2> QED BY <1>2, <2>1, AppendedHolds
<1> QED BY <1>1, <1>9 DEF w, s

\* A span filled by the caller and committed with ct_rbuf_commit.
LEMMA InPlaceHolds ==
  ASSUME NEW r, NEW ref, RingHolds(r, ref), NEW s \in Seq(Bytes0), Len(s) <= RbChunk, Len(s) <= WriteSpan(r)
  PROVE  RingHolds(Committed([r EXCEPT !.data = Copied(@, r.tail, s)], Len(s)), ref \o s)
<1> DEFINE m == Len(s)
           d == Copied(r.data, r.tail, s)
           q == [r EXCEPT !.data = d]
           w == Committed(q, m)
<1>0. /\ r.data \in Seq(Bytes0) /\ Len(r.data) = Cap(r) /\ Cap(r) \in Nat /\ Cap(r) > 0
      /\ r.head \in Nat /\ r.tail \in Nat /\ r.len \in Nat /\ r.tail < Cap(r) /\ r.len <= Cap(r)
      /\ RbChunk \in Nat /\ m \in Nat
  BY RingFacts
<1>1. m <= Cap(r) - r.len /\ m <= Cap(r) - r.tail /\ r.tail + m <= Cap(r)
  <2>1. m <= AtMost(Cap(r) - r.len, Cap(r) - r.tail)
    BY DEF WriteSpan
  <2> HIDE DEF m
  <2> QED BY <1>0, <2>1, SMTT(60) DEF AtMost
<1>2. /\ d \in Seq(Bytes0) /\ Len(d) = Cap(r)
      /\ \A i \in 1..Cap(r) : d[i] = IF r.tail < i /\ i <= r.tail + m THEN s[i - r.tail] ELSE r.data[i]
  <2>1. /\ d \in Seq(Bytes0) /\ Len(d) = Len(r.data)
        /\ \A i \in 1..Len(r.data) : d[i] = IF r.tail < i /\ i <= r.tail + Len(s) THEN s[i - r.tail] ELSE r.data[i]
    <3>1. r.data \in Seq(Bytes0) /\ r.tail \in Nat
      BY <1>0
    <3> HIDE DEF d
    <3>2. d = Copied(r.data, r.tail, s)
      BY DEF d
    <3> QED BY <3>1, <3>2, CopiedCells, ZenonT(60)
  <2> HIDE DEF d
  <2> QED BY <1>0, <2>1
<1> HIDE DEF d
<1>3. /\ r \in [data : Seq(Bytes0), head : Nat, tail : Nat, len : Nat]
      /\ q.data = d /\ q.head = r.head /\ q.tail = r.tail /\ q.len = r.len /\ Cap(q) = Cap(r)
      /\ q \in [data : Seq(Bytes0), head : Nat, tail : Nat, len : Nat]
  <2>1. r \in [data : Seq(Bytes0), head : Nat, tail : Nat, len : Nat]
    BY DEF RingHolds
  <2> QED BY <1>2, <2>1 DEF Cap
<1> HIDE DEF q
<1>4. Room(q, m) = m
  <2>1. m \in 0..RbChunk
    BY <1>0
  <2>2. Room(r, m) = AtMost(m, Cap(r) - r.len)
    <3> HIDE DEF m
    <3> QED BY <2>1, RoomIsFree
  <2>3. AtMost(m, Cap(r) - r.len) = m
    BY <1>0, <1>1 DEF AtMost
  <2>4. Room(q, m) = Room(r, m)
    BY <1>3 DEF Room
  <2> QED BY <2>2, <2>3, <2>4
<1>5. w = [q EXCEPT !.tail = IF r.tail + m >= Cap(r) /\ m > 0 THEN r.tail + m - Cap(r) ELSE r.tail + m,
                    !.len = r.len + m]
  BY <1>3, <1>4 DEF Committed
<1> HIDE DEF w
<1>6. /\ w.data = d /\ w.head = r.head /\ w.len = r.len + m /\ Cap(w) = Cap(r)
      /\ w.tail = IF r.tail + m >= Cap(r) /\ m > 0 THEN r.tail + m - Cap(r) ELSE r.tail + m
      /\ w = [data |-> w.data, head |-> w.head, tail |-> w.tail, len |-> w.len]
  BY <1>3, <1>5 DEF Cap
<1>7. w.tail = IF r.tail + m < Cap(r) THEN r.tail + m ELSE r.tail + m - Cap(r)
  BY <1>0, <1>1, <1>6, SMTT(60)
<1>8. w \in [data : Seq(Bytes0), head : Nat, tail : Nat, len : Nat]
  <2>1. w.tail \in Nat /\ w.len \in Nat
    BY <1>0, <1>1, <1>6, <1>7, SMTT(60)
  <2> QED BY <1>0, <1>2, <1>6, <2>1
<1>9. \A k \in 1..m : Cell(r, r.len + k) = r.tail + k
  <2>1. ASSUME NEW k \in 1..m
        PROVE  k \in 1..(Cap(r) - r.len) /\ r.tail + k <= Cap(r)
    BY <1>0, <1>1, SMTT(60)
  <2> QED BY <2>1, CellsApart
<1>10. ASSUME NEW k \in 1..m
       PROVE  w.data[Cell(r, r.len + k)] = s[k]
  <2>1. r.tail + k \in 1..Cap(r) /\ r.tail < r.tail + k /\ r.tail + k <= r.tail + m /\ (r.tail + k) - r.tail = k
    BY <1>0, <1>1, SMTT(60)
  <2> QED BY <1>2, <1>6, <1>9, <2>1
<1>11. ASSUME NEW i \in 1..Cap(r), \A k \in 1..m : i # Cell(r, r.len + k)
       PROVE  w.data[i] = r.data[i]
  <2>1. ASSUME r.tail < i /\ i <= r.tail + m
        PROVE  FALSE
    <3>1. i - r.tail \in 1..m /\ r.tail + (i - r.tail) = i
      BY <1>0, <2>1, SMTT(60)
    <3> QED BY <1>9, <1>11, <3>1
  <2> QED BY <1>2, <1>6, <2>1
<1>12. Puts(r, s, w)
  BY <1>6, <1>7, <1>8, <1>10, <1>11 DEF Puts
<1>13. RingHolds(w, ref \o s)
  BY <1>1, <1>12, AppendedHolds
<1> QED BY <1>13 DEF w, q, d

\* ct_queue_enqueue: one element, in the tail's cell.
LEMMA EnqueuedHolds ==
  ASSUME NEW r, NEW ref, RingHolds(r, ref), r.len < Cap(r), NEW x \in Bytes0
  PROVE  RingHolds([r EXCEPT !.data[r.tail + 1] = x, !.tail = After(r, @), !.len = @ + 1], Append(ref, x))
<1> DEFINE d == [r.data EXCEPT ![r.tail + 1] = x]
           w == [r EXCEPT !.data = d, !.tail = After(r, r.tail), !.len = r.len + 1]
           s == <<x>>
<1>0. /\ r.data \in Seq(Bytes0) /\ Len(r.data) = Cap(r) /\ Cap(r) \in Nat /\ Cap(r) > 0
      /\ r.head \in Nat /\ r.tail \in Nat /\ r.len \in Nat /\ r.tail < Cap(r) /\ r.len <= Cap(r)
      /\ ref \in Seq(Bytes0)
  BY RingFacts
<1>1. r \in [data : Seq(Bytes0), head : Nat, tail : Nat, len : Nat]
  BY DEF RingHolds
<1>2. s \in Seq(Bytes0) /\ Len(s) = 1 /\ s[1] = x /\ Append(ref, x) = ref \o s
  BY <1>0
<1> HIDE DEF s
<1>3. /\ d \in Seq(Bytes0) /\ Len(d) = Cap(r) /\ d[r.tail + 1] = x
      /\ \A i \in 1..Cap(r) : i # r.tail + 1 => d[i] = r.data[i]
  BY <1>0
<1> HIDE DEF d
<1>4. /\ w.data = d /\ w.head = r.head /\ w.len = r.len + 1 /\ Cap(w) = Cap(r) /\ w.tail = After(r, r.tail)
      /\ w = [data |-> w.data, head |-> w.head, tail |-> w.tail, len |-> w.len]
  <2>1. PICK t : t = After(r, r.tail)
    OBVIOUS
  <2>2. w = [r EXCEPT !.data = d, !.tail = t, !.len = r.len + 1]
    BY <2>1
  <2> HIDE DEF w
  <2>3. /\ w.data = d /\ w.head = r.head /\ w.len = r.len + 1 /\ w.tail = t
        /\ w = [data |-> w.data, head |-> w.head, tail |-> w.tail, len |-> w.len]
    BY <1>1, <2>2
  <2>4. Cap(w) = Cap(r)
    BY <1>3, <2>3 DEF Cap
  <2> QED BY <2>1, <2>3, <2>4
<1>5. w.tail = IF r.tail + 1 < Cap(r) THEN r.tail + 1 ELSE r.tail + 1 - Cap(r)
  BY <1>0, <1>4 DEF After
<1>w. w = [r EXCEPT !.data[r.tail + 1] = x, !.tail = After(r, @), !.len = @ + 1]
  BY <1>1 DEF d
<1> HIDE DEF w
<1>6. w \in [data : Seq(Bytes0), head : Nat, tail : Nat, len : Nat]
  <2>1. w.tail \in Nat /\ w.len \in Nat
    BY <1>0, <1>4, <1>5, SMTT(60)
  <2> QED BY <1>0, <1>3, <1>4, <2>1
<1>7. Cell(r, r.len + 1) = r.tail + 1
  <2>1. 1 \in 1..(Cap(r) - r.len) /\ r.tail + 1 <= Cap(r)
    BY <1>0
  <2> QED BY <2>1, CellsApart
<1>8. Puts(r, s, w)
  <2>1. \A k \in 1..Len(s) : k = 1
    BY <1>2
  <2>2. \A k \in 1..Len(s) : w.data[Cell(r, r.len + k)] = s[k]
    BY <1>2, <1>3, <1>4, <1>7, <2>1
  <2>3. ASSUME NEW i \in 1..Cap(r), \A k \in 1..Len(s) : i # Cell(r, r.len + k)
        PROVE  w.data[i] = r.data[i]
    <3>1. 1 \in 1..Len(s)
      BY <1>2
    <3> QED BY <1>3, <1>4, <1>7, <2>3, <3>1
  <2> QED BY <1>2, <1>4, <1>5, <1>6, <2>2, <2>3 DEF Puts
<1>9. Len(s) <= Cap(r) - r.len
  BY <1>0, <1>2
<1>10. RingHolds(w, ref \o s)
  BY <1>2, <1>8, <1>9, AppendedHolds
<1> QED BY <1>2, <1>10, <1>w

\* ct_queue_dequeue takes what one read of the ring would.
LEMMA DequeuedHolds ==
  ASSUME NEW r, NEW ref, RingHolds(r, ref), r.len > 0
  PROVE  RingHolds([r EXCEPT !.head = After(r, @), !.len = @ - 1], Tail(ref))
<1>0. /\ Cap(r) \in Nat /\ r.head \in Nat /\ r.len \in Nat /\ r.head < Cap(r) /\ ref \in Seq(Bytes0) /\ Len(ref) = r.len
  BY RingFacts
<1>1. RingHolds(Consumed(r, 1), SubSeq(ref, 1 + 1, Len(ref)))
  BY ConsumedHolds
<1>2. SubSeq(ref, 1 + 1, Len(ref)) = Tail(ref)
  <2> DEFINE a == SubSeq(ref, 2, Len(ref))
             b == Tail(ref)
  <2>1. a \in Seq(Bytes0) /\ Len(a) = Len(ref) - 1 /\ \A k \in 1..(Len(ref) - 1) : a[k] = ref[k + 1]
    BY <1>0
  <2>2. b \in Seq(Bytes0) /\ Len(b) = Len(ref) - 1 /\ \A k \in 1..(Len(ref) - 1) : b[k] = ref[k + 1]
    BY <1>0
  <2>3. 1 + 1 = 2
    OBVIOUS
  <2> HIDE DEF a, b
  <2>4. a = b
    BY <2>1, <2>2, SameElements
  <2> QED BY <2>3, <2>4 DEF a, b
<1>3. Consumed(r, 1) = [r EXCEPT !.head = After(r, @), !.len = @ - 1]
  <2>1. AtMost(1, r.len) = 1
    BY <1>0 DEF AtMost
  <2>2. (IF r.head + 1 >= Cap(r) /\ 1 > 0 THEN r.head + 1 - Cap(r) ELSE r.head + 1) = After(r, r.head)
    BY <1>0 DEF After
  <2>3. Consumed(r, 1) = [r EXCEPT !.head = IF r.head + 1 >= Cap(r) /\ 1 > 0 THEN r.head + 1 - Cap(r) ELSE r.head + 1,
                                   !.len = r.len - 1]
    BY <2>1 DEF Consumed
  <2> QED BY <2>2, <2>3
<1> QED BY <1>1, <1>2, <1>3

LEMMA ClearedHolds ==
  ASSUME NEW r, NEW ref, RingHolds(r, ref)
  PROVE  RingHolds([r EXCEPT !.head = 0, !.tail = 0, !.len = 0], << >>)
<1> DEFINE w == [r EXCEPT !.head = 0, !.tail = 0, !.len = 0]
<1>0. r.data \in Seq(Bytes0) /\ Cap(r) \in Nat /\ Cap(r) > 0 /\ Cap(r) \in RbCaps
  BY RingFacts
<1>1. /\ w \in [data : Seq(Bytes0), head : Nat, tail : Nat, len : Nat]
      /\ w.data = r.data /\ w.head = 0 /\ w.tail = 0 /\ w.len = 0
  BY DEF RingHolds
<1> HIDE DEF w
<1>2. Cap(w) = Cap(r)
  BY <1>1 DEF Cap
<1>3. RingHolds(w, << >>)
  BY <1>0, <1>1, <1>2 DEF RingHolds
<1> QED BY <1>3 DEF w

LEMMA EmptyHolds ==
  ASSUME NEW cap \in RbCaps
  PROVE  RingHolds(EmptyRing(cap), << >>)
<1> DEFINE w == EmptyRing(cap)
<1>0. cap \in Nat /\ cap > 0
  BY RbAssumption
<1>1. /\ w \in [data : Seq(Bytes0), head : Nat, tail : Nat, len : Nat]
      /\ Len(w.data) = cap /\ w.head = 0 /\ w.tail = 0 /\ w.len = 0
  BY <1>0 DEF EmptyRing, Bytes0
<1> HIDE DEF w
<1>2. Cap(w) = cap
  BY <1>1 DEF Cap
<1>3. RingHolds(w, << >>)
  BY <1>0, <1>1, <1>2 DEF RingHolds
<1> QED BY <1>3 DEF w

\* A part of the cells, from one within the storage on.
LEMMA PartOfCells ==
  ASSUME NEW data \in Seq(Bytes0), NEW h \in Nat, NEW k \in Nat, h + k <= Len(data)
  PROVE  /\ SubSeq(data, h + 1, h + k) \in Seq(Bytes0) /\ Len(SubSeq(data, h + 1, h + k)) = k
         /\ \A j \in 1..k : SubSeq(data, h + 1, h + k)[j] = data[h + j]
<1>1. PICK p \in Nat : p = h + 1
  OBVIOUS
<1>2. PICK q \in Nat : q = h + k
  OBVIOUS
<1>3. /\ SubSeq(data, p, q) \in Seq(Bytes0)
      /\ Len(SubSeq(data, p, q)) = IF p <= q THEN q - p + 1 ELSE 0
      /\ \A j \in 1..(q - p + 1) : SubSeq(data, p, q)[j] = data[p + j - 1]
  <2>1. p >= 1 /\ q <= Len(data)
    BY <1>1, <1>2
  <2> QED BY <2>1, PartElements
<1>4. q - p + 1 = k /\ (IF p <= q THEN q - p + 1 ELSE 0) = k
  BY <1>1, <1>2
<1>5. \A j \in 1..k : p + j - 1 = h + j
  BY <1>1
<1>6. SubSeq(data, p, q) = SubSeq(data, h + 1, h + k)
  BY <1>1, <1>2
<1> QED BY <1>3, <1>4, <1>5, <1>6

\* A peek, of any length, copies out the front.
LEMMA PeekedFront ==
  ASSUME NEW r, NEW ref, RingHolds(r, ref), NEW n \in Nat
  PROVE  Peeked(r, n) = SubSeq(ref, 1, AtMost(n, r.len))
<1> DEFINE m == AtMost(n, r.len)
           new == SubSeq(ref, 1, m)
<1>0. /\ r.data \in Seq(Bytes0) /\ Len(r.data) = Cap(r) /\ Cap(r) \in Nat /\ Cap(r) > 0
      /\ r.head \in Nat /\ r.len \in Nat /\ r.head < Cap(r) /\ r.len <= Cap(r)
      /\ ref \in Seq(Bytes0) /\ Len(ref) = r.len /\ \A k \in 1..r.len : r.data[Cell(r, k)] = ref[k]
  BY RingFacts
<1>1. m \in Nat /\ m <= r.len
  BY <1>0 DEF AtMost
<1>p. Peeked(r, n) = IF r.head + m <= Cap(r) THEN SubSeq(r.data, r.head + 1, r.head + m)
                     ELSE SubSeq(r.data, r.head + 1, Cap(r)) \o SubSeq(r.data, 1, m - (Cap(r) - r.head))
  BY DEF Peeked
<1> HIDE DEF m
<1>2. new \in Seq(Bytes0) /\ Len(new) = m /\ \A k \in 1..m : new[k] = ref[k] /\ k \in 1..r.len
  BY <1>0, <1>1
<1> HIDE DEF new
<1>3. \A k \in 1..m : new[k] = r.data[Cell(r, k)]
  BY <1>0, <1>2
<1>4. ASSUME r.head + m <= Cap(r)
      PROVE  Peeked(r, n) = new
  <2> DEFINE a == SubSeq(r.data, r.head + 1, r.head + m)
  <2>1. a \in Seq(Bytes0) /\ Len(a) = m /\ \A k \in 1..m : a[k] = r.data[r.head + k]
    BY <1>0, <1>1, <1>4, PartOfCells, ZenonT(120)
  <2>2. a = Peeked(r, n)
    BY <1>4, <1>p
  <2> HIDE DEF a
  <2>3. \A k \in 1..m : Cell(r, k) = r.head + k
    BY <1>0, <1>1, <1>4 DEF Cell
  <2>4. \A k \in 1..Len(a) : a[k] = new[k]
    BY <1>3, <2>1, <2>3
  <2>5. a = new
    BY <1>2, <2>1, <2>4, SameElements
  <2> QED BY <2>2, <2>5
<1>5. ASSUME ~(r.head + m <= Cap(r))
      PROVE  Peeked(r, n) = new
  <2>1. PICK f \in Nat : f = Cap(r) - r.head
    BY <1>0
  <2>2. PICK q \in Nat : q = m - f
    BY <1>0, <1>1, <1>5, <2>1
  <2> DEFINE a == SubSeq(r.data, r.head + 1, r.head + f)
             b == SubSeq(r.data, 0 + 1, 0 + q)
             c == a \o b
  <2>3. a \in Seq(Bytes0) /\ Len(a) = f /\ \A k \in 1..f : a[k] = r.data[r.head + k]
    <3>1. r.head + f <= Len(r.data)
      BY <1>0, <2>1
    <3> QED BY <1>0, <3>1, PartOfCells, ZenonT(60)
  <2>4. b \in Seq(Bytes0) /\ Len(b) = q /\ \A k \in 1..q : b[k] = r.data[0 + k]
    <3>1. 0 + q <= Len(r.data) /\ 0 \in Nat
      BY <1>0, <1>1, <2>1, <2>2, SMTT(60)
    <3> QED BY <1>0, <3>1, PartOfCells
  <2>5. c = Peeked(r, n)
    <3>1. r.head + f = Cap(r) /\ 0 + 1 = 1 /\ 0 + q = m - (Cap(r) - r.head)
      BY <1>0, <1>1, <2>1, <2>2, SMTT(60)
    <3> QED BY <1>5, <1>p, <3>1
  <2> HIDE DEF a, b
  <2>6. /\ c \in Seq(Bytes0) /\ Len(c) = Len(a) + Len(b)
        /\ \A k \in 1..Len(a) + Len(b) : c[k] = IF k <= Len(a) THEN a[k] ELSE b[k - Len(a)]
    BY <2>3, <2>4, JoinedElements, ZenonT(60)
  <2> HIDE DEF c
  <2>7. f + q = m
    BY <1>1, <2>2
  <2>8. c \in Seq(Bytes0) /\ Len(c) = m /\ \A k \in 1..m : c[k] = IF k <= f THEN a[k] ELSE b[k - f]
    BY <2>3, <2>4, <2>6, <2>7
  <2>9. ASSUME NEW k \in 1..m
        PROVE  c[k] = new[k]
    <3>1. ASSUME k <= f
          PROVE  c[k] = new[k]
      <4>1. k \in 1..f
        BY <2>1, <3>1
      <4>2. Cell(r, k) = r.head + k
        BY <1>0, <2>1, <3>1 DEF Cell
      <4> QED BY <1>3, <2>3, <2>8, <3>1, <4>1, <4>2
    <3>2. ASSUME ~(k <= f)
          PROVE  c[k] = new[k]
      <4>1. PICK j \in Nat : j = k - f
        BY <3>2
      <4>2. j \in 1..q /\ 0 + j = j
        BY <1>1, <2>7, <3>2, <4>1
      <4>3. Cell(r, k) = j
        <5>1. ~(r.head + k <= Cap(r)) /\ r.head + k - Cap(r) = j
          BY <1>0, <1>1, <2>1, <3>2, <4>1, SMTT(60)
        <5> QED BY <5>1 DEF Cell
      <4> QED BY <1>3, <2>4, <2>8, <3>2, <4>1, <4>2, <4>3
    <3> QED BY <3>1, <3>2
  <2>10. \A k \in 1..Len(c) : c[k] = new[k]
    BY <2>8, <2>9
  <2>11. c = new
    BY <1>2, <2>8, <2>10, SameElements
  <2> QED BY <2>5, <2>11
<1> QED BY <1>4, <1>5 DEF m, new

\* The span handed out for reading in place is such a front.
LEMMA SpanFront ==
  ASSUME NEW r, NEW ref, RingHolds(r, ref)
  PROVE  /\ ReadSpan(r) \in Nat
         /\ SubSeq(r.data, r.head + 1, r.head + ReadSpan(r)) = SubSeq(ref, 1, ReadSpan(r))
         /\ r.len > 0 => ReadSpan(r) > 0
         /\ r.len < Cap(r) => WriteSpan(r) > 0
<1>0. /\ Cap(r) \in Nat /\ r.head \in Nat /\ r.len \in Nat /\ r.tail \in Nat
      /\ r.head < Cap(r) /\ r.tail < Cap(r) /\ r.len <= Cap(r)
  BY RingFacts
<1>1. /\ ReadSpan(r) \in Nat /\ ReadSpan(r) <= r.len /\ r.head + ReadSpan(r) <= Cap(r)
      /\ r.len > 0 => ReadSpan(r) > 0
  BY <1>0 DEF ReadSpan, AtMost
<1>2. r.len < Cap(r) => WriteSpan(r) > 0
  BY <1>0 DEF WriteSpan, AtMost
<1>3. AtMost(ReadSpan(r), r.len) = ReadSpan(r)
  BY <1>0, <1>1 DEF AtMost
<1>4. Peeked(r, ReadSpan(r)) = SubSeq(ref, 1, ReadSpan(r))
  BY <1>1, <1>3, PeekedFront
<1>5. Peeked(r, ReadSpan(r)) = SubSeq(r.data, r.head + 1, r.head + ReadSpan(r))
  BY <1>1, <1>3 DEF Peeked
<1> QED BY <1>1, <1>2, <1>4, <1>5

\* ct_queue_traverse meets the elements in order.
LEMMA VisitedAll ==
  ASSUME NEW r, NEW ref, RingHolds(r, ref)
  PROVE  Visited(r) = ref
<1>0. /\ r.data \in Seq(Bytes0) /\ Len(r.data) = Cap(r) /\ Cap(r) \in Nat /\ Cap(r) > 0
      /\ r.head \in Nat /\ r.len \in Nat /\ r.head < Cap(r) /\ r.len <= Cap(r)
      /\ ref \in Seq(Bytes0) /\ Len(ref) = r.len /\ \A k \in 1..r.len : r.data[Cell(r, k)] = ref[k]
  BY RingFacts
<1>1. ASSUME NEW i \in 1..r.len
      PROVE  r.data[((r.head + i - 1) % Cap(r)) + 1] = ref[i]
  <2>1. (r.head + i - 1) % Cap(r) = IF r.head + i - 1 < Cap(r) THEN r.head + i - 1 ELSE r.head + i - 1 - Cap(r)
    <3>1. PICK a \in Nat : a = r.head + i - 1
      BY <1>0
    <3>2. PICK c \in Nat : c = Cap(r) /\ c > 0 /\ a < 2 * c
      BY <1>0, <3>1
    <3>3. a % c = IF a < c THEN a ELSE a - c
      BY <3>2
    <3>4. (r.head + i - 1) % Cap(r) = a % c
      BY <3>1, <3>2
    <3>5. (IF a < c THEN a ELSE a - c)
            = (IF r.head + i - 1 < Cap(r) THEN r.head + i - 1 ELSE r.head + i - 1 - Cap(r))
      BY <1>0, <3>1, <3>2, SMTT(60)
    <3> QED BY <3>3, <3>4, <3>5
  <2>2. ((r.head + i - 1) % Cap(r)) + 1 = Cell(r, i)
    BY <1>0, <2>1, SMTT(60) DEF Cell
  <2> QED BY <1>0, <2>2
<1>2. Visited(r) = [i \in 1..r.len |-> ref[i]]
  BY <1>1 DEF Visited
<1>3. ref = [i \in 1..r.len |-> ref[i]]
  BY <1>0
<1> QED BY <1>2, <1>3

\* The three of them, with the history of each.
RbInv ==
  /\ rbRef \in [rb : Seq(Bytes0), qu : Seq(Bytes0), st : Seq(RbBytes)]
  /\ RingHolds(rb, rbRef.rb) /\ RingHolds(qu, rbRef.qu)
  /\ st \in [all : Seq(RbBytes), max : Nat] /\ st.all = rbRef.st

\* A call on the ring alone.
LEMMA RingBecomes ==
  ASSUME NEW r, NEW ref, RbInv, RbBecomes(r, ref), RingHolds(r, ref)
  PROVE  RbInv'
<1>1. ref \in Seq(Bytes0)
  BY DEF RingHolds
<1>2. /\ rb' = r /\ qu' = qu /\ st' = st
      /\ rbRef' \in [rb : Seq(Bytes0), qu : Seq(Bytes0), st : Seq(RbBytes)]
      /\ rbRef'.rb = ref /\ rbRef'.qu = rbRef.qu /\ rbRef'.st = rbRef.st
  BY <1>1 DEF RbInv, RbBecomes
<1>3. RingHolds(rb', rbRef'.rb) /\ RingHolds(qu', rbRef'.qu)
  BY <1>2 DEF RbInv
<1> QED BY <1>2, <1>3 DEF RbInv, RingHolds, Cap, Cell

LEMMA RbStep == RbInv /\ RbNext => RbInv'
<1> SUFFICES ASSUME RbInv, RbNext
             PROVE  RbInv'
  OBVIOUS
<1>0. RingHolds(rb, rbRef.rb) /\ Len(rbRef.rb) \in Nat /\ RbChunk \in Nat
  BY RbAssumption DEF RbInv
<1>s. \A s \in Sources : s \in Seq(Bytes0) /\ Len(s) <= RbChunk
  BY <1>0 DEF Sources, SeqOf, Bytes0
<1>1. ASSUME NEW s \in Sources, RbWrite(s)
      PROVE  RbInv'
  BY <1>0, <1>1, <1>s, WrittenHolds, RingBecomes DEF RbWrite
<1>2. ASSUME NEW s \in Sources, RbWriteInPlace(s)
      PROVE  RbInv'
  <2>1. RingHolds(Committed([rb EXCEPT !.data = Copied(@, rb.tail, s)], Len(s)), rbRef.rb \o s)
    BY <1>0, <1>2, <1>s, InPlaceHolds DEF RbWriteInPlace
  <2> QED BY <1>2, <2>1, RingBecomes DEF RbWriteInPlace
<1>3. ASSUME NEW n \in 0..RbChunk, RbRead(n)
      PROVE  RbInv'
  <2>1. n \in Nat
    BY <1>0
  <2> QED BY <1>0, <1>3, <2>1, ConsumedHolds, RingBecomes DEF RbRead
<1>4. ASSUME RbReadInPlace
      PROVE  RbInv'
  <2>1. ReadSpan(rb) \in Nat
    BY <1>0, SpanFront
  <2> QED BY <1>0, <1>4, <2>1, ConsumedHolds, RingBecomes DEF RbReadInPlace
<1>5. ASSUME RbClear
      PROVE  RbInv'
  BY <1>0, <1>5, ClearedHolds, RingBecomes DEF RbClear
<1> QED BY <1>1, <1>2, <1>3, <1>4, <1>5 DEF RbNext

LEMMA QsStep == RbInv /\ QsNext => RbInv'
<1> SUFFICES ASSUME RbInv, QsNext
             PROVE  RbInv'
  OBVIOUS
<1>1. ASSUME NEW q, NEW ref, QueueStackBecome(q, st, "qu", ref), RingHolds(q, ref)
      PROVE  RbInv'
  <2>1. ref \in Seq(Bytes0)
    BY <1>1 DEF RingHolds
  <2>2. /\ rb' = rb /\ qu' = q /\ st' = st
        /\ rbRef' \in [rb : Seq(Bytes0), qu : Seq(Bytes0), st : Seq(RbBytes)]
        /\ rbRef'.rb = rbRef.rb /\ rbRef'.qu = ref /\ rbRef'.st = rbRef.st
    BY <1>1, <2>1 DEF RbInv, QueueStackBecome
  <2>3. RingHolds(rb', rbRef'.rb) /\ RingHolds(qu', rbRef'.qu)
    BY <1>1, <2>2 DEF RbInv
  <2> QED BY <2>2, <2>3 DEF RbInv, RingHolds, Cap, Cell
<1>2. ASSUME NEW a \in Seq(RbBytes), QueueStackBecome(qu, [st EXCEPT !.all = a], "st", a)
      PROVE  RbInv'
  <2>1. /\ rb' = rb /\ qu' = qu /\ st' \in [all : Seq(RbBytes), max : Nat] /\ st'.all = a
        /\ rbRef' \in [rb : Seq(Bytes0), qu : Seq(Bytes0), st : Seq(RbBytes)]
        /\ rbRef'.rb = rbRef.rb /\ rbRef'.qu = rbRef.qu /\ rbRef'.st = a
    BY <1>2 DEF RbInv, QueueStackBecome
  <2> QED BY <2>1, ZenonT(60) DEF RbInv, RingHolds, Cap, Cell
<1>3. ASSUME NEW x \in RbBytes, QuEnqueue(x)
      PROVE  RbInv'
  <2>1. RingHolds([qu EXCEPT !.data[qu.tail + 1] = x, !.tail = After(qu, @), !.len = @ + 1], Append(rbRef.qu, x))
    BY <1>3, EnqueuedHolds DEF QuEnqueue, RbInv, Bytes0
  <2> QED BY <1>1, <1>3, <2>1 DEF QuEnqueue
<1>4. ASSUME QuDequeue
      PROVE  RbInv'
  <2>1. RingHolds([qu EXCEPT !.head = After(qu, @), !.len = @ - 1], Tail(rbRef.qu))
    BY <1>4, DequeuedHolds DEF QuDequeue, RbInv
  <2> QED BY <1>1, <1>4, <2>1 DEF QuDequeue
<1>5. ASSUME NEW x \in RbBytes, StPush(x)
      PROVE  RbInv'
  <2>1. st.all = rbRef.st /\ Append(st.all, x) \in Seq(RbBytes)
    BY DEF RbInv
  <2> QED BY <1>2, <1>5, <2>1 DEF StPush
<1>6. ASSUME StPop
      PROVE  RbInv'
  <2>1. st.all = rbRef.st /\ st.all \in Seq(RbBytes) /\ Len(st.all) \in Nat /\ Len(st.all) > 0
    BY <1>6 DEF StPop, RbInv
  <2>2. Front(st.all) \in Seq(RbBytes)
    <3> DEFINE l == Len(st.all)
    <3>0. l \in Nat /\ l > 0
      BY <2>1
    <3> HIDE DEF l
    <3>1. PICK n \in Nat : n = l - 1
      BY <3>0
    <3>2. SubSeq(st.all, 1, n) \in Seq(RbBytes)
      BY <2>1, <3>0, <3>1 DEF l
    <3> QED BY <3>1, <3>2 DEF Front, l
  <2> QED BY <1>2, <1>6, <2>1, <2>2 DEF StPop
<1> QED BY <1>3, <1>4, <1>5, <1>6 DEF QsNext

\* What goes into the ring buffer, the queue and the stack comes out in their order, for
\* storage of any size, bytes and calls: read, written, peeked at or accessed in place,
\* across the end of the storage (rbuf.c, rbuf.h, queue.c, stack.c).
THEOREM RingKeeps == RbSpec => []RingIntact
<1>1. RbInit => RbInv
  <2> SUFFICES ASSUME RbInit
               PROVE  RbInv
    OBVIOUS
  <2>1. PICK cap \in RbCaps : rb = EmptyRing(cap) /\ qu = EmptyRing(cap) /\ st = [all |-> << >>, max |-> cap]
    BY DEF RbInit
  <2>2. RingHolds(rb, << >>) /\ RingHolds(qu, << >>)
    BY <2>1, EmptyHolds
  <2>3. cap \in Nat /\ << >> \in Seq(RbBytes) /\ << >> \in Seq(Bytes0)
    BY RbAssumption
  <2>4. rbRef = [rb |-> << >>, qu |-> << >>, st |-> << >>]
    BY DEF RbInit
  <2> QED BY <2>1, <2>2, <2>3, <2>4 DEF RbInv
<1>2. RbInv /\ [RbNext \/ QsNext]_rbVars => RbInv'
  <2>1. RbInv /\ UNCHANGED rbVars => RbInv'
    BY DEF RbInv, rbVars, RingHolds, Cap, Cell
  <2> QED BY <2>1, RbStep, QsStep
<1>3. RbInv => RingIntact
  <2> SUFFICES ASSUME RbInv
               PROVE  RingIntact
    OBVIOUS
  <2>1. RingHolds(rb, rbRef.rb) /\ RingHolds(qu, rbRef.qu) /\ st.all = rbRef.st
    BY DEF RbInv
  <2>2. rb.len = Len(rbRef.rb) /\ Cap(rb) \in Nat
    BY <2>1, RingFacts
  <2>3. \A n \in 0..(Cap(rb) + 1) : Peeked(rb, n) = SubSeq(rbRef.rb, 1, AtMost(n, rb.len))
    <3>1. \A n \in 0..(Cap(rb) + 1) : n \in Nat
      BY <2>2
    <3> QED BY <2>1, <3>1, PeekedFront
  <2>4. /\ SubSeq(rb.data, rb.head + 1, rb.head + ReadSpan(rb)) = SubSeq(rbRef.rb, 1, ReadSpan(rb))
        /\ rb.len > 0 => ReadSpan(rb) > 0
        /\ rb.len < Cap(rb) => WriteSpan(rb) > 0
    BY <2>1, SpanFront
  <2>5. Visited(qu) = rbRef.qu
    BY <2>1, VisitedAll
  <2> QED BY <2>1, <2>2, <2>3, <2>4, <2>5 DEF RingIntact
<1> QED BY <1>1, <1>2, <1>3, PTL DEF RbSpec

\* All of them side by side, as the library run explores them.
THEOREM SequencesKept == VcSpec /\ LsSpec /\ RbSpec => []SequencesIntact
<1>1. VectorIntact /\ ListIntact /\ RingIntact => SequencesIntact
  BY DEF SequencesIntact
<1> QED BY <1>1, VectorKeeps, ListLinked, RingKeeps, PTL

-----------------------------------------------------------------------------
(* The calendar. *)

\* The quotients the calendar takes.
LEMMA Quotients ==
  ASSUME NEW a \in Int
  PROVE  /\ a \div 4 \in Int /\ 4 * (a \div 4) <= a /\ a < 4 * (a \div 4) + 4
         /\ a \div 5 \in Int /\ 5 * (a \div 5) <= a /\ a < 5 * (a \div 5) + 5
         /\ a \div 100 \in Int /\ 100 * (a \div 100) <= a /\ a < 100 * (a \div 100) + 100
         /\ a \div 153 \in Int /\ 153 * (a \div 153) <= a /\ a < 153 * (a \div 153) + 153
         /\ a \div 365 \in Int /\ 365 * (a \div 365) <= a /\ a < 365 * (a \div 365) + 365
         /\ a \div 400 \in Int /\ 400 * (a \div 400) <= a /\ a < 400 * (a \div 400) + 400
         /\ a \div 1460 \in Int /\ 1460 * (a \div 1460) <= a /\ a < 1460 * (a \div 1460) + 1460
         /\ a \div 36524 \in Int /\ 36524 * (a \div 36524) <= a /\ a < 36524 * (a \div 36524) + 36524
         /\ a \div 146096 \in Int /\ 146096 * (a \div 146096) <= a /\ a < 146096 * (a \div 146096) + 146096
         /\ a \div 146097 \in Int /\ 146097 * (a \div 146097) <= a /\ a < 146097 * (a \div 146097) + 146097
OBVIOUS

\* The days before a year of the calendar.
YearStart(y) == 365 * y + y \div 4 - y \div 100 + y \div 400

\* The days before a year of a cycle of 400 years.
EraDays(era, yoe) == era * 146097 + yoe * 365 + yoe \div 4 - yoe \div 100

\* A year that starts in March, in the calendar and in its cycle of 400 years.
LEMMA EraYears ==
  ASSUME NEW era \in Int, NEW yoe \in 0..399
  PROVE  EraDays(era, yoe) = YearStart(yoe + 400 * era)
<1>0. PICK y \in Int : y = yoe + 400 * era
  OBVIOUS
<1>1. PICK a \in Int, b \in Int : a = yoe \div 4 /\ b = yoe \div 100
  OBVIOUS
<1>2. PICK p \in Int, q \in Int, r \in Int : p = y \div 4 /\ q = y \div 100 /\ r = y \div 400
  OBVIOUS
<1>3. 4 * a <= yoe /\ yoe < 4 * a + 4 /\ 100 * b <= yoe /\ yoe < 100 * b + 100
  BY <1>1, Quotients
<1>4. 4 * p <= y /\ y < 4 * p + 4 /\ 100 * q <= y /\ y < 100 * q + 100 /\ 400 * r <= y /\ y < 400 * r + 400
  BY <1>2, Quotients
<1>5. yoe \in Int /\ 0 <= yoe /\ yoe <= 399
  OBVIOUS
<1>6. r = era
  BY <1>0, <1>4, <1>5
<1>7. p = a + 100 * era
  BY <1>0, <1>3, <1>4, <1>5
<1>8. q = b + 4 * era
  BY <1>0, <1>3, <1>4, <1>5
<1>9. YearStart(y) = 365 * y + p - q + r
  BY <1>2 DEF YearStart
<1> QED BY <1>0, <1>1, <1>5, <1>6, <1>7, <1>8, <1>9 DEF EraDays

\* The next year.
LEMMA YearGoesOn ==
  ASSUME NEW y \in Int
  PROVE  /\ YearStart(y) \in Int
         /\ YearStart(y) = YearStart(y - 1) + 365 + (IF LeapYear(y) THEN 1 ELSE 0)
<1>1. PICK p \in Int, q \in Int, r \in Int : p = y \div 4 /\ q = y \div 100 /\ r = y \div 400
  OBVIOUS
<1>2. PICK x \in Int : x = y - 1
  OBVIOUS
<1>3. PICK a \in Int, b \in Int, c \in Int : a = x \div 4 /\ b = x \div 100 /\ c = x \div 400
  OBVIOUS
<1>4. 4 * p <= y /\ y < 4 * p + 4 /\ 100 * q <= y /\ y < 100 * q + 100 /\ 400 * r <= y /\ y < 400 * r + 400
  BY <1>1, Quotients
<1>5. 4 * a <= x /\ x < 4 * a + 4 /\ 100 * b <= x /\ x < 100 * b + 100 /\ 400 * c <= x /\ x < 400 * c + 400
  BY <1>3, Quotients
<1>6. y % 4 = y - 4 * p /\ y % 100 = y - 100 * q /\ y % 400 = y - 400 * r
  BY <1>1
<1>7. p = IF y = 4 * p THEN a + 1 ELSE a
  BY <1>2, <1>4, <1>5
<1>8. q = IF y = 100 * q THEN b + 1 ELSE b
  BY <1>2, <1>4, <1>5
<1>9. r = IF y = 400 * r THEN c + 1 ELSE c
  BY <1>2, <1>4, <1>5
<1>10. LeapYear(y) <=> (y = 4 * p /\ ~(y = 100 * q)) \/ y = 400 * r
  BY <1>6 DEF LeapYear
<1>11. (y = 400 * r => y = 100 * q) /\ (y = 100 * q => y = 4 * p)
  BY <1>4
<1>12. YearStart(y) = 365 * y + p - q + r /\ YearStart(y - 1) = 365 * x + a - b + c
  BY <1>1, <1>2, <1>3 DEF YearStart
<1> QED BY <1>2, <1>7, <1>8, <1>9, <1>10, <1>11, <1>12

\* datetime_days_from_civil counts the days of the calendar, from another day on.
LEMMA CivilCounts ==
  ASSUME NEW d \in Int \X Int \X Int, ValidDate(d)
  PROVE  DaysFromCivil(d) = DaysBefore(d) - 719163 /\ DaysFromCivil(d) \in Int
<1>1. PICK Y \in Int, M \in Int, D \in Int : d[1] = Y /\ d[2] = M /\ d[3] = D
  BY SMTT(60)
<1>2. Y \in 1..9999 /\ M \in 1..12
  BY <1>1, SMTT(60) DEF ValidDate, YearInRange
<1>3. PICK y \in Int : y = Y - (IF M <= 2 THEN 1 ELSE 0) /\ y >= 0
  BY <1>2
<1>4. PICK era \in Int : era = y \div 400
  OBVIOUS
<1>5. PICK yoe \in 0..399 : yoe = y - era * 400
  BY <1>4, Quotients, SMTT(60)
<1>6. PICK s \in Int : s = CDiv(153 * (M + (IF M > 2 THEN -3 ELSE 9)) + 2, 5)
  BY <1>2 DEF CDiv
<1>7. DaysFromCivil(d) = era * 146097 + (yoe * 365 + yoe \div 4 - yoe \div 100 + (s + D - 1)) - 719468
  <2>1. CDiv(IF y >= 0 THEN y ELSE y - 399, 400) = era
    BY <1>3, <1>4 DEF CDiv
  <2>2. CDiv(yoe, 4) = yoe \div 4 /\ CDiv(yoe, 100) = yoe \div 100
    BY <1>5 DEF CDiv
  <2> QED BY <1>1, <1>3, <1>5, <1>6, <2>1, <2>2 DEF DaysFromCivil
<1>8. EraDays(era, yoe) = YearStart(y)
  <2>1. EraDays(era, yoe) = YearStart(yoe + 400 * era)
    BY EraYears, ZenonT(60)
  <2>2. y = yoe + 400 * era
    BY <1>5
  <2> QED BY <2>1, <2>2
<1>9. PICK g \in Int : g = YearStart(y)
  BY YearGoesOn
<1>10. DaysFromCivil(d) = g + s + D - 719469
  <2>1. PICK a \in Int, b \in Int : a = yoe \div 4 /\ b = yoe \div 100
    BY <1>5
  <2> QED BY <1>5, <1>7, <1>8, <1>9, <2>1 DEF EraDays
<1>11. DaysBefore(d) = YearStart(Y - 1) + MonthStart(Y, M) + D
  BY <1>1 DEF DaysBefore, YearStart
<1>12. PICK l \in {0, 1} : l = IF LeapYear(Y) THEN 1 ELSE 0
  OBVIOUS
<1>13. PICK m \in Int : m = MonthStart(Y, M) /\ s = m - l + (IF M <= 2 THEN 306 + l ELSE -59)
  <2>1. M \in {1, 2, 3, 4, 5, 6, 7, 8, 9, 10, 11, 12}
    BY <1>2
  <2>2. MonthStart(Y, M) = s + (IF M <= 2 THEN -306 ELSE 59 + l)
    BY <1>6, <1>12, <2>1 DEF MonthStart, CDiv
  <2> QED BY <1>2, <1>12, <2>2
<1>14. YearStart(Y - 1) = g - (IF M <= 2 THEN 0 ELSE 365 + l) /\ YearStart(Y - 1) \in Int
  <2>1. Y - 1 \in Int
    OBVIOUS
  <2> QED BY <1>2, <1>3, <1>9, <1>12, <2>1, YearGoesOn
<1> QED BY <1>1, <1>10, <1>11, <1>12, <1>13, <1>14

\* The year within a cycle, and the day within the year, from their quotients.
LEMMA YearByQuotients ==
  ASSUME NEW doe \in Int, NEW a \in Int, NEW b \in Int, NEW c \in Int, NEW yoe \in Int, NEW p \in Int, NEW q \in Int,
         NEW doy \in Int, 0 <= doe, doe <= 146096,
         1460 * a <= doe, doe < 1460 * a + 1460, 36524 * b <= doe, doe < 36524 * b + 36524,
         146096 * c <= doe, doe < 146096 * c + 146096,
         365 * yoe <= doe - a + b - c, doe - a + b - c < 365 * yoe + 365,
         4 * p <= yoe, yoe < 4 * p + 4, 100 * q <= yoe, yoe < 100 * q + 100,
         doy = doe - (365 * yoe + p - q)
  PROVE  /\ 0 <= yoe /\ yoe <= 399 /\ 0 <= doy /\ doy <= 365
         /\ doy = 365 => yoe = 4 * p + 3 /\ (yoe # 399 => yoe # 100 * q + 99)
<1>1. 0 <= yoe /\ yoe <= 399
  OBVIOUS
<1>2. 0 <= doy
  BY <1>1
<1>3. doy <= 365
  BY <1>1
<1>4. doy = 365 => yoe = 4 * p + 3
  BY <1>1
<1>5. doy = 365 /\ yoe # 399 => yoe # 100 * q + 99
  BY <1>1
<1> QED BY <1>1, <1>2, <1>3, <1>4, <1>5

\* What a year before the last day of February of a leap year looks like, by its quotients.
BeforeLeap(yoe, p, q) ==
  yoe \in 0..399 /\ yoe = 4 * p + 3 /\ 100 * q <= yoe /\ yoe < 100 * q + 100 /\ (yoe # 399 => yoe # 100 * q + 99)

YearAfter(y, yoe, era) == y = yoe + 1 + 400 * era

\* A leap year by the quotients.
LEMMA LeapByQuotients ==
  ASSUME NEW era \in Int, NEW p \in Int, NEW q \in Int, NEW yoe \in Int, NEW y \in Int,
         BeforeLeap(yoe, p, q), YearAfter(y, yoe, era)
  PROVE  LeapYear(y)
<1>0. /\ y = yoe + 1 + 400 * era /\ yoe \in 0..399 /\ yoe = 4 * p + 3
      /\ 100 * q <= yoe /\ yoe < 100 * q + 100 /\ (yoe # 399 => yoe # 100 * q + 99)
  BY DEF BeforeLeap, YearAfter
<1>1. y % 4 = y - 4 * (y \div 4) /\ y % 100 = y - 100 * (y \div 100) /\ y % 400 = y - 400 * (y \div 400)
  OBVIOUS
<1>2. PICK f \in Int, g \in Int, h \in Int : f = y \div 4 /\ g = y \div 100 /\ h = y \div 400
  OBVIOUS
<1>3. 4 * f <= y /\ y < 4 * f + 4 /\ 100 * g <= y /\ y < 100 * g + 100 /\ 400 * h <= y /\ y < 400 * h + 400
  BY <1>2, Quotients
<1>4. y = 4 * f
  BY <1>0, <1>3
<1>5. y = 100 * g => y = 400 * h
  BY <1>0, <1>3
<1> QED BY <1>1, <1>2, <1>4, <1>5 DEF LeapYear

\* The months of 30 days, and the others, as the table of ct_datetime_days_in_month has them.
LEMMA MonthLengths ==
  ASSUME NEW y \in Int, NEW m \in Int
  PROVE  /\ m \in {4, 6, 9, 11} => DaysInMonth(y, m) = 30
         /\ m \in {1, 3, 5, 7, 8, 10, 12} => DaysInMonth(y, m) = 31
         /\ m = 2 => DaysInMonth(y, m) = 28 + (IF LeapYear(y) THEN 1 ELSE 0)
<1>1. CASE m \in {4, 6, 9, 11}
  BY <1>1, SMTT(60) DEF DaysInMonth
<1>2. CASE m \in {1, 3, 5, 7, 8, 10, 12}
  BY <1>2, SMTT(60) DEF DaysInMonth
<1>3. CASE m = 2
  BY <1>3, SMTT(60) DEF DaysInMonth
<1>4. CASE m \notin {1, 2, 3, 4, 5, 6, 7, 8, 9, 10, 11, 12}
  BY <1>4
<1> QED BY <1>1, <1>2, <1>3, <1>4

\* The month, of those from March on, and its day, from their quotients.
LEMMA MonthByQuotients ==
  ASSUME NEW doy \in Int, NEW mp \in Int, NEW s \in Int, 0 <= doy, doy <= 365,
         153 * mp <= 5 * doy + 2, 5 * doy + 2 < 153 * mp + 153,
         5 * s <= 153 * mp + 2, 153 * mp + 2 < 5 * s + 5
  PROVE  /\ mp \in 0..11 /\ 0 <= doy - s /\ doy - s <= 30
         /\ mp \in {1, 3, 6, 8} => doy - s < 30
         /\ mp = 11 => s = 337
<1>1. mp \in {0, 1, 2, 3, 4, 5, 6, 7, 8, 9, 10, 11}
  OBVIOUS
<1>2. 0 <= doy - s /\ doy - s <= 30
  OBVIOUS
<1>3. mp \in {1, 3, 6, 8} => doy - s < 30
  OBVIOUS
<1>4. mp = 11 => s = 337
  OBVIOUS
<1> QED BY <1>1, <1>2, <1>3, <1>4

\* The cycle and its day first.
LEMMA CivilUnfolds ==
  ASSUME NEW n \in Int, NEW z \in Int, z = n + 719468, NEW u, u = (IF z >= 0 THEN z ELSE z - 146096),
         NEW era \in Int, era = CDiv(u, 146097)
  PROVE  CivilFromDays(n) = CivilOfEra(era, z - era * 146097)
BY SMT DEF CivilFromDays

\* datetime_civil_from_days finds the date of a day, whenever the year is in range.
LEMMA CivilInverts ==
  ASSUME NEW n \in Int, NEW d, d = CivilFromDays(n), YearInRange(d)
  PROVE  d \in Int \X Int \X Int /\ ValidDate(d) /\ DaysFromCivil(d) = n
<1> DEFINE z == n + 719468
           era == CDiv(IF z >= 0 THEN z ELSE z - 146096, 146097)
           doe == z - era * 146097
           yoe == YearOfEra(doe)
           doy == doe - (365 * yoe + CDiv(yoe, 4) - CDiv(yoe, 100))
           mp == CDiv(5 * doy + 2, 153)
           mm == mp + (IF mp < 10 THEN 3 ELSE -9)
           s == CDiv(153 * mp + 2, 5)
           Y == yoe + era * 400 + (IF mm <= 2 THEN 1 ELSE 0)
           D == doy - s + 1
<1>2. z \in Int /\ z = n + 719468
  OBVIOUS
<1> HIDE DEF z
<1>3. era \in Int /\ 146097 * era <= z /\ z < 146097 * era + 146097
  <2>1. ASSUME z >= 0
        PROVE  era \in Int /\ 146097 * era <= z /\ z < 146097 * era + 146097
    <3>1. era = z \div 146097
      BY <2>1 DEF CDiv
    <3> QED BY <1>2, <3>1, Quotients
  <2>2. ASSUME ~(z >= 0)
        PROVE  era \in Int /\ 146097 * era <= z /\ z < 146097 * era + 146097
    <3>1. PICK v \in Int : v = 146096 - z /\ v >= 0 /\ v = -(z - 146096)
      BY <1>2, <2>2
    <3>2. PICK w \in Int : w = v \div 146097
      OBVIOUS
    <3>3. 146097 * w <= v /\ v < 146097 * w + 146097
      BY <3>2, Quotients
    <3>4. era = -w
      <4>1. era = CDiv(z - 146096, 146097)
        BY <2>2
      <4>2. CDiv(z - 146096, 146097) = -((-(z - 146096)) \div 146097)
        BY <1>2, <2>2, SMT DEF CDiv
      <4> QED BY <3>1, <3>2, <4>1, <4>2
    <3> QED BY <1>2, <3>1, <3>3, <3>4
  <2> QED BY <2>1, <2>2
<1>1. d = <<Y, mm, D>>
  <2>1. CivilFromDays(n) = CivilOfEra(era, doe)
    <3> DEFINE u == IF z >= 0 THEN z ELSE z - 146096
    <3>1. era = CDiv(u, 146097)
      OBVIOUS
    <3> HIDE DEF era
    <3>2. u = IF z >= 0 THEN z ELSE z - 146096
      OBVIOUS
    <3> HIDE DEF u
    <3> QED BY <1>2, <1>3, <3>1, <3>2, CivilUnfolds
  <2> HIDE DEF era
  <2>2. CivilOfEra(era, doe) = DateOfYear(era, yoe, doy)
    BY DEF CivilOfEra
  <2> HIDE DEF doe, yoe, doy
  <2>3. DateOfYear(era, yoe, doy) = <<Y, mm, D>>
    BY DEF DateOfYear
  <2> HIDE DEF Y, mm, D
  <2> QED BY <2>1, <2>2, <2>3
<1> HIDE DEF era
<1>4. doe \in Int /\ doe = z - era * 146097 /\ 0 <= doe /\ doe <= 146096
  BY <1>2, <1>3
<1> HIDE DEF doe
<1>5. PICK a \in Int : a = CDiv(doe, 1460) /\ 1460 * a <= doe /\ doe < 1460 * a + 1460
  BY <1>4, Quotients DEF CDiv
<1>6. PICK b \in Int : b = CDiv(doe, 36524) /\ 36524 * b <= doe /\ doe < 36524 * b + 36524
  BY <1>4, Quotients DEF CDiv
<1>7. PICK c \in Int : c = CDiv(doe, 146096) /\ 146096 * c <= doe /\ doe < 146096 * c + 146096
  BY <1>4, Quotients DEF CDiv
<1>8. yoe \in Int /\ 365 * yoe <= doe - a + b - c /\ doe - a + b - c < 365 * yoe + 365 /\ 0 <= yoe
  <2>1. PICK t \in Int : t = doe - a + b - c /\ 0 <= t
    BY <1>4, <1>5, <1>6, <1>7
  <2>2. yoe = CDiv(t, 365)
    BY <1>5, <1>6, <1>7, <2>1 DEF YearOfEra
  <2> HIDE DEF yoe
  <2>3. PICK y \in Int : y = t \div 365
    OBVIOUS
  <2>4. 365 * y <= t /\ t < 365 * y + 365
    BY <2>3, Quotients
  <2>5. yoe = y
    BY <2>1, <2>2, <2>3 DEF CDiv
  <2> QED BY <2>1, <2>4, <2>5
<1> HIDE DEF yoe
<1>9. PICK p \in Int : p = CDiv(yoe, 4) /\ 4 * p <= yoe /\ yoe < 4 * p + 4
  BY <1>8, Quotients DEF CDiv
<1>10. PICK q \in Int : q = CDiv(yoe, 100) /\ 100 * q <= yoe /\ yoe < 100 * q + 100
  BY <1>8, Quotients DEF CDiv
<1>11. doy \in Int /\ doy = doe - (365 * yoe + p - q)
  BY <1>4, <1>8, <1>9, <1>10
<1> HIDE DEF doy
<1>12. /\ 0 <= yoe /\ yoe <= 399 /\ 0 <= doy /\ doy <= 365
       /\ doy = 365 => yoe = 4 * p + 3 /\ (yoe # 399 => yoe # 100 * q + 99)
  <2>1. /\ doe \in Int /\ yoe \in Int /\ doy \in Int
        /\ 0 <= doe /\ doe <= 146096
        /\ 1460 * a <= doe /\ doe < 1460 * a + 1460 /\ 36524 * b <= doe /\ doe < 36524 * b + 36524
        /\ 146096 * c <= doe /\ doe < 146096 * c + 146096
        /\ 365 * yoe <= doe - a + b - c /\ doe - a + b - c < 365 * yoe + 365
        /\ 4 * p <= yoe /\ yoe < 4 * p + 4 /\ 100 * q <= yoe /\ yoe < 100 * q + 100
        /\ doy = doe - (365 * yoe + p - q)
    BY <1>4, <1>5, <1>6, <1>7, <1>8, <1>9, <1>10, <1>11
  <2> QED BY <2>1, YearByQuotients
<1>13. mp \in Int /\ 153 * mp <= 5 * doy + 2 /\ 5 * doy + 2 < 153 * mp + 153 /\ 0 <= mp
  <2>1. PICK x \in Int : x = 5 * doy + 2 /\ 0 <= x
    BY <1>11, <1>12
  <2>2. PICK y \in Int : y = x \div 153
    OBVIOUS
  <2>3. 153 * y <= x /\ x < 153 * y + 153
    BY <2>2, Quotients
  <2>4. mp = CDiv(x, 153)
    BY <2>1
  <2> HIDE DEF mp
  <2>5. mp = y
    BY <2>1, <2>2, <2>4 DEF CDiv
  <2> QED BY <2>1, <2>3, <2>5
<1> HIDE DEF mp
<1>14. s \in Int /\ 5 * s <= 153 * mp + 2 /\ 153 * mp + 2 < 5 * s + 5
  <2>1. PICK x \in Int : x = 153 * mp + 2 /\ 0 <= x
    BY <1>13
  <2>2. PICK y \in Int : y = x \div 5
    OBVIOUS
  <2>3. 5 * y <= x /\ x < 5 * y + 5
    BY <2>2, Quotients
  <2>4. s = CDiv(x, 5)
    BY <2>1
  <2> HIDE DEF s
  <2>5. s = y
    BY <2>1, <2>2, <2>4 DEF CDiv
  <2> QED BY <2>1, <2>3, <2>5
<1>s. s = CDiv(153 * mp + 2, 5)
  OBVIOUS
<1> HIDE DEF s
<1>15. /\ mp \in 0..11 /\ 0 <= doy - s /\ doy - s <= 30
       /\ mp \in {1, 3, 6, 8} => doy - s < 30
       /\ mp = 11 => s = 337
  BY <1>11, <1>12, <1>13, <1>14, MonthByQuotients
<1>16. mm \in Int /\ mm = mp + (IF mp < 10 THEN 3 ELSE -9)
  BY <1>15
<1> HIDE DEF mm
<1>17. Y \in Int /\ D \in Int /\ Y = yoe + era * 400 + (IF mm <= 2 THEN 1 ELSE 0) /\ D = doy - s + 1
  BY <1>3, <1>8, <1>11, <1>14, <1>16
<1> HIDE DEF Y, D
<1>18. d[1] = Y /\ d[2] = mm /\ d[3] = D
  BY <1>1, SMTT(60)
<1>19. Y \in 1..9999 /\ mm \in 1..12 /\ D >= 1 /\ D <= 31
  <2>1. Y \in 1..9999
    BY <1>18 DEF YearInRange
  <2>2. mm \in 1..12
    BY <1>15, <1>16
  <2>3. D >= 1 /\ D <= 31
    BY <1>11, <1>14, <1>15, <1>17
  <2> QED BY <2>1, <2>2, <2>3, SMTT(60)
<1>20. D <= DaysInMonth(Y, mm)
  <2>1. ASSUME mm # 2
        PROVE  D <= DaysInMonth(Y, mm)
    <3>1. mm \in {4, 6, 9, 11} => D <= 30
      BY <1>11, <1>14, <1>15, <1>16, <1>17
    <3>2. mm \in {4, 6, 9, 11} \/ mm \in {1, 3, 5, 7, 8, 10, 12}
      BY <1>19, <2>1
    <3>3. /\ mm \in {4, 6, 9, 11} => DaysInMonth(Y, mm) = 30
          /\ mm \in {1, 3, 5, 7, 8, 10, 12} => DaysInMonth(Y, mm) = 31
      BY <1>19, MonthLengths
    <3> QED BY <1>19, <3>1, <3>2, <3>3
  <2>2. ASSUME mm = 2
        PROVE  D <= DaysInMonth(Y, mm)
    <3>1. mp = 11 /\ D = doy - 336 /\ Y = yoe + 1 + 400 * era
      BY <1>3, <1>8, <1>11, <1>14, <1>15, <1>16, <1>17, <2>2
    <3>2. doy = 365 => LeapYear(Y)
      <4> SUFFICES ASSUME doy = 365
                   PROVE  LeapYear(Y)
        OBVIOUS
      <4>1. BeforeLeap(yoe, p, q)
        BY <1>8, <1>10, <1>12 DEF BeforeLeap
      <4>2. YearAfter(Y, yoe, era)
        BY <3>1 DEF YearAfter
      <4>3. era \in Int /\ Y \in Int /\ yoe \in Int
        BY <1>3, <1>8, <1>17
      <4> QED BY <4>1, <4>2, <4>3, LeapByQuotients
    <3>3. DaysInMonth(Y, 2) = 28 + (IF LeapYear(Y) THEN 1 ELSE 0)
      BY <1>19, MonthLengths
    <3> QED BY <1>11, <1>12, <2>2, <3>1, <3>2, <3>3
  <2> QED BY <2>1, <2>2, SMTT(60)
<1>21. ValidDate(d)
  <2>1. d[2] \in 1..12 /\ d[3] >= 1
    BY <1>18, <1>19
  <2> QED BY <1>18, <1>20, <2>1 DEF ValidDate
<1>22. DaysFromCivil(d) = n
  <2>0. PICK y \in Int : y = yoe + 400 * era
    BY <1>3, <1>8
  <2>1. y = Y - (IF mm <= 2 THEN 1 ELSE 0) /\ y = yoe + 400 * era /\ y >= 0
    <3>1. PICK k \in {0, 1} : k = IF mm <= 2 THEN 1 ELSE 0
      OBVIOUS
    <3>2. Y = yoe + era * 400 + k
      BY <1>17, <3>1, SMTT(60)
    <3>3. era \in Int /\ yoe \in Int /\ Y \in Int /\ Y >= 1 /\ k \in Int /\ k <= 1
      BY <1>3, <1>8, <1>19
    <3>4. y = Y - k
      BY <2>0, <3>2, <3>3
    <3>5. y >= 0
      BY <3>3, <3>4
    <3> QED BY <2>0, <3>1, <3>4, <3>5
  <2>2. CDiv(IF y >= 0 THEN y ELSE y - 399, 400) = era
    <3>1. PICK e \in Int : e = y \div 400
      OBVIOUS
    <3>2. 400 * e <= y /\ y < 400 * e + 400
      BY <3>1, Quotients
    <3>3. e = era
      BY <1>3, <1>8, <1>12, <2>1, <3>2
    <3> QED BY <2>1, <3>1, <3>3 DEF CDiv
  <2>3. y - era * 400 = yoe
    BY <1>3, <1>8, <2>1
  <2>4. 153 * (mm + (IF mm > 2 THEN -3 ELSE 9)) + 2 = 153 * mp + 2
    BY <1>13, <1>15, <1>16
  <2>5. DaysFromCivil(d) = era * 146097 + (yoe * 365 + p - q + (s + D - 1)) - 719468
    BY <1>9, <1>10, <1>s, <1>18, <2>1, <2>2, <2>3, <2>4, SMT DEF DaysFromCivil
  <2> QED BY <1>2, <1>3, <1>4, <1>8, <1>11, <1>14, <1>17, <2>5
<1>23. d \in Int \X Int \X Int
  BY <1>1, <1>16, <1>17
<1> QED BY <1>21, <1>22, <1>23

\* The number of a date is a number.
LEMMA CalendarNumber ==
  ASSUME NEW d \in Int \X Int \X Int, ValidDate(d)
  PROVE  DaysBefore(d) \in Int
<1>1. PICK Y \in Int, M \in Int, D \in Int : d[1] = Y /\ d[2] = M /\ d[3] = D
  OBVIOUS
<1>2. M \in {1, 2, 3, 4, 5, 6, 7, 8, 9, 10, 11, 12}
  BY <1>1 DEF ValidDate
<1>3. MonthStart(Y, M) \in Int
  BY <1>2 DEF MonthStart
<1>4. DaysBefore(d) = YearStart(Y - 1) + MonthStart(Y, M) + D
  BY <1>1 DEF DaysBefore, YearStart
<1>5. YearStart(Y - 1) \in Int
  <2>1. Y - 1 \in Int
    OBVIOUS
  <2> QED BY <2>1, YearGoesOn
<1> QED BY <1>3, <1>4, <1>5

DtInv ==
  /\ dt \in Int \X Int \X Int /\ dtStart \in Int \X Int \X Int /\ dtDays \in Int
  /\ ShiftsAddUp

LEMMA DtStep == DtInv /\ [DtNext]_dtVars => DtInv'
<1> SUFFICES ASSUME DtInv, [DtNext]_dtVars
             PROVE  DtInv'
  OBVIOUS
<1>1. ASSUME UNCHANGED <<dt, dtDays>>, UNCHANGED dtStart
      PROVE  DtInv'
  BY <1>1 DEF DtInv, ShiftsAddUp
<1>2. ASSUME NEW n \in Shifts, AddDays(n)
      PROVE  DtInv'
  <2> DEFINE shifted == CivilFromDays(DaysFromCivil(dt) + n)
  <2>1. CASE ValidDate(dt) /\ YearInRange(shifted)
    <3>1. dt' = shifted /\ dtDays' = dtDays + n /\ dtStart' = dtStart
      BY <1>2, <2>1 DEF AddDays
    <3>2. n \in Int /\ DaysFromCivil(dt) \in Int /\ DaysFromCivil(dt) = DaysBefore(dt) - 719163
      BY <2>1, CivilCounts, DtAssumption DEF DtInv
    <3>3. PICK m \in Int : m = DaysFromCivil(dt) + n
      BY <3>2
    <3>4. shifted = CivilFromDays(m)
      BY <3>3
    <3> HIDE DEF shifted
    <3>5. shifted \in Int \X Int \X Int /\ ValidDate(shifted) /\ DaysFromCivil(shifted) = m
      <4>1. YearInRange(shifted)
        BY <2>1 DEF shifted
      <4> QED BY <3>4, <4>1, CivilInverts
    <3>6. DaysFromCivil(shifted) = DaysBefore(shifted) - 719163 /\ DaysBefore(shifted) \in Int
      BY <3>5, CivilCounts, CalendarNumber
    <3>7. DaysBefore(shifted) = DaysBefore(dt) + n /\ DaysBefore(dt) \in Int
      <4>1. DaysBefore(dt) \in Int
        BY <2>1, CalendarNumber DEF DtInv
      <4> QED BY <3>2, <3>3, <3>5, <3>6, <4>1
    <3>8. ValidDate(dtStart) => DaysBefore(shifted) = DaysBefore(dtStart) + (dtDays + n)
      <4> SUFFICES ASSUME ValidDate(dtStart)
                   PROVE  DaysBefore(shifted) = DaysBefore(dtStart) + (dtDays + n)
        OBVIOUS
      <4>1. DaysBefore(dt) = DaysBefore(dtStart) + dtDays /\ DaysBefore(dtStart) \in Int /\ dtDays \in Int
        BY CalendarNumber DEF DtInv, ShiftsAddUp
      <4> QED BY <3>2, <3>7, <4>1
    <3> QED BY <3>1, <3>2, <3>5, <3>8 DEF DtInv, ShiftsAddUp
  <2>2. CASE ~(ValidDate(dt) /\ YearInRange(shifted))
    BY <1>1, <1>2, <2>2 DEF AddDays
  <2> QED BY <2>1, <2>2
<1> QED BY <1>1, <1>2 DEF DtNext, dtVars

\* Shifting a date by days keeps to the calendar, for every date, every number of days and
\* every sequence of shifts: a valid date stays one, and is as many days from the start as
\* were added; what would leave the years 1 to 9999 is refused (time.c:174-268).
THEOREM CalendarKept == DtSpec => []ShiftsAddUp
<1>1. DtInit => DtInv
  <2> SUFFICES ASSUME DtInit
               PROVE  DtInv
    OBVIOUS
  <2>1. dt \in Int \X Int \X Int /\ dtStart = dt /\ dtDays = 0
    BY DtAssumption DEF DtInit
  <2>2. ValidDate(dt) => DaysBefore(dt) = DaysBefore(dt) + 0
    BY <2>1, CalendarNumber
  <2> QED BY <2>1, <2>2 DEF DtInv, ShiftsAddUp
<1>2. DtInv => ShiftsAddUp
  BY DEF DtInv
<1> QED BY <1>1, <1>2, DtStep, PTL DEF DtSpec

\* A part of a sequence, from its beginning or later.
LEMMA PartFrom ==
  ASSUME NEW S, NEW s \in Seq(S), NEW h \in Nat, NEW k \in Nat, h + k <= Len(s)
  PROVE  /\ SubSeq(s, h + 1, h + k) \in Seq(S) /\ Len(SubSeq(s, h + 1, h + k)) = k
         /\ \A j \in 1..k : SubSeq(s, h + 1, h + k)[j] = s[h + j]
<1>1. PICK p \in Nat : p = h + 1
  OBVIOUS
<1>2. PICK q \in Nat : q = h + k
  OBVIOUS
<1>3. /\ SubSeq(s, p, q) \in Seq(S)
      /\ Len(SubSeq(s, p, q)) = IF p <= q THEN q - p + 1 ELSE 0
      /\ \A j \in 1..(q - p + 1) : SubSeq(s, p, q)[j] = s[p + j - 1]
  <2>1. p >= 1 /\ q <= Len(s)
    BY <1>1, <1>2
  <2> QED BY <2>1, PartElements
<1>4. q - p + 1 = k /\ (IF p <= q THEN q - p + 1 ELSE 0) = k
  BY <1>1, <1>2
<1>5. \A j \in 1..k : p + j - 1 = h + j
  BY <1>1
<1>6. SubSeq(s, p, q) = SubSeq(s, h + 1, h + k)
  BY <1>1, <1>2
<1> QED BY <1>3, <1>4, <1>5, <1>6

-----------------------------------------------------------------------------
(* The byte buffer. *)

\* What memcpy does to the memory.
LEMMA ReplacedElements ==
  ASSUME NEW S, NEW data \in Seq(S), NEW at \in Nat, NEW s \in Seq(S), at + Len(s) <= Len(data)
  PROVE  /\ Replaced(data, at, s) \in Seq(S) /\ Len(Replaced(data, at, s)) = Len(data)
         /\ \A i \in 1..Len(data) :
              Replaced(data, at, s)[i] = IF at < i /\ i <= at + Len(s) THEN s[i - at] ELSE data[i]
<1>1. Len(data) \in Nat /\ Len(s) \in Nat /\ DOMAIN data = 1..Len(data)
  OBVIOUS
<1>2. ASSUME NEW i \in 1..Len(data)
      PROVE  (IF at < i /\ i <= at + Len(s) THEN s[i - at] ELSE data[i]) \in S
  <2>1. CASE at < i /\ i <= at + Len(s)
    <3>1. i - at \in 1..Len(s)
      BY <1>1, <2>1
    <3> QED BY <2>1, <3>1
  <2>2. CASE ~(at < i /\ i <= at + Len(s))
    BY <2>2
  <2> QED BY <2>1, <2>2
<1> QED BY <1>1, <1>2 DEF Replaced

\* What was written is there.
LEMMA ReplacedPart ==
  ASSUME NEW S, NEW data \in Seq(S), NEW at \in Nat, NEW s \in Seq(S), at + Len(s) <= Len(data)
  PROVE  SubSeq(Replaced(data, at, s), at + 1, at + Len(s)) = s
<1> DEFINE new == Replaced(data, at, s)
           a == SubSeq(new, at + 1, at + Len(s))
<1>1. /\ new \in Seq(S) /\ Len(new) = Len(data) /\ Len(s) \in Nat /\ Len(data) \in Nat
      /\ \A i \in 1..Len(data) : new[i] = IF at < i /\ i <= at + Len(s) THEN s[i - at] ELSE data[i]
  BY ReplacedElements
<1> HIDE DEF new
<1>2. a \in Seq(S) /\ Len(a) = Len(s) /\ \A j \in 1..Len(s) : a[j] = new[at + j]
  BY <1>1, PartFrom
<1> HIDE DEF a
<1>3. ASSUME NEW j \in 1..Len(s)
      PROVE  a[j] = s[j]
  <2>1. PICK i \in 1..Len(data) : i = at + j
    BY <1>1
  <2>2. at < i /\ i <= at + Len(s) /\ i - at = j
    BY <1>1, <2>1
  <2> QED BY <1>1, <1>2, <2>1, <2>2
<1>4. a = s
  BY <1>1, <1>2, <1>3, SameElements
<1> QED BY <1>4 DEF a, new

\* An integer is of one of the widths of the machine.
IsInt(v) == v \in Seq(Byte) /\ Len(v) \in {1, 2, 4, 8}

LEMMA IntWidth ==
  ASSUME NEW v, IsInt(v)
  PROVE  v \in Seq(Byte) /\ Len(v) \in Nat /\ Len(v) >= 1
<1>1. Len(v) = 1 \/ Len(v) = 2 \/ Len(v) = 4 \/ Len(v) = 8
  BY DEF IsInt
<1>2. Len(v) \in Nat /\ Len(v) >= 1
  BY <1>1
<1> QED BY <1>2 DEF IsInt

\* The reversal of the bytes.
LEMMA BswapBytes ==
  ASSUME NEW v \in Seq(Byte)
  PROVE  /\ Bswap(v) \in Seq(Byte) /\ Len(Bswap(v)) = Len(v) /\ Len(v) \in Nat
         /\ \A i \in 1..Len(v) : Len(v) + 1 - i \in 1..Len(v) /\ Bswap(v)[i] = v[Len(v) + 1 - i]
<1>1. Len(v) \in Nat
  OBVIOUS
<1>2. \A i \in 1..Len(v) : (Len(v) - i) + 1 \in 1..Len(v) /\ (Len(v) - i) + 1 = Len(v) + 1 - i
  BY <1>1
<1> QED BY <1>1, <1>2 DEF Bswap, Reverse

LEMMA BswapTwice ==
  ASSUME NEW v \in Seq(Byte)
  PROVE  Bswap(Bswap(v)) = v
<1> DEFINE w == Bswap(v)
           u == Bswap(w)
<1>1. w \in Seq(Byte) /\ Len(w) = Len(v) /\ \A i \in 1..Len(v) : w[i] = v[Len(v) + 1 - i]
  BY BswapBytes
<1> HIDE DEF w
<1>2. u \in Seq(Byte) /\ Len(u) = Len(w) /\ \A i \in 1..Len(w) : u[i] = w[Len(w) + 1 - i]
  BY <1>1, BswapBytes
<1> HIDE DEF u
<1>3. ASSUME NEW i \in 1..Len(u)
      PROVE  u[i] = v[i]
  <2>1. PICK j \in 1..Len(v) : j = Len(v) + 1 - i
    BY <1>1, <1>2
  <2>2. Len(v) + 1 - j = i
    BY <2>1
  <2> QED BY <1>1, <1>2, <2>1, <2>2
<1>4. u = v
  BY <1>1, <1>2, <1>3, SameElements
<1> QED BY <1>4 DEF u, w

\* The swap of the bytes of each word of 16 bits, for a whole number of words.
LEMMA LanesBytes ==
  ASSUME NEW v \in Seq(Byte), NEW h \in Nat, Len(v) = 2 * h
  PROVE  /\ Bswap16Lanes(v) \in Seq(Byte) /\ Len(Bswap16Lanes(v)) = Len(v)
         /\ \A k \in 1..h : /\ Bswap16Lanes(v)[2 * k - 1] = v[2 * k]
                            /\ Bswap16Lanes(v)[2 * k] = v[2 * k - 1]
<1>1. DOMAIN v = 1..2 * h
  OBVIOUS
<1>2. ASSUME NEW i \in 1..2 * h
      PROVE  (IF i % 2 = 1 THEN v[i + 1] ELSE v[i - 1]) \in Byte
  <2>1. PICK q \in Int : q = i \div 2
    OBVIOUS
  <2>2. i % 2 = i - 2 * q /\ 2 * q <= i /\ i < 2 * q + 2
    BY <2>1
  <2>3. CASE i % 2 = 1
    <3>1. i + 1 \in 1..2 * h
      BY <2>2, <2>3
    <3> QED BY <1>1, <2>3, <3>1
  <2>4. CASE i % 2 # 1
    <3>1. i - 1 \in 1..2 * h
      BY <2>2, <2>4
    <3> QED BY <1>1, <2>4, <3>1
  <2> QED BY <2>3, <2>4
<1>3. ASSUME NEW k \in 1..h
      PROVE  /\ 2 * k - 1 \in 1..2 * h /\ 2 * k \in 1..2 * h
             /\ (2 * k - 1) % 2 = 1 /\ (2 * k) % 2 = 0
             /\ (2 * k - 1) + 1 = 2 * k
  OBVIOUS
<1>4. Bswap16Lanes(v) = [i \in 1..2 * h |-> IF i % 2 = 1 THEN v[i + 1] ELSE v[i - 1]]
  BY <1>1 DEF Bswap16Lanes
<1>5. Bswap16Lanes(v) \in [1..2 * h -> Byte]
  BY <1>2, <1>4
<1>6. Bswap16Lanes(v) \in Seq(Byte) /\ Len(Bswap16Lanes(v)) = 2 * h
  BY <1>5
<1> QED BY <1>3, <1>4, <1>6

\* A place among words of two bytes.
LEMMA WordPlaces ==
  ASSUME NEW h \in Nat, NEW i \in 1..2 * h
  PROVE  \E k \in 1..h : i = 2 * k - 1 \/ i = 2 * k
<1>1. PICK q \in Int : q = i \div 2
  OBVIOUS
<1>2. 2 * q <= i /\ i < 2 * q + 2
  BY <1>1
<1>3. CASE i = 2 * q
  <2>1. q \in 1..h
    BY <1>3
  <2> QED BY <1>3, <2>1
<1>4. CASE i # 2 * q
  <2>1. i = 2 * (q + 1) - 1 /\ q + 1 \in 1..h
    BY <1>2, <1>4
  <2> QED BY <2>1
<1> QED BY <1>3, <1>4

\* Swapping the words twice changes nothing.
LEMMA LanesTwice ==
  ASSUME NEW v \in Seq(Byte), NEW h \in Nat, Len(v) = 2 * h
  PROVE  Bswap16Lanes(Bswap16Lanes(v)) = v
<1> DEFINE w == Bswap16Lanes(v)
           u == Bswap16Lanes(w)
<1>1. /\ w \in Seq(Byte) /\ Len(w) = 2 * h
      /\ \A k \in 1..h : w[2 * k - 1] = v[2 * k] /\ w[2 * k] = v[2 * k - 1]
  BY LanesBytes
<1> HIDE DEF w
<1>2. /\ u \in Seq(Byte) /\ Len(u) = 2 * h
      /\ \A k \in 1..h : u[2 * k - 1] = w[2 * k] /\ u[2 * k] = w[2 * k - 1]
  BY <1>1, LanesBytes
<1> HIDE DEF u
<1>3. ASSUME NEW i \in 1..2 * h
      PROVE  u[i] = v[i]
  BY <1>1, <1>2, WordPlaces, ZenonT(60)
<1>4. u = v
  BY <1>1, <1>2, <1>3, SameElements
<1> QED BY <1>4 DEF u, w

\* The words can be swapped before or after the reversal.
LEMMA LanesOfBswap ==
  ASSUME NEW v \in Seq(Byte), NEW h \in Nat, Len(v) = 2 * h
  PROVE  Bswap16Lanes(Bswap(v)) = Bswap(Bswap16Lanes(v))
<1> DEFINE r == Bswap(v)
           w == Bswap16Lanes(v)
           a == Bswap16Lanes(r)
           b == Bswap(w)
<1>1. r \in Seq(Byte) /\ Len(r) = 2 * h /\ \A i \in 1..2 * h : r[i] = v[2 * h + 1 - i]
  BY BswapBytes
<1>2. /\ w \in Seq(Byte) /\ Len(w) = 2 * h
      /\ \A k \in 1..h : w[2 * k - 1] = v[2 * k] /\ w[2 * k] = v[2 * k - 1]
  BY LanesBytes
<1> HIDE DEF r, w
<1>3. /\ a \in Seq(Byte) /\ Len(a) = 2 * h
      /\ \A k \in 1..h : a[2 * k - 1] = r[2 * k] /\ a[2 * k] = r[2 * k - 1]
  BY <1>1, LanesBytes
<1>4. b \in Seq(Byte) /\ Len(b) = 2 * h /\ \A i \in 1..2 * h : b[i] = w[2 * h + 1 - i]
  BY <1>2, BswapBytes, SMTT(60)
<1> HIDE DEF a, b
<1>5. ASSUME NEW k \in 1..h
      PROVE  a[2 * k - 1] = b[2 * k - 1] /\ a[2 * k] = b[2 * k]
  <2>1. PICK j \in 1..h : j = h + 1 - k
    OBVIOUS
  <2>2. 2 * h + 1 - 2 * k = 2 * j - 1 /\ 2 * h + 1 - (2 * k - 1) = 2 * j
    BY <2>1
  <2>3. 2 * k \in 1..2 * h /\ 2 * k - 1 \in 1..2 * h
    OBVIOUS
  <2>4. a[2 * k - 1] = v[2 * j - 1] /\ a[2 * k] = v[2 * j]
    BY <1>1, <1>3, <2>2, <2>3
  <2>5. b[2 * k - 1] = w[2 * j] /\ b[2 * k] = w[2 * j - 1]
    BY <1>4, <2>2, <2>3
  <2> QED BY <1>2, <2>4, <2>5
<1>6. ASSUME NEW i \in 1..2 * h
      PROVE  a[i] = b[i]
  BY <1>5, WordPlaces
<1>7. a = b
  BY <1>3, <1>4, <1>6, SameElements
<1> QED BY <1>7 DEF a, b, r, w

\* An integer of more than a byte is made of words.
LEMMA IntWords ==
  ASSUME NEW v, IsInt(v), Len(v) # 1
  PROVE  \E h \in Nat : Len(v) = 2 * h
<1>1. Len(v) = 2 * 1 \/ Len(v) = 2 * 2 \/ Len(v) = 2 * 4
  BY DEF IsInt
<1> QED BY <1>1

LEMMA IntSwaps ==
  ASSUME NEW v, IsInt(v)
  PROVE  /\ IsInt(Bswap(v)) /\ Len(Bswap(v)) = Len(v) /\ Bswap(Bswap(v)) = v
         /\ Len(v) # 1 => /\ IsInt(Bswap16Lanes(v)) /\ Len(Bswap16Lanes(v)) = Len(v)
                          /\ Bswap16Lanes(Bswap16Lanes(v)) = v
                          /\ Bswap16Lanes(Bswap(v)) = Bswap(Bswap16Lanes(v))
<1>1. IsInt(Bswap(v)) /\ Len(Bswap(v)) = Len(v) /\ Bswap(Bswap(v)) = v
  BY BswapBytes, BswapTwice DEF IsInt
<1>2. ASSUME Len(v) # 1
      PROVE  /\ IsInt(Bswap16Lanes(v)) /\ Len(Bswap16Lanes(v)) = Len(v)
             /\ Bswap16Lanes(Bswap16Lanes(v)) = v
             /\ Bswap16Lanes(Bswap(v)) = Bswap(Bswap16Lanes(v))
  <2>1. PICK h \in Nat : Len(v) = 2 * h
    BY <1>2, IntWords
  <2>2. v \in Seq(Byte)
    BY DEF IsInt
  <2>3. Bswap16Lanes(v) \in Seq(Byte) /\ Len(Bswap16Lanes(v)) = Len(v)
    BY <2>1, <2>2, LanesBytes
  <2>4. Bswap16Lanes(Bswap16Lanes(v)) = v
    BY <2>1, <2>2, LanesTwice
  <2>5. Bswap16Lanes(Bswap(v)) = Bswap(Bswap16Lanes(v))
    BY <2>1, <2>2, LanesOfBswap
  <2> QED BY <2>3, <2>4, <2>5 DEF IsInt
<1> QED BY <1>1, <1>2

\* The conversion of an integer undoes itself, and so does its passage through memory.
LEMMA ConvertedTwice ==
  ASSUME NEW b, NEW v, IsInt(v)
  PROVE  IsInt(Converted(b, v)) /\ Len(Converted(b, v)) = Len(v) /\ Converted(b, Converted(b, v)) = v
<1>1. CASE Len(v) = 1
  BY <1>1 DEF Converted
<1>2. CASE Len(v) # 1 /\ b.endian = byHost
  BY <1>2, IntSwaps DEF Converted
<1>3. CASE Len(v) # 1 /\ b.endian # byHost
  <2>1. CASE b.hlswap /\ Len(v) > 2
    <3>1. IsInt(Bswap(v)) /\ Len(Bswap(v)) = Len(v) /\ Bswap(Bswap(v)) = v
      BY IntSwaps
    <3>2. IsInt(Bswap16Lanes(v)) /\ Len(Bswap16Lanes(v)) = Len(v)
          /\ Bswap16Lanes(Bswap16Lanes(v)) = v /\ Bswap16Lanes(Bswap(v)) = Bswap(Bswap16Lanes(v))
      BY <1>3, IntSwaps
    <3>3. Reverse16Lanes(v) = Bswap(Bswap16Lanes(v))
      BY <3>2 DEF Reverse16Lanes
    <3>4. IsInt(Reverse16Lanes(v)) /\ Len(Reverse16Lanes(v)) = Len(v)
          /\ Bswap(Reverse16Lanes(v)) = Bswap16Lanes(v)
      BY <3>2, <3>3, IntSwaps
    <3>5. Reverse16Lanes(Reverse16Lanes(v)) = v
      BY <3>2, <3>4 DEF Reverse16Lanes
    <3> QED BY <1>3, <2>1, <3>4, <3>5 DEF Converted
  <2>2. CASE ~(b.hlswap /\ Len(v) > 2)
    <3>1. IsInt(Bswap(v)) /\ Len(Bswap(v)) = Len(v) /\ Bswap(Bswap(v)) = v
      BY IntSwaps
    <3> QED BY <1>3, <2>2, <3>1 DEF Converted
  <2> QED BY <2>1, <2>2
<1> QED BY <1>1, <1>2, <1>3

LEMMA MemoryTwice ==
  ASSUME NEW v, IsInt(v)
  PROVE  IsInt(Memory(v)) /\ Len(Memory(v)) = Len(v) /\ Memory(Memory(v)) = v
<1>1. Memory(v) = IF byHost = "big" THEN v ELSE Bswap(v)
  BY DEF Memory, Bswap
<1>2. IsInt(Bswap(v)) /\ Len(Bswap(v)) = Len(v) /\ Bswap(Bswap(v)) = v
  BY IntSwaps
<1>3. CASE byHost = "big"
  BY <1>3 DEF Memory
<1>4. CASE byHost # "big"
  BY <1>2, <1>4 DEF Memory, Bswap
<1> QED BY <1>3, <1>4

\* What is stored is laid out as the order of the buffer says, and loads as it was.
LEMMA StoredLoads ==
  ASSUME NEW b, NEW v, IsInt(v)
  PROVE  IsInt(Stored(b, v)) /\ Len(Stored(b, v)) = Len(v) /\ Loaded(b, Stored(b, v)) = v
<1> DEFINE c == Converted(b, v)
<1>1. IsInt(c) /\ Len(c) = Len(v) /\ Converted(b, c) = v
  BY ConvertedTwice
<1> HIDE DEF c
<1>2. IsInt(Memory(c)) /\ Len(Memory(c)) = Len(c) /\ Memory(Memory(c)) = c
  BY <1>1, MemoryTwice
<1> QED BY <1>1, <1>2 DEF Stored, Loaded, c

LEMMA StoredAsOrdered ==
  ASSUME NEW b, NEW v, IsInt(v), b.endian \in Orders, byHost \in Orders
  PROVE  Stored(b, v) = Wire(b, v)
<1> DEFINE r == Bswap(v)
<1>1. IsInt(r) /\ Len(r) = Len(v) /\ Bswap(r) = v /\ Reverse(v) = r
  BY IntSwaps DEF Bswap
<1>2. Len(v) # 1 => /\ Bswap16Lanes(r) = Bswap(Bswap16Lanes(v)) /\ Bswap(Bswap16Lanes(r)) = Bswap16Lanes(v)
  <2> SUFFICES ASSUME Len(v) # 1
               PROVE  /\ Bswap16Lanes(r) = Bswap(Bswap16Lanes(v)) /\ Bswap(Bswap16Lanes(r)) = Bswap16Lanes(v)
    OBVIOUS
  <2>1. IsInt(Bswap16Lanes(v)) /\ Bswap16Lanes(r) = Bswap(Bswap16Lanes(v))
    BY IntSwaps
  <2>2. Bswap(Bswap(Bswap16Lanes(v))) = Bswap16Lanes(v)
    BY <2>1, IntSwaps
  <2> QED BY <2>1, <2>2
<1>3. Len(v) = 1 => r = v
  <2> SUFFICES ASSUME Len(v) = 1
               PROVE  r = v
    OBVIOUS
  <2>1. v \in Seq(Byte) /\ r \in Seq(Byte)
    BY <1>1 DEF IsInt
  <2>2. r[1] = v[1]
    BY BswapBytes DEF IsInt
  <2> QED BY <1>1, <2>1, <2>2, SameElements
<1>4. Reverse16Lanes(v) = Bswap16Lanes(r)
  BY DEF Reverse16Lanes
<1> HIDE DEF r
<1>5. \A u : Memory(u) = IF byHost = "big" THEN u ELSE Bswap(u)
  BY DEF Memory, Bswap
<1>6. Bswap(v) = r
  BY DEF r
<1>7. CASE Len(v) = 1
  <2>1. Wire(b, v) = v
    BY <1>1, <1>3, <1>7 DEF Wire
  <2>2. Stored(b, v) = v
    BY <1>3, <1>5, <1>6, <1>7 DEF Stored, Converted
  <2> QED BY <2>1, <2>2
<1>8. CASE Len(v) # 1 /\ b.hlswap /\ Len(v) > 2
  BY <1>1, <1>2, <1>4, <1>5, <1>6, <1>8 DEF Stored, Converted, Wire, Orders
<1>9. CASE Len(v) # 1 /\ ~(b.hlswap /\ Len(v) > 2)
  BY <1>1, <1>5, <1>6, <1>9 DEF Stored, Converted, Wire, Orders
<1> QED BY <1>7, <1>8, <1>9

\* The orders of binary.h: the bytes in memory do not depend on the machine.
LEMMA OrdersOfBinary ==
  ASSUME NEW v, IsInt(v), byHost \in Orders
  PROVE  Memory(BigEndian(v)) = v /\ Memory(LittleEndian(v)) = Reverse(v)
<1>1. Bswap(Bswap(v)) = v /\ Reverse(v) = Bswap(v)
  BY IntSwaps DEF Bswap
<1>2. \A u : Memory(u) = IF byHost = "big" THEN u ELSE Bswap(u)
  BY DEF Memory, Bswap
<1> QED BY <1>1, <1>2 DEF BigEndian, LittleEndian, Orders

\* What a byte buffer is, and the bounds it keeps.
Buffer == [data : Seq(Byte), len : Nat, pos : Nat, endian : Orders, hlswap : BOOLEAN, overflow : BOOLEAN]
WithinBounds(b) == b \in Buffer /\ b.pos <= b.len /\ b.len <= Len(b.data)

LEMMA BufferFields ==
  ASSUME NEW b, WithinBounds(b)
  PROVE  /\ b.data \in Seq(Byte) /\ Len(b.data) \in Nat /\ b.len \in Nat /\ b.pos \in Nat
         /\ b.endian \in Orders /\ b.hlswap \in BOOLEAN /\ b.overflow \in BOOLEAN
         /\ b.pos <= b.len /\ b.len <= Len(b.data)
         /\ Writable(b) \in Nat /\ Writable(b) = Len(b.data) - b.pos
  BY DEF WithinBounds, Buffer, Writable

LEMMA OverflowedKeeps ==
  ASSUME NEW b, WithinBounds(b)
  PROVE  WithinBounds(Overflowed(b))
  BY DEF WithinBounds, Buffer, Overflowed

\* A buffer of the same orders with other memory of its size.
LEMMA NewDataKeeps ==
  ASSUME NEW b, WithinBounds(b), NEW data \in Seq(Byte), Len(data) = Len(b.data)
  PROVE  /\ WithinBounds([b EXCEPT !.data = data])
         /\ [b EXCEPT !.data = data].data = data
         /\ [b EXCEPT !.data = data].len = b.len /\ [b EXCEPT !.data = data].pos = b.pos
         /\ [b EXCEPT !.data = data].endian = b.endian /\ [b EXCEPT !.data = data].hlswap = b.hlswap
  BY DEF WithinBounds, Buffer

LEMMA AdvancedKeeps ==
  ASSUME NEW b, WithinBounds(b), NEW n \in Nat, b.pos + n <= Len(b.data)
  PROVE  /\ WithinBounds(Advanced(b, n))
         /\ Advanced(b, n).data = b.data /\ Advanced(b, n).pos = b.pos + n
         /\ Advanced(b, n).len = IF b.len > b.pos + n THEN b.len ELSE b.pos + n
         /\ Advanced(b, n).endian = b.endian /\ Advanced(b, n).hlswap = b.hlswap
<1>0. b \in Buffer /\ b.len \in Nat /\ b.pos \in Nat /\ b.data \in Seq(Byte) /\ b.pos <= b.len /\ b.len <= Len(b.data)
  BY DEF WithinBounds, Buffer
<1>1. PICK pos \in Nat : pos = b.pos + n
  BY <1>0
<1>2. PICK len \in Nat : len = IF b.len > pos THEN b.len ELSE pos
  BY <1>0
<1>3. Advanced(b, n) = [b EXCEPT !.pos = pos, !.len = len]
  BY <1>1, <1>2 DEF Advanced, Bigger
<1>4. pos <= len /\ len <= Len(b.data)
  BY <1>0, <1>1, <1>2
<1>5. /\ Advanced(b, n) \in Buffer /\ Advanced(b, n).data = b.data /\ Advanced(b, n).pos = pos
      /\ Advanced(b, n).len = len /\ Advanced(b, n).endian = b.endian /\ Advanced(b, n).hlswap = b.hlswap
  BY <1>0, <1>3 DEF Buffer
<1> QED BY <1>1, <1>2, <1>4, <1>5 DEF WithinBounds

\* ct_bytes_put_bytes keeps the bounds, and writes all of a string that fits.
LEMMA PutKeeps ==
  ASSUME NEW b, WithinBounds(b), NEW s \in Seq(Byte)
  PROVE  /\ WithinBounds(Put(b, s))
         /\ Len(s) <= Writable(b) => /\ Put(b, s).data = Replaced(b.data, b.pos, s)
                                     /\ Put(b, s).pos = b.pos + Len(s)
                                     /\ Put(b, s).len = IF b.len > b.pos + Len(s) THEN b.len ELSE b.pos + Len(s)
                                     /\ Put(b, s).endian = b.endian /\ Put(b, s).hlswap = b.hlswap
<1>0. /\ b.data \in Seq(Byte) /\ Len(b.data) \in Nat /\ b.len \in Nat /\ b.pos \in Nat /\ Len(s) \in Nat
      /\ b.pos <= b.len /\ b.len <= Len(b.data) /\ Writable(b) \in Nat /\ Writable(b) = Len(b.data) - b.pos
  BY BufferFields
<1> DEFINE n == Smaller(Len(s), Writable(b))
           b1 == IF n < Len(s) THEN Overflowed(b) ELSE b
           part == SubSeq(s, 1, n)
           data == Replaced(b.data, b.pos, part)
           c == [b1 EXCEPT !.data = data]
<1>1. n \in Nat /\ n <= Len(s) /\ b.pos + n <= Len(b.data) /\ (Len(s) <= Writable(b) => n = Len(s))
  BY <1>0 DEF Smaller
<1>2. /\ WithinBounds(b1) /\ b1.data = b.data /\ b1.pos = b.pos /\ b1.len = b.len
      /\ b1.endian = b.endian /\ b1.hlswap = b.hlswap
  <2>1. /\ WithinBounds(Overflowed(b)) /\ Overflowed(b).data = b.data /\ Overflowed(b).pos = b.pos
        /\ Overflowed(b).len = b.len /\ Overflowed(b).endian = b.endian /\ Overflowed(b).hlswap = b.hlswap
    BY OverflowedKeeps DEF Overflowed, WithinBounds, Buffer
  <2> QED BY <2>1
<1>3. Put(b, s) = Advanced(c, n)
  BY <1>2 DEF Put
<1> HIDE DEF n
<1>4. part \in Seq(Byte) /\ Len(part) = n
  BY <1>0, <1>1, PartElements
<1>5. Len(s) <= Writable(b) => part = s
  <2> SUFFICES ASSUME Len(s) <= Writable(b)
               PROVE  part = s
    OBVIOUS
  <2>1. \A k \in 1..Len(part) : part[k] = s[k]
    BY <1>0, <1>1, PartElements
  <2> QED BY <1>0, <1>1, <1>4, <2>1, SameElements
<1> HIDE DEF part
<1>6. data \in Seq(Byte) /\ Len(data) = Len(b.data)
  BY <1>0, <1>1, <1>4, ReplacedElements
<1>7. Len(s) <= Writable(b) => data = Replaced(b.data, b.pos, s)
  BY <1>5
<1> HIDE DEF data, b1
<1>8. /\ WithinBounds(c) /\ c.data = data /\ c.pos = b.pos /\ c.len = b.len
      /\ c.endian = b.endian /\ c.hlswap = b.hlswap
  BY <1>2, <1>6, NewDataKeeps
<1> HIDE DEF c
<1>9. c.pos + n <= Len(c.data)
  BY <1>1, <1>6, <1>8
<1>10. /\ WithinBounds(Advanced(c, n)) /\ Advanced(c, n).data = data /\ Advanced(c, n).pos = b.pos + n
       /\ Advanced(c, n).len = IF b.len > b.pos + n THEN b.len ELSE b.pos + n
       /\ Advanced(c, n).endian = b.endian /\ Advanced(c, n).hlswap = b.hlswap
  BY <1>1, <1>8, <1>9, AdvancedKeeps
<1> QED BY <1>1, <1>3, <1>7, <1>10

LEMMA FillKeeps ==
  ASSUME NEW b, WithinBounds(b), NEW x \in Byte, NEW n \in Nat
  PROVE  WithinBounds(Fill(b, x, n)) /\ WithinBounds(Commit(b, n)) /\ WithinBounds(Overfill(b, x, n))
<1>0. /\ b.data \in Seq(Byte) /\ Len(b.data) \in Nat /\ b.len \in Nat /\ b.pos \in Nat
      /\ b.pos <= b.len /\ b.len <= Len(b.data) /\ Writable(b) \in Nat /\ Writable(b) = Len(b.data) - b.pos
  BY BufferFields
<1>1. WithinBounds(Fill(b, x, n))
  <2>1. [i \in 1..n |-> x] \in Seq(Byte)
    OBVIOUS
  <2> QED BY <2>1, PutKeeps DEF Fill
<1>2. WithinBounds(Commit(b, n))
  <2> DEFINE s == [i \in 1..n |-> IF i <= Writable(b) THEN b.data[b.pos + i] ELSE 0]
  <2>1. ASSUME NEW i \in 1..n
        PROVE  (IF i <= Writable(b) THEN b.data[b.pos + i] ELSE 0) \in Byte
    <3>1. CASE i <= Writable(b)
      <4>1. b.pos + i \in 1..Len(b.data)
        BY <1>0, <3>1
      <4> QED BY <1>0, <3>1, <4>1
    <3>2. CASE ~(i <= Writable(b))
      BY <3>2 DEF Byte
    <3> QED BY <3>1, <3>2
  <2>2. s \in Seq(Byte)
    BY <2>1
  <2> HIDE DEF s
  <2>3. Commit(b, n) = Put(b, s)
    BY DEF Commit, s
  <2> QED BY <2>2, <2>3, PutKeeps
<1>3. WithinBounds(Overfill(b, x, n))
  <2> DEFINE m == Smaller(n, Len(b.data))
             s == [i \in 1..m |-> x]
             b1 == IF m < n THEN Overflowed(b) ELSE b
             data == Replaced(b.data, 0, s)
  <2>1. m \in Nat /\ m <= Len(b.data)
    BY <1>0 DEF Smaller
  <2>2. WithinBounds(b1) /\ b1.data = b.data
    <3>1. WithinBounds(Overflowed(b)) /\ Overflowed(b).data = b.data
      BY OverflowedKeeps DEF Overflowed, WithinBounds, Buffer
    <3> QED BY <3>1
  <2>3. Overfill(b, x, n) = [b1 EXCEPT !.data = data]
    BY <2>2 DEF Overfill
  <2> HIDE DEF m, b1
  <2>4. s \in Seq(Byte) /\ Len(s) = m
    BY <2>1
  <2> HIDE DEF s
  <2>5. data \in Seq(Byte) /\ Len(data) = Len(b.data)
    <3>1. 0 \in Nat /\ 0 + Len(s) <= Len(b.data)
      BY <1>0, <2>1, <2>4
    <3> QED BY <1>0, <2>4, <3>1, ReplacedElements
  <2> HIDE DEF data
  <2> QED BY <2>2, <2>3, <2>5, NewDataKeeps
<1> QED BY <1>1, <1>2, <1>3

LEMMA SetBytesKeeps ==
  ASSUME NEW b, WithinBounds(b), NEW at \in Int, NEW s \in Seq(Byte)
  PROVE  WithinBounds(SetBytes(b, at, s))
<1>0. /\ b.data \in Seq(Byte) /\ Len(b.data) \in Nat /\ b.len \in Nat /\ b.pos \in Nat /\ Len(s) \in Nat
      /\ b.pos <= b.len /\ b.len <= Len(b.data)
  BY BufferFields
<1>1. CASE at < 0 \/ at > b.len \/ Len(s) > b.len - at
  BY <1>1, OverflowedKeeps DEF SetBytes
<1>2. CASE ~(at < 0 \/ at > b.len \/ Len(s) > b.len - at)
  <2>1. at \in Nat /\ at + Len(s) <= Len(b.data)
    BY <1>0, <1>2
  <2>2. Replaced(b.data, at, s) \in Seq(Byte) /\ Len(Replaced(b.data, at, s)) = Len(b.data)
    BY <1>0, <2>1, ReplacedElements
  <2> QED BY <1>2, <2>2, NewDataKeeps DEF SetBytes
<1> QED BY <1>1, <1>2

\* An integer put or set keeps the bounds; one that fits is stored at its place.
LEMMA PutIntKeeps ==
  ASSUME NEW b, WithinBounds(b), NEW v, IsInt(v)
  PROVE  /\ WithinBounds(PutInt(b, v))
         /\ Len(v) <= Writable(b) => /\ PutInt(b, v).data = Replaced(b.data, b.pos, Stored(b, v))
                                     /\ PutInt(b, v).pos = b.pos + Len(v)
                                     /\ PutInt(b, v).len = IF b.len > b.pos + Len(v) THEN b.len ELSE b.pos + Len(v)
                                     /\ PutInt(b, v).endian = b.endian /\ PutInt(b, v).hlswap = b.hlswap
<1>1. Stored(b, v) \in Seq(Byte) /\ Len(Stored(b, v)) = Len(v) /\ Len(v) \in Nat
  BY StoredLoads DEF IsInt
<1>2. Writable(b) \in Nat
  BY BufferFields
<1>3. CASE Writable(b) < Len(v)
  BY <1>1, <1>2, <1>3, OverflowedKeeps DEF PutInt
<1>4. CASE ~(Writable(b) < Len(v))
  BY <1>1, <1>2, <1>4, PutKeeps DEF PutInt
<1> QED BY <1>3, <1>4

LEMMA SetIntKeeps ==
  ASSUME NEW b, WithinBounds(b), NEW at \in Nat, NEW v, IsInt(v)
  PROVE  /\ WithinBounds(SetInt(b, at, v))
         /\ at + Len(v) <= b.len => SetInt(b, at, v) = [b EXCEPT !.data = Replaced(b.data, at, Stored(b, v))]
<1>0. b.data \in Seq(Byte) /\ Len(b.data) \in Nat /\ b.len \in Nat /\ b.len <= Len(b.data)
  BY BufferFields
<1>1. /\ Stored(b, v) \in Seq(Byte) /\ Len(Stored(b, v)) = Len(v)
      /\ Len(v) \in Nat /\ Len(v) >= 1
  <2>1. IsInt(Stored(b, v)) /\ Len(Stored(b, v)) = Len(v)
    BY StoredLoads
  <2>2. Len(v) \in Nat /\ Len(v) >= 1
    BY IntWidth
  <2> QED BY <2>1, <2>2 DEF IsInt
<1>2. CASE at >= b.len \/ b.len - at < Len(v)
  <2>1. ~(at + Len(v) <= b.len)
    BY <1>0, <1>1, <1>2
  <2> QED BY <1>2, <2>1, OverflowedKeeps DEF SetInt
<1>3. CASE ~(at >= b.len \/ b.len - at < Len(v))
  <2>1. at + Len(Stored(b, v)) <= Len(b.data)
    BY <1>0, <1>1, <1>3
  <2>2. /\ Replaced(b.data, at, Stored(b, v)) \in Seq(Byte)
        /\ Len(Replaced(b.data, at, Stored(b, v))) = Len(b.data)
    <3>1. b.data \in Seq(Byte) /\ Stored(b, v) \in Seq(Byte)
      BY <1>0, <1>1
    <3> DEFINE s == Stored(b, v)
    <3> HIDE DEF s
    <3>2. s = Stored(b, v)
      BY DEF s
    <3>3. /\ Replaced(b.data, at, s) \in Seq(Byte)
          /\ Len(Replaced(b.data, at, s)) = Len(b.data)
      BY <2>1, <3>1, <3>2, ReplacedElements, ZenonT(120)
    <3> QED BY <3>2, <3>3
  <2>3. SetInt(b, at, v) = [b EXCEPT !.data = Replaced(b.data, at, Stored(b, v))]
    BY <1>3 DEF SetInt
  <2> QED BY <2>2, <2>3, NewDataKeeps
<1> QED BY <1>2, <1>3

\* Reading, seeking and dropping keep the bounds.
LEMMA MovesKeep ==
  ASSUME NEW b, WithinBounds(b), NEW n \in Nat
  PROVE  /\ WithinBounds(TakeInt(b, n).b) /\ WithinBounds(Skip(b, n))
         /\ WithinBounds(Seek(b, n)) /\ WithinBounds(Reseek(b, n))
         /\ WithinBounds(Truncate(b, n)) /\ WithinBounds(ClearBytes(b))
<1>0. /\ b \in Buffer /\ b.len \in Nat /\ b.pos \in Nat /\ b.pos <= b.len
      /\ b.len <= Len(b.data) /\ Len(b.data) \in Nat /\ WithinBounds(Overflowed(b))
  BY BufferFields, OverflowedKeeps DEF WithinBounds
<1>1. ASSUME NEW c, WithinBounds(c), c.len = b.len, NEW pos \in Nat, pos <= b.len
      PROVE  WithinBounds([c EXCEPT !.pos = pos])
  BY <1>0, <1>1 DEF WithinBounds, Buffer
<1>2. WithinBounds(TakeInt(b, n).b)
  <2>1. CASE b.len - b.pos < n
    BY <1>0, <2>1 DEF TakeInt
  <2>2. CASE ~(b.len - b.pos < n)
    <3>1. PICK pos \in Nat : pos = b.pos + n
      BY <1>0
    <3>2. TakeInt(b, n).b = [b EXCEPT !.pos = pos] /\ pos <= b.len
      BY <1>0, <2>2, <3>1 DEF TakeInt
    <3> QED BY <1>1, <3>2
  <2> QED BY <2>1, <2>2
<1>3. WithinBounds(Skip(b, n))
  <2>1. PICK m \in Nat : m = Smaller(n, b.len - b.pos)
    BY <1>0 DEF Smaller
  <2>2. PICK pos \in Nat : pos = b.pos + m
    BY <1>0
  <2>3. pos <= b.len
    BY <1>0, <2>1, <2>2 DEF Smaller
  <2>4. Overflowed(b).len = b.len /\ Overflowed(b).pos = b.pos
    BY <1>0 DEF Overflowed, Buffer
  <2>5. Skip(b, n) = [Overflowed(b) EXCEPT !.pos = pos] \/ Skip(b, n) = [b EXCEPT !.pos = pos]
    BY <2>1, <2>2, <2>4 DEF Skip
  <2> QED BY <1>0, <1>1, <2>3, <2>4, <2>5
<1>4. WithinBounds(Seek(b, n)) /\ WithinBounds(Reseek(b, n))
  <2>1. CASE n > b.len
    BY <1>0, <2>1 DEF Seek, Reseek
  <2>2. CASE ~(n > b.len)
    <3>1. PICK pos \in Nat : pos = b.len - n
      BY <1>0, <2>2
    <3>2. pos <= b.len /\ n <= b.len
      BY <1>0, <2>2, <3>1
    <3> QED BY <1>1, <2>2, <3>1, <3>2 DEF Seek, Reseek
  <2> QED BY <2>1, <2>2
<1>5. WithinBounds(Truncate(b, n))
  <2>1. CASE n >= b.len
    BY <2>1 DEF Truncate
  <2>2. CASE ~(n >= b.len)
    <3>1. PICK pos \in Nat : pos = Smaller(b.pos, n)
      BY <1>0 DEF Smaller
    <3>2. pos <= n /\ n <= Len(b.data)
      BY <1>0, <2>2, <3>1 DEF Smaller
    <3>3. Truncate(b, n) = [b EXCEPT !.len = n, !.pos = pos]
      BY <2>2, <3>1 DEF Truncate
    <3> QED BY <1>0, <3>2, <3>3 DEF WithinBounds, Buffer
  <2> QED BY <2>1, <2>2
<1>6. WithinBounds(ClearBytes(b))
  <2>1. /\ ClearBytes(b) \in Buffer /\ ClearBytes(b).pos = 0 /\ ClearBytes(b).len = 0
        /\ ClearBytes(b).data = b.data
    BY <1>0 DEF ClearBytes, Buffer
  <2> QED BY <1>0, <2>1 DEF WithinBounds
<1> QED BY <1>2, <1>3, <1>4, <1>5, <1>6

\* Compaction keeps the bounds, and what was not read.
LEMMA CompactKeeps ==
  ASSUME NEW b, WithinBounds(b)
  PROVE  /\ WithinBounds(Compact(b))
         /\ SubSeq(Compact(b).data, 1, Compact(b).len) = SubSeq(b.data, b.pos + 1, b.len)
<1>0. /\ b.data \in Seq(Byte) /\ Len(b.data) \in Nat /\ b.len \in Nat /\ b.pos \in Nat
      /\ b.pos <= b.len /\ b.len <= Len(b.data) /\ b \in Buffer
  BY BufferFields DEF WithinBounds
<1>1. CASE b.pos = 0
  BY <1>1 DEF Compact
<1>2. CASE b.pos # 0 /\ b.pos >= b.len
  <2>1. Compact(b) = ClearBytes(b) /\ ClearBytes(b).len = 0 /\ ClearBytes(b).data = b.data
    BY <1>0, <1>2 DEF Compact, ClearBytes, Buffer
  <2>2. SubSeq(b.data, 1, 0) = <<>> /\ SubSeq(b.data, b.pos + 1, b.len) = <<>>
    BY <1>0, <1>2
  <2> QED BY <2>1, <2>2, MovesKeep
<1>3. CASE ~(b.pos = 0) /\ ~(b.pos >= b.len)
  <2> DEFINE s == SubSeq(b.data, b.pos + 1, b.len)
             data == Replaced(b.data, 0, s)
  <2>1. PICK len \in Nat : len = b.len - b.pos
    BY <1>0
  <2>2. s \in Seq(Byte) /\ Len(s) = len
    <3>1. b.pos + len = b.len
      BY <1>0, <2>1
    <3>2. SubSeq(b.data, b.pos + 1, b.pos + len) \in Seq(Byte) /\ Len(SubSeq(b.data, b.pos + 1, b.pos + len)) = len
      BY <1>0, <3>1, PartFrom, SMTT(60)
    <3> QED BY <3>1, <3>2
  <2>3. Compact(b) = [b EXCEPT !.data = data, !.len = len, !.pos = 0]
    BY <1>3, <2>1 DEF Compact
  <2> HIDE DEF s
  <2>4. 0 \in Nat /\ 0 + Len(s) = len /\ len <= Len(b.data) /\ 0 + 1 = 1
    BY <1>0, <2>1, <2>2
  <2>5. data \in Seq(Byte) /\ Len(data) = Len(b.data)
    BY <1>0, <2>2, <2>4, ReplacedElements
  <2>6. SubSeq(data, 1, len) = s
    <3>1. SubSeq(Replaced(b.data, 0, s), 0 + 1, 0 + Len(s)) = s
      BY <1>0, <2>2, <2>4, ReplacedPart, ZenonT(60)
    <3> QED BY <2>4, <3>1
  <2> HIDE DEF data
  <2>7. Compact(b).data = data /\ Compact(b).len = len /\ Compact(b).pos = 0 /\ Compact(b) \in Buffer
    <3>1. Compact(b).data = data /\ Compact(b).len = len /\ Compact(b).pos = 0
      BY <1>0, <2>3 DEF Buffer
    <3>2. Compact(b) \in Buffer
      BY <1>0, <2>3, <2>4, <2>5 DEF Buffer
    <3> QED BY <3>1, <3>2
  <2>8. WithinBounds(Compact(b))
    BY <2>4, <2>5, <2>7 DEF WithinBounds
  <2> QED BY <2>6, <2>7, <2>8 DEF s
<1> QED BY <1>1, <1>2, <1>3

-----------------------------------------------------------------------------
(* What is read back. *)

\* A conversion depends on the buffer by its orders alone.
LEMMA SameOrders ==
  ASSUME NEW b, NEW c, c.endian = b.endian, c.hlswap = b.hlswap, NEW v, IsInt(v)
  PROVE  Stored(c, v) = Stored(b, v) /\ Loaded(c, Stored(b, v)) = v
<1>1. \A u : Converted(c, u) = Converted(b, u)
  BY DEF Converted
<1>2. Loaded(b, Stored(b, v)) = v
  BY StoredLoads
<1> QED BY <1>1, <1>2 DEF Stored, Loaded

\* The bytes of an integer at a place of the memory of a buffer.
HoldsInt(b, at, v) ==
  /\ at + Len(v) <= b.len
  /\ SubSeq(b.data, at + 1, at + Len(v)) = Stored(b, v)

\* What is at a place of the buffer is read as it was put, by get, peek and take.
LEMMA HeldIsRead ==
  ASSUME NEW b, WithinBounds(b), NEW at \in Nat, NEW v, IsInt(v), HoldsInt(b, at, v)
  PROVE  /\ GetInt(b, at, Len(v)) = v
         /\ PeekInt(b, at - b.pos, Len(v)) = v
         /\ b.pos = at => TakeInt(b, Len(v)).v = v
         /\ GetBytes(b, at, Len(v)) = Stored(b, v)
<1>1. b.len \in Nat /\ b.pos \in Nat /\ Len(v) \in Nat /\ Len(v) >= 1
  BY BufferFields, IntWidth
<1>2. Loaded(b, SubSeq(b.data, at + 1, at + Len(v))) = v
  BY StoredLoads DEF HoldsInt
<1>3. ~(at >= b.len) /\ ~(b.len - at < Len(v)) /\ ~(at < 0) /\ ~(at > b.len)
  BY <1>1 DEF HoldsInt
<1>4. b.pos + (at - b.pos) = at
  BY <1>1
<1>5. PeekInt(b, at - b.pos, Len(v)) = v
  <2>1. PICK off \in Int : off = at - b.pos
    BY <1>1
  <2>2. b.pos + off = at
    BY <1>1, <2>1
  <2>3. PeekInt(b, off, Len(v)) = v
    BY <1>2, <1>3, <2>2 DEF PeekInt
  <2> QED BY <2>1, <2>3
<1>6. GetBytes(b, at, Len(v)) = Stored(b, v)
  <2>1. Smaller(Len(v), b.len - at) = Len(v)
    BY <1>1, <1>3 DEF Smaller
  <2> QED BY <1>3, <2>1 DEF GetBytes, HoldsInt
<1>7. GetInt(b, at, Len(v)) = v
  BY <1>2, <1>3 DEF GetInt
<1>8. b.pos = at => TakeInt(b, Len(v)).v = v
  BY <1>2, <1>3 DEF TakeInt
<1> QED BY <1>5, <1>6, <1>7, <1>8

\* What was set at a place is there.
LEMMA SetIntHolds ==
  ASSUME NEW b, WithinBounds(b), NEW at \in Nat, NEW v, IsInt(v), at + Len(v) <= b.len
  PROVE  /\ WithinBounds(SetInt(b, at, v)) /\ HoldsInt(SetInt(b, at, v), at, v)
         /\ SetInt(b, at, v).len = b.len /\ SetInt(b, at, v).pos = b.pos
         /\ Stored(SetInt(b, at, v), v) = Stored(b, v)
<1>0. b.data \in Seq(Byte) /\ Len(b.data) \in Nat /\ b.len \in Nat /\ b.len <= Len(b.data)
  BY BufferFields
<1> DEFINE s == Stored(b, v)
           data == Replaced(b.data, at, s)
           c == [b EXCEPT !.data = data]
<1>1. s \in Seq(Byte) /\ Len(s) = Len(v) /\ Len(v) \in Nat
  BY StoredLoads DEF IsInt
<1>2. SetInt(b, at, v) = c /\ WithinBounds(SetInt(b, at, v))
  BY SetIntKeeps
<1> HIDE DEF s
<1>3. at + Len(s) <= Len(b.data)
  BY <1>0, <1>1
<1>4. data \in Seq(Byte) /\ Len(data) = Len(b.data) /\ SubSeq(data, at + 1, at + Len(s)) = s
  BY <1>0, <1>1, <1>3, ReplacedElements, ReplacedPart
<1> HIDE DEF data
<1>5. c.data = data /\ c.len = b.len /\ c.pos = b.pos /\ c.endian = b.endian /\ c.hlswap = b.hlswap
  BY <1>4, NewDataKeeps
<1> HIDE DEF c
<1>6. Stored(c, v) = s
  BY <1>5, SameOrders DEF s
<1> QED BY <1>1, <1>2, <1>4, <1>5, <1>6 DEF HoldsInt, s

\* What was put at a place is there, and is taken from it.
LEMMA PutIntTaken ==
  ASSUME NEW b, WithinBounds(b), NEW at \in Nat, NEW v, IsInt(v), at + Len(v) <= b.len
  PROVE  TakeInt(Seek(PutInt(Seek(b, at), v), at), Len(v)).v = v
<1>0. b \in Buffer /\ b.data \in Seq(Byte) /\ Len(b.data) \in Nat /\ b.len \in Nat /\ b.len <= Len(b.data)
  BY BufferFields DEF WithinBounds
<1> DEFINE b1 == Seek(b, at)
           b2 == PutInt(b1, v)
           b3 == Seek(b2, at)
           s == Stored(b1, v)
<1>1. Len(v) \in Nat /\ Len(v) >= 1 /\ at <= b.len
  BY <1>0, IntWidth
<1>2. WithinBounds(b1) /\ b1.pos = at /\ b1.data = b.data /\ b1.len = b.len
  <2>1. b1 = [b EXCEPT !.pos = at]
    BY <1>0, <1>1 DEF Seek
  <2> QED BY <1>0, <2>1, MovesKeep DEF Buffer
<1>3. s \in Seq(Byte) /\ Len(s) = Len(v)
  BY StoredLoads DEF IsInt
<1> HIDE DEF b1
<1>4. Len(v) <= Writable(b1)
  BY <1>0, <1>1, <1>2, BufferFields
<1>5. /\ WithinBounds(b2) /\ b2.data = Replaced(b.data, at, s)
      /\ b2.len = b.len /\ b2.endian = b1.endian /\ b2.hlswap = b1.hlswap
  <2>1. /\ WithinBounds(b2) /\ b2.data = Replaced(b1.data, b1.pos, s)
        /\ b2.len = IF b1.len > b1.pos + Len(v) THEN b1.len ELSE b1.pos + Len(v)
        /\ b2.endian = b1.endian /\ b2.hlswap = b1.hlswap
    BY <1>2, <1>4, PutIntKeeps
  <2> QED BY <1>0, <1>1, <1>2, <2>1
<1> HIDE DEF b2
<1>6. b3 = [b2 EXCEPT !.pos = at]
  BY <1>0, <1>1, <1>5 DEF Seek
<1>7. /\ WithinBounds(b3) /\ b3.data = b2.data /\ b3.len = b.len /\ b3.pos = at
      /\ b3.endian = b1.endian /\ b3.hlswap = b1.hlswap
  BY <1>5, <1>6, MovesKeep DEF WithinBounds, Buffer
<1> HIDE DEF b3
<1>8. SubSeq(Replaced(b.data, at, s), at + 1, at + Len(s)) = s
  <2>1. at + Len(s) <= Len(b.data)
    BY <1>0, <1>3
  <2> QED BY <1>0, <1>3, <2>1, ReplacedPart
<1>9. Stored(b3, v) = s
  BY <1>7, SameOrders
<1>10. HoldsInt(b3, at, v)
  BY <1>3, <1>5, <1>7, <1>8, <1>9 DEF HoldsInt
<1> QED BY <1>7, <1>10, HeldIsRead DEF b1, b2, b3

\* What is at a place is at the beginning of a view from there.
LEMMA SinceHolds ==
  ASSUME NEW b, WithinBounds(b), NEW at \in Nat, NEW v, IsInt(v), HoldsInt(b, at, v)
  PROVE  GetInt(Since(b, at, 0), 0, Len(v)) = v
<1>0. b \in Buffer /\ b.data \in Seq(Byte) /\ Len(b.data) \in Nat /\ b.len \in Nat /\ b.len <= Len(b.data)
  BY BufferFields DEF WithinBounds
<1>1. Len(v) \in Nat /\ Len(v) >= 1 /\ at + Len(v) <= b.len /\ at <= b.len /\ at <= Len(b.data)
  <2>1. Len(v) \in Nat /\ Len(v) >= 1 /\ at + Len(v) <= b.len
    BY IntWidth DEF HoldsInt
  <2> QED BY <1>0, <2>1
<1>2. PICK n \in Nat : n = Len(b.data) - at
  <2>1. Len(b.data) - at \in Nat
    BY <1>0, <1>1
  <2> QED BY <2>1
<1>3. PICK len \in Nat : len = b.len - at
  BY <1>0, <1>1
<1> DEFINE rest == SubSeq(b.data, at + 1, at + n)
           c == Since(b, at, 0)
<1>4. at + n = Len(b.data) /\ at + n <= Len(b.data) /\ Len(v) <= n /\ Len(v) <= len
  BY <1>0, <1>1, <1>2, <1>3
<1>5. rest \in Seq(Byte) /\ Len(rest) = n /\ \A j \in 1..n : rest[j] = b.data[at + j]
  BY <1>0, <1>4, PartFrom
<1>6. c = [b EXCEPT !.data = rest, !.len = len, !.pos = 0, !.overflow = FALSE]
  <2>1. ~(b.len < at) /\ ~(b.len > Len(b.data)) /\ b.len - at = len
    BY <1>0, <1>1, <1>3
  <2> QED BY <1>4, <2>1 DEF Since
<1> HIDE DEF rest, c
<1>7. c.data = rest /\ c.len = len /\ c.endian = b.endian /\ c.hlswap = b.hlswap
  BY <1>0, <1>6 DEF Buffer
<1>8. 0 \in Nat /\ 0 + Len(v) = Len(v) /\ 0 + 1 = 1
  BY <1>1
<1>9. SubSeq(rest, 1, Len(v)) = Stored(b, v)
  <2> DEFINE x == SubSeq(rest, 1, Len(v))
             y == SubSeq(b.data, at + 1, at + Len(v))
  <2>1. x \in Seq(Byte) /\ Len(x) = Len(v) /\ \A j \in 1..Len(v) : x[j] = rest[j]
    BY <1>1, <1>4, <1>5, PartElements
  <2>2. at + Len(v) <= Len(b.data)
    BY <1>0, <1>1
  <2>3. y \in Seq(Byte) /\ Len(y) = Len(v) /\ \A j \in 1..Len(v) : y[j] = b.data[at + j]
    BY <1>0, <1>1, <2>2, PartFrom
  <2> HIDE DEF x, y
  <2>4. \A j \in 1..Len(v) : j \in 1..n
    BY <1>1, <1>4
  <2>5. x = y
    BY <1>5, <2>1, <2>3, <2>4, SameElements
  <2> QED BY <2>5 DEF x, y, HoldsInt
<1>10. ~(0 >= len) /\ ~(len - 0 < Len(v))
  BY <1>1, <1>4
<1>11. GetInt(c, 0, Len(v)) = Loaded(c, Stored(b, v))
  BY <1>7, <1>8, <1>9, <1>10 DEF GetInt
<1>12. Loaded(c, Stored(b, v)) = v
  BY <1>7, SameOrders
<1> QED BY <1>11, <1>12 DEF c

\* What the search finds is there.
LEMMA FoundIsThere ==
  ASSUME NEW b, WithinBounds(b), NEW x, NEW offset \in Nat, Find(b, x, offset) >= 0
  PROVE  GetBytes(b, b.pos + offset + Find(b, x, offset), 1) = <<x>>
<1>0. b.data \in Seq(Byte) /\ Len(b.data) \in Nat /\ b.len \in Nat /\ b.pos \in Nat /\ b.len <= Len(b.data)
  BY BufferFields
<1>1. PICK from \in Nat : from = b.pos + offset
  BY <1>0
<1> DEFINE at == {i \in (from + 1)..b.len : b.data[i] = x}
<1>2. Find(b, x, offset) = IF at = {} THEN -1 ELSE (CHOOSE i \in at : \A j \in at : i <= j) - 1 - from
  BY <1>1 DEF Find
<1>3. at # {}
  BY <1>2
<1>4. at \in SUBSET Nat
  BY <1>0
<1>5. \E i \in at : \A j \in at : i <= j
  BY <1>3, <1>4, NatLeast
<1>6. PICK i \in at : Find(b, x, offset) = i - 1 - from
  BY <1>2, <1>3, <1>5
<1>7. i \in Nat /\ i >= 1 /\ i <= b.len /\ b.data[i] = x
  BY <1>0, <1>6
<1>8. PICK g \in Nat : g = i - 1
  BY <1>7
<1>9. b.pos + offset + Find(b, x, offset) = g
  BY <1>0, <1>1, <1>6, <1>7, <1>8
<1>10. ~(g < 0 \/ g >= b.len) /\ Smaller(1, b.len - g) = 1 /\ g + 1 = i
  BY <1>0, <1>7, <1>8 DEF Smaller
<1>11. GetBytes(b, g, 1) = SubSeq(b.data, i, i)
  BY <1>10 DEF GetBytes
<1>12. SubSeq(b.data, i, i) = <<x>>
  <2> DEFINE s == SubSeq(b.data, i, i)
  <2>1. i \in Nat /\ i <= Len(b.data) /\ x \in Byte /\ i - i + 1 = 1 /\ i + 1 - 1 = i
    BY <1>0, <1>7
  <2>2. s \in Seq(Byte) /\ Len(s) = 1 /\ s[1] = b.data[i]
    BY <1>0, <1>7, <2>1, PartElements
  <2>3. <<x>> \in Seq(Byte) /\ Len(<<x>>) = 1 /\ <<x>>[1] = x
    BY <2>1
  <2> HIDE DEF s
  <2>4. s = <<x>>
    BY <1>7, <2>2, <2>3, SameElements
  <2> QED BY <2>4 DEF s
<1> QED BY <1>9, <1>11, <1>12

-----------------------------------------------------------------------------
(* The calls. *)

\* The bounds of the byte buffer and of the message buffer, whatever is called.
ByInv ==
  /\ WithinBounds(by) /\ byHost \in Orders
  /\ mb \in [buf : Seq(Byte), size : Nat] /\ Len(mb.buf) = ByCap /\ mb.size <= ByCap

\* A view of memory is within its bounds.
LEMMA ViewKeeps ==
  ASSUME NEW data \in Seq(Byte), NEW len \in Nat
  PROVE  WithinBounds(View(data, len))
<1>1. Len(data) \in Nat
  OBVIOUS
<1>2. PICK n \in Nat : n = Smaller(len, Len(data))
  BY <1>1 DEF Smaller
<1>3. n <= Len(data) /\ 0 <= n
  BY <1>1, <1>2 DEF Smaller
<1>4. View(data, len) = [data |-> data, len |-> n, pos |-> 0, endian |-> "big", hlswap |-> FALSE, overflow |-> FALSE]
  BY <1>2 DEF View
<1>5. View(data, len) \in Buffer
  BY <1>4 DEF Buffer, Orders
<1> QED BY <1>3, <1>4, <1>5 DEF WithinBounds

LEMMA ByInitInv == ByInit => ByInv
<1> SUFFICES ASSUME ByInit
             PROVE  ByInv
  OBVIOUS
<1> DEFINE memory == [i \in 1..ByCap |-> i % 3]
           zeros == [i \in 1..ByCap |-> 0]
<1>1. ByCap \in Nat
  BY ByAssumption
<1>2. memory \in Seq(Byte)
  <2>1. \A i \in 1..ByCap : i % 3 \in Byte
    BY <1>1 DEF Byte
  <2> QED BY <1>1, <2>1
<1>3. zeros \in Seq(Byte) /\ Len(zeros) = ByCap
  <2>1. 0 \in Byte
    BY DEF Byte
  <2> QED BY <1>1, <2>1
<1> HIDE DEF memory, zeros
<1>4. PICK len \in 0..(ByCap + 1) : by = View(memory, len)
  BY DEF ByInit, memory
<1>5. len \in Nat
  BY <1>1
<1>6. mb = [buf |-> zeros, size |-> 0] /\ byHost \in Orders
  BY DEF ByInit, zeros
<1> QED BY <1>1, <1>2, <1>3, <1>4, <1>5, <1>6, ViewKeeps DEF ByInv

LEMMA ByNextKeeps == ByInv /\ ByNext => ByInv'
<1> SUFFICES ASSUME ByInv, ByNext
             PROVE  ByInv'
  OBVIOUS
<1>0. WithinBounds(by) /\ ByCap \in Nat /\ 0 \in Byte /\ 1 \in Byte
  BY ByAssumption DEF ByInv, Byte
<1>1. ASSUME NEW b, WithinBounds(b), ByBecomes(b)
      PROVE  ByInv'
  BY <1>1 DEF ByBecomes, ByInv
<1>2. ASSUME NEW e \in Orders, NEW h \in BOOLEAN
      PROVE  WithinBounds([by EXCEPT !.endian = e, !.hlswap = h])
  BY <1>0 DEF WithinBounds, Buffer
<1>3. ASSUME NEW s \in ByStrings
      PROVE  WithinBounds(Put(by, s)) /\ \A at \in -1..ByCap : WithinBounds(SetBytes(by, at, s))
  <2>1. s \in Seq(Byte)
    BY ByAssumption
  <2>2. \A at \in -1..ByCap : at \in Int
    BY <1>0
  <2> QED BY <1>0, <2>1, <2>2, PutKeeps, SetBytesKeeps
<1>4. ASSUME NEW v \in ByInts
      PROVE  WithinBounds(PutInt(by, v)) /\ \A at \in Sizes : WithinBounds(SetInt(by, at, v))
  <2>1. IsInt(v)
    BY ByAssumption DEF IsInt
  <2>2. \A at \in Sizes : at \in Nat
    BY <1>0 DEF Sizes
  <2> QED BY <1>0, <2>1, <2>2, PutIntKeeps, SetIntKeeps
<1>5. ASSUME NEW w \in {1, 2, 4}
      PROVE  WithinBounds(TakeInt(by, w).b)
  BY <1>0, MovesKeep
<1>6. ASSUME NEW n \in Sizes
      PROVE  /\ WithinBounds(Skip(by, n)) /\ WithinBounds(Seek(by, n)) /\ WithinBounds(Reseek(by, n))
             /\ WithinBounds(Commit(by, n)) /\ WithinBounds(Truncate(by, n))
             /\ WithinBounds(Fill(by, 1, n)) /\ WithinBounds(Overfill(by, 0, n))
  <2>1. n \in Nat
    BY <1>0 DEF Sizes
  <2> QED BY <1>0, <2>1, MovesKeep, FillKeeps
<1>7. WithinBounds(Compact(by)) /\ WithinBounds(ClearBytes(by)) /\ WithinBounds([by EXCEPT !.overflow = FALSE])
  <2>1. WithinBounds([by EXCEPT !.overflow = FALSE])
    BY <1>0 DEF WithinBounds, Buffer
  <2>2. WithinBounds(ClearBytes(by))
    BY <1>0, MovesKeep
  <2> QED BY <1>0, <2>1, <2>2, CompactKeeps
<1> QED BY <1>1, <1>2, <1>3, <1>4, <1>5, <1>6, <1>7 DEF ByNext

LEMMA MbNextKeeps == ByInv /\ MbNext => ByInv'
<1> SUFFICES ASSUME ByInv, MbNext
             PROVE  ByInv'
  OBVIOUS
<1>0. /\ ByCap \in Nat /\ ByCap >= 2 /\ mb.buf \in Seq(Byte) /\ Len(mb.buf) = ByCap
      /\ mb.size \in Nat /\ mb.size <= ByCap
  BY ByAssumption DEF ByInv
<1>1. ASSUME NEW buf \in Seq(Byte), NEW size \in Nat, Len(buf) = ByCap, size <= ByCap, MbBecomes(buf, size)
      PROVE  ByInv'
  BY <1>1 DEF MbBecomes, ByInv
<1>2. ASSUME NEW s \in ByStrings, MbWrite(s)
      PROVE  ByInv'
  <2>0. s \in Seq(Byte) /\ Len(s) \in Nat
    BY ByAssumption
  <2>1. PICK n \in Nat : n = Smaller(Len(s), ByCap - mb.size)
    BY <1>0, <2>0 DEF Smaller
  <2>2. n <= Len(s) /\ mb.size + n <= ByCap
    BY <1>0, <2>0, <2>1 DEF Smaller
  <2> DEFINE part == SubSeq(s, 1, n)
             buf == Replaced(mb.buf, mb.size, part)
  <2>3. part \in Seq(Byte) /\ Len(part) = n
    BY <2>0, <2>2, PartElements
  <2>4. MbBecomes(buf, mb.size + n)
    BY <1>2, <2>1 DEF MbWrite
  <2> HIDE DEF part
  <2>5. buf \in Seq(Byte) /\ Len(buf) = ByCap
    BY <1>0, <2>2, <2>3, ReplacedElements
  <2> HIDE DEF buf
  <2>6. mb.size + n \in Nat
    BY <1>0
  <2> QED BY <1>1, <2>2, <2>4, <2>5, <2>6
<1>3. ASSUME NEW s \in ByStrings, MbFmt(s)
      PROVE  ByInv'
  <2>0. s \in Seq(Byte) /\ Len(s) \in Nat /\ mb.size < ByCap
    BY <1>3, ByAssumption DEF MbFmt
  <2>1. PICK n \in Nat : n = Smaller(Len(s), ByCap - mb.size - 1)
    BY <1>0, <2>0 DEF Smaller
  <2>2. n <= Len(s) /\ mb.size + (n + 1) <= ByCap /\ mb.size + n <= ByCap
    BY <1>0, <2>0, <2>1 DEF Smaller
  <2> DEFINE part == SubSeq(s, 1, n)
             text == Append(part, 0)
             buf == Replaced(mb.buf, mb.size, text)
  <2>3. part \in Seq(Byte) /\ Len(part) = n
    BY <2>0, <2>2, PartElements
  <2>4. MbBecomes(buf, mb.size + n)
    BY <1>3, <2>1 DEF MbFmt
  <2> HIDE DEF part
  <2>5. text \in Seq(Byte) /\ Len(text) = n + 1
    <3>1. 0 \in Byte
      BY DEF Byte
    <3> QED BY <2>3, <3>1
  <2> HIDE DEF text
  <2>6. buf \in Seq(Byte) /\ Len(buf) = ByCap
    BY <1>0, <2>2, <2>5, ReplacedElements
  <2> HIDE DEF buf
  <2>7. mb.size + n \in Nat
    BY <1>0
  <2> QED BY <1>1, <2>2, <2>4, <2>6, <2>7
<1>4. CASE MbClear
  <2>1. 0 \in Nat /\ 0 <= ByCap
    BY <1>0
  <2> QED BY <1>0, <1>1, <1>4, <2>1 DEF MbClear
<1>5. ASSUME NEW start \in {0, 1, ByCap - 2}, NEW end \in {mb.size, ByCap}, MbSeg(start, end)
      PROVE  ByInv'
  <2>1. start \in Nat /\ end \in Nat /\ start <= end /\ start + 1 >= 1 /\ start + 1 \in Nat
    BY <1>0, <1>5 DEF MbSeg
  <2>2. PICK len \in Nat : len = end - start
    BY <2>1
  <2>3. SubSeq(mb.buf, start + 1, ByCap) \in Seq(Byte)
    BY <1>0, <2>1, PartElements
  <2>4. WithinBounds(by') /\ UNCHANGED <<byHost, mb>>
    BY <1>5, <2>2, <2>3, ViewKeeps DEF MbSeg
  <2> QED BY <2>4 DEF ByInv
<1> QED BY <1>2, <1>3, <1>4, <1>5 DEF MbNext

\* Within its bounds a buffer does all that is promised of it.
LEMMA BoundsPromise == ByInv => BytesIntact
<1> SUFFICES ASSUME ByInv
             PROVE  BytesIntact
  OBVIOUS
<1>0. WithinBounds(by) /\ byHost \in Orders /\ ByCap \in Nat
  BY ByAssumption DEF ByInv
<1>1. by.len \in Nat /\ by.pos \in Nat /\ by.endian \in Orders /\ by.pos <= by.len /\ by.len <= Len(by.data)
  BY <1>0, BufferFields
<1>2. SubSeq(Compact(by).data, 1, Compact(by).len) = SubSeq(by.data, by.pos + 1, by.len)
  BY <1>0, CompactKeeps
<1>3. ASSUME NEW v \in ByInts, NEW at \in 0..ByCap, at + Len(v) <= by.len
      PROVE  LET b == SetInt(by, at, v) IN
               /\ GetBytes(b, at, Len(v)) = Wire(by, v)
               /\ GetInt(b, at, Len(v)) = v /\ PeekInt(b, at - by.pos, Len(v)) = v
               /\ GetInt(Since(b, at, 0), 0, Len(v)) = v
               /\ TakeInt(Seek(PutInt(Seek(by, at), v), at), Len(v)).v = v
  <2> DEFINE b == SetInt(by, at, v)
  <2>1. IsInt(v) /\ at \in Nat
    BY <1>0, ByAssumption DEF IsInt
  <2>2. /\ WithinBounds(b) /\ HoldsInt(b, at, v) /\ b.pos = by.pos
        /\ Stored(b, v) = Stored(by, v)
    BY <1>0, <1>3, <2>1, SetIntHolds
  <2>3. TakeInt(Seek(PutInt(Seek(by, at), v), at), Len(v)).v = v
    BY <1>0, <1>3, <2>1, PutIntTaken
  <2>4. Stored(by, v) = Wire(by, v)
    BY <1>0, <1>1, <2>1, StoredAsOrdered
  <2> HIDE DEF b
  <2>5. GetInt(b, at, Len(v)) = v /\ PeekInt(b, at - by.pos, Len(v)) = v /\ GetBytes(b, at, Len(v)) = Wire(by, v)
    BY <2>1, <2>2, <2>4, HeldIsRead
  <2>6. GetInt(Since(b, at, 0), 0, Len(v)) = v
    BY <2>1, <2>2, SinceHolds
  <2> QED BY <2>3, <2>5, <2>6 DEF b
<1>4. ASSUME NEW v \in ByInts
      PROVE  Memory(BigEndian(v)) = v /\ Memory(LittleEndian(v)) = Reverse(v)
  <2>1. IsInt(v)
    BY ByAssumption DEF IsInt
  <2> QED BY <1>0, <2>1, OrdersOfBinary
<1>5. ASSUME NEW x \in {0, 1}, NEW at \in 0..(by.len - by.pos)
      PROVE  LET d == Find(by, x, at) IN d >= 0 => GetBytes(by, by.pos + at + d, 1) = <<x>>
  <2>1. at \in Nat
    BY <1>1
  <2> QED BY <1>0, <2>1, FoundIsThere
<1>6. mb.size <= ByCap
  BY DEF ByInv
<1> QED BY <1>1, <1>2, <1>3, <1>4, <1>5, <1>6 DEF BytesIntact

\* The bounds of the byte buffer hold after every sequence of calls, for any capacity; an
\* integer of any value and width is laid out as its order says on every host, and is read back
\* as it was put; compaction keeps what was not read, and a search finds what is there
\* (bytes.c, msgbuf.c, binary.h).
THEOREM BytesKept == BySpec => []BytesIntact
<1>1. ByInv /\ [ByNext \/ MbNext]_byVars => ByInv'
  <2> SUFFICES ASSUME ByInv, [ByNext \/ MbNext]_byVars
               PROVE  ByInv'
    OBVIOUS
  <2>1. CASE UNCHANGED byVars
    BY <2>1 DEF byVars, ByInv
  <2> QED BY <2>1, ByNextKeeps, MbNextKeeps
<1> QED BY <1>1, ByInitInv, BoundsPromise, PTL DEF BySpec

-----------------------------------------------------------------------------
(* Loops. *)

\* The states f of n turns of a loop, whose turn is a function of the state before it.
LoopStates(S, step, c, n, f) == f \in [0..n -> S] /\ f[0] = c /\ \A k \in 1..n : f[k] = step[f[k - 1]]

\* A loop can turn any number of times.
LEMMA LoopRuns ==
  ASSUME NEW S, NEW step \in [S -> S], NEW c \in S, NEW n \in Nat
  PROVE  \E f : LoopStates(S, step, c, n, f)
<1> DEFINE Runs(f, m) == f \in [0..m -> S] /\ f[0] = c /\ \A k \in 1..m : f[k] = step[f[k - 1]]
           P == {m \in Nat : \E f : Runs(f, m)}
<1>1. 0 \in P
  <2> DEFINE f == [k \in 0..0 |-> c]
  <2>1. Runs(f, 0)
    OBVIOUS
  <2> QED BY <2>1
<1>2. ASSUME NEW m \in P
      PROVE  m + 1 \in P
  <2>1. PICK f : Runs(f, m)
    OBVIOUS
  <2>2. PICK z \in Nat : z = m + 1
    OBVIOUS
  <2>3. f \in [0..m -> S] /\ f[0] = c /\ \A k \in 1..m : f[k] = step[f[k - 1]]
    BY <2>1
  <2>4. f[m] \in S /\ step[f[m]] \in S
    BY <2>3
  <2>5. PICK e \in S : e = step[f[m]]
    BY <2>4
  <2> DEFINE h == [k \in 0..z |-> IF k <= m THEN f[k] ELSE e]
  <2>6. h \in [0..z -> S]
    <3>1. ASSUME NEW k \in 0..z PROVE (IF k <= m THEN f[k] ELSE e) \in S
      <4>1. k <= m => k \in 0..m
        BY <2>2
      <4> QED BY <2>3, <2>5, <4>1
    <3> QED BY <3>1
  <2>7. \A k \in 0..z : h[k] = IF k <= m THEN f[k] ELSE e
    OBVIOUS
  <2> HIDE DEF h
  <2>8. h[0] = c
    BY <2>2, <2>3, <2>7
  <2>9. ASSUME NEW k \in 1..z PROVE h[k] = step[h[k - 1]]
    <3>1. k \in 0..z /\ k - 1 \in 0..z /\ k - 1 <= m
      BY <2>2
    <3>2. CASE k <= m
      <4>1. k \in 1..m
        BY <3>2
      <4> QED BY <2>3, <2>7, <3>1, <3>2, <4>1
    <3>3. CASE ~(k <= m)
      <4>1. k - 1 = m
        BY <2>2, <3>3
      <4> QED BY <2>5, <2>7, <3>1, <3>3, <4>1
    <3> QED BY <3>2, <3>3
  <2>10. Runs(h, z)
    BY <2>6, <2>8, <2>9
  <2> HIDE DEF Runs
  <2> QED BY <2>2, <2>10
<1>3. P = Nat
  <2> HIDE DEF Runs
  <2>1. P \in SUBSET Nat
    OBVIOUS
  <2> HIDE DEF P
  <2> QED BY <1>1, <1>2, <2>1, AllNumbers
<1> QED BY <1>3 DEF LoopStates

-----------------------------------------------------------------------------
(* The priority queue. *)

\* Where p stands in s, and how often.
Occurrences(s, p) == {i \in DOMAIN s : s[i] = p}
Copies(s, p) == Cardinality(Occurrences(s, p))

\* t has the elements of s, each as often.
SameCopies(s, t) == \A p \in Prios : Copies(t, p) = Copies(s, p)

\* There are finitely many places.
LEMMA PlacesFinite ==
  ASSUME NEW s \in Seq(Prios), NEW p
  PROVE  IsFiniteSet(Occurrences(s, p)) /\ Copies(s, p) \in Nat
<1>1. Len(s) \in Nat /\ Occurrences(s, p) \subseteq 1..Len(s)
  BY DEF Occurrences
<1>2. IsFiniteSet(1..Len(s))
  BY <1>1, FS_Interval
<1> QED BY <1>1, <1>2, FS_Subset, FS_CardinalityType DEF Copies

\* t is s with two elements exchanged.
Exchanged(s, t, a, b) ==
  /\ Len(t) = Len(s) /\ a \in 1..Len(s) /\ b \in 1..Len(s)
  /\ t[a] = s[b] /\ t[b] = s[a]
  /\ \A i \in 1..Len(s) : i # a /\ i # b => t[i] = s[i]

\* Exchanging two elements keeps all of them.
LEMMA ExchangeKeeps ==
  ASSUME NEW s \in Seq(Prios), NEW t \in Seq(Prios), NEW a, NEW b, Exchanged(s, t, a, b)
  PROVE  SameCopies(s, t)
<1> SUFFICES ASSUME NEW p \in Prios
             PROVE  Copies(t, p) = Copies(s, p)
  BY DEF SameCopies
<1> DEFINE S == Occurrences(s, p)
           T == Occurrences(t, p)
           other(i) == IF i = a THEN b ELSE IF i = b THEN a ELSE i
           f == [i \in S |-> other(i)]
<1>1. IsFiniteSet(S) /\ IsFiniteSet(T)
  BY PlacesFinite
<1>2. S = {i \in 1..Len(s) : s[i] = p} /\ T = {i \in 1..Len(s) : t[i] = p}
  BY DEF Occurrences, Exchanged
<1>3. \A i \in 1..Len(s) : other(i) \in 1..Len(s) /\ t[other(i)] = s[i] /\ s[other(i)] = t[i] /\ other(other(i)) = i
  BY DEF Exchanged
<1> HIDE DEF S, T, other
<1>4. f \in [S -> T]
  BY <1>2, <1>3
<1>5. \A i, j \in S : f[i] = f[j] => i = j
  BY <1>2, <1>3
<1>6. \A j \in T : \E i \in S : f[i] = j
  <2> TAKE j \in T
  <2>1. other(j) \in S /\ other(other(j)) = j
    BY <1>2, <1>3
  <2> QED BY <2>1
<1>7. f \in Bijection(S, T)
  <2> HIDE DEF f
  <2> QED BY <1>4, <1>5, <1>6 DEF Bijection, Injection, Surjection, IsInjective
<1>8. Cardinality(S) = Cardinality(T)
  BY <1>1, <1>7, FS_Bijection DEF ExistsBijection
<1> QED BY <1>8 DEF Copies, S, T

\* One more at the end is one more of it.
LEMMA AppendCopies ==
  ASSUME NEW s \in Seq(Prios), NEW e \in Prios, NEW p \in Prios
  PROVE  Copies(Append(s, e), p) = IF e = p THEN Copies(s, p) + 1 ELSE Copies(s, p)
<1> DEFINE t == Append(s, e)
<1>1. t \in Seq(Prios) /\ Len(s) \in Nat /\ Len(t) = Len(s) + 1 /\ t[Len(s) + 1] = e /\ \A i \in 1..Len(s) : t[i] = s[i]
  OBVIOUS
<1> HIDE DEF t
<1>2. Occurrences(t, p) = IF e = p THEN Occurrences(s, p) \union {Len(s) + 1} ELSE Occurrences(s, p)
  BY <1>1 DEF Occurrences
<1>3. ~(Len(s) + 1 \in Occurrences(s, p))
  BY <1>1 DEF Occurrences
<1>4. Cardinality(Occurrences(s, p) \union {Len(s) + 1}) = Cardinality(Occurrences(s, p)) + 1
  BY <1>3, PlacesFinite, FS_AddElement
<1> QED BY <1>2, <1>4 DEF t, Copies

\* A hole in n cells; with v in it the cells have the elements of s.
Holes(s, v, n) ==
  {h \in [all : Seq(Prios), at : 1..n] :
     Len(h.all) = n /\ SameCopies(s, [h.all EXCEPT ![h.at] = v])}

\* A hole that moves keeps the elements.
LEMMA HoleMoves ==
  ASSUME NEW s \in Seq(Prios), NEW v \in Prios, NEW n \in Nat, NEW h \in Holes(s, v, n), NEW j \in 1..n
  PROVE  [all |-> [h.all EXCEPT ![h.at] = h.all[j]], at |-> j] \in Holes(s, v, n)
<1> DEFINE a == h.all
           i == h.at
           b == [a EXCEPT ![i] = a[j]]
           from == [a EXCEPT ![i] = v]
           to == [b EXCEPT ![j] = v]
<1>1. a \in Seq(Prios) /\ Len(a) = n /\ i \in 1..n /\ SameCopies(s, from)
  BY DEF Holes
<1> HIDE DEF a, i
<1>2. b \in Seq(Prios) /\ Len(b) = n
  BY <1>1
<1>3. to \in Seq(Prios) /\ from \in Seq(Prios) /\ Len(from) = n /\ Len(to) = n
  BY <1>1, <1>2
<1>4. Exchanged(from, to, i, j)
  BY <1>1, <1>2, <1>3 DEF Exchanged
<1>5. SameCopies(s, to)
  BY <1>1, <1>3, <1>4, ExchangeKeeps DEF SameCopies
<1>6. [all |-> b, at |-> j] \in [all : Seq(Prios), at : 1..n]
  BY <1>2
<1> HIDE DEF b
<1> QED BY <1>2, <1>5, <1>6 DEF Holes, b, a, i

\* A turn of either loop moves the hole or leaves it.
LEMMA RaisedHole ==
  ASSUME NEW s \in Seq(Prios), NEW v \in Prios, NEW n \in Nat, NEW h \in Holes(s, v, n)
  PROVE  Raised(h, v) \in Holes(s, v, n)
<1>1. h.at \in 1..n
  BY DEF Holes
<1>2. CASE h.at > 1
  <2>1. PICK j \in 1..n : j = ((h.at - 1) - 1) \div 4 + 1
    BY <1>1, <1>2
  <2> QED BY <2>1, HoleMoves DEF Raised
<1>3. CASE ~(h.at > 1)
  BY <1>3 DEF Raised
<1> QED BY <1>2, <1>3

\* A turn of pqueue_sift_down keeps the hole: the other elements stay as they were.
LEMMA SunkHole ==
  ASSUME NEW s \in Seq(Prios), NEW v \in Prios, NEW n \in Nat, NEW h \in Holes(s, v, n)
  PROVE  Sunk(h, v) \in Holes(s, v, n)
<1> DEFINE all == h.all
           i == h.at
           children == {c \in (4 * (i - 1) + 2)..(4 * (i - 1) + 5) : c <= Len(all)}
           smaller == {c \in children : all[c] < all[i]}
           isLeast(c) == \A d \in smaller : all[c] < all[d] \/ (all[c] = all[d] /\ c <= d)
           smallest == CHOOSE c \in smaller : isLeast(c)
<1>1. all \in Seq(Prios) /\ Len(all) = n /\ i \in 1..n
  BY DEF Holes
<1>2. smaller \subseteq 1..n
  BY <1>1
<1>3. CASE smaller = {}
  <2>1. Sunk(h, v) = h
    BY <1>3 DEF Sunk
  <2> QED BY <2>1
<1>4. CASE smaller # {}
  <2>1. \A c \in smaller : all[c] \in Nat
    <3> HIDE DEF smaller, all
    <3>1. \A c \in 1..n : all[c] \in Prios
      BY <1>1
    <3> QED BY <1>2, <3>1, PqAssumption
  <2>2. PICK m \in Nat : (\E c \in smaller : all[c] = m) /\ \A c \in smaller : m <= all[c]
    <3>1. {all[c] : c \in smaller} \in SUBSET Nat /\ {all[c] : c \in smaller} # {}
      BY <1>4, <2>1
    <3>2. \E k \in {all[c] : c \in smaller} : \A l \in {all[c] : c \in smaller} : k <= l
      BY <3>1, NatLeast
    <3> QED BY <2>1, <3>2
  <2>3. PICK c \in smaller : all[c] = m /\ \A d \in smaller : all[d] = m => c <= d
    <3> DEFINE C == {d \in smaller : all[d] = m}
    <3>1. C \in SUBSET Nat /\ C # {}
      BY <1>2, <2>2, SMTT(60)
    <3>2. \E d \in C : \A e \in C : d <= e
      BY <3>1, NatLeast
    <3> QED BY <3>2
  <2>4. isLeast(c)
    <3> SUFFICES ASSUME NEW d \in smaller
                 PROVE  all[c] < all[d] \/ (all[c] = all[d] /\ c <= d)
      OBVIOUS
    <3>1. m <= all[d] /\ all[d] \in Nat
      BY <2>1, <2>2
    <3>2. CASE all[d] = m
      BY <2>3, <3>2
    <3>3. CASE all[d] # m
      BY <2>3, <3>1, <3>3
    <3> QED BY <3>2, <3>3
  <2>5. smallest \in smaller
    <3> HIDE DEF smaller, isLeast
    <3> QED BY <2>3, <2>4
  <2>6. PICK j \in 1..n : j = smallest
    BY <1>2, <2>5
  <2>7. Sunk(h, v) = IF smaller # {} /\ v > all[j] THEN [all |-> [all EXCEPT ![i] = all[j]], at |-> j] ELSE h
    BY <2>6 DEF Sunk
  <2> QED BY <2>7, HoleMoves
<1> QED BY <1>3, <1>4

\* The loop that sifts, as its definition unfolds, ends with the elements it began with.
LEMMA SiftsKeep ==
  ASSUME NEW all \in Seq(Prios), NEW i \in 1..Len(all)
  PROVE  /\ SiftUp(all, i, all[i]) \in Seq(Prios) /\ Len(SiftUp(all, i, all[i])) = Len(all)
         /\ SameCopies(all, SiftUp(all, i, all[i]))
         /\ SiftDown(all, i, all[i]) \in Seq(Prios) /\ Len(SiftDown(all, i, all[i])) = Len(all)
         /\ SameCopies(all, SiftDown(all, i, all[i]))
<1>0. PICK n \in Nat : n = Len(all)
  OBVIOUS
<1>1. PICK v \in Prios : v = all[i]
  OBVIOUS
<1> DEFINE S == Holes(all, v, n)
           c == [all |-> all, at |-> i]
           IsUp(f) == f = [k \in 0..n |-> IF k = 0 THEN c ELSE Raised(f[k - 1], v)]
           IsDown(f) == f = [k \in 0..n |-> IF k = 0 THEN c ELSE Sunk(f[k - 1], v)]
<1>2. c \in S
  <2>1. [all EXCEPT ![i] = v] = all
    BY <1>1
  <2> QED BY <1>0, <2>1 DEF Holes, SameCopies
<1>3. ASSUME NEW h \in S
      PROVE  [h.all EXCEPT ![h.at] = v] \in Seq(Prios) /\ Len([h.all EXCEPT ![h.at] = v]) = n
             /\ SameCopies(all, [h.all EXCEPT ![h.at] = v])
  BY DEF Holes
<1> HIDE DEF S, c
<1>4. \E f : IsUp(f)
  <2> DEFINE step == [h \in S |-> Raised(h, v)]
  <2>1. step \in [S -> S]
    BY RaisedHole DEF S
  <2>0. \A h \in S : step[h] = Raised(h, v)
    OBVIOUS
  <2> HIDE DEF step
  <2>2. PICK f : LoopStates(S, step, c, n, f)
    BY <1>2, <2>1, LoopRuns
  <2>a. f \in [0..n -> S] /\ f[0] = c /\ \A k \in 1..n : f[k] = step[f[k - 1]]
    BY <2>2 DEF LoopStates
  <2>3. \A k \in 0..n : f[k] = IF k = 0 THEN c ELSE Raised(f[k - 1], v)
    <3> TAKE k \in 0..n
    <3>1. k # 0 => k \in 1..n /\ k - 1 \in 0..n
      BY <1>0
    <3> QED BY <2>0, <2>a, <3>1
  <2>4. IsUp(f)
    BY <2>a, <2>3
  <2> QED BY <2>4
<1>5. ASSUME NEW f, IsUp(f)
      PROVE  f[n] \in S
  <2> DEFINE P == {k \in Nat : k <= n => f[k] \in S}
  <2>1. \A k \in 0..n : f[k] = IF k = 0 THEN c ELSE Raised(f[k - 1], v)
    BY <1>5
  <2>2. 0 \in P
    BY <1>2, <2>1
  <2>3. ASSUME NEW k \in P PROVE k + 1 \in P
    <3> SUFFICES ASSUME k + 1 <= n PROVE f[k + 1] \in S
      OBVIOUS
    <3>1. k + 1 \in 0..n /\ (k + 1) - 1 = k /\ k <= n /\ k + 1 # 0
      OBVIOUS
    <3>2. f[k + 1] = Raised(f[k], v)
      BY <2>1, <3>1
    <3>3. f[k] \in S
      BY <3>1
    <3> QED BY <3>2, <3>3, RaisedHole DEF S
  <2>4. P = Nat
    <3>1. P \in SUBSET Nat
      OBVIOUS
    <3> HIDE DEF P
    <3> QED BY <2>2, <2>3, <3>1, AllNumbers
  <2> QED BY <2>4
<1>6. \E f : IsDown(f)
  <2> DEFINE step == [h \in S |-> Sunk(h, v)]
  <2>1. step \in [S -> S]
    BY SunkHole DEF S
  <2>0. \A h \in S : step[h] = Sunk(h, v)
    OBVIOUS
  <2> HIDE DEF step
  <2>2. PICK f : LoopStates(S, step, c, n, f)
    BY <1>2, <2>1, LoopRuns
  <2>a. f \in [0..n -> S] /\ f[0] = c /\ \A k \in 1..n : f[k] = step[f[k - 1]]
    BY <2>2 DEF LoopStates
  <2>3. \A k \in 0..n : f[k] = IF k = 0 THEN c ELSE Sunk(f[k - 1], v)
    <3> TAKE k \in 0..n
    <3>1. k # 0 => k \in 1..n /\ k - 1 \in 0..n
      BY <1>0
    <3> QED BY <2>0, <2>a, <3>1
  <2>4. IsDown(f)
    BY <2>a, <2>3
  <2> QED BY <2>4
<1>7. ASSUME NEW f, IsDown(f)
      PROVE  f[n] \in S
  <2> DEFINE P == {k \in Nat : k <= n => f[k] \in S}
  <2>1. \A k \in 0..n : f[k] = IF k = 0 THEN c ELSE Sunk(f[k - 1], v)
    BY <1>7
  <2>2. 0 \in P
    BY <1>2, <2>1
  <2>3. ASSUME NEW k \in P PROVE k + 1 \in P
    <3> SUFFICES ASSUME k + 1 <= n PROVE f[k + 1] \in S
      OBVIOUS
    <3>1. k + 1 \in 0..n /\ (k + 1) - 1 = k /\ k <= n /\ k + 1 # 0
      OBVIOUS
    <3>2. f[k + 1] = Sunk(f[k], v)
      BY <2>1, <3>1
    <3>3. f[k] \in S
      BY <3>1
    <3> QED BY <3>2, <3>3, SunkHole DEF S
  <2>4. P = Nat
    <3>1. P \in SUBSET Nat
      OBVIOUS
    <3> HIDE DEF P
    <3> QED BY <2>2, <2>3, <3>1, AllNumbers
  <2> QED BY <2>4
<1> DEFINE up == CHOOSE f : IsUp(f)
           down == CHOOSE f : IsDown(f)
<1>8. up[n] \in S /\ down[n] \in S
  <2> HIDE DEF IsUp, IsDown
  <2> QED BY <1>4, <1>5, <1>6, <1>7
<1>9. /\ SiftUp(all, i, v) = [up[n].all EXCEPT ![up[n].at] = v]
      /\ SiftDown(all, i, v) = [down[n].all EXCEPT ![down[n].at] = v]
  BY <1>0 DEF SiftUp, SiftDown, c
<1> HIDE DEF up, down
<1>10. PICK h \in S, d \in S : h = up[n] /\ d = down[n]
  BY <1>8
<1>11. SiftUp(all, i, v) = [h.all EXCEPT ![h.at] = v] /\ SiftDown(all, i, v) = [d.all EXCEPT ![d.at] = v]
  BY <1>9, <1>10
<1> DEFINE kept(t) == t \in Seq(Prios) /\ Len(t) = n /\ SameCopies(all, t)
<1>12. kept(SiftUp(all, i, v)) /\ kept(SiftDown(all, i, v))
  BY <1>3, <1>11
<1> QED BY <1>0, <1>1, <1>12

\* A pop puts the last element in the first cell: what is left, and the popped element,
\* are what there was.
LEMMA PopTakesOne ==
  ASSUME NEW s \in Seq(Prios), NEW n \in Nat, Len(s) = n + 1, n # 0, NEW p \in Prios
  PROVE  LET t == [SubSeq(s, 1, n) EXCEPT ![1] = s[n + 1]] IN
           /\ t \in Seq(Prios) /\ Len(t) = n /\ 1 \in 1..n /\ t[1] = s[n + 1]
           /\ Copies(t, p) = IF s[1] = p THEN Copies(s, p) - 1 ELSE Copies(s, p)
<1> DEFINE t == [SubSeq(s, 1, n) EXCEPT ![1] = s[n + 1]]
           u == Append(t, s[1])
<1>1. /\ s[1] \in Prios /\ s[n + 1] \in Prios /\ 1 \in 1..n
      /\ SubSeq(s, 1, n) \in Seq(Prios) /\ Len(SubSeq(s, 1, n)) = n
      /\ \A i \in 1..n : SubSeq(s, 1, n)[i] = s[i]
  OBVIOUS
<1>2. t \in Seq(Prios) /\ Len(t) = n /\ t[1] = s[n + 1] /\ \A i \in 1..n : i # 1 => t[i] = s[i]
  <2> DEFINE a == SubSeq(s, 1, n)
  <2>1. a \in Seq(Prios) /\ Len(a) = n /\ \A i \in 1..n : a[i] = s[i]
    BY <1>1
  <2> HIDE DEF a
  <2>2. PICK e \in Prios : e = s[n + 1]
    BY <1>1
  <2>3. [a EXCEPT ![1] = e] \in Seq(Prios) /\ Len([a EXCEPT ![1] = e]) = n
    BY <1>1, <2>1
  <2>4. [a EXCEPT ![1] = e][1] = e /\ \A i \in 1..n : i # 1 => [a EXCEPT ![1] = e][i] = s[i]
    BY <1>1, <2>1
  <2> QED BY <2>2, <2>3, <2>4 DEF a
<1> HIDE DEF t
<1>3. /\ u \in Seq(Prios) /\ Len(u) = n + 1 /\ u[n + 1] = s[1] /\ u[1] = s[n + 1]
      /\ \A i \in 1..(n + 1) : i # 1 /\ i # n + 1 => u[i] = s[i]
  BY <1>1, <1>2
<1>4. Exchanged(s, u, 1, n + 1)
  <2> HIDE DEF u
  <2> QED BY <1>3 DEF Exchanged
<1>5. Copies(u, p) = Copies(s, p)
  <2> HIDE DEF u
  <2> QED BY <1>3, <1>4, ExchangeKeeps DEF SameCopies
<1>6. Copies(u, p) = IF s[1] = p THEN Copies(t, p) + 1 ELSE Copies(t, p)
  BY <1>1, <1>2, AppendCopies
<1>7. Copies(t, p) \in Nat /\ Copies(s, p) \in Nat
  BY <1>2, PlacesFinite
<1>8. Copies(t, p) = IF s[1] = p THEN Copies(s, p) - 1 ELSE Copies(s, p)
  BY <1>5, <1>6, <1>7
<1> QED BY <1>1, <1>2, <1>8 DEF t

\* The queue holds what was pushed and not popped, within its capacity.
PqInv ==
  /\ pqAll \in Seq(Prios) /\ pqCap \in Nat /\ pqDynamic \in BOOLEAN
  /\ pqHeld \in [Prios -> Int]
  /\ Len(pqAll) <= pqCap
  /\ \A p \in Prios : Copies(pqAll, p) = pqHeld[p]

\* An empty queue has no copy of anything.
LEMMA EmptyCopies ==
  ASSUME NEW p
  PROVE  Copies(<<>>, p) = 0
<1>1. Occurrences(<<>>, p) = {}
  BY DEF Occurrences
<1> QED BY <1>1, FS_EmptySet DEF Copies

\* A new queue holds nothing.
LEMMA PqInitInv == PqInit => PqInv
<1> SUFFICES ASSUME PqInit PROVE PqInv
  OBVIOUS
<1>1. pqAll = <<>> /\ pqCap \in Nat /\ pqDynamic \in BOOLEAN /\ pqHeld = [p \in Prios |-> 0]
  <2>1. PqBound \in Nat
    BY PqAssumption
  <2>2. pqCap \in {0, 1, PqBound} /\ pqDynamic \in BOOLEAN
    BY Zenon DEF PqInit
  <2> QED BY <2>1, <2>2 DEF PqInit
<1>2. <<>> \in Seq(Prios) /\ Len(<<>>) = 0
  OBVIOUS
<1> QED BY <1>1, <1>2, EmptyCopies DEF PqInv

\* A push adds its element or, without room, nothing.
LEMMA PqPushKeeps ==
  ASSUME PqInv, NEW p \in Prios, PqPush(p)
  PROVE  PqInv'
<1>0. PICK n \in Nat : n = Len(pqAll)
  BY DEF PqInv
<1>1. pqCap' \in Nat /\ n <= pqCap' /\ pqDynamic' \in BOOLEAN
  BY <1>0 DEF PqPush, PqInv
<1>2. CASE n < pqCap'
  <2> DEFINE s == Append(pqAll, p)
             t == SiftUp(s, n + 1, p)
  <2>1. pqAll' = t /\ pqHeld' = [pqHeld EXCEPT ![p] = @ + 1]
    BY <1>0, <1>2 DEF PqPush
  <2>2. s \in Seq(Prios) /\ Len(s) = n + 1 /\ n + 1 \in 1..(n + 1) /\ s[n + 1] = p
    BY <1>0 DEF PqInv
  <2>3. \A q \in Prios : Copies(s, q) = IF p = q THEN Copies(pqAll, q) + 1 ELSE Copies(pqAll, q)
    BY AppendCopies DEF PqInv
  <2> HIDE DEF s
  <2>4. t \in Seq(Prios) /\ Len(t) = n + 1 /\ SameCopies(s, t)
    <3>1. PICK i \in 1..Len(s) : i = n + 1
      BY <2>2
    <3> QED BY <2>2, <3>1, SiftsKeep
  <2> HIDE DEF t
  <2>5. \A q \in Prios : Copies(t, q) = pqHeld'[q]
    BY <2>1, <2>3, <2>4 DEF PqInv, SameCopies
  <2>6. pqHeld' \in [Prios -> Int]
    BY <2>1 DEF PqInv
  <2> QED BY <1>1, <1>2, <2>1, <2>4, <2>5, <2>6 DEF PqInv
<1>3. CASE ~(n < pqCap')
  BY <1>0, <1>1, <1>3 DEF PqPush, PqInv
<1> QED BY <1>2, <1>3

\* A pop takes the first element away and no other.
LEMMA PqPopKeeps ==
  ASSUME PqInv, PqPop
  PROVE  PqInv'
<1>0. PICK n \in Nat : n = Len(pqAll) - 1 /\ Len(pqAll) = n + 1
  <2>1. pqAll \in Seq(Prios) /\ pqAll # <<>>
    BY DEF PqInv, PqPop
  <2>2. Len(pqAll) \in Nat /\ Len(pqAll) # 0
    BY <2>1
  <2> QED BY <2>2
<1>1. /\ pqAll \in Seq(Prios) /\ pqAll[1] \in Prios /\ pqCap' = pqCap /\ pqDynamic' = pqDynamic
      /\ pqHeld' = [pqHeld EXCEPT ![pqAll[1]] = @ - 1]
      /\ pqAll' = IF n = 0 THEN <<>> ELSE SiftDown([SubSeq(pqAll, 1, n) EXCEPT ![1] = pqAll[n + 1]], 1, pqAll[n + 1])
  BY <1>0 DEF PqInv, PqPop
<1>2. pqHeld' \in [Prios -> Int] /\ \A p \in Prios : pqHeld'[p] = IF pqAll[1] = p THEN pqHeld[p] - 1 ELSE pqHeld[p]
  BY <1>1, SMTT(60) DEF PqInv
<1>3. pqAll' \in Seq(Prios) /\ Len(pqAll') = n
      /\ \A p \in Prios : Copies(pqAll', p) = IF pqAll[1] = p THEN Copies(pqAll, p) - 1 ELSE Copies(pqAll, p)
  <2>1. CASE n = 0
    <3>1. pqAll' = <<>> /\ <<>> \in Seq(Prios) /\ Len(<<>>) = 0
      BY <1>1, <2>1
    <3>2. \A p \in Prios : Copies(pqAll, p) = IF pqAll[1] = p THEN 1 ELSE 0
      <4> TAKE p \in Prios
      <4>1. Occurrences(pqAll, p) = IF pqAll[1] = p THEN {1} ELSE {}
        BY <1>0, <1>1, <2>1 DEF Occurrences
      <4> QED BY <4>1, FS_EmptySet, FS_Singleton DEF Copies
    <3> QED BY <2>1, <3>1, <3>2, EmptyCopies
  <2>2. CASE n # 0
    <3> DEFINE t == [SubSeq(pqAll, 1, n) EXCEPT ![1] = pqAll[n + 1]]
    <3>1. /\ t \in Seq(Prios) /\ Len(t) = n /\ 1 \in 1..n /\ t[1] = pqAll[n + 1]
          /\ \A p \in Prios : Copies(t, p) = IF pqAll[1] = p THEN Copies(pqAll, p) - 1 ELSE Copies(pqAll, p)
      <4>1. ASSUME NEW p \in Prios
            PROVE  /\ t \in Seq(Prios) /\ Len(t) = n /\ 1 \in 1..n /\ t[1] = pqAll[n + 1]
                   /\ Copies(t, p) = IF pqAll[1] = p THEN Copies(pqAll, p) - 1 ELSE Copies(pqAll, p)
        BY <1>0, <1>1, <2>2, PopTakesOne, ZenonT(60)
      <4> HIDE DEF t
      <4> QED BY <1>1, <4>1
    <3>2. pqAll' = SiftDown(t, 1, pqAll[n + 1])
      BY <1>1, <2>2
    <3> HIDE DEF t
    <3>3. PICK i \in 1..Len(t) : i = 1
      BY <3>1
    <3>4. pqAll' = SiftDown(t, i, t[i])
      BY <3>1, <3>2, <3>3
    <3>5. pqAll' \in Seq(Prios) /\ Len(pqAll') = n /\ SameCopies(t, pqAll')
      BY <3>1, <3>4, SiftsKeep
    <3> QED BY <3>1, <3>5 DEF SameCopies
  <2> QED BY <2>1, <2>2
<1>4. \A p \in Prios : Copies(pqAll', p) = pqHeld'[p]
  BY <1>2, <1>3 DEF PqInv
<1>5. Len(pqAll') <= pqCap' /\ pqCap' \in Nat /\ pqDynamic' \in BOOLEAN
  <2>1. pqCap \in Nat /\ pqDynamic \in BOOLEAN /\ Len(pqAll) <= pqCap
    BY DEF PqInv
  <2>2. n <= pqCap
    BY <1>0, <2>1
  <2> QED BY <1>1, <1>3, <2>1, <2>2
<1> QED BY <1>2, <1>3, <1>4, <1>5 DEF PqInv

\* Every step keeps what the queue holds.
LEMMA PqStepKeeps == PqInv /\ [PqNext]_pqVars => PqInv'
<1> SUFFICES ASSUME PqInv, [PqNext]_pqVars PROVE PqInv'
  OBVIOUS
<1>1. CASE UNCHANGED pqVars
  BY <1>1 DEF PqInv, pqVars
<1>2. CASE PqClear
  <2>1. pqAll' = <<>> /\ pqHeld' = [p \in Prios |-> 0] /\ pqCap' = pqCap /\ pqDynamic' = pqDynamic
    BY <1>2 DEF PqClear
  <2>2. <<>> \in Seq(Prios) /\ Len(<<>>) = 0
    OBVIOUS
  <2> QED BY <2>1, <2>2, EmptyCopies DEF PqInv
<1>3. CASE PqReserve(PqBound)
  <2>1. pqCap' \in Nat /\ pqCap' >= pqCap /\ UNCHANGED <<pqAll, pqDynamic, pqHeld>>
    BY <1>3, PqAssumption DEF PqReserve, PqInv
  <2>2. Len(pqAll) \in Nat
    BY DEF PqInv
  <2> QED BY <2>1, <2>2 DEF PqInv
<1> QED BY <1>1, <1>2, <1>3, PqPushKeeps, PqPopKeeps DEF PqNext

\* Pushes and pops lose and double no element, for any elements, capacity and failing
\* allocations, though the order in which they come out is not the one promised
\* (pqueue.c:10-75).
THEOREM PqueueKeeps == PqSpec => []PqKeepsElements
<1>1. PqInv => PqKeepsElements
  <2>1. \A p : Occurrences(pqAll, p) = {i \in DOMAIN pqAll : pqAll[i] = p}
    BY DEF Occurrences
  <2> QED BY <2>1 DEF PqInv, PqKeepsElements, Copies
<1> QED BY <1>1, PqInitInv, PqStepKeeps, PTL DEF PqSpec

-----------------------------------------------------------------------------
(* The pairing heap: forests of linked nodes. *)

Links == [{"child", "left", "right"} -> [HpNodes -> HpNodes \union {Nil}]]

\* The links down and to the right do not lead out of T.
Enclosed(g, T) == \A n \in T : g.child[n] \in T \union {Nil} /\ g.right[n] \in T \union {Nil}

\* The nodes of S are linked, through children and right siblings, from the node a, which
\* nothing links to. Each is known to its left, up is the parent, p that of a and its
\* siblings, and no node is more urgent than its parent.
Forest(g, q, up, p, a, S) ==
  /\ S \subseteq HpNodes /\ a \in S \union {Nil} /\ p \notin S
  /\ Enclosed(g, S)
  /\ \A n \in S : g.child[n] # Nil =>
       g.left[g.child[n]] = n /\ up[g.child[n]] = n /\ g.child[n] # g.right[n] /\ g.child[n] # a
  /\ \A n \in S : g.right[n] # Nil =>
       g.left[g.right[n]] = n /\ up[g.right[n]] = up[n] /\ g.right[n] # a
  /\ a # Nil => up[a] = p
  /\ \A n \in S : up[n] # p => up[n] \in S /\ q[up[n]] <= q[n]
  /\ \A T \in SUBSET S : a \in T \union {Nil} /\ Enclosed(g, T) => T = S

\* Links, keys and parents that a forest cannot tell apart.
Alike(g, h, q, w, up, over, a, S) ==
  /\ \A n \in S : h.child[n] = g.child[n] /\ h.right[n] = g.right[n] /\ over[n] = up[n] /\ w[n] = q[n]
  /\ \A n \in S : n # a => h.left[n] = g.left[n]

\* What is changed elsewhere leaves a forest as it is.
LEMMA ForestStays ==
  ASSUME NEW g, NEW h, NEW q, NEW w, NEW up, NEW over, NEW p, NEW a, NEW S,
         Forest(g, q, up, p, a, S), Alike(g, h, q, w, up, over, a, S)
  PROVE  Forest(h, w, over, p, a, S)
<1>1. S \subseteq HpNodes /\ a \in S \union {Nil} /\ p \notin S
  BY DEF Forest
<1>2. \A T \in SUBSET S : Enclosed(h, T) <=> Enclosed(g, T)
  BY DEF Alike, Enclosed
<1>3. Enclosed(h, S)
  BY <1>2 DEF Forest
<1>4. \A n \in S : h.child[n] # Nil =>
        h.left[h.child[n]] = n /\ over[h.child[n]] = n /\ h.child[n] # h.right[n] /\ h.child[n] # a
  BY DEF Forest, Alike, Enclosed
<1>5. \A n \in S : h.right[n] # Nil =>
        h.left[h.right[n]] = n /\ over[h.right[n]] = over[n] /\ h.right[n] # a
  BY DEF Forest, Alike, Enclosed
<1>6. a # Nil => over[a] = p
  BY DEF Forest, Alike
<1>7. \A n \in S : over[n] # p => over[n] \in S /\ w[over[n]] <= w[n]
  BY DEF Forest, Alike
<1>8. \A T \in SUBSET S : a \in T \union {Nil} /\ Enclosed(h, T) => T = S
  BY <1>2 DEF Forest
<1> QED BY <1>1, <1>3, <1>4, <1>5, <1>6, <1>7, <1>8 DEF Forest

\* The nodes of S that the links lead to from x.
Under(g, S, x) == {n \in S : \A T \in SUBSET S : x \in T \union {Nil} /\ Enclosed(g, T) => n \in T}

\* They are the least closed set with x; each other than x has one that links to it.
LEMMA UnderIs ==
  ASSUME NEW g, NEW S, Enclosed(g, S), NEW x \in S \union {Nil}
  PROVE  /\ Under(g, S, x) \subseteq S /\ Enclosed(g, Under(g, S, x)) /\ x \in Under(g, S, x) \union {Nil}
         /\ \A T \in SUBSET Under(g, S, x) : x \in T \union {Nil} /\ Enclosed(g, T) => T = Under(g, S, x)
         /\ \A m \in Under(g, S, x) : m # x /\ m # Nil =>
              \E n \in Under(g, S, x) : m = g.child[n] \/ m = g.right[n]
<1> DEFINE U == Under(g, S, x)
<1>1. U \subseteq S /\ x \in U \union {Nil}
  BY DEF Under
<1>2. Enclosed(g, U)
  <2> SUFFICES ASSUME NEW n \in U
               PROVE  g.child[n] \in U \union {Nil} /\ g.right[n] \in U \union {Nil}
    BY DEF Enclosed
  <2>1. n \in S /\ g.child[n] \in S \union {Nil} /\ g.right[n] \in S \union {Nil}
    BY <1>1 DEF Enclosed
  <2>2. ASSUME NEW T \in SUBSET S, x \in T \union {Nil}, Enclosed(g, T)
        PROVE  g.child[n] \in T \union {Nil} /\ g.right[n] \in T \union {Nil}
    <3>1. n \in T
      BY <2>2 DEF Under
    <3> QED BY <2>2, <3>1 DEF Enclosed
  <2> QED BY <2>1, <2>2 DEF Under
<1>3. ASSUME NEW T \in SUBSET U, x \in T \union {Nil}, Enclosed(g, T)
      PROVE  T = U
  <2>1. T \in SUBSET S
    BY <1>1
  <2>2. \A n \in U : n \in T
    BY <1>3, <2>1 DEF Under
  <2> QED BY <2>2
<1> HIDE DEF U
<1>4. ASSUME NEW m \in U, m # x, m # Nil, \A n \in U : m # g.child[n] /\ m # g.right[n]
      PROVE  FALSE
  <2>1. U \ {m} \in SUBSET U /\ x \in (U \ {m}) \union {Nil}
    BY <1>1, <1>4
  <2>2. Enclosed(g, U \ {m})
    BY <1>2, <1>4 DEF Enclosed
  <2>3. U \ {m} = U
    BY <1>3, <2>1, <2>2
  <2> QED BY <2>3
<1> QED BY <1>1, <1>2, <1>3, <1>4 DEF U

\* From nowhere the links lead nowhere.
LEMMA UnderNil ==
  ASSUME NEW g, NEW S
  PROVE  Under(g, S, Nil) = {}
<1>1. Enclosed(g, {})
  BY DEF Enclosed
<1> QED BY <1>1 DEF Under

\* A forest without a first node is empty.
LEMMA ForestOfNil ==
  ASSUME NEW g, NEW q, NEW up, NEW p, NEW S, Forest(g, q, up, p, Nil, S)
  PROVE  S = {}
<1>1. Enclosed(g, {})
  BY DEF Enclosed
<1> QED BY <1>1 DEF Forest

\* The empty forest.
LEMMA EmptyForest ==
  ASSUME NEW g, NEW q, NEW up, NEW p
  PROVE  Forest(g, q, up, p, Nil, {})
BY DEF Forest, Enclosed

\* A node of a forest is Nil's never.
LEMMA ForestNodes ==
  ASSUME NEW g, NEW q, NEW up, NEW p, NEW a, NEW S, Forest(g, q, up, p, a, S)
  PROVE  S \subseteq HpNodes /\ Nil \notin S /\ a \in S \union {Nil} /\ p \notin S
BY HpAssumption DEF Forest

\* What is linked to a node of a part of a forest, other than from that part, is the node
\* the part starts with.
LEMMA OnlyFromInside ==
  ASSUME NEW g, NEW q, NEW up, NEW p, NEW a, NEW S, Forest(g, q, up, p, a, S),
         NEW x \in S \union {Nil}, NEW n \in S, NEW m \in Under(g, S, x), m # x,
         m = g.child[n] \/ m = g.right[n]
  PROVE  n \in Under(g, S, x)
<1>1. m # Nil /\ m \in S
  BY ForestNodes DEF Under
<1>2. Enclosed(g, S)
  BY DEF Forest
<1>3. PICK k \in Under(g, S, x) : m = g.child[k] \/ m = g.right[k]
  BY <1>1, <1>2, UnderIs
<1>4. k \in S
  BY DEF Under
<1>5. g.left[m] = k /\ g.left[m] = n
  BY <1>1, <1>3, <1>4 DEF Forest
<1> QED BY <1>5

\* What is below a node is a forest of its own, without the node and what the whole
\* starts with.
LEMMA BelowIsForest ==
  ASSUME NEW g, NEW q, NEW up, NEW p, NEW a, NEW S, Forest(g, q, up, p, a, S), NEW n \in S
  PROVE  LET C == Under(g, S, g.child[n]) IN
           C \subseteq S /\ n \notin C /\ a \notin C /\ Forest(g, q, up, n, g.child[n], C)
<1> DEFINE c == g.child[n]
           C == Under(g, S, c)
<1>0. Nil \notin S /\ S \subseteq HpNodes /\ a \in S \union {Nil} /\ p \notin S
  BY ForestNodes
<1>1. c \in S \union {Nil} /\ Enclosed(g, S)
  BY DEF Forest, Enclosed
<1>2. CASE c = Nil
  <2>1. C = {}
    BY <1>2, UnderNil
  <2> QED BY <1>0, <1>2, <2>1, EmptyForest
<1>3. CASE c # Nil
  <2>0. c \in S /\ g.left[c] = n /\ up[c] = n /\ c # a
    BY <1>1, <1>3 DEF Forest
  <2>1. C \subseteq S /\ Enclosed(g, C) /\ c \in C
    BY <1>1, <1>3, UnderIs
  <2>2. \A T \in SUBSET C : c \in T /\ Enclosed(g, T) => T = C
    BY <1>1, <1>3, UnderIs
  <2>3. \A k \in S : \A m \in C : m # c /\ (m = g.child[k] \/ m = g.right[k]) => k \in C
    BY <1>1, OnlyFromInside
  <2>4. \A k \in S : c = g.child[k] \/ c = g.right[k] => k = n
    BY <1>3, <2>0 DEF Forest
  <2>5. a \notin C
    <3>1. \A k \in S : a # Nil => a # g.child[k] /\ a # g.right[k]
      BY DEF Forest
    <3>2. \A m \in C : m # c /\ m # Nil => \E k \in C : m = g.child[k] \/ m = g.right[k]
      BY <1>1, UnderIs
    <3> HIDE DEF C
    <3> QED BY <1>0, <2>0, <2>1, <3>1, <3>2
  <2> HIDE DEF C, c
  <2>6. n \notin C
    <3> SUFFICES ASSUME n \in C PROVE FALSE
      OBVIOUS
    <3>1. Enclosed(g, S \ C)
      BY <1>1, <2>3, <2>4 DEF Enclosed
    <3>2. S \ C \in SUBSET S /\ a \in (S \ C) \union {Nil}
      BY <1>0, <2>5
    <3>3. S \ C = S
      BY <3>1, <3>2 DEF Forest
    <3> QED BY <2>1, <3>3
  <2>7. \A k \in C : up[k] # n => up[k] \in C /\ q[up[k]] <= q[k]
    <3> DEFINE T == {k \in C : up[k] = n \/ up[k] \in C}
    <3>1. c \in T
      BY <2>0, <2>1
    <3>2. Enclosed(g, T)
      <4> SUFFICES ASSUME NEW k \in T
                   PROVE  g.child[k] \in T \union {Nil} /\ g.right[k] \in T \union {Nil}
        BY DEF Enclosed
      <4>1. g.child[k] \in C \union {Nil} /\ g.right[k] \in C \union {Nil}
        BY <2>1 DEF Enclosed
      <4>2. g.child[k] # Nil => up[g.child[k]] = k
        BY <2>1 DEF Forest
      <4>3. g.right[k] # Nil => up[g.right[k]] = up[k]
        BY <2>1 DEF Forest
      <4> QED BY <4>1, <4>2, <4>3
    <3>3. T = C
      <4>1. T \in SUBSET C
        OBVIOUS
      <4> HIDE DEF T
      <4> QED BY <2>2, <3>1, <3>2, <4>1
    <3>4. \A k \in C : up[k] # n => up[k] \in C
      BY <3>3
    <3>5. \A k \in C : up[k] \in C => q[up[k]] <= q[k]
      BY <1>0, <2>1 DEF Forest
    <3> QED BY <3>4, <3>5
  <2>8. \A k \in C : g.child[k] # Nil =>
          g.left[g.child[k]] = k /\ up[g.child[k]] = k /\ g.child[k] # g.right[k] /\ g.child[k] # c
    BY <2>1, <2>4, <2>6 DEF Forest
  <2>9. \A k \in C : g.right[k] # Nil =>
          g.left[g.right[k]] = k /\ up[g.right[k]] = up[k] /\ g.right[k] # c
    BY <2>1, <2>4, <2>6 DEF Forest
  <2>10. Forest(g, q, up, n, c, C)
    BY <1>0, <2>0, <2>1, <2>2, <2>6, <2>7, <2>8, <2>9 DEF Forest
  <2> QED BY <2>1, <2>5, <2>6, <2>10 DEF c, C
<1> QED BY <1>2, <1>3

\* A forest is its first node, what is below it, and what is to its right.
LEMMA ForestParts ==
  ASSUME NEW g, NEW q, NEW up, NEW p, NEW a, NEW S, Forest(g, q, up, p, a, S), a # Nil
  PROVE  \E C, R : /\ S = {a} \union C \union R /\ C \intersect R = {} /\ a \notin C /\ a \notin R
                   /\ Forest(g, q, up, a, g.child[a], C) /\ Forest(g, q, up, p, g.right[a], R)
<1> DEFINE c == g.child[a]
           r == g.right[a]
           C == Under(g, S, c)
           R == Under(g, S, r)
<1>0. Nil \notin S /\ S \subseteq HpNodes /\ a \in S /\ p \notin S /\ up[a] = p
  BY ForestNodes DEF Forest
<1>1. c \in S \union {Nil} /\ r \in S \union {Nil} /\ Enclosed(g, S)
  BY <1>0 DEF Forest, Enclosed
<1>2. C \subseteq S /\ a \notin C /\ Forest(g, q, up, a, c, C)
  BY <1>0, BelowIsForest
<1>3. R \subseteq S /\ Enclosed(g, R) /\ r \in R \union {Nil}
  BY <1>1, UnderIs
<1>4. /\ \A T \in SUBSET R : r \in T \union {Nil} /\ Enclosed(g, T) => T = R
      /\ \A m \in R : m # r => \E k \in R : m = g.child[k] \/ m = g.right[k]
  <2>1. \A T \in SUBSET R : r \in T \union {Nil} /\ Enclosed(g, T) => T = R
    BY <1>1, UnderIs
  <2>2. \A m \in R : m # r /\ m # Nil => \E k \in R : m = g.child[k] \/ m = g.right[k]
    BY <1>1, UnderIs
  <2>3. Nil \notin R
    BY <1>0, <1>3
  <2> HIDE DEF R, r
  <2> QED BY <2>1, <2>2, <2>3
<1>5. \A k \in S : \A m \in R : m # r /\ (m = g.child[k] \/ m = g.right[k]) => k \in R
  BY <1>1, OnlyFromInside
<1>6. \A k \in S : a # g.child[k] /\ a # g.right[k]
  BY <1>0 DEF Forest
<1>7. /\ \A k \in S : c # Nil /\ (c = g.child[k] \/ c = g.right[k]) => k = a
      /\ \A k \in S : r # Nil /\ (r = g.child[k] \/ r = g.right[k]) => k = a
      /\ c # Nil => c # r
  BY <1>0 DEF Forest
<1>8. Enclosed(g, C) /\ \A T \in SUBSET C : c \in T \union {Nil} /\ Enclosed(g, T) => T = C
  BY <1>2 DEF Forest
<1>9. c \in C \union {Nil}
  BY <1>2 DEF Forest
<1> HIDE DEF C, R
<1>10. a \notin R
  BY <1>0, <1>3, <1>4, <1>6
<1>11. S = {a} \union C \union R
  <2> DEFINE T == {a} \union C \union R
  <2>1. Enclosed(g, T)
    BY <1>3, <1>8, <1>9 DEF Enclosed
  <2>2. T \in SUBSET S /\ a \in T \union {Nil}
    BY <1>0, <1>2, <1>3
  <2> HIDE DEF T
  <2>3. T = S
    BY <2>1, <2>2 DEF Forest
  <2> QED BY <2>3 DEF T
<1>12. C \intersect R = {}
  <2>1. c # Nil => c \notin R
    BY <1>0, <1>5, <1>7, <1>10
  <2>2. Enclosed(g, C \ R)
    <3> SUFFICES ASSUME NEW k \in C \ R
                 PROVE  g.child[k] \in (C \ R) \union {Nil} /\ g.right[k] \in (C \ R) \union {Nil}
      BY DEF Enclosed
    <3>1. g.child[k] \in C \union {Nil} /\ g.right[k] \in C \union {Nil} /\ k \in S /\ k # a
      BY <1>2, <1>8 DEF Enclosed
    <3>2. g.child[k] \in R => FALSE
      BY <1>0, <1>3, <1>5, <1>7, <3>1
    <3>3. g.right[k] \in R => FALSE
      BY <1>0, <1>3, <1>5, <1>7, <3>1
    <3> QED BY <3>1, <3>2, <3>3
  <2>3. C \ R = C
    BY <1>8, <1>9, <2>1, <2>2
  <2> QED BY <2>3
<1>13. \A k \in R : up[k] # p => up[k] \in R /\ q[up[k]] <= q[k]
  <2> DEFINE T == {k \in R : up[k] = p \/ up[k] \in R}
  <2>1. r \in T \union {Nil}
    BY <1>0, <1>3 DEF Forest
  <2>2. Enclosed(g, T)
    <3> SUFFICES ASSUME NEW k \in T
                 PROVE  g.child[k] \in T \union {Nil} /\ g.right[k] \in T \union {Nil}
      BY DEF Enclosed
    <3>1. g.child[k] \in R \union {Nil} /\ g.right[k] \in R \union {Nil}
      BY <1>3 DEF Enclosed
    <3>2. g.child[k] # Nil => up[g.child[k]] = k
      BY <1>3 DEF Forest
    <3>3. g.right[k] # Nil => up[g.right[k]] = up[k]
      BY <1>3 DEF Forest
    <3> QED BY <3>1, <3>2, <3>3
  <2>3. T = R
    <3>1. T \in SUBSET R
      OBVIOUS
    <3> HIDE DEF T
    <3> QED BY <1>4, <2>1, <2>2, <3>1
  <2>4. \A k \in R : up[k] # p => up[k] \in R
    BY <2>3
  <2>5. \A k \in R : up[k] # p => q[up[k]] <= q[k]
    BY <1>3 DEF Forest
  <2> QED BY <2>4, <2>5
<1>14. \A k \in R : g.child[k] # Nil =>
         g.left[g.child[k]] = k /\ up[g.child[k]] = k /\ g.child[k] # g.right[k] /\ g.child[k] # r
  BY <1>3, <1>7, <1>10 DEF Forest
<1>15. \A k \in R : g.right[k] # Nil =>
         g.left[g.right[k]] = k /\ up[g.right[k]] = up[k] /\ g.right[k] # r
  BY <1>3, <1>7, <1>10 DEF Forest
<1>16. r # Nil => up[r] = p
  BY <1>0 DEF Forest
<1>17. R \subseteq HpNodes /\ p \notin R
  BY <1>0, <1>3
<1> HIDE DEF r
<1>18. Forest(g, q, up, p, r, R)
  BY <1>3, <1>4, <1>13, <1>14, <1>15, <1>16, <1>17 DEF Forest
<1> QED BY <1>2, <1>10, <1>11, <1>12, <1>18 DEF r

\* A node over a forest of children and beside a forest of siblings makes a forest.
LEMMA ForestMade ==
  ASSUME NEW g, NEW q, NEW up, NEW p, NEW n \in HpNodes, NEW C, NEW R,
         C \intersect R = {}, n \notin C, n \notin R, p # n, p \notin C,
         Forest(g, q, up, n, g.child[n], C), Forest(g, q, up, p, g.right[n], R),
         g.child[n] # Nil => g.left[g.child[n]] = n,
         g.right[n] # Nil => g.left[g.right[n]] = n,
         up[n] = p, \A k \in C : up[k] = n => q[n] <= q[k]
  PROVE  Forest(g, q, up, p, n, {n} \union C \union R)
<1> DEFINE S == {n} \union C \union R
           c == g.child[n]
           r == g.right[n]
<1>1. /\ C \subseteq HpNodes /\ c \in C \union {Nil} /\ Nil \notin C /\ Enclosed(g, C)
      /\ R \subseteq HpNodes /\ r \in R \union {Nil} /\ Nil \notin R /\ Enclosed(g, R) /\ p \notin R
      /\ c # Nil => up[c] = n
      /\ r # Nil => up[r] = p
      /\ \A T \in SUBSET C : c \in T \union {Nil} /\ Enclosed(g, T) => T = C
      /\ \A T \in SUBSET R : r \in T \union {Nil} /\ Enclosed(g, T) => T = R
      /\ n # Nil
  BY HpAssumption DEF Forest
<1>2. S \subseteq HpNodes /\ n \in S /\ p \notin S /\ Enclosed(g, S)
  BY <1>1 DEF Enclosed
<1>3. \A k \in S : g.child[k] # Nil =>
        g.left[g.child[k]] = k /\ up[g.child[k]] = k /\ g.child[k] # g.right[k] /\ g.child[k] # n
  <2>1. ASSUME NEW k \in C, g.child[k] # Nil
        PROVE  g.left[g.child[k]] = k /\ up[g.child[k]] = k /\ g.child[k] # g.right[k] /\ g.child[k] # n
    BY <1>1, <2>1 DEF Forest, Enclosed
  <2>2. ASSUME NEW k \in R, g.child[k] # Nil
        PROVE  g.left[g.child[k]] = k /\ up[g.child[k]] = k /\ g.child[k] # g.right[k] /\ g.child[k] # n
    BY <1>1, <2>2 DEF Forest, Enclosed
  <2>3. c # Nil => g.left[c] = n /\ up[c] = n /\ c # r /\ c # n
    BY <1>1
  <2> QED BY <2>1, <2>2, <2>3
<1>4. \A k \in S : g.right[k] # Nil =>
        g.left[g.right[k]] = k /\ up[g.right[k]] = up[k] /\ g.right[k] # n
  <2>1. ASSUME NEW k \in C, g.right[k] # Nil
        PROVE  g.left[g.right[k]] = k /\ up[g.right[k]] = up[k] /\ g.right[k] # n
    BY <1>1, <2>1 DEF Forest, Enclosed
  <2>2. ASSUME NEW k \in R, g.right[k] # Nil
        PROVE  g.left[g.right[k]] = k /\ up[g.right[k]] = up[k] /\ g.right[k] # n
    BY <1>1, <2>2 DEF Forest, Enclosed
  <2>3. r # Nil => g.left[r] = n /\ up[r] = up[n] /\ r # n
    BY <1>1
  <2> QED BY <2>1, <2>2, <2>3
<1>5. \A k \in S : up[k] # p => up[k] \in S /\ q[up[k]] <= q[k]
  <2>1. \A k \in C : up[k] # n => up[k] \in C /\ q[up[k]] <= q[k]
    BY DEF Forest
  <2>2. \A k \in R : up[k] # p => up[k] \in R /\ q[up[k]] <= q[k]
    BY DEF Forest
  <2> QED BY <2>1, <2>2
<1>6. ASSUME NEW T \in SUBSET S, n \in T, Enclosed(g, T)
      PROVE  T = S
  <2>1. Enclosed(g, T \intersect C) /\ Enclosed(g, T \intersect R)
    BY <1>1, <1>6 DEF Enclosed
  <2>2. c \in (T \intersect C) \union {Nil} /\ r \in (T \intersect R) \union {Nil}
    BY <1>1, <1>6 DEF Enclosed
  <2>3. T \intersect C = C /\ T \intersect R = R
    BY <1>1, <2>1, <2>2
  <2> QED BY <1>6, <2>3
<1> HIDE DEF S
<1>7. Forest(g, q, up, p, n, S)
  BY <1>1, <1>2, <1>3, <1>4, <1>5, <1>6 DEF Forest
<1> QED BY <1>7 DEF S

\* What is around a node other than the first: the node to the left links to it, and
\* neither neighbour is below it.
LEMMA NodeInside ==
  ASSUME NEW g, NEW q, NEW up, NEW p, NEW a, NEW S, Forest(g, q, up, p, a, S), NEW n \in S, n # a
  PROVE  LET C == Under(g, S, g.child[n]) IN
           /\ g.left[n] \in S /\ g.left[n] \notin C /\ g.left[n] # n
           /\ g.child[g.left[n]] = n \/ g.right[g.left[n]] = n
           /\ g.right[n] \in S \union {Nil} /\ g.right[n] \notin C /\ g.right[n] # n
<1> DEFINE c == g.child[n]
           r == g.right[n]
           m == g.left[n]
           C == Under(g, S, c)
<1>0. Nil \notin S /\ S \subseteq HpNodes /\ a \in S /\ p \notin S /\ up[a] = p /\ Enclosed(g, S)
  <2>1. a # Nil
    BY ForestOfNil
  <2>2. Nil \notin S /\ S \subseteq HpNodes /\ a \in S /\ p \notin S
    BY <2>1, ForestNodes
  <2>3. up[a] = p /\ Enclosed(g, S)
    BY <2>1 DEF Forest
  <2> QED BY <2>2, <2>3
<1>1. C \subseteq S /\ n \notin C /\ a \notin C /\ Forest(g, q, up, n, c, C)
  BY BelowIsForest
<1>2. c \in S \union {Nil} /\ r \in S \union {Nil} /\ c \in C \union {Nil} /\ Enclosed(g, C)
  BY <1>0, <1>1 DEF Forest, Enclosed
<1>3. \A k \in S : \A x \in C : x # c /\ (x = g.child[k] \/ x = g.right[k]) => k \in C
  BY <1>2, OnlyFromInside
<1>4. \A k \in S : /\ g.child[k] # Nil => g.left[g.child[k]] = k /\ up[g.child[k]] = k
                   /\ g.child[k] # Nil => g.child[k] # g.right[k] /\ g.child[k] # a
                   /\ g.right[k] # Nil => g.left[g.right[k]] = k /\ up[g.right[k]] = up[k] /\ g.right[k] # a
  BY DEF Forest
<1>5. m \in S /\ m # n /\ (g.child[m] = n \/ g.right[m] = n)
  <2>1. S \ {n} \in SUBSET S /\ a \in (S \ {n}) \union {Nil} /\ S \ {n} # S
    BY <1>0
  <2>2. ~Enclosed(g, S \ {n})
    BY <2>1 DEF Forest
  <2>3. PICK k \in S \ {n} : g.child[k] = n \/ g.right[k] = n
    BY <1>0, <2>2 DEF Enclosed
  <2>4. m = k
    BY <1>0, <1>4, <2>3
  <2> QED BY <2>3, <2>4
<1>6. \A k \in S : g.child[k] = n \/ g.right[k] = n => k = m
  BY <1>0, <1>4
<1> HIDE DEF C
<1>7. m \notin C
  BY <1>0, <1>1, <1>2, <1>5 DEF Enclosed
<1>8. r \notin C /\ r # n
  <2>1. r = n => n = m
    BY <1>6
  <2>2. r \in C => FALSE
    BY <1>0, <1>1, <1>2, <1>3, <1>4
  <2> QED BY <1>5, <2>1, <2>2
<1> QED BY <1>2, <1>5, <1>7, <1>8 DEF C

\* The links h pass by the node n, which g has in S, and forget what is below it.
PassesBy(g, h, n, S) ==
  LET m == g.left[n]   r == g.right[n] IN
    /\ \A k \in S \ {n} : h.child[k] = IF k = m /\ g.child[m] = n THEN r ELSE g.child[k]
    /\ \A k \in S \ {n} : h.right[k] = IF k = m /\ g.child[m] # n THEN r ELSE g.right[k]
    /\ \A k \in S \ {n} : k # g.child[n] => h.left[k] = IF k = r THEN m ELSE g.left[k]

\* A node is taken out of the middle of a forest with what is below it.
LEMMA NodeTakenOut ==
  ASSUME NEW g, NEW h, NEW q, NEW up, NEW p, NEW a, NEW S, Forest(g, q, up, p, a, S), NEW n \in S, n # a,
         PassesBy(g, h, n, S)
  PROVE  LET C == Under(g, S, g.child[n]) IN
           Forest(h, q, up, p, a, S \ ({n} \union C))
<1> DEFINE c == g.child[n]
           r == g.right[n]
           m == g.left[n]
           C == Under(g, S, c)
           D == S \ ({n} \union C)
<1>0. Nil \notin S /\ S \subseteq HpNodes /\ a \in S /\ p \notin S /\ up[a] = p /\ Enclosed(g, S)
  <2>1. a # Nil
    BY ForestOfNil
  <2>2. Nil \notin S /\ S \subseteq HpNodes /\ a \in S /\ p \notin S
    BY <2>1, ForestNodes
  <2>3. up[a] = p /\ Enclosed(g, S)
    BY <2>1 DEF Forest
  <2> QED BY <2>2, <2>3
<1>1. C \subseteq S /\ n \notin C /\ a \notin C /\ Forest(g, q, up, n, c, C)
  BY BelowIsForest
<1>2. c \in S \union {Nil} /\ r \in S \union {Nil} /\ c \in C \union {Nil} /\ Enclosed(g, C)
  BY <1>0, <1>1 DEF Forest, Enclosed
<1>3. \A k \in S : \A x \in C : x # c /\ (x = g.child[k] \/ x = g.right[k]) => k \in C
  BY <1>2, OnlyFromInside
<1>4. \A k \in S : /\ g.child[k] # Nil => g.left[g.child[k]] = k /\ up[g.child[k]] = k
                   /\ g.child[k] # Nil => g.child[k] # g.right[k] /\ g.child[k] # a
                   /\ g.right[k] # Nil => g.left[g.right[k]] = k /\ up[g.right[k]] = up[k] /\ g.right[k] # a
  BY DEF Forest
<1>5. m \in S /\ m # n /\ (g.child[m] = n \/ g.right[m] = n) /\ m \notin C
  BY NodeInside
<1>6. \A k \in S : g.child[k] = n \/ g.right[k] = n => k = m
  BY <1>0, <1>4
<1>7. m \notin C
  BY <1>5
<1>8. r \notin C /\ r # n
  BY NodeInside
<1> HIDE DEF C
<1>9. \A k \in D : /\ g.child[k] \in (D \union {n}) \union {Nil} /\ g.right[k] \in (D \union {n}) \union {Nil}
                   /\ k # n
  <2> SUFFICES ASSUME NEW k \in D
               PROVE  /\ g.child[k] \in (D \union {n}) \union {Nil} /\ g.right[k] \in (D \union {n}) \union {Nil}
    OBVIOUS
  <2>1. k \in S /\ k \notin C /\ k # n /\ g.child[k] \in S \union {Nil} /\ g.right[k] \in S \union {Nil}
    BY <1>0 DEF Enclosed
  <2>2. \A x \in C : x # g.child[k] /\ x # g.right[k]
    BY <1>0, <1>1, <1>3, <1>4, <2>1
  <2> QED BY <2>1, <2>2
<1>10. \A k \in D : /\ h.child[k] = IF g.child[k] = n THEN r ELSE g.child[k]
                    /\ h.right[k] = IF g.right[k] = n THEN r ELSE g.right[k]
  <2> SUFFICES ASSUME NEW k \in D
               PROVE  /\ h.child[k] = IF g.child[k] = n THEN r ELSE g.child[k]
                      /\ h.right[k] = IF g.right[k] = n THEN r ELSE g.right[k]
    OBVIOUS
  <2>1. /\ h.child[k] = IF k = m /\ g.child[m] = n THEN r ELSE g.child[k]
        /\ h.right[k] = IF k = m /\ g.child[m] # n THEN r ELSE g.right[k]
    BY DEF PassesBy
  <2>2. g.child[k] = n => k = m /\ g.right[k] # n
    BY <1>0, <1>4, <1>6
  <2>3. g.right[k] = n => k = m /\ g.child[k] # n
    BY <1>0, <1>4, <1>6
  <2> QED BY <1>5, <2>1, <2>2, <2>3
<1>11. \A x \in D : h.left[x] = IF x = r THEN m ELSE g.left[x]
  BY <1>0, <1>2 DEF PassesBy
<1>12. r \in D \union {Nil}
  BY <1>2, <1>8
<1>13. \A k \in D : k \in S /\ k # n /\ k \notin C
  OBVIOUS
<1>14. a \in D /\ m \in D /\ D \subseteq HpNodes /\ p \notin D
  BY <1>0, <1>1, <1>5, <1>7
<1>15. S = D \union {n} \union C
  BY <1>1
<1> HIDE DEF D, m, r, c
<1>16. Enclosed(h, D)
  BY <1>9, <1>10, <1>12 DEF Enclosed
<1>17. ASSUME NEW T \in SUBSET D, a \in T \union {Nil}, Enclosed(h, T)
       PROVE  T = D
  <2>1. CASE m \in T
    <3> DEFINE W == T \union {n} \union C
    <3>1. r \in T \union {Nil}
      BY <1>5, <1>10, <1>17, <2>1 DEF Enclosed
    <3>2. Enclosed(g, W)
      <4>1. ASSUME NEW k \in T
            PROVE  g.child[k] \in W \union {Nil} /\ g.right[k] \in W \union {Nil}
        <5>1. /\ h.child[k] \in T \union {Nil} /\ h.right[k] \in T \union {Nil}
              /\ h.child[k] = IF g.child[k] = n THEN r ELSE g.child[k]
              /\ h.right[k] = IF g.right[k] = n THEN r ELSE g.right[k]
          BY <1>10, <1>17, <4>1 DEF Enclosed
        <5> QED BY <5>1
      <4>2. g.child[n] \in W \union {Nil} /\ g.right[n] \in W \union {Nil}
        BY <1>2, <3>1 DEF c, r
      <4>3. ASSUME NEW k \in C
            PROVE  g.child[k] \in W \union {Nil} /\ g.right[k] \in W \union {Nil}
        BY <1>2, <4>3 DEF Enclosed
      <4> QED BY <4>1, <4>2, <4>3 DEF Enclosed
    <3>3. W \in SUBSET S /\ a \in W \union {Nil}
      BY <1>15, <1>17
    <3> HIDE DEF W
    <3>4. W = S
      BY <3>2, <3>3 DEF Forest
    <3>5. \A k \in D : k \in W /\ k # n /\ k \notin C
      BY <1>13, <3>4
    <3> QED BY <3>5 DEF W
  <2>2. CASE m \notin T
    <3>1. \A k \in T : g.child[k] # n /\ g.right[k] # n
      BY <1>6, <1>13, <2>2
    <3>2. Enclosed(g, T)
      BY <1>10, <1>17, <3>1 DEF Enclosed
    <3>3. T \in SUBSET S
      BY <1>13
    <3>4. T = S
      BY <1>17, <3>2, <3>3 DEF Forest
    <3> QED BY <1>13, <3>4
  <2> QED BY <2>1, <2>2
<1>18. \A k \in D : h.child[k] # Nil =>
         h.left[h.child[k]] = k /\ up[h.child[k]] = k /\ h.child[k] # h.right[k] /\ h.child[k] # a
  <2> SUFFICES ASSUME NEW k \in D, h.child[k] # Nil
               PROVE  h.left[h.child[k]] = k /\ up[h.child[k]] = k /\ h.child[k] # h.right[k] /\ h.child[k] # a
    OBVIOUS
  <2>1. h.child[k] \in D
    BY <1>16 DEF Enclosed
  <2>2. k \in S /\ k # n
    BY <1>13
  <2>3. CASE g.child[k] = n
    <3>1. h.child[k] = r /\ k = m /\ g.right[k] # n /\ h.right[k] = g.right[k]
      BY <1>0, <1>4, <1>6, <1>10, <2>2, <2>3
    <3>2. up[r] = up[n] /\ up[n] = k /\ r # a /\ g.left[r] = n
      BY <1>0, <1>4, <2>2, <2>3, <3>1 DEF r
    <3>3. g.right[k] # r
      BY <1>4, <2>2, <3>1, <3>2
    <3> QED BY <1>11, <2>1, <3>1, <3>2, <3>3
  <2>4. CASE g.child[k] # n
    <3>1. h.child[k] = g.child[k]
      BY <1>10, <2>4
    <3>2. g.left[g.child[k]] = k /\ up[g.child[k]] = k /\ g.child[k] # g.right[k] /\ g.child[k] # a
      BY <1>4, <2>2, <3>1
    <3>3. g.child[k] # r
      BY <1>4, <2>2, <3>1, <3>2 DEF r
    <3> QED BY <1>10, <1>11, <2>1, <3>1, <3>2, <3>3
  <2> QED BY <2>3, <2>4
<1>19. \A k \in D : h.right[k] # Nil =>
         h.left[h.right[k]] = k /\ up[h.right[k]] = up[k] /\ h.right[k] # a
  <2> SUFFICES ASSUME NEW k \in D, h.right[k] # Nil
               PROVE  h.left[h.right[k]] = k /\ up[h.right[k]] = up[k] /\ h.right[k] # a
    OBVIOUS
  <2>1. h.right[k] \in D
    BY <1>16 DEF Enclosed
  <2>2. k \in S /\ k # n
    BY <1>13
  <2>3. CASE g.right[k] = n
    <3>1. h.right[k] = r /\ k = m
      BY <1>6, <1>10, <2>2, <2>3
    <3>2. up[r] = up[n] /\ up[n] = up[k] /\ r # a
      BY <1>0, <1>4, <2>2, <2>3, <3>1 DEF r
    <3> QED BY <1>11, <2>1, <3>1, <3>2
  <2>4. CASE g.right[k] # n
    <3>1. h.right[k] = g.right[k]
      BY <1>10, <2>4
    <3>2. g.left[g.right[k]] = k /\ up[g.right[k]] = up[k] /\ g.right[k] # a
      BY <1>4, <2>2, <3>1
    <3>3. g.right[k] # r
      BY <1>4, <2>2, <3>1, <3>2 DEF r
    <3> QED BY <1>11, <2>1, <3>1, <3>2, <3>3
  <2> QED BY <2>3, <2>4
<1>20. \A k \in D : up[k] # p => up[k] \in D /\ q[up[k]] <= q[k]
  <2> DEFINE T == {k \in D : up[k] = p \/ up[k] \in D}
  <2>1. a \in T \union {Nil}
    BY <1>0, <1>14
  <2>2. Enclosed(h, T)
    <3> SUFFICES ASSUME NEW k \in T
                 PROVE  h.child[k] \in T \union {Nil} /\ h.right[k] \in T \union {Nil}
      BY DEF Enclosed
    <3>1. h.child[k] \in D \union {Nil} /\ h.right[k] \in D \union {Nil}
      BY <1>16 DEF Enclosed
    <3> QED BY <1>18, <1>19, <3>1
  <2>3. T = D
    <3>1. T \in SUBSET D
      OBVIOUS
    <3> HIDE DEF T
    <3> QED BY <1>17, <2>1, <2>2, <3>1
  <2>4. \A k \in D : up[k] # p => up[k] \in D
    BY <2>3
  <2>5. \A k \in D : up[k] # p => q[up[k]] <= q[k]
    BY <1>13 DEF Forest
  <2> QED BY <2>4, <2>5
<1>21. Forest(h, q, up, p, a, D)
  BY <1>0, <1>14, <1>16, <1>17, <1>18, <1>19, <1>20 DEF Forest
<1> QED BY <1>5, <1>7, <1>8, <1>21 DEF C, D, c, m, r

\* A tree is a forest of one, which nothing links to.
Tree(g, q, up, a, S) ==
  Forest(g, q, up, Nil, a, S) /\ (a # Nil => g.left[a] = Nil /\ g.right[a] = Nil)

\* Nothing is changed outside S.
Outside(g, h, up, over, S) ==
  \A k \in HpNodes \ S :
    h.child[k] = g.child[k] /\ h.left[k] = g.left[k] /\ h.right[k] = g.right[k] /\ over[k] = up[k]

\* What is changed elsewhere leaves a tree as it is.
LEMMA TreeStays ==
  ASSUME NEW g, NEW h, NEW q, NEW up, NEW over, NEW a, NEW S, NEW T, S \intersect T = {},
         Tree(g, q, up, a, S), Outside(g, h, up, over, T)
  PROVE  Tree(h, q, over, a, S)
<1>1. Forest(g, q, up, Nil, a, S) /\ S \subseteq HpNodes /\ a \in S \union {Nil}
  BY DEF Tree, Forest
<1>2. Alike(g, h, q, q, up, over, a, S)
  BY <1>1 DEF Outside, Alike
<1>3. Forest(h, q, over, Nil, a, S)
  BY <1>1, <1>2, ForestStays
<1> QED BY <1>1, <1>3 DEF Tree, Outside

\* The nodes of a tree are its root and those below it.
LEMMA TreeParts ==
  ASSUME NEW g, NEW q, NEW up, NEW a, NEW S, Tree(g, q, up, a, S), a # Nil
  PROVE  \E C : /\ S = {a} \union C /\ a \notin C /\ a \in HpNodes /\ C \subseteq HpNodes
                /\ Forest(g, q, up, a, g.child[a], C)
                /\ \A k \in C : up[k] = a => q[a] <= q[k]
<1>1. Forest(g, q, up, Nil, a, S) /\ g.right[a] = Nil
  BY DEF Tree
<1>2. PICK C, R : /\ S = {a} \union C \union R /\ C \intersect R = {} /\ a \notin C /\ a \notin R
                  /\ Forest(g, q, up, a, g.child[a], C) /\ Forest(g, q, up, Nil, g.right[a], R)
  BY <1>1, ForestParts
<1>3. R = {}
  BY <1>1, <1>2, ForestOfNil
<1>4. S \subseteq HpNodes /\ \A k \in S : up[k] # Nil => q[up[k]] <= q[k]
  BY <1>1 DEF Forest
<1>5. S = {a} \union C
  BY <1>2, <1>3
<1>6. a \in HpNodes /\ C \subseteq HpNodes
  BY <1>4, <1>5
<1>7. \A k \in C : up[k] = a => q[a] <= q[k]
  BY <1>4, <1>5
<1> QED BY <1>2, <1>5, <1>6, <1>7

\* What setting a link does.
LEMMA LinkSet ==
  ASSUME NEW g \in Links, NEW f \in {"child", "left", "right"}, NEW n \in HpNodes \union {Nil},
         NEW m \in HpNodes \union {Nil}
  PROVE  LET h == SetLink(g, f, n, m) IN
           /\ h \in Links
           /\ \A k \in HpNodes : /\ h.child[k] = IF f = "child" /\ k = n THEN m ELSE g.child[k]
                                 /\ h.left[k] = IF f = "left" /\ k = n THEN m ELSE g.left[k]
                                 /\ h.right[k] = IF f = "right" /\ k = n THEN m ELSE g.right[k]
<1>1. CASE n = Nil
  <2>1. SetLink(g, f, n, m) = g
    BY <1>1 DEF SetLink
  <2> QED BY <1>1, <2>1, HpAssumption
<1>2. CASE n # Nil
  <2>1. SetLink(g, f, n, m) = [g EXCEPT ![f] = [g[f] EXCEPT ![n] = m]] /\ n \in HpNodes
    BY <1>2 DEF SetLink
  <2> DEFINE r == [g[f] EXCEPT ![n] = m]
             h == [g EXCEPT ![f] = r]
  <2>2. g[f] \in [HpNodes -> HpNodes \union {Nil}] /\ DOMAIN g = {"child", "left", "right"}
    BY DEF Links
  <2>3. r \in [HpNodes -> HpNodes \union {Nil}] /\ \A k \in HpNodes : r[k] = IF k = n THEN m ELSE g[f][k]
    BY <2>1, <2>2
  <2> HIDE DEF r
  <2>4. h \in Links /\ \A e \in {"child", "left", "right"} : h[e] = IF e = f THEN r ELSE g[e]
    BY <2>2, <2>3 DEF Links
  <2> HIDE DEF h
  <2>5. /\ h.child = IF f = "child" THEN r ELSE g.child
        /\ h.left = IF f = "left" THEN r ELSE g.left
        /\ h.right = IF f = "right" THEN r ELSE g.right
    BY <2>4
  <2>6. \A k \in HpNodes : /\ h.child[k] = IF f = "child" /\ k = n THEN m ELSE g.child[k]
                           /\ h.left[k] = IF f = "left" /\ k = n THEN m ELSE g.left[k]
                           /\ h.right[k] = IF f = "right" /\ k = n THEN m ELSE g.right[k]
    BY <2>3, <2>5
  <2>7. SetLink(g, f, n, m) = h
    BY <2>1 DEF h, r
  <2> QED BY <2>4, <2>6, <2>7
<1> QED BY <1>1, <1>2

\* A link of n is set to m, the others stay; the two sibling links of n are cut.
ChildAt(g, h, n, m) ==
  \A k \in HpNodes : /\ h.child[k] = IF k = n THEN m ELSE g.child[k]
                     /\ h.left[k] = g.left[k]
                     /\ h.right[k] = g.right[k]
LeftAt(g, h, n, m) ==
  \A k \in HpNodes : /\ h.left[k] = IF k = n THEN m ELSE g.left[k]
                     /\ h.child[k] = g.child[k]
                     /\ h.right[k] = g.right[k]
RightAt(g, h, n, m) ==
  \A k \in HpNodes : /\ h.right[k] = IF k = n THEN m ELSE g.right[k]
                     /\ h.child[k] = g.child[k]
                     /\ h.left[k] = g.left[k]
CutAt(g, h, n) ==
  \A k \in HpNodes : /\ h.child[k] = g.child[k]
                     /\ h.left[k] = IF k = n THEN Nil ELSE g.left[k]
                     /\ h.right[k] = IF k = n THEN Nil ELSE g.right[k]

\* The same of each link.
LEMMA ChildSet ==
  ASSUME NEW g \in Links, NEW n \in HpNodes \union {Nil}, NEW m \in HpNodes \union {Nil}
  PROVE  SetLink(g, "child", n, m) \in Links /\ ChildAt(g, SetLink(g, "child", n, m), n, m)
BY LinkSet DEF ChildAt

\* Setting the left link of a node.
LEMMA LeftSet ==
  ASSUME NEW g \in Links, NEW n \in HpNodes \union {Nil}, NEW m \in HpNodes \union {Nil}
  PROVE  SetLink(g, "left", n, m) \in Links /\ LeftAt(g, SetLink(g, "left", n, m), n, m)
BY LinkSet DEF LeftAt

\* Setting the right link of a node.
LEMMA RightSet ==
  ASSUME NEW g \in Links, NEW n \in HpNodes \union {Nil}, NEW m \in HpNodes \union {Nil}
  PROVE  SetLink(g, "right", n, m) \in Links /\ RightAt(g, SetLink(g, "right", n, m), n, m)
BY LinkSet DEF RightAt

\* A link leads to a node or nowhere.
LEMMA LinkTypes ==
  ASSUME NEW g \in Links, NEW k \in HpNodes
  PROVE  /\ g.child[k] \in HpNodes \union {Nil}
         /\ g.left[k] \in HpNodes \union {Nil}
         /\ g.right[k] \in HpNodes \union {Nil}
BY DEF Links

\* The root d is linked below u, as its first child.
BelowAt(g, h, u, d) ==
  \A k \in HpNodes : /\ h.child[k] = IF k = u THEN d ELSE g.child[k]
                     /\ h.right[k] = IF k = d THEN g.child[u] ELSE g.right[k]
                     /\ h.left[k] = IF k = d THEN u ELSE IF k = g.child[u] THEN d ELSE g.left[k]

\* A root linked below another makes one tree of the two.
LEMMA RootLinkedBelow ==
  ASSUME NEW g \in Links, NEW h, NEW q, NEW up, NEW u \in HpNodes, NEW d \in HpNodes, NEW U, NEW D,
         Tree(g, q, up, u, U), Tree(g, q, up, d, D), U \intersect D = {}, q[u] <= q[d],
         up \in [HpNodes -> HpNodes \union {Nil}],
         BelowAt(g, h, u, d)
  PROVE  LET over == [up EXCEPT ![d] = u] IN
           Tree(h, q, over, u, U \union D) /\ Outside(g, h, up, over, U \union D)
<1> DEFINE over == [up EXCEPT ![d] = u]
<1> USE DEF BelowAt
<1>0. u # Nil /\ d # Nil
  BY HpAssumption
<1>1. PICK C : /\ U = {u} \union C /\ u \notin C /\ C \subseteq HpNodes /\ Forest(g, q, up, u, g.child[u], C)
               /\ \A k \in C : up[k] = u => q[u] <= q[k]
  BY <1>0, TreeParts
<1>2. PICK E : /\ D = {d} \union E /\ d \notin E /\ E \subseteq HpNodes /\ Forest(g, q, up, d, g.child[d], E)
               /\ \A k \in E : up[k] = d => q[d] <= q[k]
  BY <1>0, TreeParts
<1>3. u \notin E /\ d \notin C /\ u # d /\ C \intersect E = {}
  BY <1>1, <1>2
<1>4. over[d] = u /\ \A k \in HpNodes : k # d => over[k] = up[k]
  OBVIOUS
<1> HIDE DEF over
<1>5. g.child[u] \in C \union {Nil} /\ Nil \notin C /\ Nil \notin E
  BY <1>1, <1>2, ForestNodes
<1>6. Forest(h, q, over, u, h.right[d], C)
  <2>1. h.right[d] = g.child[u]
    OBVIOUS
  <2>2. Alike(g, h, q, q, up, over, g.child[u], C)
    BY <1>1, <1>3, <1>4 DEF Alike
  <2> QED BY <1>1, <2>1, <2>2, ForestStays
<1>7. Forest(h, q, over, d, h.child[d], E)
  <2>1. h.child[d] = g.child[d]
    BY <1>3
  <2>2. Alike(g, h, q, q, up, over, g.child[d], E)
    BY <1>1, <1>2, <1>3, <1>4, <1>5 DEF Alike
  <2> QED BY <1>2, <2>1, <2>2, ForestStays
<1>8. Forest(h, q, over, u, d, {d} \union E \union C)
  <2>1. h.child[d] # Nil => h.left[h.child[d]] = d
    <3>1. h.child[d] = g.child[d] /\ g.child[d] \in E \union {Nil}
      BY <1>2, <1>3, ForestNodes
    <3>2. g.child[d] # Nil => g.left[g.child[d]] = d
      BY <1>2 DEF Tree, Forest
    <3> QED BY <1>1, <1>2, <1>3, <1>5, <3>1, <3>2
  <2>2. h.right[d] # Nil => h.left[h.right[d]] = d
    BY <1>1, <1>3, <1>5
  <2>3. \A k \in E : over[k] = d => q[d] <= q[k]
    BY <1>2, <1>4
  <2> QED BY <1>2, <1>3, <1>4, <1>6, <1>7, <2>1, <2>2, <2>3, ForestMade
<1>9. Forest(h, q, over, Nil, u, {u} \union ({d} \union E \union C) \union {})
  <2>1. h.child[u] = d /\ h.right[u] = Nil /\ h.left[d] = u
    BY <1>0, <1>3 DEF Tree
  <2>2. Forest(h, q, over, u, h.child[u], {d} \union E \union C) /\ Forest(h, q, over, Nil, h.right[u], {})
    BY <1>8, <2>1, EmptyForest
  <2>3. over[u] = Nil
    BY <1>0, <1>3, <1>4 DEF Tree, Forest
  <2>4. \A k \in {d} \union E \union C : over[k] = u => q[u] <= q[k]
    <3>1. \A k \in E : up[k] = d \/ up[k] \in E
      BY <1>2 DEF Forest
    <3> QED BY <1>1, <1>2, <1>3, <1>4, <3>1
  <2>5. u \notin {d} \union E \union C /\ Nil \notin {d} \union E \union C /\ Nil # u
    BY <1>0, <1>1, <1>3, <1>5
  <2>6. ({d} \union E \union C) \intersect {} = {} /\ u \notin {}
    OBVIOUS
  <2>7. h.child[u] # Nil => h.left[h.child[u]] = u
    BY <2>1
  <2>8. h.right[u] # Nil => h.left[h.right[u]] = u
    BY <2>1
  <2> QED BY <2>2, <2>3, <2>4, <2>5, <2>6, <2>7, <2>8, ForestMade
<1>10. {u} \union ({d} \union E \union C) \union {} = U \union D
  BY <1>1, <1>2
<1>11. h.left[u] = Nil /\ h.right[u] = Nil
  BY <1>0, <1>1, <1>3, <1>5 DEF Tree
<1>12. Outside(g, h, up, over, U \union D)
  <2>1. \A k \in HpNodes \ (U \union D) : k # u /\ k # d /\ k # g.child[u]
    BY <1>1, <1>2, <1>5, HpAssumption
  <2> QED BY <1>4, <2>1 DEF Outside
<1> QED BY <1>9, <1>10, <1>11, <1>12 DEF Tree, over

\* Melding makes one tree of two, and touches no other (heap.c:8-25).
LEMMA MeldMakesTree ==
  ASSUME NEW g \in Links, NEW q \in [HpNodes -> Int], NEW up \in [HpNodes -> HpNodes \union {Nil}],
         NEW a, NEW b, NEW S, NEW T, Tree(g, q, up, a, S), Tree(g, q, up, b, T), S \intersect T = {}
  PROVE  LET m == Meld(g, q, a, b) IN
           /\ m.g \in Links
           /\ \E over \in [HpNodes -> HpNodes \union {Nil}] :
                Tree(m.g, q, over, m.root, S \union T) /\ Outside(g, m.g, up, over, S \union T)
<1> DEFINE m == Meld(g, q, a, b)
<1>1. CASE a = Nil \/ b = Nil
  <2>1. m.g = g /\ m.root = IF a = Nil THEN b ELSE a
    BY <1>1 DEF Meld
  <2>2. a = Nil => S = {}
    BY ForestOfNil DEF Tree
  <2>3. b = Nil => T = {}
    BY ForestOfNil DEF Tree
  <2>4. Tree(m.g, q, up, m.root, S \union T)
    <3>1. CASE a = Nil
      BY <2>1, <2>2, <3>1
    <3>2. CASE a # Nil
      BY <1>1, <2>1, <2>3, <3>2
    <3> QED BY <3>1, <3>2
  <2>5. Outside(g, m.g, up, up, S \union T)
    BY <2>1 DEF Outside
  <2> QED BY <2>1, <2>4, <2>5
<1>2. CASE a # Nil /\ b # Nil
  <2>1. a \in HpNodes /\ b \in HpNodes /\ a \in S /\ b \in T
    BY <1>2, ForestNodes DEF Tree
  <2> DEFINE u == IF q[a] < q[b] THEN a ELSE b
             d == IF u = a THEN b ELSE a
             U == IF u = a THEN S ELSE T
             D == IF u = a THEN T ELSE S
             g1 == SetLink(g, "right", d, g.child[u])
             g2 == SetLink(g1, "left", g.child[u], d)
             g3 == SetLink(g2, "child", u, d)
             g4 == SetLink(g3, "left", d, u)
  <2>2. m.g = g4 /\ m.root = u
    BY <1>2 DEF Meld
  <2>3. /\ u \in HpNodes /\ d \in HpNodes /\ Tree(g, q, up, u, U) /\ Tree(g, q, up, d, D)
        /\ U \intersect D = {} /\ U \union D = S \union T /\ q[u] <= q[d]
    <3>1. a # b
      BY <2>1
    <3>2. q[a] \in Int /\ q[b] \in Int
      BY <2>1
    <3>3. CASE q[a] < q[b]
      <4>1. u = a /\ d = b /\ U = S /\ D = T
        BY <3>3
      <4> HIDE DEF u, d, U, D
      <4> QED BY <2>1, <3>2, <3>3, <4>1
    <3>4. CASE ~(q[a] < q[b])
      <4>1. u = b /\ d = a /\ U = T /\ D = S
        BY <3>1, <3>4
      <4> HIDE DEF u, d, U, D
      <4> QED BY <2>1, <3>2, <3>4, <4>1
    <3> QED BY <3>3, <3>4
  <2> HIDE DEF u, d, U, D, m
  <2>4. PICK c \in HpNodes \union {Nil} : c = g.child[u]
    BY <2>3, LinkTypes
  <2>5. g1 \in Links /\ RightAt(g, g1, d, c)
    <3>1. g1 = SetLink(g, "right", d, c)
      BY <2>4
    <3> QED BY <2>3, <3>1, RightSet
  <2> HIDE DEF g1
  <2>6. g2 \in Links /\ LeftAt(g1, g2, c, d)
    <3>1. g2 = SetLink(g1, "left", c, d)
      BY <2>4
    <3> QED BY <2>3, <2>5, <3>1, LeftSet
  <2> HIDE DEF g2
  <2>7. g3 \in Links /\ ChildAt(g2, g3, u, d)
    BY <2>3, <2>6, ChildSet
  <2> HIDE DEF g3
  <2>8. g4 \in Links /\ LeftAt(g3, g4, d, u)
    BY <2>3, <2>7, LeftSet
  <2> HIDE DEF g4
  <2>9. BelowAt(g, g4, u, d)
    BY <2>4, <2>5, <2>6, <2>7, <2>8 DEF RightAt, LeftAt, ChildAt, BelowAt
  <2> DEFINE over == [up EXCEPT ![d] = u]
  <2>10. Tree(g4, q, over, u, U \union D) /\ Outside(g, g4, up, over, U \union D)
    BY <2>3, <2>9, RootLinkedBelow
  <2>11. over \in [HpNodes -> HpNodes \union {Nil}]
    BY <2>3
  <2> QED BY <2>2, <2>3, <2>8, <2>10, <2>11 DEF m
<1> QED BY <1>1, <1>2

\* Changes outside two sets, one after the other.
LEMMA OutsideBoth ==
  ASSUME NEW g, NEW h, NEW i, NEW up, NEW over, NEW w, NEW S, NEW T, NEW V, S \subseteq V, T \subseteq V,
         Outside(g, h, up, over, S), Outside(h, i, over, w, T)
  PROVE  Outside(g, i, up, w, V)
BY DEF Outside

\* What is changed elsewhere leaves a forest as it is.
LEMMA ForestUntouched ==
  ASSUME NEW g, NEW h, NEW q, NEW up, NEW over, NEW p, NEW a, NEW S, NEW T, S \intersect T = {},
         Forest(g, q, up, p, a, S), Outside(g, h, up, over, T)
  PROVE  Forest(h, q, over, p, a, S)
<1>1. S \subseteq HpNodes
  BY DEF Forest
<1>2. Alike(g, h, q, q, up, over, a, S)
  BY <1>1 DEF Outside, Alike
<1> QED BY <1>2, ForestStays

\* Of S the tree of a is taken off, and b starts what is left of the forest.
TakenOff(g, h, q, up, over, p, a, b, S) ==
  \E T, R : /\ S = T \union R /\ T \intersect R = {} /\ a \in T
            /\ Tree(h, q, over, a, T) /\ Forest(h, q, over, p, b, R)
            /\ Outside(g, h, up, over, T)

\* The first of some siblings is cut off with what is below it (heap.c:30-40).
LEMMA FirstCutOff ==
  ASSUME NEW g \in Links, NEW h \in Links, NEW q, NEW up \in [HpNodes -> HpNodes \union {Nil}], NEW p, NEW a, NEW S,
         Forest(g, q, up, p, a, S), a # Nil,
         CutAt(g, h, a), NEW over, over = [up EXCEPT ![a] = Nil]
  PROVE  TakenOff(g, h, q, up, over, p, a, g.right[a], S)
<1> USE DEF CutAt
<1>1. PICK C, R : /\ S = {a} \union C \union R /\ C \intersect R = {} /\ a \notin C /\ a \notin R
                  /\ Forest(g, q, up, a, g.child[a], C) /\ Forest(g, q, up, p, g.right[a], R)
  BY ForestParts, SMTT(60)
<1>2. a \in HpNodes /\ S \subseteq HpNodes /\ Nil \notin S /\ g.child[a] \in C \union {Nil}
  BY <1>1, ForestNodes
<1>3. over[a] = Nil /\ \A k \in HpNodes : k # a => over[k] = up[k]
  BY <1>2
<1>4. Forest(h, q, over, a, h.child[a], C)
  <2>1. Alike(g, h, q, q, up, over, g.child[a], C)
    BY <1>1, <1>2, <1>3 DEF Alike
  <2> QED BY <1>1, <1>2, <2>1, ForestStays
<1>5. Forest(h, q, over, p, g.right[a], R)
  <2>1. Alike(g, h, q, q, up, over, g.right[a], R)
    BY <1>1, <1>2, <1>3 DEF Alike
  <2> QED BY <1>1, <2>1, ForestStays
<1>6. Forest(h, q, over, Nil, a, {a} \union C \union {})
  <2>1. h.right[a] = Nil /\ h.left[a] = Nil /\ h.child[a] = g.child[a]
    BY <1>2
  <2>2. Forest(h, q, over, Nil, h.right[a], {})
    BY <2>1, EmptyForest
  <2>3. h.child[a] # Nil => h.left[h.child[a]] = a
    <3>1. g.child[a] # Nil => g.left[g.child[a]] = a
      BY <1>1 DEF Forest
    <3> QED BY <1>1, <1>2, <2>1, <3>1
  <2>4. \A k \in C : over[k] = a => q[a] <= q[k]
    <3>1. \A k \in S : up[k] # p => q[up[k]] <= q[k]
      BY DEF Forest
    <3>2. p # a
      BY <1>1 DEF Forest
    <3> QED BY <1>1, <1>2, <1>3, <3>1, <3>2
  <2>5. h.right[a] # Nil => h.left[h.right[a]] = a
    BY <2>1
  <2>6. C \intersect {} = {} /\ a \notin {} /\ Nil # a /\ Nil \notin C
    BY <1>1, <1>2
  <2> QED BY <1>1, <1>2, <1>3, <1>4, <2>2, <2>3, <2>4, <2>5, <2>6, ForestMade
<1>7. Tree(h, q, over, a, {a} \union C)
  <2>1. {a} \union C \union {} = {a} \union C
    OBVIOUS
  <2> QED BY <1>2, <1>6, <2>1 DEF Tree
<1>8. Outside(g, h, up, over, {a} \union C)
  BY <1>3 DEF Outside
<1>9. S = ({a} \union C) \union R /\ ({a} \union C) \intersect R = {} /\ a \in {a} \union C
  BY <1>1
<1> QED BY <1>5, <1>7, <1>8, <1>9 DEF TakenOff

-----------------------------------------------------------------------------
(* The chain of the first pass. *)

Chained(g, l) == [child |-> g.child, left |-> l, right |-> g.right]

\* Trees linked by right_ from c: siblings without a parent, which do not know each other
\* to the left.
Chain(g, q, up, c, S) ==
  \E l : /\ Forest(Chained(g, l), q, up, Nil, c, S)
         /\ \A n \in S : g.left[n] = IF up[n] = Nil THEN Nil ELSE l[n]

\* The first pass starts with an empty chain.
LEMMA EmptyChain ==
  ASSUME NEW g, NEW q, NEW up
  PROVE  Chain(g, q, up, Nil, {})
<1>1. Forest(Chained(g, g.left), q, up, Nil, Nil, {})
  BY EmptyForest
<1> QED BY <1>1 DEF Chain

\* A chain without a first node is empty.
LEMMA ChainOfNil ==
  ASSUME NEW g, NEW q, NEW up, NEW S, Chain(g, q, up, Nil, S)
  PROVE  S = {}
BY ForestOfNil DEF Chain

\* What is changed elsewhere leaves a chain as it is.
LEMMA ChainStays ==
  ASSUME NEW g, NEW h, NEW q, NEW up, NEW over, NEW c, NEW S, NEW T, S \intersect T = {},
         Chain(g, q, up, c, S), Outside(g, h, up, over, T)
  PROVE  Chain(h, q, over, c, S)
<1>1. PICK l : /\ Forest(Chained(g, l), q, up, Nil, c, S)
               /\ \A n \in S : g.left[n] = IF up[n] = Nil THEN Nil ELSE l[n]
  BY DEF Chain
<1>2. S \subseteq HpNodes
  BY <1>1 DEF Forest
<1>3. Alike(Chained(g, l), Chained(h, l), q, q, up, over, c, S)
  BY <1>2 DEF Outside, Alike, Chained
<1>4. Forest(Chained(h, l), q, over, Nil, c, S)
  BY <1>1, <1>3, ForestStays
<1>5. \A n \in S : h.left[n] = IF over[n] = Nil THEN Nil ELSE l[n]
  BY <1>1, <1>2 DEF Outside
<1> QED BY <1>4, <1>5 DEF Chain

\* A tree is put before the chain.
LEMMA ChainGrows ==
  ASSUME NEW g, NEW h, NEW q, NEW up, NEW c, NEW S, NEW r, NEW T, S \intersect T = {}, r # Nil,
         Tree(g, q, up, r, T), Chain(g, q, up, c, S),
         RightAt(g, h, r, c)
  PROVE  Chain(h, q, up, r, S \union T) /\ Outside(g, h, up, up, T)
<1> USE DEF RightAt
<1>1. PICK l : /\ Forest(Chained(g, l), q, up, Nil, c, S)
               /\ \A n \in S : g.left[n] = IF up[n] = Nil THEN Nil ELSE l[n]
  BY DEF Chain
<1>2. PICK C : /\ T = {r} \union C /\ r \notin C /\ r \in HpNodes /\ C \subseteq HpNodes
               /\ Forest(g, q, up, r, g.child[r], C) /\ \A k \in C : up[k] = r => q[r] <= q[k]
  BY TreeParts
<1>3. S \subseteq HpNodes /\ Nil \notin S /\ c \in S \union {Nil} /\ Nil \notin C /\ g.child[r] \in C \union {Nil}
  BY <1>1, <1>2, ForestNodes
<1>4. up[r] = Nil /\ g.left[r] = Nil /\ g.right[r] = Nil
  BY <1>2 DEF Tree, Forest
<1> DEFINE e == [k \in HpNodes |-> IF k = c THEN r ELSE IF k \in T THEN g.left[k] ELSE l[k]]
           j == Chained(h, e)
<1>5. /\ j.child = h.child /\ j.right = h.right /\ \A k \in C : j.left[k] = g.left[k]
      /\ \A k \in S : k # c => j.left[k] = l[k]
      /\ c # Nil => j.left[c] = r
  <2>1. \A k \in C : k \in T /\ k # c /\ k \in HpNodes
    BY <1>2, <1>3
  <2>2. \A k \in S : k \notin T /\ k \in HpNodes
    BY <1>3
  <2>3. j.child = h.child /\ j.right = h.right /\ j.left = e
    BY DEF Chained
  <2> QED BY <1>3, <2>1, <2>2, <2>3
<1> HIDE DEF j
<1>6. Forest(j, q, up, r, j.child[r], C)
  <2>1. Alike(g, j, q, q, up, up, g.child[r], C)
    BY <1>2, <1>5 DEF Alike
  <2> QED BY <1>2, <1>5, <2>1, ForestStays
<1>7. Forest(j, q, up, Nil, j.right[r], S)
  <2>1. Alike(Chained(g, l), j, q, q, up, up, c, S)
    BY <1>2, <1>3, <1>5 DEF Alike, Chained
  <2>2. Forest(j, q, up, Nil, c, S)
    BY <1>1, <2>1, ForestStays
  <2> QED BY <1>2, <1>5, <2>2
<1>8. Forest(j, q, up, Nil, r, {r} \union C \union S)
  <2>1. j.child[r] # Nil => j.left[j.child[r]] = r
    <3>1. g.child[r] # Nil => g.left[g.child[r]] = r
      BY <1>2 DEF Tree, Forest
    <3> QED BY <1>2, <1>3, <1>5, <3>1
  <2>2. j.right[r] # Nil => j.left[j.right[r]] = r
    BY <1>2, <1>5
  <2>3. C \intersect S = {} /\ r \notin S /\ Nil # r
    BY <1>2
  <2> QED BY <1>2, <1>3, <1>4, <1>6, <1>7, <2>1, <2>2, <2>3, ForestMade
<1>9. \A n \in S \union T : h.left[n] = IF up[n] = Nil THEN Nil ELSE e[n]
  <2>1. ASSUME NEW n \in S PROVE h.left[n] = IF up[n] = Nil THEN Nil ELSE e[n]
    <3>1. n = c => up[n] = Nil
      BY <1>1, <1>3 DEF Forest
    <3>2. n # c => e[n] = l[n]
      BY <1>3
    <3>3. h.left[n] = g.left[n]
      BY <1>3
    <3> QED BY <1>1, <3>1, <3>2, <3>3
  <2>2. ASSUME NEW n \in C PROVE h.left[n] = IF up[n] = Nil THEN Nil ELSE e[n]
    <3>1. up[n] = r \/ up[n] \in C
      BY <1>2 DEF Forest
    <3>2. e[n] = g.left[n] /\ h.left[n] = g.left[n]
      BY <1>2, <1>3
    <3> QED BY <1>3, <3>1, <3>2
  <2>3. h.left[r] = Nil
    BY <1>2, <1>4
  <2> QED BY <1>2, <1>4, <2>1, <2>2, <2>3
<1>10. {r} \union C \union S = S \union T
  BY <1>2
<1>11. Outside(g, h, up, up, T)
  BY <1>2 DEF Outside
<1> QED BY <1>8, <1>9, <1>10, <1>11 DEF Chain, j

\* The first tree is taken off the chain.
LEMMA ChainShrinks ==
  ASSUME NEW g, NEW h, NEW q, NEW up, NEW c, NEW S, c # Nil, Chain(g, q, up, c, S),
         RightAt(g, h, c, Nil)
  PROVE  \E T, R : /\ S = T \union R /\ T \intersect R = {} /\ c \in T
                   /\ Tree(h, q, up, c, T) /\ Chain(h, q, up, g.right[c], R)
                   /\ Outside(g, h, up, up, T)
<1> USE DEF RightAt
<1>1. PICK l : /\ Forest(Chained(g, l), q, up, Nil, c, S)
               /\ \A n \in S : g.left[n] = IF up[n] = Nil THEN Nil ELSE l[n]
  BY DEF Chain
<1> DEFINE j == Chained(g, l)
<1>2. j.child = g.child /\ j.right = g.right /\ j.left = l
  BY DEF Chained
<1>3. PICK C, R : /\ S = {c} \union C \union R /\ C \intersect R = {} /\ c \notin C /\ c \notin R
                  /\ Forest(j, q, up, c, g.child[c], C) /\ Forest(j, q, up, Nil, g.right[c], R)
  BY <1>1, <1>2, ForestParts
<1>4. c \in HpNodes /\ S \subseteq HpNodes /\ Nil \notin S /\ g.child[c] \in C \union {Nil} /\ up[c] = Nil
  <2>1. up[c] = Nil
    BY <1>1 DEF Forest
  <2> QED BY <1>1, <1>3, <2>1, ForestNodes
<1> HIDE DEF j
<1>5. \A k \in C : up[k] # Nil /\ h.left[k] = l[k]
  <2>1. \A k \in C : up[k] = c \/ up[k] \in C
    BY <1>3 DEF Forest
  <2> QED BY <1>1, <1>3, <1>4, <2>1
<1>6. Forest(h, q, up, c, h.child[c], C)
  <2>1. Alike(j, h, q, q, up, up, g.child[c], C)
    BY <1>2, <1>3, <1>4, <1>5 DEF Alike
  <2> QED BY <1>3, <1>4, <2>1, ForestStays
<1>7. Forest(h, q, up, Nil, c, {c} \union C \union {})
  <2>1. h.right[c] = Nil /\ h.child[c] = g.child[c]
    BY <1>4
  <2>2. Forest(h, q, up, Nil, h.right[c], {})
    BY <2>1, EmptyForest
  <2>3. h.child[c] # Nil => h.left[h.child[c]] = c
    <3>1. j.child[c] # Nil => j.left[j.child[c]] = c
      BY <1>1, <1>3 DEF Forest, j
    <3> QED BY <1>2, <1>4, <1>5, <2>1, <3>1
  <2>4. \A k \in C : up[k] = c => q[c] <= q[k]
    <3>1. \A k \in S : up[k] # Nil => q[up[k]] <= q[k]
      BY <1>1 DEF Forest
    <3> QED BY <1>3, <1>5, <3>1
  <2>5. h.right[c] # Nil => h.left[h.right[c]] = c
    BY <2>1
  <2>6. C \intersect {} = {} /\ c \notin {} /\ Nil # c /\ Nil \notin C
    BY <1>3, <1>4
  <2> QED BY <1>3, <1>4, <1>6, <2>2, <2>3, <2>4, <2>5, <2>6, ForestMade
<1>8. Tree(h, q, up, c, {c} \union C)
  <2>1. {c} \union C \union {} = {c} \union C
    OBVIOUS
  <2>2. g.left[c] = Nil
    BY <1>1, <1>3, <1>4
  <2> QED BY <1>4, <1>7, <2>1, <2>2 DEF Tree
<1>9. Chain(h, q, up, g.right[c], R)
  <2>1. Alike(j, Chained(h, l), q, q, up, up, g.right[c], R)
    BY <1>2, <1>3, <1>4 DEF Alike, Chained
  <2>2. Forest(Chained(h, l), q, up, Nil, g.right[c], R)
    BY <1>3, <2>1, ForestStays
  <2>3. \A n \in R : h.left[n] = IF up[n] = Nil THEN Nil ELSE l[n]
    BY <1>1, <1>3, <1>4
  <2> QED BY <2>2, <2>3 DEF Chain
<1>10. S = ({c} \union C) \union R /\ ({c} \union C) \intersect R = {} /\ c \in {c} \union C
  BY <1>3
<1>11. Outside(g, h, up, up, {c} \union C)
  BY <1>4 DEF Outside
<1> QED BY <1>8, <1>9, <1>10, <1>11

-----------------------------------------------------------------------------
(* The two passes. *)

\* A node's left and right links are cut.
LEMMA CutLinks ==
  ASSUME NEW g \in Links, NEW n \in HpNodes \union {Nil}
  PROVE  LET h == SetLink(SetLink(g, "left", n, Nil), "right", n, Nil) IN h \in Links /\ CutAt(g, h, n)
<1>1. PICK i \in Links : i = SetLink(g, "left", n, Nil) /\ LeftAt(g, i, n, Nil)
  BY LeftSet
<1>2. PICK h \in Links : h = SetLink(i, "right", n, Nil) /\ RightAt(i, h, n, Nil)
  BY RightSet
<1>3. CutAt(g, h, n)
  BY <1>1, <1>2 DEF LeftAt, RightAt, CutAt
<1> QED BY <1>1, <1>2, <1>3

\* Melding links nodes.
LEMMA MeldTyped ==
  ASSUME NEW g \in Links, NEW q, NEW a \in HpNodes \union {Nil}, NEW b \in HpNodes \union {Nil}
  PROVE  LET m == Meld(g, q, a, b) IN
           m.g \in Links /\ m.root \in {a, b} /\ (a # Nil => m.root # Nil) /\ (b # Nil => m.root # Nil)
<1> DEFINE m == Meld(g, q, a, b)
<1>1. CASE a = Nil \/ b = Nil
  <2>1. m.g = g /\ m.root = IF a = Nil THEN b ELSE a
    BY <1>1 DEF Meld
  <2> QED BY <1>1, <2>1
<1>2. CASE a # Nil /\ b # Nil
  <2> DEFINE u == IF q[a] < q[b] THEN a ELSE b
             d == IF u = a THEN b ELSE a
  <2>1. u \in {a, b} /\ d \in {a, b}
    OBVIOUS
  <2>2. m.root = u /\ m.g = SetLink(SetLink(SetLink(SetLink(g, "right", d, g.child[u]), "left", g.child[u], d), "child", u, d), "left", d, u)
    BY <1>2 DEF Meld
  <2> HIDE DEF u, d, m
  <2>3. u \in HpNodes /\ d \in HpNodes
    BY <1>2, <2>1
  <2>4. PICK c \in HpNodes \union {Nil} : c = g.child[u]
    BY <2>3, LinkTypes
  <2>5. PICK g1 \in Links : g1 = SetLink(g, "right", d, c)
    BY <2>3, RightSet
  <2>6. PICK g2 \in Links : g2 = SetLink(g1, "left", c, d)
    BY <2>3, LeftSet
  <2>7. PICK g3 \in Links : g3 = SetLink(g2, "child", u, d)
    BY <2>3, ChildSet
  <2>8. SetLink(g3, "left", d, u) \in Links
    BY <2>3, LeftSet
  <2>9. m.g \in Links
    BY <2>2, <2>4, <2>5, <2>6, <2>7, <2>8
  <2> QED BY <1>2, <2>1, <2>2, <2>9 DEF m
<1> QED BY <1>1, <1>2

PairStates == [g : Links, curr : HpNodes \union {Nil}, chain : HpNodes \union {Nil}]
ChainStates == [g : Links, root : HpNodes \union {Nil}, chain : HpNodes \union {Nil}]

\* A turn of the first pass leads to a state of its kind.
LEMMA PairTyped ==
  ASSUME NEW q, NEW s \in PairStates
  PROVE  PairMelded(s, q) \in PairStates
<1>0. PICK o \in Links, e \in HpNodes \union {Nil} : o = s.g /\ e = s.chain /\ s.curr \in HpNodes \union {Nil}
  BY DEF PairStates
<1>1. CASE s.curr = Nil
  BY <1>1 DEF PairMelded
<1>2. CASE s.curr # Nil
  <2>1. PICK a \in HpNodes : a = s.curr
    BY <1>0, <1>2
  <2>2. PICK b \in HpNodes \union {Nil} : b = o.right[a]
    BY <1>0, LinkTypes
  <2>3. PICK after \in HpNodes \union {Nil} : after = IF b = Nil THEN Nil ELSE o.right[b]
    BY <1>0, LinkTypes
  <2>4. PICK g1 \in Links : g1 = SetLink(SetLink(o, "left", a, Nil), "right", a, Nil)
    BY <1>0, CutLinks
  <2>5. PICK g2 \in Links : g2 = SetLink(SetLink(g1, "left", b, Nil), "right", b, Nil)
    BY CutLinks
  <2>6. PICK pair : pair = Meld(g2, q, a, b)
    OBVIOUS
  <2>7. PICK pg \in Links, pr \in HpNodes \union {Nil} : pg = pair.g /\ pr = pair.root
    BY <2>6, MeldTyped
  <2>8. PICK g3 \in Links : g3 = SetLink(pg, "right", pr, e)
    BY RightSet
  <2>9. PairMelded(s, q) = [g |-> g3, curr |-> after, chain |-> pr]
    BY <1>0, <1>2, <2>7, <2>1, <2>2, <2>3, <2>4, <2>5, <2>6, <2>8, ZenonT(60) DEF PairMelded
  <2> QED BY <2>7, <2>9 DEF PairStates
<1> QED BY <1>1, <1>2

\* A turn of the second pass leads to a state of its kind.
LEMMA ChainTyped ==
  ASSUME NEW q, NEW s \in ChainStates
  PROVE  ChainMelded(s, q) \in ChainStates
<1>0. PICK o \in Links, r \in HpNodes \union {Nil} : o = s.g /\ r = s.root /\ s.chain \in HpNodes \union {Nil}
  BY DEF ChainStates
<1>1. CASE s.chain = Nil
  BY <1>1 DEF ChainMelded
<1>2. CASE s.chain # Nil
  <2>1. PICK c \in HpNodes : c = s.chain
    BY <1>0, <1>2
  <2>2. PICK after \in HpNodes \union {Nil} : after = o.right[c]
    BY <1>0, LinkTypes
  <2>3. PICK g1 \in Links : g1 = SetLink(o, "right", c, Nil)
    BY <1>0, RightSet
  <2>4. PICK m : m = Meld(g1, q, r, c)
    OBVIOUS
  <2>5. m.g \in Links /\ m.root \in {r, c}
    BY <1>0, <2>4, MeldTyped
  <2>6. ChainMelded(s, q) = [g |-> m.g, root |-> m.root, chain |-> after]
    BY <1>0, <1>2, <2>1, <2>2, <2>3, <2>4 DEF ChainMelded
  <2> QED BY <1>0, <2>5, <2>6 DEF ChainStates
<1> QED BY <1>1, <1>2

\* Before turn n + 1 of the first pass, from the links g: A is linked from curr, B chained,
\* and there are turns enough left for A.
Pairing(s, n, g, q, up, p, C) ==
  \E over \in [HpNodes -> HpNodes \union {Nil}], A, B \in SUBSET HpNodes :
    /\ C = A \union B /\ A \intersect B = {}
    /\ Forest(s.g, q, over, p, s.curr, A) /\ Chain(s.g, q, over, s.chain, B)
    /\ Outside(g, s.g, up, over, C)
    /\ A = {} \/ Cardinality(A) + n <= Cardinality(HpNodes)

\* The same of the second pass: A is a tree, B chained.
Chaining(s, n, g, q, up, C) ==
  \E over \in [HpNodes -> HpNodes \union {Nil}], A, B \in SUBSET HpNodes :
    /\ C = A \union B /\ A \intersect B = {}
    /\ Tree(s.g, q, over, s.root, A) /\ Chain(s.g, q, over, s.chain, B)
    /\ Outside(g, s.g, up, over, C)
    /\ B = {} \/ Cardinality(B) + n <= Cardinality(HpNodes)

\* Without some of its elements a set is smaller.
LEMMA SmallerSet ==
  ASSUME NEW A \in SUBSET HpNodes, NEW R, R \subseteq A, R # A, NEW n \in Nat,
         A = {} \/ Cardinality(A) + n <= Cardinality(HpNodes)
  PROVE  R = {} \/ Cardinality(R) + (n + 1) <= Cardinality(HpNodes)
<1>1. IsFiniteSet(A) /\ IsFiniteSet(R) /\ IsFiniteSet(HpNodes)
  BY HpAssumption, FS_Subset
<1>2. Cardinality(A) \in Nat /\ Cardinality(R) \in Nat /\ Cardinality(HpNodes) \in Nat
  BY <1>1, FS_CardinalityType
<1>3. Cardinality(R) <= Cardinality(A) /\ (Cardinality(R) = Cardinality(A) => R = A)
  BY <1>1, FS_Subset
<1> QED BY <1>2, <1>3

\* A turn of the first pass (heap.c:28-51).
LEMMA PairTurn ==
  ASSUME NEW g, NEW q \in [HpNodes -> Int], NEW up, NEW p, NEW C, NEW n \in Nat, NEW s \in PairStates,
         Pairing(s, n, g, q, up, p, C)
  PROVE  Pairing(PairMelded(s, q), n + 1, g, q, up, p, C)
<1>0. PICK o \in Links, e \in HpNodes \union {Nil} : o = s.g /\ e = s.chain /\ s.curr \in HpNodes \union {Nil}
  BY DEF PairStates
<1>1. PICK over \in [HpNodes -> HpNodes \union {Nil}], A \in SUBSET HpNodes, B \in SUBSET HpNodes :
        /\ C = A \union B /\ A \intersect B = {}
        /\ Forest(o, q, over, p, s.curr, A) /\ Chain(o, q, over, e, B)
        /\ Outside(g, o, up, over, C)
        /\ A = {} \/ Cardinality(A) + n <= Cardinality(HpNodes)
  BY <1>0 DEF Pairing
<1>2. CASE s.curr = Nil
  <2>1. PairMelded(s, q) = s /\ A = {}
    BY <1>0, <1>1, <1>2, ForestOfNil DEF PairMelded
  <2> QED BY <1>0, <1>1, <2>1 DEF Pairing
<1>3. CASE s.curr # Nil
  <2>1. PICK a \in HpNodes : a = s.curr
    BY <1>0, <1>3
  <2>2. PICK b \in HpNodes \union {Nil} : b = o.right[a]
    BY <1>0, LinkTypes
  <2>3. PICK after \in HpNodes \union {Nil} : after = IF b = Nil THEN Nil ELSE o.right[b]
    BY <1>0, LinkTypes
  <2>4. PICK g1 \in Links : g1 = SetLink(SetLink(o, "left", a, Nil), "right", a, Nil)
    BY <1>0, CutLinks
  <2>5. PICK g2 \in Links : g2 = SetLink(SetLink(g1, "left", b, Nil), "right", b, Nil)
    BY CutLinks
  <2>6. PICK pair : pair = Meld(g2, q, a, b)
    OBVIOUS
  <2>7. PICK pg \in Links, pr \in HpNodes : pg = pair.g /\ pr = pair.root
    BY <2>1, <2>6, MeldTyped, HpAssumption
  <2>8. PICK g3 \in Links : g3 = SetLink(pg, "right", pr, e)
    BY RightSet
  <2>9. PairMelded(s, q) = [g |-> g3, curr |-> after, chain |-> pr]
    BY <1>0, <1>3, <2>7, <2>1, <2>2, <2>3, <2>4, <2>5, <2>6, <2>8, ZenonT(60) DEF PairMelded
  <2>a. CutAt(o, g1, a)
    BY <2>4, CutLinks
  <2>10. PICK u1, T, R : /\ u1 = [over EXCEPT ![a] = Nil] /\ A = T \union R /\ T \intersect R = {} /\ a \in T
                         /\ Tree(g1, q, u1, a, T) /\ Forest(g1, q, u1, p, b, R)
                         /\ Outside(o, g1, over, u1, T)
    <3>1. Forest(o, q, over, p, a, A) /\ a # Nil
      BY <1>1, <2>1, HpAssumption
    <3>2. PICK v : v = [over EXCEPT ![a] = Nil]
      OBVIOUS
    <3>3. TakenOff(o, g1, q, over, v, p, a, o.right[a], A)
      BY <2>a, <3>1, <3>2, FirstCutOff
    <3> QED BY <2>2, <3>2, <3>3 DEF TakenOff
  <2>11. PICK u2, U, W :
              /\ u2 \in [HpNodes -> HpNodes \union {Nil}]
              /\ R = U \union W /\ U \intersect W = {}
              /\ Tree(g2, q, u2, b, U) /\ Forest(g2, q, u2, p, after, W)
              /\ Outside(g1, g2, u1, u2, U)
    <3>0. u1 \in [HpNodes -> HpNodes \union {Nil}]
      BY <2>10
    <3>1. CASE b = Nil
      <4>1. R = {} /\ after = Nil /\ g2 = g1
        BY <2>3, <2>5, <2>10, <3>1, ForestOfNil DEF SetLink
      <4>2. Tree(g2, q, u1, b, {}) /\ Forest(g2, q, u1, p, after, {})
        BY <3>1, <4>1, EmptyForest DEF Tree
      <4>3. Outside(g1, g2, u1, u1, {})
        BY <4>1 DEF Outside
      <4> QED BY <3>0, <4>1, <4>2, <4>3
    <3>2. CASE b # Nil
      <4>1. b \in R /\ b # a /\ b \in HpNodes
        BY <2>2, <2>10, <3>2, ForestNodes
      <4>2. after = g1.right[b]
        BY <2>3, <2>a, <3>2, <4>1 DEF CutAt
      <4>3. CutAt(g1, g2, b)
        BY <2>5, CutLinks
      <4>4. PICK v \in [HpNodes -> HpNodes \union {Nil}] : v = [u1 EXCEPT ![b] = Nil]
        BY <3>0
      <4>5. TakenOff(g1, g2, q, u1, v, p, b, g1.right[b], R)
        BY <2>10, <3>0, <3>2, <4>3, <4>4, FirstCutOff
      <4> QED BY <4>2, <4>4, <4>5 DEF TakenOff
    <3> QED BY <3>1, <3>2
  <2>12. Tree(g2, q, u2, a, T)
    <3>1. T \intersect U = {}
      BY <2>10, <2>11
    <3> QED BY <2>10, <2>11, <3>1, TreeStays
  <2>13. PICK u3 \in [HpNodes -> HpNodes \union {Nil}] :
              Tree(pg, q, u3, pr, T \union U) /\ Outside(g2, pg, u2, u3, T \union U)
    <3>1. T \intersect U = {}
      BY <2>10, <2>11
    <3> QED BY <2>6, <2>7, <2>11, <2>12, <3>1, MeldMakesTree
  <2> DEFINE V == T \union U
  <2>14. Outside(o, pg, over, u3, V)
    <3>1. T \subseteq V /\ U \subseteq V
      OBVIOUS
    <3>2. Outside(o, g2, over, u2, V)
      BY <2>10, <2>11, <3>1, OutsideBoth
    <3> QED BY <2>13, <3>2, OutsideBoth
  <2>15. V \intersect W = {} /\ V \intersect B = {} /\ A = V \union W /\ a \in V
    BY <1>1, <2>10, <2>11
  <2> HIDE DEF V
  <2>16. Chain(pg, q, u3, e, B)
    BY <1>1, <2>14, <2>15, ChainStays
  <2>17. Chain(g3, q, u3, pr, B \union V) /\ Outside(pg, g3, u3, u3, V)
    <3>1. RightAt(pg, g3, pr, e)
      BY <2>7, <2>8, RightSet
    <3>2. Tree(pg, q, u3, pr, V)
      BY <2>13 DEF V
    <3> QED BY <2>7, <2>15, <2>16, <3>1, <3>2, ChainGrows, HpAssumption
  <2>18. Forest(g3, q, u3, p, after, W)
    <3>1. Forest(pg, q, u3, p, after, W)
      BY <2>11, <2>13, <2>15, ForestUntouched DEF V
    <3> QED BY <2>15, <2>17, <3>1, ForestUntouched
  <2>19. Outside(g, g3, up, u3, C)
    <3>1. V \subseteq C /\ C \subseteq C
      BY <1>1, <2>15
    <3>2. Outside(g, pg, up, u3, C)
      BY <1>1, <2>14, <3>1, OutsideBoth
    <3> QED BY <2>17, <3>1, <3>2, OutsideBoth
  <2>20. W = {} \/ Cardinality(W) + (n + 1) <= Cardinality(HpNodes)
    <3>1. W \subseteq A /\ W # A
      BY <2>15
    <3> QED BY <1>1, <3>1, SmallerSet
  <2>21. C = W \union (B \union V) /\ W \intersect (B \union V) = {} /\ W \in SUBSET HpNodes /\ (B \union V) \in SUBSET HpNodes
    BY <1>1, <2>15
  <2>22. PICK t : t = PairMelded(s, q) /\ t.g = g3 /\ t.curr = after /\ t.chain = pr
    BY <2>9
  <2>23. Forest(t.g, q, u3, p, t.curr, W) /\ Chain(t.g, q, u3, t.chain, B \union V) /\ Outside(g, t.g, up, u3, C)
    BY <2>17, <2>18, <2>19, <2>22
  <2>24. Pairing(t, n + 1, g, q, up, p, C)
    BY <2>20, <2>21, <2>23 DEF Pairing
  <2> QED BY <2>22, <2>24
<1> QED BY <1>2, <1>3

\* A turn of the second pass (heap.c:53-63).
LEMMA ChainTurn ==
  ASSUME NEW g, NEW q \in [HpNodes -> Int], NEW up, NEW C, NEW n \in Nat, NEW s \in ChainStates,
         Chaining(s, n, g, q, up, C)
  PROVE  Chaining(ChainMelded(s, q), n + 1, g, q, up, C)
<1>0. PICK o \in Links, r \in HpNodes \union {Nil} : o = s.g /\ r = s.root /\ s.chain \in HpNodes \union {Nil}
  BY DEF ChainStates
<1>1. PICK over \in [HpNodes -> HpNodes \union {Nil}], A \in SUBSET HpNodes, B \in SUBSET HpNodes :
        /\ C = A \union B /\ A \intersect B = {}
        /\ Tree(o, q, over, r, A) /\ Chain(o, q, over, s.chain, B)
        /\ Outside(g, o, up, over, C)
        /\ B = {} \/ Cardinality(B) + n <= Cardinality(HpNodes)
  BY <1>0 DEF Chaining
<1>2. CASE s.chain = Nil
  <2>1. ChainMelded(s, q) = s /\ B = {}
    BY <1>1, <1>2, ChainOfNil DEF ChainMelded
  <2> QED BY <1>0, <1>1, <2>1 DEF Chaining
<1>3. CASE s.chain # Nil
  <2>1. PICK c \in HpNodes : c = s.chain
    BY <1>0, <1>3
  <2>2. PICK after \in HpNodes \union {Nil} : after = o.right[c]
    BY <1>0, LinkTypes
  <2>3. PICK g1 \in Links : g1 = SetLink(o, "right", c, Nil)
    BY <1>0, RightSet
  <2>4. PICK m : m = Meld(g1, q, r, c)
    OBVIOUS
  <2>5. ChainMelded(s, q) = [g |-> m.g, root |-> m.root, chain |-> after]
    BY <1>0, <1>3, <2>1, <2>2, <2>3, <2>4 DEF ChainMelded
  <2>6. PICK T, R : /\ B = T \union R /\ T \intersect R = {} /\ c \in T
                    /\ Tree(g1, q, over, c, T) /\ Chain(g1, q, over, after, R)
                    /\ Outside(o, g1, over, over, T)
    <3>1. RightAt(o, g1, c, Nil)
      BY <1>0, <2>3, RightSet
    <3>2. Chain(o, q, over, c, B) /\ c # Nil
      BY <1>1, <1>3, <2>1
    <3> QED BY <2>2, <3>1, <3>2, ChainShrinks
  <2>7. Tree(g1, q, over, r, A) /\ A \intersect T = {}
    <3>1. A \intersect T = {}
      BY <1>1, <2>6
    <3> QED BY <1>1, <2>6, <3>1, TreeStays
  <2>8. PICK w \in [HpNodes -> HpNodes \union {Nil}] :
             Tree(m.g, q, w, m.root, A \union T) /\ Outside(g1, m.g, over, w, A \union T)
    BY <2>4, <2>6, <2>7, MeldMakesTree
  <2>9. Chain(m.g, q, w, after, R)
    <3>1. R \intersect (A \union T) = {}
      BY <1>1, <2>6
    <3> QED BY <2>6, <2>8, <3>1, ChainStays
  <2>10. Outside(g, m.g, up, w, C)
    <3>1. T \subseteq C /\ A \union T \subseteq C /\ C \subseteq C
      BY <1>1, <2>6
    <3>2. Outside(g, g1, up, over, C)
      BY <1>1, <2>6, <3>1, OutsideBoth
    <3> QED BY <2>8, <3>1, <3>2, OutsideBoth
  <2>11. R = {} \/ Cardinality(R) + (n + 1) <= Cardinality(HpNodes)
    <3>1. R \subseteq B /\ R # B
      BY <2>6
    <3> QED BY <1>1, <3>1, SmallerSet
  <2>12. C = (A \union T) \union R /\ (A \union T) \intersect R = {} /\ R \in SUBSET HpNodes /\ (A \union T) \in SUBSET HpNodes
    BY <1>1, <2>6
  <2>13. PICK t : t = ChainMelded(s, q) /\ t.g = m.g /\ t.root = m.root /\ t.chain = after
    BY <2>5
  <2>14. Tree(t.g, q, w, t.root, A \union T) /\ Chain(t.g, q, w, t.chain, R) /\ Outside(g, t.g, up, w, C)
    BY <2>8, <2>9, <2>10, <2>13
  <2>15. Chaining(t, n + 1, g, q, up, C)
    BY <2>11, <2>12, <2>14 DEF Chaining
  <2> QED BY <2>13, <2>15
<1> QED BY <1>2, <1>3

PairsRun(f, s, q, n) == f = [k \in 0..n |-> IF k = 0 THEN s ELSE PairMelded(f[k - 1], q)]

\* The first pass has a run, and keeps what a turn keeps.
LEMMA PairsRuns ==
  ASSUME NEW q, NEW s \in PairStates, NEW n \in Nat
  PROVE  \E f : PairsRun(f, s, q, n)
<1> DEFINE step == [r \in PairStates |-> PairMelded(r, q)]
<1>1. step \in [PairStates -> PairStates] /\ \A r \in PairStates : step[r] = PairMelded(r, q)
  BY PairTyped
<1> HIDE DEF step
<1>2. PICK f : LoopStates(PairStates, step, s, n, f)
  BY <1>1, LoopRuns
<1>3. f \in [0..n -> PairStates] /\ f[0] = s /\ \A k \in 1..n : f[k] = step[f[k - 1]]
  BY <1>2 DEF LoopStates
<1>4. \A k \in 0..n : f[k] = IF k = 0 THEN s ELSE PairMelded(f[k - 1], q)
  <2> TAKE k \in 0..n
  <2>1. k # 0 => k \in 1..n /\ k - 1 \in 0..n
    OBVIOUS
  <2> QED BY <1>1, <1>3, <2>1
<1>5. PairsRun(f, s, q, n)
  BY <1>3, <1>4 DEF PairsRun
<1> QED BY <1>5

\* What the first pass has established after each of its turns.
LEMMA PairsEnds ==
  ASSUME NEW g, NEW q \in [HpNodes -> Int], NEW up, NEW p, NEW C, NEW s \in PairStates, NEW n \in Nat,
         Pairing(s, 0, g, q, up, p, C), NEW f, PairsRun(f, s, q, n)
  PROVE  f[n] \in PairStates /\ Pairing(f[n], n, g, q, up, p, C)
<1> DEFINE P == {k \in Nat : k <= n => f[k] \in PairStates /\ Pairing(f[k], k, g, q, up, p, C)}
<1>1. \A k \in 0..n : f[k] = IF k = 0 THEN s ELSE PairMelded(f[k - 1], q)
  BY DEF PairsRun
<1>2. 0 \in P
  BY <1>1
<1>3. ASSUME NEW k \in P PROVE k + 1 \in P
  <2> SUFFICES ASSUME k + 1 <= n
               PROVE  f[k + 1] \in PairStates /\ Pairing(f[k + 1], k + 1, g, q, up, p, C)
    OBVIOUS
  <2>1. k \in Nat /\ k + 1 \in 0..n /\ (k + 1) - 1 = k /\ k <= n /\ k + 1 # 0
    OBVIOUS
  <2>2. f[k + 1] = PairMelded(f[k], q)
    BY <1>1, <2>1
  <2>3. PICK r \in PairStates : r = f[k] /\ Pairing(r, k, g, q, up, p, C)
    BY <2>1
  <2>4. PairMelded(r, q) \in PairStates /\ Pairing(PairMelded(r, q), k + 1, g, q, up, p, C)
    BY <2>1, <2>3, PairTyped, PairTurn
  <2> QED BY <2>2, <2>3, <2>4
<1>4. P = Nat
  <2>1. P \in SUBSET Nat
    OBVIOUS
  <2> HIDE DEF P
  <2> QED BY <1>2, <1>3, <2>1, AllNumbers
<1> QED BY <1>4

ChainsRun(f, s, q, n) == f = [k \in 0..n |-> IF k = 0 THEN s ELSE ChainMelded(f[k - 1], q)]

\* The second pass has a run, and keeps what a turn keeps.
LEMMA ChainsRuns ==
  ASSUME NEW q, NEW s \in ChainStates, NEW n \in Nat
  PROVE  \E f : ChainsRun(f, s, q, n)
<1> DEFINE step == [r \in ChainStates |-> ChainMelded(r, q)]
<1>1. step \in [ChainStates -> ChainStates] /\ \A r \in ChainStates : step[r] = ChainMelded(r, q)
  BY ChainTyped
<1> HIDE DEF step
<1>2. PICK f : LoopStates(ChainStates, step, s, n, f)
  BY <1>1, LoopRuns
<1>3. f \in [0..n -> ChainStates] /\ f[0] = s /\ \A k \in 1..n : f[k] = step[f[k - 1]]
  BY <1>2 DEF LoopStates
<1>4. \A k \in 0..n : f[k] = IF k = 0 THEN s ELSE ChainMelded(f[k - 1], q)
  <2> TAKE k \in 0..n
  <2>1. k # 0 => k \in 1..n /\ k - 1 \in 0..n
    OBVIOUS
  <2> QED BY <1>1, <1>3, <2>1
<1>5. ChainsRun(f, s, q, n)
  BY <1>3, <1>4 DEF ChainsRun
<1> QED BY <1>5

\* What the second pass has established after each of its turns.
LEMMA ChainsEnds ==
  ASSUME NEW g, NEW q \in [HpNodes -> Int], NEW up, NEW C, NEW s \in ChainStates, NEW n \in Nat,
         Chaining(s, 0, g, q, up, C), NEW f, ChainsRun(f, s, q, n)
  PROVE  f[n] \in ChainStates /\ Chaining(f[n], n, g, q, up, C)
<1> DEFINE P == {k \in Nat : k <= n => f[k] \in ChainStates /\ Chaining(f[k], k, g, q, up, C)}
<1>1. \A k \in 0..n : f[k] = IF k = 0 THEN s ELSE ChainMelded(f[k - 1], q)
  BY DEF ChainsRun
<1>2. 0 \in P
  BY <1>1
<1>3. ASSUME NEW k \in P PROVE k + 1 \in P
  <2> SUFFICES ASSUME k + 1 <= n
               PROVE  f[k + 1] \in ChainStates /\ Chaining(f[k + 1], k + 1, g, q, up, C)
    OBVIOUS
  <2>1. k \in Nat /\ k + 1 \in 0..n /\ (k + 1) - 1 = k /\ k <= n /\ k + 1 # 0
    OBVIOUS
  <2>2. f[k + 1] = ChainMelded(f[k], q)
    BY <1>1, <2>1
  <2>3. PICK r \in ChainStates : r = f[k] /\ Chaining(r, k, g, q, up, C)
    BY <2>1
  <2>4. ChainMelded(r, q) \in ChainStates /\ Chaining(ChainMelded(r, q), k + 1, g, q, up, C)
    BY <2>1, <2>3, ChainTyped, ChainTurn
  <2> QED BY <2>2, <2>3, <2>4
<1>4. P = Nat
  <2>1. P \in SUBSET Nat
    OBVIOUS
  <2> HIDE DEF P
  <2> QED BY <1>2, <1>3, <2>1, AllNumbers
<1> QED BY <1>4

\* The nodes of C make one tree in the links h, and no other is touched.
Regrown(g, h, q, up, root, C) ==
  /\ h \in Links /\ root \in HpNodes \union {Nil}
  /\ \E over \in [HpNodes -> HpNodes \union {Nil}] : Tree(h, q, over, root, C) /\ Outside(g, h, up, over, C)

\* With no turn left there is nothing left to do.
LEMMA NoTurnsLeft ==
  ASSUME NEW A \in SUBSET HpNodes, A = {} \/ Cardinality(A) + Cardinality(HpNodes) <= Cardinality(HpNodes)
  PROVE  A = {}
<1>1. IsFiniteSet(A) /\ IsFiniteSet(HpNodes)
  BY HpAssumption, FS_Subset
<1>2. Cardinality(A) \in Nat /\ Cardinality(HpNodes) \in Nat
  BY <1>1, FS_CardinalityType
<1>3. A # {} => Cardinality(A) # 0
  BY <1>1, FS_EmptySet
<1> QED BY <1>2, <1>3

\* The first pass leaves a chain of trees.
LEMMA PairsPass ==
  ASSUME NEW g \in Links, NEW q \in [HpNodes -> Int], NEW up \in [HpNodes -> HpNodes \union {Nil}], NEW p,
         NEW a \in HpNodes \union {Nil}, NEW C, Forest(g, q, up, p, a, C), NEW f,
         PairsRun(f, [g |-> g, curr |-> a, chain |-> Nil], q, Cardinality(HpNodes))
  PROVE  LET e == f[Cardinality(HpNodes)] IN
           e \in PairStates /\ \E over \in [HpNodes -> HpNodes \union {Nil}] :
                                 Chain(e.g, q, over, e.chain, C) /\ Outside(g, e.g, up, over, C)
<1>1. PICK n \in Nat : n = Cardinality(HpNodes)
  BY HpAssumption, FS_CardinalityType
<1>2. PICK s : s = [g |-> g, curr |-> a, chain |-> Nil]
  OBVIOUS
<1>3. s \in PairStates /\ s.g = g /\ s.curr = a /\ s.chain = Nil
  BY <1>2 DEF PairStates
<1>4. Pairing(s, 0, g, q, up, p, C)
  <2>1. C \in SUBSET HpNodes /\ {} \in SUBSET HpNodes /\ C = C \union {} /\ C \intersect {} = {}
    BY DEF Forest
  <2>2. Cardinality(C) + 0 <= Cardinality(HpNodes)
    <3>1. IsFiniteSet(C) /\ Cardinality(C) <= Cardinality(HpNodes)
      BY <2>1, HpAssumption, FS_Subset
    <3>2. Cardinality(C) \in Nat
      BY <3>1, FS_CardinalityType
    <3> QED BY <1>1, <3>1, <3>2
  <2>3. Forest(s.g, q, up, p, s.curr, C) /\ Chain(s.g, q, up, s.chain, {}) /\ Outside(g, s.g, up, up, C)
    BY <1>3, EmptyChain DEF Outside
  <2> QED BY <2>1, <2>2, <2>3 DEF Pairing
<1>5. f[n] \in PairStates /\ Pairing(f[n], n, g, q, up, p, C)
  BY <1>1, <1>2, <1>3, <1>4, PairsEnds
<1>6. PICK e \in PairStates : e = f[n]
  BY <1>5
<1>7. PICK over \in [HpNodes -> HpNodes \union {Nil}], A \in SUBSET HpNodes, B \in SUBSET HpNodes :
        /\ C = A \union B /\ A \intersect B = {}
        /\ Chain(e.g, q, over, e.chain, B)
        /\ Outside(g, e.g, up, over, C)
        /\ A = {} \/ Cardinality(A) + n <= Cardinality(HpNodes)
  BY <1>5, <1>6 DEF Pairing
<1>8. B = C
  BY <1>1, <1>7, NoTurnsLeft
<1>9. Chain(e.g, q, over, e.chain, C) /\ Outside(g, e.g, up, over, C)
  BY <1>7, <1>8
<1> QED BY <1>1, <1>6, <1>9

\* The second pass makes one tree of the chain.
LEMMA ChainsPass ==
  ASSUME NEW g \in Links, NEW q \in [HpNodes -> Int], NEW up \in [HpNodes -> HpNodes \union {Nil}],
         NEW c \in HpNodes \union {Nil}, NEW C, Chain(g, q, up, c, C), NEW f,
         ChainsRun(f, [g |-> g, root |-> Nil, chain |-> c], q, Cardinality(HpNodes))
  PROVE  LET e == f[Cardinality(HpNodes)] IN Regrown(g, e.g, q, up, e.root, C)
<1>1. PICK n \in Nat : n = Cardinality(HpNodes)
  BY HpAssumption, FS_CardinalityType
<1>2. PICK s : s = [g |-> g, root |-> Nil, chain |-> c]
  OBVIOUS
<1>3. s \in ChainStates /\ s.g = g /\ s.root = Nil /\ s.chain = c
  BY <1>2 DEF ChainStates
<1>4. Chaining(s, 0, g, q, up, C)
  <2>1. C \in SUBSET HpNodes /\ {} \in SUBSET HpNodes /\ C = {} \union C /\ {} \intersect C = {}
    BY DEF Chain, Forest
  <2>2. Cardinality(C) + 0 <= Cardinality(HpNodes)
    <3>1. IsFiniteSet(C) /\ Cardinality(C) <= Cardinality(HpNodes)
      BY <2>1, HpAssumption, FS_Subset
    <3>2. Cardinality(C) \in Nat
      BY <3>1, FS_CardinalityType
    <3> QED BY <1>1, <3>1, <3>2
  <2>3. Tree(s.g, q, up, s.root, {}) /\ Chain(s.g, q, up, s.chain, C) /\ Outside(g, s.g, up, up, C)
    BY <1>3, EmptyForest DEF Outside, Tree
  <2> QED BY <2>1, <2>2, <2>3 DEF Chaining
<1>5. f[n] \in ChainStates /\ Chaining(f[n], n, g, q, up, C)
  BY <1>1, <1>2, <1>3, <1>4, ChainsEnds
<1>6. PICK e \in ChainStates : e = f[n]
  BY <1>5
<1>7. PICK over \in [HpNodes -> HpNodes \union {Nil}], A \in SUBSET HpNodes, B \in SUBSET HpNodes :
        /\ C = A \union B /\ A \intersect B = {}
        /\ Tree(e.g, q, over, e.root, A)
        /\ Outside(g, e.g, up, over, C)
        /\ B = {} \/ Cardinality(B) + n <= Cardinality(HpNodes)
  BY <1>5, <1>6 DEF Chaining
<1>8. A = C
  BY <1>1, <1>7, NoTurnsLeft
<1>9. Tree(e.g, q, over, e.root, C) /\ Outside(g, e.g, up, over, C) /\ e.g \in Links /\ e.root \in HpNodes \union {Nil}
  BY <1>7, <1>8 DEF ChainStates
<1>10. Regrown(g, e.g, q, up, e.root, C)
  BY <1>9 DEF Regrown
<1> QED BY <1>1, <1>6, <1>10

\* What is grown anew from what was changed only in C.
LEMMA RegrownBoth ==
  ASSUME NEW g, NEW h, NEW i, NEW q, NEW up, NEW over, NEW root, NEW C, NEW D, D \subseteq C,
         Outside(g, h, up, over, D), Regrown(h, i, q, over, root, C)
  PROVE  Regrown(g, i, q, up, root, C)
<1>1. PICK w \in [HpNodes -> HpNodes \union {Nil}] : Tree(i, q, w, root, C) /\ Outside(h, i, over, w, C)
  BY DEF Regrown
<1>2. Outside(g, i, up, w, C)
  BY <1>1, OutsideBoth
<1> QED BY <1>1, <1>2 DEF Regrown

\* Both passes make one tree of the nodes below one that is taken away (heap.c:27-66).
LEMMA MergedPairs ==
  ASSUME NEW g \in Links, NEW q \in [HpNodes -> Int], NEW up \in [HpNodes -> HpNodes \union {Nil}], NEW p,
         NEW a \in HpNodes \union {Nil}, NEW C, Forest(g, q, up, p, a, C)
  PROVE  LET m == MergePairs(g, q, a) IN Regrown(g, m.g, q, up, m.root, C)
<1> DEFINE last == Cardinality(HpNodes)
           IsPairs(f) == f = [k \in 0..last |-> IF k = 0 THEN [g |-> g, curr |-> a, chain |-> Nil]
                                                ELSE PairMelded(f[k - 1], q)]
           pairs == CHOOSE f : IsPairs(f)
           IsChain(f) == f = [k \in 0..last |-> IF k = 0 THEN [g |-> pairs[last].g, root |-> Nil, chain |-> pairs[last].chain]
                                                ELSE ChainMelded(f[k - 1], q)]
           chain == CHOOSE f : IsChain(f)
<1>0. last \in Nat
  BY HpAssumption, FS_CardinalityType
<1>1. MergePairs(g, q, a) = [g |-> chain[last].g, root |-> chain[last].root]
  BY DEF MergePairs
<1>2. IsPairs(pairs)
  <2>1. [g |-> g, curr |-> a, chain |-> Nil] \in PairStates
    BY DEF PairStates
  <2>2. \E f : IsPairs(f)
    BY <1>0, <2>1, PairsRuns, ZenonT(60) DEF PairsRun
  <2> HIDE DEF IsPairs
  <2> QED BY <2>2
<1>3. PairsRun(pairs, [g |-> g, curr |-> a, chain |-> Nil], q, last)
  <2> HIDE DEF pairs
  <2> QED BY <1>2 DEF PairsRun
<1> HIDE DEF pairs
<1>4. PICK e \in PairStates : e = pairs[last]
  BY <1>3, PairsPass
<1>5. PICK h \in Links, c \in HpNodes \union {Nil} : h = e.g /\ c = e.chain
  BY DEF PairStates
<1>6. PICK over \in [HpNodes -> HpNodes \union {Nil}] : Chain(h, q, over, c, C) /\ Outside(g, h, up, over, C)
  BY <1>3, <1>4, <1>5, PairsPass
<1>7. IsChain(chain)
  <2>1. [g |-> h, root |-> Nil, chain |-> c] \in ChainStates
    BY DEF ChainStates
  <2>2. \E f : ChainsRun(f, [g |-> h, root |-> Nil, chain |-> c], q, last)
    BY <1>0, <2>1, ChainsRuns
  <2>3. \E f : IsChain(f)
    BY <1>4, <1>5, <2>2 DEF ChainsRun
  <2> HIDE DEF IsChain
  <2> QED BY <2>3
<1>8. ChainsRun(chain, [g |-> h, root |-> Nil, chain |-> c], q, last)
  <2> HIDE DEF chain
  <2> QED BY <1>4, <1>5, <1>7 DEF ChainsRun
<1> HIDE DEF chain
<1>9. Regrown(h, chain[last].g, q, over, chain[last].root, C)
  BY <1>6, <1>8, ChainsPass
<1>10. Regrown(g, chain[last].g, q, up, chain[last].root, C)
  BY <1>6, <1>9, RegrownBoth
<1> QED BY <1>1, <1>10

-----------------------------------------------------------------------------
(* One operation on a heap. *)

\* The links h, with the keys w, have the nodes of C in one tree; only V is touched.
Changed(g, h, w, up, root, C, V) ==
  /\ h \in Links /\ root \in HpNodes \union {Nil}
  /\ \E over \in [HpNodes -> HpNodes \union {Nil}] : Tree(h, w, over, root, C) /\ Outside(g, h, up, over, V)

\* The links of n are forgotten.
ForgottenAt(g, h, n) ==
  \A k \in HpNodes : /\ h.child[k] = IF k = n THEN Nil ELSE g.child[k]
                     /\ h.left[k] = IF k = n THEN Nil ELSE g.left[k]
                     /\ h.right[k] = IF k = n THEN Nil ELSE g.right[k]

\* A detached node has no link left, and no other link changes.
LEMMA DetachedIs ==
  ASSUME NEW g \in Links, NEW n \in HpNodes
  PROVE  Detached(g, n) \in Links /\ ForgottenAt(g, Detached(g, n), n)
<1> DEFINE h == Detached(g, n)
<1>1. DOMAIN g = {"child", "left", "right"} /\ \A f \in {"child", "left", "right"} : g[f] \in [HpNodes -> HpNodes \union {Nil}]
  BY DEF Links
<1>2. h = [f \in {"child", "left", "right"} |-> [g[f] EXCEPT ![n] = Nil]]
  BY <1>1 DEF Detached
<1>3. \A f \in {"child", "left", "right"} : /\ h[f] \in [HpNodes -> HpNodes \union {Nil}]
                                            /\ \A k \in HpNodes : h[f][k] = IF k = n THEN Nil ELSE g[f][k]
  BY <1>1, <1>2
<1>4. h \in Links
  BY <1>2, <1>3 DEF Links
<1> HIDE DEF h
<1>5. ForgottenAt(g, h, n)
  BY <1>3 DEF ForgottenAt
<1> QED BY <1>4, <1>5 DEF h

\* A node by itself is a tree.
LEMMA OneNodeTree ==
  ASSUME NEW g, NEW q, NEW up, NEW n \in HpNodes, g.child[n] = Nil, g.left[n] = Nil, g.right[n] = Nil, up[n] = Nil
  PROVE  Tree(g, q, up, n, {n})
<1>1. Forest(g, q, up, n, g.child[n], {}) /\ Forest(g, q, up, Nil, g.right[n], {}) /\ n # Nil
  BY EmptyForest, HpAssumption
<1>2. {} \intersect {} = {} /\ n \notin {} /\ Nil \notin {} /\ {n} \union {} \union {} = {n}
  OBVIOUS
<1>3. Forest(g, q, up, Nil, n, {n} \union {} \union {})
  BY <1>1, <1>2, ForestMade
<1> QED BY <1>2, <1>3 DEF Tree

\* The same of a heap that an operation leaves.
Became(g, w, up, i, C, V, size) == Changed(g, i.g, w, up, i.root, C, V) /\ i.size = size

\* ct_heap_insert.
LEMMA InsertedOne ==
  ASSUME NEW g \in Links, NEW q \in [HpNodes -> Int], NEW up \in [HpNodes -> HpNodes \union {Nil}], NEW root \in HpNodes \union {Nil},
         NEW S, Tree(g, q, up, root, S), NEW n \in HpNodes, n \notin S, NEW C, C = S \union {n},
         NEW s, s.g = g, s.root = root
  PROVE  Became(g, q, up, Inserted(s, q, n), C, C, s.size + 1)
<1>1. PICK h \in Links : h = Detached(g, n) /\ ForgottenAt(g, h, n)
  BY DetachedIs
<1>2. PICK over \in [HpNodes -> HpNodes \union {Nil}] : over = [up EXCEPT ![n] = Nil]
  OBVIOUS
<1>3. PICK m : m = Meld(h, q, root, n)
  OBVIOUS
<1>4. Outside(g, h, up, over, {n})
  BY <1>1, <1>2 DEF ForgottenAt, Outside
<1>5. Tree(h, q, over, root, S) /\ S \intersect {n} = {}
  BY <1>4, TreeStays
<1>6. Tree(h, q, over, n, {n})
  BY <1>1, <1>2, OneNodeTree DEF ForgottenAt
<1>7. PICK w \in [HpNodes -> HpNodes \union {Nil}] :
        Tree(m.g, q, w, m.root, S \union {n}) /\ Outside(h, m.g, over, w, S \union {n})
  BY <1>3, <1>5, <1>6, MeldMakesTree
<1>8. m.g \in Links /\ m.root \in HpNodes \union {Nil}
  BY <1>3, MeldTyped
<1>9. Outside(g, m.g, up, w, S \union {n})
  <2>1. {n} \subseteq S \union {n} /\ S \union {n} \subseteq S \union {n}
    OBVIOUS
  <2> QED BY <1>4, <1>7, <2>1, OutsideBoth
<1>10. Changed(g, m.g, q, up, m.root, S \union {n}, S \union {n})
  BY <1>7, <1>8, <1>9 DEF Changed
<1>11. Inserted(s, q, n) = [g |-> m.g, root |-> m.root, size |-> s.size + 1]
  BY <1>1, <1>3 DEF Inserted
<1> QED BY <1>10, <1>11 DEF Became

\* No key but that of n differs.
KeyChanged(q, w, n) == \A k \in HpNodes : k # n => w[k] = q[k]

\* ct_heap_pop, and the removal of the root, whose key alone may have changed.
LEMMA PoppedOne ==
  ASSUME NEW g \in Links, NEW q, NEW w \in [HpNodes -> Int], NEW up \in [HpNodes -> HpNodes \union {Nil}], NEW root \in HpNodes,
         NEW S, Tree(g, q, up, root, S), KeyChanged(q, w, root), NEW D, D = S \ {root},
         NEW s, s.g = g, s.root = root
  PROVE  Became(g, w, up, Popped(s, w), D, S, s.size - 1)
<1>1. PICK C : /\ S = {root} \union C /\ root \notin C /\ C \subseteq HpNodes
               /\ Forest(g, q, up, root, g.child[root], C)
  BY TreeParts, HpAssumption
<1>2. PICK c \in HpNodes \union {Nil} : c = g.child[root] /\ c \in C \union {Nil}
  BY <1>1, LinkTypes, ForestNodes
<1>3. PICK h \in Links : h = SetLink(g, "left", c, Nil) /\ LeftAt(g, h, c, Nil)
  BY LeftSet
<1>4. Forest(h, w, up, root, c, C)
  <2>1. Alike(g, h, q, w, up, up, c, C)
    BY <1>1, <1>3 DEF Alike, LeftAt, KeyChanged
  <2> QED BY <1>1, <1>2, <2>1, ForestStays
<1>5. Outside(g, h, up, up, S)
  BY <1>1, <1>2, <1>3, HpAssumption DEF Outside, LeftAt
<1>6. PICK m : m = MergePairs(h, w, c)
  OBVIOUS
<1>7. Regrown(h, m.g, w, up, m.root, C)
  BY <1>4, <1>6, MergedPairs
<1>8. PICK over \in [HpNodes -> HpNodes \union {Nil}], mg \in Links :
        mg = m.g /\ m.root \in HpNodes \union {Nil} /\ Tree(mg, w, over, m.root, C) /\ Outside(h, mg, up, over, C)
  BY <1>7 DEF Regrown
<1>9. PICK i \in Links : i = Detached(mg, root) /\ ForgottenAt(mg, i, root)
  BY DetachedIs
<1>10. Outside(mg, i, over, over, {root})
  BY <1>9 DEF ForgottenAt, Outside
<1>11. Tree(i, w, over, m.root, C)
  <2>1. C \intersect {root} = {}
    BY <1>1
  <2> QED BY <1>8, <1>10, <2>1, TreeStays
<1>12. Outside(g, i, up, over, S)
  <2>1. C \subseteq S /\ {root} \subseteq S /\ S \subseteq S
    BY <1>1
  <2>2. Outside(g, mg, up, over, S)
    BY <1>5, <1>8, <2>1, OutsideBoth
  <2> QED BY <1>10, <2>1, <2>2, OutsideBoth
<1>13. C = S \ {root}
  BY <1>1
<1>14. Changed(g, i, w, up, m.root, S \ {root}, S)
  BY <1>8, <1>11, <1>12, <1>13 DEF Changed
<1>15. Popped(s, w) = [g |-> i, root |-> m.root, size |-> s.size - 1]
  BY <1>2, <1>3, <1>6, <1>8, <1>9 DEF Popped
<1> QED BY <1>14, <1>15 DEF Became

\* The links around n, which is not the first of its forest, are led past it, and those of
\* n and its first child forgotten (heap.c:105-117).
LedPast(g, n) ==
  LET g1 == SetLink(g, "left", g.right[n], g.left[n])
      g2 == IF g1.child[g1.left[n]] = n THEN SetLink(g1, "child", g1.left[n], g1.right[n])
            ELSE SetLink(g1, "right", g1.left[n], g1.right[n])
  IN Detached(SetLink(g2, "left", g.child[n], Nil), n)

\* Leading the links past a node changes the links around it and no other.
LEMMA LinksLedPast ==
  ASSUME NEW g \in Links, NEW q, NEW up, NEW p, NEW a, NEW S, Forest(g, q, up, p, a, S), NEW n \in S, n # a
  PROVE  LET h == LedPast(g, n)   C == Under(g, S, g.child[n]) IN
           /\ h \in Links /\ PassesBy(g, h, n, S) /\ Outside(g, h, up, up, S)
           /\ \A k \in C : /\ h.child[k] = g.child[k] /\ h.right[k] = g.right[k]
                           /\ k # g.child[n] => h.left[k] = g.left[k]
<1> DEFINE C == Under(g, S, g.child[n])
<1>0. S \subseteq HpNodes /\ Nil \notin S /\ n \in HpNodes /\ n # Nil
  BY ForestNodes
<1>1. PICK m \in S : m = g.left[n] /\ m \notin C /\ m # n /\ m \in HpNodes /\ m # Nil
  BY <1>0, NodeInside
<1>2. PICK r \in S \union {Nil} : r = g.right[n] /\ r \notin C /\ r # n /\ r \in HpNodes \union {Nil}
  BY <1>0, NodeInside
<1>3. PICK c \in S \union {Nil} : c = g.child[n] /\ c \in HpNodes \union {Nil} /\ c # n
  <2>1. g.child[n] \in S \union {Nil}
    BY DEF Forest, Enclosed
  <2>2. g.child[n] \in C \union {Nil} /\ n \notin C
    BY BelowIsForest, ForestNodes
  <2> QED BY <1>0, <2>1, <2>2
<1>4. C \subseteq S /\ n \notin C
  BY BelowIsForest
<1> HIDE DEF C
<1>5. PICK g1 \in Links : g1 = SetLink(g, "left", r, m) /\ LeftAt(g, g1, r, m)
  BY <1>1, <1>2, LeftSet
<1>6. g1.left[n] = m /\ g1.right[n] = r /\ g1.child[m] = g.child[m]
  BY <1>0, <1>1, <1>2, <1>5 DEF LeftAt
<1>7. PICK g2 \in Links :
        /\ g2 = IF g1.child[g1.left[n]] = n THEN SetLink(g1, "child", g1.left[n], g1.right[n])
                ELSE SetLink(g1, "right", g1.left[n], g1.right[n])
        /\ \A k \in HpNodes : /\ g2.child[k] = IF k = m /\ g.child[m] = n THEN r ELSE g1.child[k]
                              /\ g2.right[k] = IF k = m /\ g.child[m] # n THEN r ELSE g1.right[k]
                              /\ g2.left[k] = g1.left[k]
  <2>1. CASE g.child[m] = n
    <3>1. PICK g2 \in Links : g2 = SetLink(g1, "child", m, r) /\ ChildAt(g1, g2, m, r)
      BY <1>1, <1>2, ChildSet
    <3> QED BY <1>6, <2>1, <3>1 DEF ChildAt
  <2>2. CASE g.child[m] # n
    <3>1. PICK g2 \in Links : g2 = SetLink(g1, "right", m, r) /\ RightAt(g1, g2, m, r)
      BY <1>1, <1>2, RightSet
    <3> QED BY <1>6, <2>2, <3>1 DEF RightAt
  <2> QED BY <2>1, <2>2
<1>8. PICK g3 \in Links : g3 = SetLink(g2, "left", c, Nil) /\ LeftAt(g2, g3, c, Nil)
  BY <1>3, LeftSet
<1>9. PICK h \in Links : h = Detached(g3, n) /\ ForgottenAt(g3, h, n)
  BY <1>0, DetachedIs
<1>10. h = LedPast(g, n)
  BY <1>1, <1>2, <1>3, <1>5, <1>7, <1>8, <1>9, ZenonT(30) DEF LedPast
<1>11. \A k \in HpNodes : k # n =>
         /\ h.child[k] = IF k = m /\ g.child[m] = n THEN r ELSE g.child[k]
         /\ h.right[k] = IF k = m /\ g.child[m] # n THEN r ELSE g.right[k]
         /\ h.left[k] = IF k = c THEN Nil ELSE IF k = r THEN m ELSE g.left[k]
  <2>1. \A k \in HpNodes : k # n => /\ h.child[k] = g3.child[k]
                                    /\ h.right[k] = g3.right[k]
                                    /\ h.left[k] = g3.left[k]
    BY <1>9, SMTT(60) DEF ForgottenAt
  <2>2. \A k \in HpNodes : /\ g3.child[k] = g2.child[k]
                           /\ g3.right[k] = g2.right[k]
                           /\ g3.left[k] = IF k = c THEN Nil ELSE g1.left[k]
    BY <1>7, <1>8 DEF LeftAt
  <2>3. \A k \in HpNodes : /\ g1.child[k] = g.child[k]
                           /\ g1.right[k] = g.right[k]
                           /\ g1.left[k] = IF k = r THEN m ELSE g.left[k]
    BY <1>5 DEF LeftAt
  <2>4. ASSUME NEW k \in HpNodes, k # n
        PROVE  h.child[k] = IF k = m /\ g.child[m] = n THEN r ELSE g.child[k]
    BY <1>7, <2>1, <2>2, <2>3, <2>4
  <2>5. ASSUME NEW k \in HpNodes, k # n
        PROVE  h.right[k] = IF k = m /\ g.child[m] # n THEN r ELSE g.right[k]
    BY <1>7, <2>1, <2>2, <2>3, <2>5
  <2>6. ASSUME NEW k \in HpNodes, k # n
        PROVE  h.left[k] = IF k = c THEN Nil ELSE IF k = r THEN m ELSE g.left[k]
    BY <2>1, <2>2, <2>3, <2>6
  <2> QED BY <2>4, <2>5, <2>6
<1>12. PassesBy(g, h, n, S)
  <2>1. \A k \in S \ {n} : h.child[k] = IF k = m /\ g.child[m] = n THEN r ELSE g.child[k]
    BY <1>0, <1>11
  <2>2. \A k \in S \ {n} : h.right[k] = IF k = m /\ g.child[m] # n THEN r ELSE g.right[k]
    BY <1>0, <1>11
  <2>3. \A k \in S \ {n} : k # c => h.left[k] = IF k = r THEN m ELSE g.left[k]
    BY <1>0, <1>11
  <2> QED BY <1>1, <1>2, <1>3, <2>1, <2>2, <2>3 DEF PassesBy
<1>13. Outside(g, h, up, up, S)
  <2> SUFFICES ASSUME NEW k \in HpNodes \ S
               PROVE  h.child[k] = g.child[k] /\ h.left[k] = g.left[k] /\ h.right[k] = g.right[k]
    BY DEF Outside
  <2>1. k # n /\ k # m /\ k # r /\ k # c
    BY HpAssumption
  <2> QED BY <1>11, <2>1
<1>14. \A k \in C : /\ h.child[k] = g.child[k] /\ h.right[k] = g.right[k]
                    /\ k # c => h.left[k] = g.left[k]
  BY <1>0, <1>1, <1>2, <1>4, <1>11
<1> QED BY <1>3, <1>10, <1>12, <1>13, <1>14 DEF C

\* ct_heap_remove; the key of the node that is removed may have changed.
LEMMA RemovedOne ==
  ASSUME NEW g \in Links, NEW q, NEW w \in [HpNodes -> Int], NEW up \in [HpNodes -> HpNodes \union {Nil}], NEW root \in HpNodes,
         NEW S, Tree(g, q, up, root, S), NEW n \in S, KeyChanged(q, w, n), NEW E, E = S \ {n},
         NEW s, s.g = g, s.root = root
  PROVE  Became(g, w, up, Removed(s, w, n), E, S, s.size - 1)
<1>1. CASE n = root
  <2>1. Removed(s, w, n) = Popped(s, w)
    BY <1>1 DEF Removed
  <2>2. KeyChanged(q, w, root) /\ E = S \ {root}
    BY <1>1
  <2>3. Became(g, w, up, Popped(s, w), E, S, s.size - 1)
    BY <2>2, PoppedOne
  <2> QED BY <2>1, <2>3
<1>2. CASE n # root
  <2>0. Forest(g, q, up, Nil, root, S) /\ S \subseteq HpNodes /\ Nil \notin S /\ n \in HpNodes /\ root \in S
    BY ForestNodes, HpAssumption DEF Tree
  <2> DEFINE C == Under(g, S, g.child[n])
             D == S \ ({n} \union C)
  <2>1. C \subseteq S /\ n \notin C /\ root \notin C /\ Forest(g, q, up, n, g.child[n], C)
    BY <2>0, BelowIsForest
  <2>2. PICK c \in HpNodes \union {Nil} : c = g.child[n] /\ c \in C \union {Nil}
    BY <2>0, <2>1, LinkTypes, ForestNodes
  <2>3. PICK h \in Links : h = LedPast(g, n) /\ PassesBy(g, h, n, S) /\ Outside(g, h, up, up, S)
    BY <1>2, <2>0, LinksLedPast
  <2>4. \A k \in C : /\ h.child[k] = g.child[k] /\ h.right[k] = g.right[k]
                     /\ k # c => h.left[k] = g.left[k]
    BY <1>2, <2>0, <2>2, <2>3, LinksLedPast
  <2>5. Forest(h, q, up, Nil, root, D)
    BY <1>2, <2>0, <2>3, NodeTakenOut
  <2> HIDE DEF C
  <2>6. root \in D /\ C \intersect D = {} /\ D \union C = S \ {n} /\ D \subseteq S /\ n \notin D /\ D \subseteq HpNodes
    BY <1>2, <2>0, <2>1
  <2> HIDE DEF D
  <2>7. Tree(h, w, up, root, D)
    <3>1. Alike(h, h, q, w, up, up, root, D)
      BY <2>6 DEF Alike, KeyChanged
    <3>2. Forest(h, w, up, Nil, root, D)
      BY <2>5, <3>1, ForestStays
    <3>3. g.child[n] # root /\ g.right[n] # root
      BY <2>0, HpAssumption DEF Forest
    <3>4. g.right[root] = Nil /\ g.left[root] = Nil /\ root # Nil
      BY HpAssumption DEF Tree
    <3>5. g.child[g.left[n]] = n \/ g.right[g.left[n]] = n
      BY <1>2, <2>0, NodeInside
    <3>6. h.right[root] = Nil
      BY <1>2, <2>0, <2>3, <3>4, <3>5 DEF PassesBy
    <3>7. h.left[root] = Nil
      BY <1>2, <2>0, <2>3, <3>3, <3>4 DEF PassesBy
    <3> QED BY <3>2, <3>6, <3>7 DEF Tree
  <2>8. Forest(h, w, up, n, c, C)
    <3>1. Alike(g, h, q, w, up, up, c, C)
      BY <2>0, <2>1, <2>4 DEF Alike, KeyChanged
    <3> QED BY <2>1, <2>2, <3>1, ForestStays
  <2>9. PICK sub : sub = MergePairs(h, w, c)
    OBVIOUS
  <2>10. Regrown(h, sub.g, w, up, sub.root, C)
    BY <2>8, <2>9, MergedPairs
  <2>11. PICK over \in [HpNodes -> HpNodes \union {Nil}], sg \in Links, sr \in HpNodes \union {Nil} :
           sg = sub.g /\ sr = sub.root /\ Tree(sg, w, over, sr, C) /\ Outside(h, sg, up, over, C)
    BY <2>10 DEF Regrown
  <2>12. Tree(sg, w, over, root, D) /\ D \intersect C = {}
    <3>1. D \intersect C = {}
      BY <2>6
    <3> QED BY <2>7, <2>11, <3>1, TreeStays
  <2>13. PICK m : m = Meld(sg, w, root, sr)
    OBVIOUS
  <2>14. PICK z \in [HpNodes -> HpNodes \union {Nil}] :
           Tree(m.g, w, z, m.root, D \union C) /\ Outside(sg, m.g, over, z, D \union C)
    BY <2>11, <2>12, <2>13, MeldMakesTree
  <2>15. m.g \in Links /\ m.root \in HpNodes \union {Nil}
    BY <2>11, <2>13, MeldTyped
  <2>16. Outside(g, m.g, up, z, S)
    <3>1. C \subseteq S /\ D \union C \subseteq S /\ S \subseteq S
      BY <2>1, <2>6
    <3>2. Outside(g, sg, up, over, S)
      BY <2>3, <2>11, <3>1, OutsideBoth
    <3> QED BY <2>14, <3>1, <3>2, OutsideBoth
  <2>17. Changed(g, m.g, w, up, m.root, S \ {n}, S)
    BY <2>6, <2>14, <2>15, <2>16 DEF Changed
  <2>18. Removed(s, w, n) = [g |-> m.g, root |-> m.root, size |-> s.size - 1]
    BY <1>2, <2>2, <2>3, <2>9, <2>11, <2>13, ZenonT(120) DEF Removed, LedPast
  <2> QED BY <2>17, <2>18 DEF Became
<1> QED BY <1>1, <1>2

\* ct_heap_update: the node is removed and inserted with its new key.
LEMMA UpdatedOne ==
  ASSUME NEW g \in Links, NEW q, NEW w \in [HpNodes -> Int], NEW up \in [HpNodes -> HpNodes \union {Nil}], NEW root \in HpNodes,
         NEW S, Tree(g, q, up, root, S), NEW n \in S, KeyChanged(q, w, n),
         NEW s, s.g = g, s.root = root, s.size \in Int
  PROVE  Became(g, w, up, Inserted(Removed(s, w, n), w, n), S, S, s.size)
<1>0. S \subseteq HpNodes /\ n \in HpNodes
  BY ForestNodes DEF Tree
<1>1. PICK r : r = Removed(s, w, n)
  OBVIOUS
<1>2. PICK E : E = S \ {n}
  OBVIOUS
<1>3. Became(g, w, up, r, E, S, s.size - 1)
  BY <1>1, <1>2, RemovedOne
<1>4. PICK over \in [HpNodes -> HpNodes \union {Nil}], h \in Links, a \in HpNodes \union {Nil} :
        h = r.g /\ a = r.root /\ Tree(h, w, over, a, E) /\ Outside(g, h, up, over, S) /\ r.size = s.size - 1
  BY <1>3 DEF Became, Changed
<1>5. S = E \union {n} /\ n \notin E
  BY <1>2
<1>6. PICK i : i = Inserted(r, w, n)
  OBVIOUS
<1>7. Became(h, w, over, i, S, S, r.size + 1)
  BY <1>0, <1>4, <1>5, <1>6, InsertedOne
<1>8. PICK z \in [HpNodes -> HpNodes \union {Nil}] :
        i.g \in Links /\ i.root \in HpNodes \union {Nil} /\ Tree(i.g, w, z, i.root, S) /\ Outside(h, i.g, over, z, S)
  BY <1>7 DEF Became, Changed
<1>9. Outside(g, i.g, up, z, S)
  BY <1>4, <1>8, OutsideBoth
<1>10. Changed(g, i.g, w, up, i.root, S, S)
  BY <1>8, <1>9 DEF Changed
<1>11. i.size = s.size
  BY <1>4, <1>7 DEF Became
<1> QED BY <1>1, <1>6, <1>10, <1>11 DEF Became

-----------------------------------------------------------------------------
(* The heaps, side by side. *)

HeapTypes ==
  /\ hp \in Links /\ hpPrio \in [HpNodes -> HpPrios]
  /\ hpRoot \in [Heaps -> HpNodes \union {Nil}] /\ hpSize \in [Heaps -> Int]
  /\ hpIn \in [HpNodes -> Heaps \union {Nil}]

\* The nodes of each heap.
NodesIn(in, h) == {n \in HpNodes : in[n] = h}

\* The heaps are trees of their nodes: only parents have to be found for them.
AllTrees(g, q, up, roots, in) == \A h \in Heaps : Tree(g, q, up, roots[h], NodesIn(in, h))
HeapTrees == \E up \in [HpNodes -> HpNodes \union {Nil}] : AllTrees(hp, hpPrio, up, hpRoot, hpIn)

HeapSizes == \A h \in Heaps : hpSize[h] = Cardinality(NodesIn(hpIn, h))

\* The inductive invariant.
HpInv == HeapTypes /\ HeapTrees /\ HeapSizes

\* Of what stays in another heap neither the place nor the key changes.
Spared(q, w, in, to, e, V) ==
  /\ \A n \in HpNodes : in[n] # to[n] => in[n] \in {e, Nil} /\ to[n] \in {e, Nil}
  /\ \A n \in HpNodes : n \in V \/ w[n] # q[n] => in[n] \in {e, Nil}

\* One heap is changed, and the others stay trees.
LEMMA OneHeapChanges ==
  ASSUME NEW g, NEW i, NEW q, NEW w, NEW up, NEW roots \in [Heaps -> HpNodes \union {Nil}], NEW in, NEW to, NEW e \in Heaps,
         NEW root, NEW V, AllTrees(g, q, up, roots, in), Spared(q, w, in, to, e, V),
         Changed(g, i, w, up, root, NodesIn(to, e), V)
  PROVE  \E over \in [HpNodes -> HpNodes \union {Nil}] : AllTrees(i, w, over, [roots EXCEPT ![e] = root], to)
<1>1. PICK over \in [HpNodes -> HpNodes \union {Nil}] :
        Tree(i, w, over, root, NodesIn(to, e)) /\ Outside(g, i, up, over, V)
  BY DEF Changed
<1>2. ASSUME NEW f \in Heaps, f # e
      PROVE  Tree(i, w, over, roots[f], NodesIn(to, f))
  <2>1. Tree(g, q, up, roots[f], NodesIn(in, f))
    BY DEF AllTrees
  <2>2. f # Nil
    BY HpAssumption
  <2>3. NodesIn(to, f) = NodesIn(in, f)
    BY <1>2, <2>2 DEF Spared, NodesIn
  <2>4. NodesIn(in, f) \intersect V = {} /\ \A n \in NodesIn(in, f) : w[n] = q[n]
    BY <1>2, <2>2 DEF Spared, NodesIn
  <2> DEFINE F == NodesIn(in, f)
  <2>5. Tree(i, q, over, roots[f], F)
    BY <1>1, <2>1, <2>4, TreeStays
  <2>6. Alike(i, i, q, w, over, over, roots[f], F)
    BY <2>4 DEF Alike
  <2>7. Tree(i, w, over, roots[f], F)
    BY <2>5, <2>6, ForestStays DEF Tree
  <2> QED BY <2>3, <2>7
<1>3. ASSUME NEW f \in Heaps
      PROVE  Tree(i, w, over, [roots EXCEPT ![e] = root][f], NodesIn(to, f))
  <2>1. [roots EXCEPT ![e] = root][f] = IF f = e THEN root ELSE roots[f]
    OBVIOUS
  <2> QED BY <1>1, <1>2, <2>1
<1>4. AllTrees(i, w, over, [roots EXCEPT ![e] = root], to)
  BY <1>3 DEF AllTrees
<1> QED BY <1>4

\* A heap is finite.
LEMMA HeldFinite ==
  ASSUME NEW in, NEW h
  PROVE  IsFiniteSet(NodesIn(in, h)) /\ Cardinality(NodesIn(in, h)) \in Nat /\ NodesIn(in, h) \subseteq HpNodes
<1>1. NodesIn(in, h) \subseteq HpNodes
  BY DEF NodesIn
<1> QED BY <1>1, HpAssumption, FS_Subset, FS_CardinalityType

\* Keys are numbers.
LEMMA KeysAreNumbers ==
  ASSUME NEW q \in [HpNodes -> HpPrios]
  PROVE  q \in [HpNodes -> Int]
BY HpAssumption

\* An operation on one heap that keeps its tree and counts its nodes keeps the invariant.
LEMMA HeapStep ==
  ASSUME HpInv, NEW e \in Heaps, NEW s, NEW V, HeapBecomes(e, s), hpPrio' \in [HpNodes -> HpPrios],
         hpIn' \in [HpNodes -> Heaps \union {Nil}], Spared(hpPrio, hpPrio', hpIn, hpIn', e, V),
         NEW n \in Int, n = Cardinality(NodesIn(hpIn', e)),
         NEW up, AllTrees(hp, hpPrio, up, hpRoot, hpIn), Became(hp, hpPrio', up, s, NodesIn(hpIn', e), V, n)
  PROVE  HpInv'
<1>1. /\ hp' = s.g /\ hpRoot' = [hpRoot EXCEPT ![e] = s.root] /\ hpSize' = [hpSize EXCEPT ![e] = n]
      /\ Changed(hp, hp', hpPrio', up, s.root, NodesIn(hpIn', e), V)
  BY DEF HeapBecomes, Became
<1>2. HeapTypes'
  BY <1>1 DEF HpInv, HeapTypes, Changed
<1>3. \E over \in [HpNodes -> HpNodes \union {Nil}] : AllTrees(hp', hpPrio', over, hpRoot', hpIn')
  BY <1>1, OneHeapChanges DEF HpInv, HeapTypes
<1>4. ASSUME NEW h \in Heaps
      PROVE  hpSize'[h] = Cardinality(NodesIn(hpIn', h))
  <2>1. CASE h = e
    BY <1>1, <2>1 DEF HpInv, HeapTypes
  <2>2. CASE h # e
    <3>1. NodesIn(hpIn', h) = NodesIn(hpIn, h)
      BY <2>2, HpAssumption DEF Spared, NodesIn
    <3> QED BY <1>1, <2>2, <3>1 DEF HpInv, HeapTypes, HeapSizes
  <2> QED BY <2>1, <2>2
<1> QED BY <1>2, <1>3, <1>4 DEF HpInv, HeapTrees, HeapSizes

\* HpInit sets it up: all heaps are empty.
LEMMA HpInitInv ==
  ASSUME HpInit
  PROVE  HpInv
<1>1. HeapTypes
  BY DEF HpInit, HeapTypes, Links
<1>2. \A h \in Heaps : NodesIn(hpIn, h) = {} /\ hpRoot[h] = Nil /\ hpSize[h] = 0
  BY HpAssumption DEF HpInit, NodesIn
<1>3. PICK up \in [HpNodes -> HpNodes \union {Nil}] : up = [n \in HpNodes |-> Nil]
  OBVIOUS
<1>4. AllTrees(hp, hpPrio, up, hpRoot, hpIn)
  BY <1>2, EmptyForest DEF AllTrees, Tree
<1>5. HeapSizes
  BY <1>2, FS_EmptySet DEF HeapSizes
<1> QED BY <1>1, <1>3, <1>4, <1>5 DEF HpInv, HeapTrees

\* A heap as an operation finds it.
LEMMA HeapFound ==
  ASSUME HpInv, NEW h \in Heaps
  PROVE  /\ HeapState(h).g = hp /\ HeapState(h).root = hpRoot[h] /\ HeapState(h).size = hpSize[h]
         /\ hp \in Links /\ hpPrio \in [HpNodes -> Int] /\ hpRoot[h] \in HpNodes \union {Nil}
         /\ hpSize[h] = Cardinality(NodesIn(hpIn, h)) /\ hpSize[h] \in Nat
BY KeysAreNumbers, HeldFinite DEF HpInv, HeapTypes, HeapSizes, HeapState

\* ct_heap_insert adds a free node to its heap.
LEMMA HpInsertKeeps ==
  ASSUME HpInv, NEW h \in Heaps, NEW n \in HpNodes, HpInsert(h, n)
  PROVE  HpInv'
<1> DEFINE S == NodesIn(hpIn, h)
           C == NodesIn(hpIn', h)
<1>1. PICK up \in [HpNodes -> HpNodes \union {Nil}] : AllTrees(hp, hpPrio, up, hpRoot, hpIn)
  BY DEF HpInv, HeapTrees
<1>2. PICK s : s = HeapState(h) /\ s.g = hp /\ s.root = hpRoot[h] /\ s.size = hpSize[h]
  BY HeapFound
<1>3. hpIn[n] = Nil /\ hpIn' = [hpIn EXCEPT ![n] = h] /\ hpPrio' = hpPrio /\ HeapBecomes(h, Inserted(s, hpPrio, n))
  BY <1>2 DEF HpInsert
<1>4. hpIn \in [HpNodes -> Heaps \union {Nil}] /\ hpPrio \in [HpNodes -> HpPrios]
  BY DEF HpInv, HeapTypes
<1>5. C = S \union {n} /\ n \notin S
  BY <1>3, <1>4, HpAssumption DEF NodesIn
<1>6. Tree(hp, hpPrio, up, hpRoot[h], S)
  BY <1>1 DEF AllTrees
<1>7. Cardinality(C) = s.size + 1 /\ s.size + 1 \in Int
  <2>1. IsFiniteSet(S) /\ hpSize[h] = Cardinality(S) /\ hpSize[h] \in Nat
    BY HeapFound, HeldFinite
  <2> HIDE DEF S, C
  <2>2. Cardinality(S \union {n}) = Cardinality(S) + 1
    BY <1>5, <2>1, FS_AddElement
  <2> QED BY <1>2, <1>5, <2>1, <2>2
<1> HIDE DEF S, C
<1>8. Became(hp, hpPrio, up, Inserted(s, hpPrio, n), C, C, s.size + 1)
  BY <1>2, <1>5, <1>6, HeapFound, InsertedOne
<1>9. Spared(hpPrio, hpPrio', hpIn, hpIn', h, C)
  BY <1>3, <1>4 DEF Spared, C, NodesIn
<1>10. hpIn' \in [HpNodes -> Heaps \union {Nil}] /\ hpPrio' \in [HpNodes -> HpPrios]
  BY <1>3, <1>4
<1>11. Became(hp, hpPrio', up, Inserted(s, hpPrio, n), C, C, s.size + 1)
  BY <1>3, <1>8
<1> QED BY <1>1, <1>3, <1>7, <1>9, <1>10, <1>11, HeapStep DEF C

\* Without one of its nodes a heap counts one less.
LEMMA OneLess ==
  ASSUME HpInv, NEW h \in Heaps, NEW n \in HpNodes, hpIn[n] = h, hpIn' = [hpIn EXCEPT ![n] = Nil], hpPrio' = hpPrio
  PROVE  /\ NodesIn(hpIn', h) = NodesIn(hpIn, h) \ {n} /\ n \in NodesIn(hpIn, h)
         /\ Cardinality(NodesIn(hpIn', h)) = hpSize[h] - 1 /\ hpSize[h] - 1 \in Int
         /\ hpIn' \in [HpNodes -> Heaps \union {Nil}] /\ hpPrio' \in [HpNodes -> HpPrios]
         /\ Spared(hpPrio, hpPrio', hpIn, hpIn', h, NodesIn(hpIn, h))
<1>1. hpIn \in [HpNodes -> Heaps \union {Nil}] /\ hpPrio \in [HpNodes -> HpPrios]
  BY DEF HpInv, HeapTypes
<1>2. NodesIn(hpIn', h) = NodesIn(hpIn, h) \ {n} /\ n \in NodesIn(hpIn, h)
  BY <1>1, HpAssumption DEF NodesIn
<1>3. Cardinality(NodesIn(hpIn', h)) = hpSize[h] - 1 /\ hpSize[h] - 1 \in Int
  <2>1. PICK S : S = NodesIn(hpIn, h) /\ IsFiniteSet(S) /\ hpSize[h] = Cardinality(S) /\ hpSize[h] \in Nat
    BY HeapFound, HeldFinite
  <2>2. Cardinality(S \ {n}) = Cardinality(S) - 1
    BY <1>2, <2>1, FS_RemoveElement
  <2>3. NodesIn(hpIn', h) = S \ {n}
    BY <1>2, <2>1
  <2>4. Cardinality(NodesIn(hpIn', h)) = Cardinality(S) - 1
    BY <2>2, <2>3
  <2> QED BY <2>1, <2>4
<1>4. Spared(hpPrio, hpPrio', hpIn, hpIn', h, NodesIn(hpIn, h))
  BY <1>1 DEF Spared, NodesIn
<1> QED BY <1>1, <1>2, <1>3, <1>4

\* ct_heap_pop takes the root out and joins its children again.
LEMMA HpPopKeeps ==
  ASSUME HpInv, NEW h \in Heaps, HpPop(h)
  PROVE  HpInv'
<1> DEFINE S == NodesIn(hpIn, h)
           D == NodesIn(hpIn', h)
<1>1. PICK up \in [HpNodes -> HpNodes \union {Nil}] : AllTrees(hp, hpPrio, up, hpRoot, hpIn)
  BY DEF HpInv, HeapTrees
<1>2. PICK s : s = HeapState(h) /\ s.g = hp /\ s.root = hpRoot[h] /\ s.size = hpSize[h]
  BY HeapFound
<1>3. PICK n \in HpNodes : n = hpRoot[h]
  BY HeapFound DEF HpPop
<1>4. hpIn' = [hpIn EXCEPT ![n] = Nil] /\ hpPrio' = hpPrio /\ HeapBecomes(h, Popped(s, hpPrio))
  BY <1>2, <1>3 DEF HpPop
<1>5. Tree(hp, hpPrio, up, n, S)
  BY <1>1, <1>3 DEF AllTrees
<1>6. hpIn[n] = h
  <2>1. n \in S
    BY <1>5, ForestNodes, HpAssumption DEF Tree
  <2> QED BY <2>1 DEF NodesIn
<1>7. D = S \ {n} /\ Cardinality(D) = s.size - 1 /\ s.size - 1 \in Int
  BY <1>2, <1>4, <1>6, OneLess
<1> HIDE DEF S, D
<1>8. Became(hp, hpPrio, up, Popped(s, hpPrio), D, S, s.size - 1)
  <2>1. KeyChanged(hpPrio, hpPrio, n)
    BY DEF KeyChanged
  <2> QED BY <1>2, <1>3, <1>5, <1>7, <2>1, HeapFound, PoppedOne
<1>9. Became(hp, hpPrio', up, Popped(s, hpPrio), D, S, s.size - 1)
  BY <1>4, <1>8
<1>10. hpIn' \in [HpNodes -> Heaps \union {Nil}] /\ hpPrio' \in [HpNodes -> HpPrios] /\ Spared(hpPrio, hpPrio', hpIn, hpIn', h, S)
  BY <1>4, <1>6, OneLess DEF S
<1> QED BY <1>1, <1>4, <1>7, <1>9, <1>10, HeapStep DEF D

\* ct_heap_remove takes any node out of its heap.
LEMMA HpRemoveKeeps ==
  ASSUME HpInv, NEW n \in HpNodes, HpRemove(n)
  PROVE  HpInv'
<1>0. PICK h \in Heaps : h = hpIn[n]
  BY DEF HpRemove, HpInv, HeapTypes
<1> DEFINE S == NodesIn(hpIn, h)
           D == NodesIn(hpIn', h)
<1>1. PICK up \in [HpNodes -> HpNodes \union {Nil}] : AllTrees(hp, hpPrio, up, hpRoot, hpIn)
  BY DEF HpInv, HeapTrees
<1>2. PICK s : s = HeapState(h) /\ s.g = hp /\ s.root = hpRoot[h] /\ s.size = hpSize[h]
  BY HeapFound
<1>3. hpIn' = [hpIn EXCEPT ![n] = Nil] /\ hpPrio' = hpPrio /\ HeapBecomes(h, Removed(s, hpPrio, n))
  BY <1>0, <1>2 DEF HpRemove
<1>4. D = S \ {n} /\ n \in S /\ Cardinality(D) = s.size - 1 /\ s.size - 1 \in Int
  BY <1>0, <1>2, <1>3, OneLess
<1>5. Tree(hp, hpPrio, up, hpRoot[h], S)
  BY <1>1 DEF AllTrees
<1> HIDE DEF S, D
<1>6. PICK root \in HpNodes : root = hpRoot[h]
  <2>1. hpRoot[h] # Nil
    BY <1>4, <1>5, ForestOfNil DEF Tree
  <2> QED BY <2>1, HeapFound
<1>7. Became(hp, hpPrio, up, Removed(s, hpPrio, n), D, S, s.size - 1)
  <2>1. KeyChanged(hpPrio, hpPrio, n)
    BY DEF KeyChanged
  <2> QED BY <1>2, <1>4, <1>5, <1>6, <2>1, HeapFound, RemovedOne
<1>8. Became(hp, hpPrio', up, Removed(s, hpPrio, n), D, S, s.size - 1)
  BY <1>3, <1>7
<1>9. hpIn' \in [HpNodes -> Heaps \union {Nil}] /\ hpPrio' \in [HpNodes -> HpPrios] /\ Spared(hpPrio, hpPrio', hpIn, hpIn', h, S)
  BY <1>0, <1>3, OneLess DEF S
<1> QED BY <1>1, <1>3, <1>4, <1>8, <1>9, HeapStep DEF D

\* ct_heap_update changes the key of a node that stays in its heap.
LEMMA HpUpdateKeeps ==
  ASSUME HpInv, NEW n \in HpNodes, NEW p \in HpPrios, HpUpdate(n, p)
  PROVE  HpInv'
<1>0. PICK h \in Heaps : h = hpIn[n]
  BY DEF HpUpdate, HpInv, HeapTypes
<1> DEFINE S == NodesIn(hpIn, h)
<1>1. PICK up \in [HpNodes -> HpNodes \union {Nil}] : AllTrees(hp, hpPrio, up, hpRoot, hpIn)
  BY DEF HpInv, HeapTrees
<1>2. PICK s : s = HeapState(h) /\ s.g = hp /\ s.root = hpRoot[h] /\ s.size = hpSize[h]
  BY HeapFound
<1>3. PICK w \in [HpNodes -> HpPrios] : w = hpPrio' /\ KeyChanged(hpPrio, w, n)
  BY DEF HpUpdate, HpInv, HeapTypes, KeyChanged
<1>4. hpIn' = hpIn /\ HeapBecomes(h, Inserted(Removed(s, w, n), w, n))
  BY <1>0, <1>2, <1>3 DEF HpUpdate
<1>5. n \in S /\ s.size = Cardinality(S) /\ s.size \in Int
  BY <1>0, <1>2, HeapFound DEF NodesIn
<1>6. Tree(hp, hpPrio, up, hpRoot[h], S)
  BY <1>1 DEF AllTrees
<1> HIDE DEF S
<1>7. PICK root \in HpNodes : root = hpRoot[h]
  <2>1. hpRoot[h] # Nil
    BY <1>5, <1>6, ForestOfNil DEF Tree
  <2> QED BY <2>1, HeapFound
<1>8. Became(hp, w, up, Inserted(Removed(s, w, n), w, n), S, S, s.size)
  <2>1. w \in [HpNodes -> Int]
    BY KeysAreNumbers
  <2> QED BY <1>2, <1>3, <1>5, <1>6, <1>7, <2>1, HeapFound, UpdatedOne
<1>9. hpIn \in [HpNodes -> Heaps \union {Nil}]
  BY DEF HpInv, HeapTypes
<1>10. Spared(hpPrio, w, hpIn, hpIn', h, S)
  BY <1>0, <1>3, <1>4, <1>9 DEF Spared, S, NodesIn, KeyChanged
<1>11. S = NodesIn(hpIn', h)
  BY <1>4 DEF S
<1> QED BY <1>1, <1>3, <1>4, <1>5, <1>8, <1>9, <1>10, <1>11, HeapStep

\* ct_heap_clear forgets the tree and its count.
LEMMA HpClearKeeps ==
  ASSUME HpInv, NEW h \in Heaps, HpClear(h)
  PROVE  HpInv'
<1> DEFINE S == NodesIn(hpIn, h)
           s == [g |-> hp', root |-> Nil, size |-> 0]
<1>1. PICK up \in [HpNodes -> HpNodes \union {Nil}] : AllTrees(hp, hpPrio, up, hpRoot, hpIn)
  BY DEF HpInv, HeapTrees
<1>2. HeapTypes
  BY DEF HpInv
<1>3. /\ hp' = [f \in DOMAIN hp |-> [n \in HpNodes |-> IF hpIn[n] = h THEN Nil ELSE hp[f][n]]]
      /\ hpIn' = [n \in HpNodes |-> IF hpIn[n] = h THEN Nil ELSE hpIn[n]] /\ hpPrio' = hpPrio
      /\ HeapBecomes(h, s)
  BY DEF HpClear, HeapBecomes
<1>4. DOMAIN hp = {"child", "left", "right"} /\ \A f \in {"child", "left", "right"} : hp[f] \in [HpNodes -> HpNodes \union {Nil}]
  BY <1>2 DEF HeapTypes, Links
<1>5. \A f \in {"child", "left", "right"} :
        hp'[f] \in [HpNodes -> HpNodes \union {Nil}] /\ \A n \in HpNodes : n \notin S => hp'[f][n] = hp[f][n]
  BY <1>3, <1>4 DEF NodesIn
<1>6. hp' \in Links
  BY <1>3, <1>4, <1>5 DEF Links
<1>7. Outside(hp, hp', up, up, S)
  BY <1>5 DEF Outside
<1>8. NodesIn(hpIn', h) = {}
  BY <1>3, HpAssumption DEF NodesIn
<1>9. Became(hp, hpPrio', up, s, NodesIn(hpIn', h), S, 0)
  <2>1. Tree(hp', hpPrio', up, Nil, {})
    BY EmptyForest DEF Tree
  <2> QED BY <1>6, <1>7, <1>8, <2>1 DEF Became, Changed
<1>10. hpIn' \in [HpNodes -> Heaps \union {Nil}] /\ hpPrio' \in [HpNodes -> HpPrios]
  BY <1>2, <1>3 DEF HeapTypes
<1>11. Spared(hpPrio, hpPrio', hpIn, hpIn', h, S)
  BY <1>3 DEF Spared, NodesIn
<1>12. Cardinality(NodesIn(hpIn', h)) = 0
  BY <1>8, FS_EmptySet
<1> HIDE DEF S, s
<1> QED BY <1>1, <1>3, <1>9, <1>10, <1>11, <1>12, HeapStep

\* ct_heap_move melds one heap into another and leaves it empty.
LEMMA HpMoveKeeps ==
  ASSUME HpInv, NEW dst \in Heaps, NEW src \in Heaps, HpMove(dst, src)
  PROVE  HpInv'
<1> DEFINE S == NodesIn(hpIn, dst)
           T == NodesIn(hpIn, src)
<1>1. PICK up \in [HpNodes -> HpNodes \union {Nil}] : AllTrees(hp, hpPrio, up, hpRoot, hpIn)
  BY DEF HpInv, HeapTrees
<1>2. /\ hp \in Links /\ hpPrio \in [HpNodes -> HpPrios] /\ hpRoot \in [Heaps -> HpNodes \union {Nil}]
      /\ hpSize \in [Heaps -> Int] /\ hpIn \in [HpNodes -> Heaps \union {Nil}] /\ hpPrio \in [HpNodes -> Int]
  BY KeysAreNumbers DEF HpInv, HeapTypes
<1>3. PICK m : m = Meld(hp, hpPrio, hpRoot[dst], hpRoot[src])
  OBVIOUS
<1>4. /\ dst # src /\ hp' = m.g /\ hpRoot' = [hpRoot EXCEPT ![dst] = m.root, ![src] = Nil] /\ hpPrio' = hpPrio
      /\ hpSize' = [hpSize EXCEPT ![dst] = @ + hpSize[src], ![src] = 0]
      /\ hpIn' = [n \in HpNodes |-> IF hpIn[n] = src THEN dst ELSE hpIn[n]]
  BY <1>3 DEF HpMove
<1>5. S \intersect T = {} /\ Tree(hp, hpPrio, up, hpRoot[dst], S) /\ Tree(hp, hpPrio, up, hpRoot[src], T)
  BY <1>1, <1>4 DEF AllTrees, NodesIn
<1>6. PICK over \in [HpNodes -> HpNodes \union {Nil}] :
        Tree(m.g, hpPrio, over, m.root, S \union T) /\ Outside(hp, m.g, up, over, S \union T)
  <2> HIDE DEF S, T
  <2> QED BY <1>2, <1>3, <1>5, MeldMakesTree
<1>7. m.g \in Links /\ m.root \in HpNodes \union {Nil}
  BY <1>2, <1>3, MeldTyped
<1>8. /\ NodesIn(hpIn', dst) = S \union T /\ NodesIn(hpIn', src) = {}
      /\ \A f \in Heaps : f # dst /\ f # src => NodesIn(hpIn', f) = NodesIn(hpIn, f) /\ NodesIn(hpIn, f) \intersect (S \union T) = {}
  BY <1>2, <1>4 DEF NodesIn
<1> HIDE DEF S, T
<1>9. HeapTypes'
  <2>1. hpIn' \in [HpNodes -> Heaps \union {Nil}]
    BY <1>2, <1>4
  <2> QED BY <1>2, <1>4, <1>7, <2>1 DEF HeapTypes
<1>10. ASSUME NEW f \in Heaps
       PROVE  Tree(hp', hpPrio', over, hpRoot'[f], NodesIn(hpIn', f))
  <2>1. CASE f = dst
    BY <1>2, <1>4, <1>6, <1>8, <2>1
  <2>2. CASE f = src
    <3>1. hpRoot'[f] = Nil /\ NodesIn(hpIn', f) = {}
      BY <1>2, <1>4, <1>8, <2>2
    <3> QED BY <3>1, EmptyForest DEF Tree
  <2>3. CASE f # dst /\ f # src
    <3>1. hpRoot'[f] = hpRoot[f] /\ NodesIn(hpIn', f) = NodesIn(hpIn, f) /\ NodesIn(hpIn, f) \intersect (S \union T) = {}
      BY <1>2, <1>4, <1>8, <2>3
    <3>2. Tree(hp, hpPrio, up, hpRoot[f], NodesIn(hpIn, f))
      BY <1>1 DEF AllTrees
    <3>3. Tree(m.g, hpPrio, over, hpRoot[f], NodesIn(hpIn, f))
      BY <1>6, <3>1, <3>2, TreeStays
    <3> QED BY <1>4, <3>1, <3>3
  <2> QED BY <2>1, <2>2, <2>3
<1>11. ASSUME NEW f \in Heaps
       PROVE  hpSize'[f] = Cardinality(NodesIn(hpIn', f))
  <2>1. CASE f = dst
    <3>1. IsFiniteSet(S) /\ IsFiniteSet(T) /\ hpSize[dst] = Cardinality(S) /\ hpSize[src] = Cardinality(T)
      BY HeapFound, HeldFinite DEF S, T
    <3>2. Cardinality(S \union T) = Cardinality(S) + Cardinality(T) - Cardinality(S \intersect T)
      BY <3>1, FS_Union
    <3>3. Cardinality(S \intersect T) = 0 /\ Cardinality(S) \in Nat /\ Cardinality(T) \in Nat
      BY <1>5, <3>1, FS_EmptySet, FS_CardinalityType
    <3>4. hpSize'[f] = hpSize[dst] + hpSize[src]
      BY <1>2, <1>4, <2>1
    <3>5. PICK k \in Nat, l \in Nat : k = Cardinality(S) /\ l = Cardinality(T)
      BY <3>3
    <3>6. Cardinality(S \union T) = k + l
      BY <3>2, <3>3, <3>5
    <3>7. hpSize'[f] = k + l
      BY <3>1, <3>4, <3>5
    <3>8. NodesIn(hpIn', f) = S \union T
      BY <1>8, <2>1
    <3> QED BY <3>6, <3>7, <3>8
  <2>2. CASE f = src
    BY <1>2, <1>4, <1>8, <2>2, FS_EmptySet
  <2>3. CASE f # dst /\ f # src
    BY <1>2, <1>4, <1>8, <2>3, HeapFound
  <2> QED BY <2>1, <2>2, <2>3
<1>12. HeapTrees' /\ HeapSizes'
  BY <1>10, <1>11 DEF HeapTrees, HeapSizes, AllTrees
<1> QED BY <1>9, <1>12 DEF HpInv

\* Every step keeps the invariant.
LEMMA HpStepKeeps ==
  ASSUME HpInv, [HpNext]_hpVars
  PROVE  HpInv'
<1>1. CASE UNCHANGED hpVars
  BY <1>1 DEF HpInv, HeapTypes, HeapTrees, HeapSizes, AllTrees, NodesIn, hpVars
<1>2. ASSUME NEW h \in Heaps, NEW n \in HpNodes, HpInsert(h, n)
      PROVE  HpInv'
  BY <1>2, HpInsertKeeps
<1>3. ASSUME NEW h \in Heaps, HpPop(h)
      PROVE  HpInv'
  BY <1>3, HpPopKeeps
<1>4. ASSUME NEW h \in Heaps, HpClear(h)
      PROVE  HpInv'
  BY <1>4, HpClearKeeps
<1>5. ASSUME NEW n \in HpNodes, HpRemove(n)
      PROVE  HpInv'
  BY <1>5, HpRemoveKeeps
<1>6. ASSUME NEW n \in HpNodes, NEW p \in HpPrios, HpUpdate(n, p)
      PROVE  HpInv'
  BY <1>6, HpUpdateKeeps
<1>7. ASSUME NEW dst \in Heaps, NEW src \in Heaps, HpMove(dst, src)
      PROVE  HpInv'
  BY <1>7, HpMoveKeeps
<1> QED BY <1>1, <1>2, <1>3, <1>4, <1>5, <1>6, <1>7 DEF HpNext

\* A tree as the links of the state show it: its nodes lie along them, and none is more
\* urgent than the node whose children it is among.
LEMMA TreeIsSeen ==
  ASSUME NEW up, NEW a, NEW S, Tree(hp, hpPrio, up, a, S)
  PROVE  /\ Along({"child", "right"}, a) = S
         /\ a # Nil => hp.left[a] = Nil /\ hp.right[a] = Nil
         /\ \A n \in S : /\ hp.child[n] # Nil => hp.left[hp.child[n]] = n
                         /\ hp.right[n] # Nil => hp.left[hp.right[n]] = n
                         /\ \A m \in Along({"right"}, hp.child[n]) : hpPrio[n] <= hpPrio[m]
<1>1. Forest(hp, hpPrio, up, Nil, a, S) /\ S \subseteq HpNodes /\ Nil \notin S /\ a \in S \union {Nil}
  BY ForestNodes DEF Tree
<1>2. Enclosed(hp, S) /\ \A T \in SUBSET S : a \in T \union {Nil} /\ Enclosed(hp, T) => T = S
  BY <1>1 DEF Forest
<1>3. \A n \in S : /\ hp.child[n] # Nil => hp.left[hp.child[n]] = n /\ up[hp.child[n]] = n
                   /\ hp.right[n] # Nil => hp.left[hp.right[n]] = n /\ up[hp.right[n]] = up[n]
  BY <1>1 DEF Forest
<1>4. \A T : (\A m \in T, f \in {"child", "right"} : hp[f][m] \in T \union {Nil}) <=> Enclosed(hp, T)
  BY DEF Enclosed
<1>5. Along({"child", "right"}, a) \subseteq S
  BY <1>1, <1>2, <1>4 DEF Along
<1>6. ASSUME NEW n \in S, NEW T \in SUBSET HpNodes, a \in T \union {Nil}, Enclosed(hp, T)
      PROVE  n \in T
  <2>1. S \intersect T \in SUBSET S /\ a \in (S \intersect T) \union {Nil}
    BY <1>1, <1>6
  <2>2. Enclosed(hp, S \intersect T)
    BY <1>2, <1>6 DEF Enclosed
  <2>3. S \intersect T = S
    BY <1>2, <2>1, <2>2
  <2> QED BY <2>3
<1>7. S \subseteq Along({"child", "right"}, a)
  BY <1>1, <1>4, <1>6, SMTT(60) DEF Along
<1>8. ASSUME NEW n \in S, NEW m \in Along({"right"}, hp.child[n])
      PROVE  hpPrio[n] <= hpPrio[m]
  <2> DEFINE T == {k \in S : up[k] = n}
  <2>1. T \in SUBSET HpNodes /\ hp.child[n] \in T \union {Nil}
    BY <1>1, <1>2, <1>3 DEF Enclosed
  <2>2. \A k \in T : hp.right[k] \in T \union {Nil}
    BY <1>2, <1>3 DEF Enclosed
  <2>3. \A k \in T, f \in {"right"} : hp[f][k] \in T \union {Nil}
    BY <2>2
  <2>4. m \in T
    <3> HIDE DEF T
    <3> QED BY <1>8, <2>1, <2>3 DEF Along
  <2>5. up[m] = n /\ m \in S /\ n # Nil
    BY <1>1, <2>4
  <2> QED BY <1>1, <2>5 DEF Forest
<1>9. a # Nil => hp.left[a] = Nil /\ hp.right[a] = Nil
  BY DEF Tree
<1> QED BY <1>3, <1>5, <1>7, <1>8, <1>9

\* The pairing heaps are linked as they should be: HpInv says so with the parents, HeapIntact
\* without them (heap.c: insert, pop, remove, update, move, clear).
THEOREM HeapLinked == HpSpec => []HeapIntact
<1>1. HpInit => HpInv
  BY HpInitInv
<1>2. HpInv /\ [HpNext]_hpVars => HpInv'
  BY HpStepKeeps
<1>3. HpInv => HeapIntact
  <2> SUFFICES ASSUME HpInv, NEW h \in Heaps
               PROVE  LET S == Along({"child", "right"}, hpRoot[h]) IN
                        /\ S = {n \in HpNodes : hpIn[n] = h} /\ hpSize[h] = Cardinality(S)
                        /\ hpRoot[h] # Nil => hp.left[hpRoot[h]] = Nil /\ hp.right[hpRoot[h]] = Nil
                        /\ \A n \in S :
                             /\ hp.child[n] # Nil => hp.left[hp.child[n]] = n
                             /\ hp.right[n] # Nil => hp.left[hp.right[n]] = n
                             /\ \A m \in Along({"right"}, hp.child[n]) : hpPrio[n] <= hpPrio[m]
    BY DEF HeapIntact
  <2>1. PICK up : Tree(hp, hpPrio, up, hpRoot[h], NodesIn(hpIn, h))
    BY DEF HpInv, HeapTrees, AllTrees
  <2>2. Along({"child", "right"}, hpRoot[h]) = NodesIn(hpIn, h)
    BY <2>1, TreeIsSeen
  <2>3. hpSize[h] = Cardinality(NodesIn(hpIn, h)) /\ NodesIn(hpIn, h) = {n \in HpNodes : hpIn[n] = h}
    BY DEF HpInv, HeapSizes, NodesIn
  <2>4. hpRoot[h] # Nil => hp.left[hpRoot[h]] = Nil /\ hp.right[hpRoot[h]] = Nil
    BY <2>1, TreeIsSeen
  <2>5. \A n \in NodesIn(hpIn, h) :
          /\ hp.child[n] # Nil => hp.left[hp.child[n]] = n
          /\ hp.right[n] # Nil => hp.left[hp.right[n]] = n
          /\ \A m \in Along({"right"}, hp.child[n]) : hpPrio[n] <= hpPrio[m]
    BY <2>1, TreeIsSeen
  <2> QED BY <2>2, <2>3, <2>4, <2>5
<1> QED BY <1>1, <1>2, <1>3, PTL DEF HpSpec

\* Both heaps are intact whatever is done with them: the priority queue keeps its elements,
\* the pairing heaps their nodes and their order (pqueue.c, heap.c).
THEOREM HeapsKept == PqSpec /\ HpSpec => []HeapsIntact
<1>1. PqKeepsElements /\ HeapIntact => HeapsIntact
  BY DEF HeapsIntact
<1> QED BY <1>1, PqueueKeeps, HeapLinked, PTL
=============================================================================
