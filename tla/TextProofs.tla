----------------------------- MODULE TextProofs -----------------------------
(***************************************************************************)
(* What is proved of the option scanner, for any line of elements and any  *)
(* set of options; of the encodings, for any bytes in any chunks; and of   *)
(* the digests, for any message in any chunks and any size of a block.     *)
(***************************************************************************)
EXTENDS OptParser, Codecs, LibraryProofs

-----------------------------------------------------------------------------
(* The option scanner. *)

\* The elements of argv with their ids.
Elements == [t : Tokens, id : Nat]

\* w is argv with count elements from index from moved down to index to.
Moved(v, from, to, count, w) ==
  /\ from \in Nat /\ to \in Nat /\ count \in Nat
  /\ 1 <= to /\ to <= from /\ from + count <= Len(v) + 1
  /\ v \in Seq(Elements) /\ w \in Seq(Elements) /\ Len(w) = Len(v)
  /\ \A k \in 1..Len(v) :
       w[k] = IF k < to THEN v[k]
              ELSE IF k < to + count THEN v[k - to + from]
              ELSE IF k < from + count THEN v[k - count]
              ELSE v[k]

\* opt_permute moves the elements and nothing else.
LEMMA PermutedElements ==
  ASSUME NEW v \in Seq(Elements), NEW from \in Nat, NEW to \in Nat, NEW count \in Nat,
         1 <= to, to <= from, from + count <= Len(v) + 1
  PROVE  Moved(v, from, to, count, Permuted(v, from, to, count))
<1> DEFINE n == Len(v)
           a == SubSeq(v, 1, to - 1)
           b == SubSeq(v, from, from + count - 1)
           c == SubSeq(v, to, from - 1)
           d == SubSeq(v, from + count, n)
           w == Permuted(v, from, to, count)
<1>1. n \in Nat /\ 1 <= to /\ to <= from /\ from + count <= n + 1
  OBVIOUS
<1>a. a \in Seq(Elements) /\ Len(a) = to - 1 /\ \A k \in 1..(to - 1) : a[k] = v[k]
  <2>1. PICK m \in Nat : m = to - 1
    BY <1>1
  <2>2. /\ SubSeq(v, 1, m) \in Seq(Elements)
        /\ Len(SubSeq(v, 1, m)) = IF 1 <= m THEN m - 1 + 1 ELSE 0
        /\ \A k \in 1..(m - 1 + 1) : SubSeq(v, 1, m)[k] = v[1 + k - 1]
    <3>1. 1 \in Nat /\ 1 >= 1 /\ m <= Len(v)
      BY <1>1, <2>1
    <3> QED BY <3>1, PartElements, SMTT(60)
  <2>3. a = SubSeq(v, 1, m)
    BY <2>1
  <2> HIDE DEF a
  <2> QED BY <1>1, <2>1, <2>2, <2>3
<1>b. b \in Seq(Elements) /\ Len(b) = count /\ \A k \in 1..count : b[k] = v[from + k - 1]
  <2>1. PICK m \in Nat : m = from + count - 1
    BY <1>1
  <2>2. /\ SubSeq(v, from, m) \in Seq(Elements)
        /\ Len(SubSeq(v, from, m)) = IF from <= m THEN m - from + 1 ELSE 0
        /\ \A k \in 1..(m - from + 1) : SubSeq(v, from, m)[k] = v[from + k - 1]
    <3>1. from >= 1 /\ m <= Len(v)
      BY <1>1, <2>1
    <3> QED BY <3>1, PartElements
  <2>3. b = SubSeq(v, from, m)
    BY <2>1
  <2> HIDE DEF b
  <2> QED BY <1>1, <2>1, <2>2, <2>3
<1>c. c \in Seq(Elements) /\ Len(c) = from - to /\ \A k \in 1..(from - to) : c[k] = v[to + k - 1]
  <2>1. PICK m \in Nat : m = from - 1
    BY <1>1
  <2>2. /\ SubSeq(v, to, m) \in Seq(Elements)
        /\ Len(SubSeq(v, to, m)) = IF to <= m THEN m - to + 1 ELSE 0
        /\ \A k \in 1..(m - to + 1) : SubSeq(v, to, m)[k] = v[to + k - 1]
    <3>1. to >= 1 /\ m <= Len(v)
      BY <1>1, <2>1
    <3> QED BY <3>1, PartElements
  <2>3. c = SubSeq(v, to, m)
    BY <2>1
  <2> HIDE DEF c
  <2> QED BY <1>1, <2>1, <2>2, <2>3
<1>d. /\ d \in Seq(Elements) /\ Len(d) = n + 1 - (from + count)
      /\ \A k \in 1..(n + 1 - (from + count)) : d[k] = v[from + count + k - 1]
  <2>1. PICK m \in Nat : m = from + count
    BY <1>1
  <2>2. /\ SubSeq(v, m, n) \in Seq(Elements)
        /\ Len(SubSeq(v, m, n)) = IF m <= n THEN n - m + 1 ELSE 0
        /\ \A k \in 1..(n - m + 1) : SubSeq(v, m, n)[k] = v[m + k - 1]
    <3>1. m >= 1 /\ n <= Len(v) /\ n \in Nat
      BY <1>1, <2>1
    <3> QED BY <3>1, PartElements
  <2>3. d = SubSeq(v, m, n)
    BY <2>1
  <2> HIDE DEF d
  <2> QED BY <1>1, <2>1, <2>2, <2>3
<1>w. w = a \o b \o c \o d
  BY DEF Permuted
<1> HIDE DEF a, b, c, d, w
<1>2. /\ a \o b \in Seq(Elements) /\ Len(a \o b) = to - 1 + count
      /\ \A k \in 1..(to - 1 + count) : (a \o b)[k] = IF k < to THEN v[k] ELSE v[k - to + from]
  <2>1. /\ a \o b \in Seq(Elements) /\ Len(a \o b) = Len(a) + Len(b)
        /\ \A k \in 1..(Len(a) + Len(b)) : (a \o b)[k] = IF k <= Len(a) THEN a[k] ELSE b[k - Len(a)]
    BY <1>a, <1>b, JoinedElements
  <2> DEFINE e == a \o b
  <2> HIDE DEF e
  <2>2. e \in Seq(Elements) /\ Len(e) = to - 1 + count
    BY <1>a, <1>b, <2>1 DEF e
  <2>3. ASSUME NEW k \in 1..(to - 1 + count)
        PROVE  e[k] = IF k < to THEN v[k] ELSE v[k - to + from]
    <3>1. e[k] = IF k <= to - 1 THEN a[k] ELSE b[k - (to - 1)]
      BY <1>a, <1>b, <2>1 DEF e
    <3>2. CASE k < to
      <4>1. k <= to - 1 /\ k \in 1..(to - 1)
        BY <1>1, <3>2
      <4> QED BY <1>a, <3>1, <3>2, <4>1
    <3>3. CASE ~(k < to)
      <4>1. ~(k <= to - 1) /\ k - (to - 1) \in 1..count /\ from + (k - (to - 1)) - 1 = k - to + from
        BY <1>1, <3>3
      <4> QED BY <1>b, <3>1, <3>3, <4>1
    <3> QED BY <3>2, <3>3
  <2> QED BY <2>2, <2>3 DEF e
<1> DEFINE e == a \o b
<1> HIDE DEF e
<1>3. /\ e \o c \in Seq(Elements) /\ Len(e \o c) = from + count - 1
      /\ \A k \in 1..(from + count - 1) : (e \o c)[k] = IF k < to + count THEN e[k] ELSE v[k - count]
  <2>0. e \in Seq(Elements) /\ Len(e) = to - 1 + count
    BY <1>2 DEF e
  <2>1. /\ e \o c \in Seq(Elements) /\ Len(e \o c) = Len(e) + Len(c)
        /\ \A k \in 1..(Len(e) + Len(c)) : (e \o c)[k] = IF k <= Len(e) THEN e[k] ELSE c[k - Len(e)]
    BY <1>c, <2>0, JoinedElements
  <2> DEFINE f == e \o c
  <2> HIDE DEF f
  <2>2. f \in Seq(Elements) /\ Len(f) = from + count - 1
    BY <1>1, <1>c, <2>0, <2>1, SMTT(60) DEF f
  <2>3. ASSUME NEW k \in 1..(from + count - 1)
        PROVE  f[k] = IF k < to + count THEN e[k] ELSE v[k - count]
    <3>1. f[k] = IF k <= to - 1 + count THEN e[k] ELSE c[k - (to - 1 + count)]
      <4>1. k \in 1..(Len(e) + Len(c))
        BY <1>1, <1>c, <2>0
      <4> QED BY <2>0, <2>1, <4>1 DEF f
    <3>2. CASE k < to + count
      <4>1. k <= to - 1 + count
        BY <1>1, <3>2
      <4> QED BY <3>1, <3>2, <4>1
    <3>3. CASE ~(k < to + count)
      <4>1. ~(k <= to - 1 + count) /\ k - (to - 1 + count) \in 1..(from - to) /\ to + (k - (to - 1 + count)) - 1 = k - count
        BY <1>1, <3>3
      <4> QED BY <1>c, <3>1, <3>3, <4>1
    <3> QED BY <3>2, <3>3
  <2> QED BY <2>2, <2>3 DEF f
<1> DEFINE f == e \o c
<1> HIDE DEF f
<1>4. /\ w \in Seq(Elements) /\ Len(w) = n
      /\ \A k \in 1..n : w[k] = IF k < from + count THEN f[k] ELSE v[k]
  <2>0. f \in Seq(Elements) /\ Len(f) = from + count - 1 /\ w = f \o d
    BY <1>3, <1>w DEF e, f
  <2>1. /\ w \in Seq(Elements) /\ Len(w) = Len(f) + Len(d)
        /\ \A k \in 1..(Len(f) + Len(d)) : w[k] = IF k <= Len(f) THEN f[k] ELSE d[k - Len(f)]
    BY <1>d, <2>0, JoinedElements
  <2>2. Len(f) + Len(d) = n
    BY <1>1, <1>d, <2>0, SMTT(120)
  <2>3. ASSUME NEW k \in 1..n
        PROVE  w[k] = IF k < from + count THEN f[k] ELSE v[k]
    <3>1. w[k] = IF k <= from + count - 1 THEN f[k] ELSE d[k - (from + count - 1)]
      BY <2>0, <2>1, <2>2
    <3>2. CASE k < from + count
      <4>1. k <= from + count - 1
        BY <1>1, <3>2
      <4> QED BY <3>1, <3>2, <4>1
    <3>3. CASE ~(k < from + count)
      <4>1. /\ ~(k <= from + count - 1) /\ k - (from + count - 1) \in 1..(n + 1 - (from + count))
            /\ from + count + (k - (from + count - 1)) - 1 = k
        BY <1>1, <3>3
      <4> QED BY <1>d, <3>1, <3>3, <4>1
    <3> QED BY <3>2, <3>3
  <2> QED BY <2>1, <2>2, <2>3
<1>5. ASSUME NEW k \in 1..n
      PROVE  w[k] = IF k < to THEN v[k]
                    ELSE IF k < to + count THEN v[k - to + from]
                    ELSE IF k < from + count THEN v[k - count]
                    ELSE v[k]
  <2>1. CASE k < from + count
    <3>1. k \in 1..(from + count - 1)
      BY <1>1, <2>1
    <3>2. w[k] = IF k < to + count THEN e[k] ELSE v[k - count]
      BY <1>3, <1>4, <2>1, <3>1 DEF f
    <3>3. CASE k < to + count
      <4>1. k \in 1..(to - 1 + count)
        BY <1>1, <3>3
      <4> QED BY <1>2, <3>2, <3>3, <4>1 DEF e
    <3>4. CASE ~(k < to + count)
      <4>1. ~(k < to)
        BY <1>1, <3>4
      <4> QED BY <2>1, <3>2, <3>4, <4>1
    <3> QED BY <3>3, <3>4
  <2>2. CASE ~(k < from + count)
    <3>1. ~(k < to) /\ ~(k < to + count)
      BY <1>1, <2>2
    <3> QED BY <1>4, <2>2, <3>1
  <2> QED BY <2>1, <2>2
<1> QED BY <1>4, <1>5 DEF Moved, w

Ids(v) == {v[k].id : k \in 1..Len(v)}

\* No element is lost or doubled by a move.
LEMMA MovedKeeps ==
  ASSUME NEW v, NEW from, NEW to, NEW count, NEW w, Moved(v, from, to, count, w)
  PROVE  Ids(w) = Ids(v)
<1>0. /\ Len(v) \in Nat /\ Len(w) = Len(v) /\ 1 <= to /\ to <= from /\ from + count <= Len(v) + 1
      /\ from \in Nat /\ to \in Nat /\ count \in Nat
      /\ \A k \in 1..Len(v) : w[k] = IF k < to THEN v[k]
                                     ELSE IF k < to + count THEN v[k - to + from]
                                     ELSE IF k < from + count THEN v[k - count]
                                     ELSE v[k]
  BY DEF Moved
<1>1. ASSUME NEW k \in 1..Len(v)
      PROVE  \E j \in 1..Len(v) : w[k] = v[j]
  <2>1. CASE k < to
    BY <1>0, <2>1
  <2>2. CASE ~(k < to) /\ k < to + count
    <3>1. k - to + from \in 1..Len(v)
      BY <1>0, <2>2
    <3> QED BY <1>0, <2>2, <3>1
  <2>3. CASE ~(k < to) /\ ~(k < to + count) /\ k < from + count
    <3>1. k - count \in 1..Len(v)
      BY <1>0, <2>3
    <3> QED BY <1>0, <2>3, <3>1
  <2>4. CASE ~(k < to) /\ ~(k < to + count) /\ ~(k < from + count)
    BY <1>0, <2>4
  <2> QED BY <2>1, <2>2, <2>3, <2>4
<1>2. ASSUME NEW j \in 1..Len(v)
      PROVE  \E k \in 1..Len(v) : w[k] = v[j]
  <2>1. CASE j < to
    BY <1>0, <2>1
  <2>2. CASE ~(j < to) /\ j < from
    <3>1. /\ j + count \in 1..Len(v) /\ ~(j + count < to) /\ ~(j + count < to + count)
          /\ j + count < from + count /\ (j + count) - count = j
      BY <1>0, <2>2
    <3>2. w[j + count] = v[j]
      BY <1>0, <3>1
    <3> QED BY <3>1, <3>2
  <2>3. CASE ~(j < from) /\ j < from + count
    <3>1. /\ j - from + to \in 1..Len(v) /\ ~(j - from + to < to) /\ j - from + to < to + count
          /\ (j - from + to) - to + from = j
      BY <1>0, <2>3
    <3>2. w[j - from + to] = v[j]
      BY <1>0, <3>1
    <3> QED BY <3>1, <3>2
  <2>4. CASE ~(j < from + count)
    <3>1. ~(j < to) /\ ~(j < to + count)
      BY <1>0, <2>4
    <3> QED BY <1>0, <2>4, <3>1
  <2> QED BY <2>1, <2>2, <2>3, <2>4
<1>3. {w[k].id : k \in 1..Len(v)} = {v[k].id : k \in 1..Len(v)}
  <2>1. ASSUME NEW k \in 1..Len(v)
        PROVE  w[k].id \in {v[j].id : j \in 1..Len(v)}
    <3>1. PICK j \in 1..Len(v) : w[k] = v[j]
      BY <1>1
    <3> QED BY <3>1
  <2>2. ASSUME NEW j \in 1..Len(v)
        PROVE  v[j].id \in {w[k].id : k \in 1..Len(v)}
    <3>1. PICK k \in 1..Len(v) : w[k] = v[j]
      BY <1>2
    <3> QED BY <3>1
  <2> QED BY <2>1, <2>2
<1> QED BY <1>0, <1>3 DEF Ids

Scanners == [argv : Seq(Elements), optind : Nat, subind : Nat, permute : BOOLEAN]

Scanner(v, i, sub, permute) == [argv |-> v, optind |-> i, subind |-> sub, permute |-> permute]

\* The updates of a scanner in opt.c, each as the scanner it leaves.
LEMMA ScannerUpdates ==
  ASSUME NEW o \in Scanners
  PROVE  /\ o = Scanner(o.argv, o.optind, o.subind, o.permute)
         /\ \A i : [o EXCEPT !.optind = i] = Scanner(o.argv, i, o.subind, o.permute)
         /\ [o EXCEPT !.optind = @ + 1] = Scanner(o.argv, o.optind + 1, o.subind, o.permute)
         /\ [o EXCEPT !.subind = @ + 1] = Scanner(o.argv, o.optind, o.subind + 1, o.permute)
         /\ [o EXCEPT !.subind = 0, !.optind = @ + 1] = Scanner(o.argv, o.optind + 1, 0, o.permute)
         /\ \A w, i : [o EXCEPT !.argv = w, !.optind = i] = Scanner(w, i, o.subind, o.permute)
<1>1. o = Scanner(o.argv, o.optind, o.subind, o.permute)
  BY DEF Scanners, Scanner
<1> DEFINE v == o.argv
           i == o.optind
           sub == o.subind
           permute == o.permute
<1> HIDE DEF v, i, sub, permute
<1>2. o = Scanner(v, i, sub, permute)
  BY <1>1 DEF v, i, sub, permute
<1>3. ASSUME NEW j PROVE [o EXCEPT !.optind = j] = Scanner(v, j, sub, permute)
  BY <1>2 DEF Scanner
<1>4. [o EXCEPT !.optind = @ + 1] = Scanner(v, i + 1, sub, permute)
  BY <1>2 DEF Scanner
<1>5. [o EXCEPT !.subind = @ + 1] = Scanner(v, i, sub + 1, permute)
  BY <1>2 DEF Scanner
<1>6. [o EXCEPT !.subind = 0, !.optind = @ + 1] = Scanner(v, i + 1, 0, permute)
  <2>1. o.optind + 1 = i + 1
    BY DEF i
  <2>2. ASSUME NEW j PROVE [Scanner(v, i, sub, permute) EXCEPT !.subind = 0, !.optind = j] = Scanner(v, j, 0, permute)
    <3>1. [Scanner(v, i, sub, permute) EXCEPT !.subind = 0] = Scanner(v, i, 0, permute)
      BY DEF Scanner
    <3>2. [Scanner(v, i, 0, permute) EXCEPT !.optind = j] = Scanner(v, j, 0, permute)
      BY DEF Scanner
    <3> QED BY <3>1, <3>2
  <2>3. [o EXCEPT !.subind = 0, !.optind = o.optind + 1] = Scanner(v, i + 1, 0, permute)
    BY <1>2, <2>1, <2>2, Zenon
  <2> QED BY <2>3
<1>7. ASSUME NEW w, NEW j PROVE [o EXCEPT !.argv = w, !.optind = j] = Scanner(w, j, sub, permute)
  <2>1. [o EXCEPT !.argv = w] = Scanner(w, i, sub, permute)
    BY <1>2 DEF Scanner
  <2>2. [Scanner(w, i, sub, permute) EXCEPT !.optind = j] = Scanner(w, j, sub, permute)
    BY DEF Scanner
  <2> QED BY <2>1, <2>2
<1> QED BY <1>2, <1>3, <1>4, <1>5, <1>6, <1>7 DEF v, i, sub, permute

\* From place k on the elements of the two lines are the same.
SameFrom(o, l, k) ==
  Len(o.argv) = Len(l.argv) /\ \A j \in k..Len(o.argv) : o.argv[j] = l.argv[j]

\* What parsing does to a scanner: it is past count elements, at letter sub.
Parsed(o, count, sub, r) ==
  [o |-> Scanner(o.argv, o.optind + count, sub, o.permute), r |-> r]

\* A letter, or a long option, reads its element and the next one, so that two scanners
\* that agree from there on return the same and go on by the same.
LEMMA ParsedAlike ==
  ASSUME NEW o \in Scanners, NEW l \in Scanners, o.optind = l.optind, o.subind = l.subind,
         o.optind \in 1..Len(o.argv), SameFrom(o, l, o.optind), o.argv[o.optind].t.kind \in {"short", "long"}
  PROVE  \E count \in 0..2, sub \in Nat : \E r :
           /\ o.optind + count <= Len(o.argv) + 1
           /\ ParseAt(o) = Parsed(o, count, sub, r)
           /\ ParseAt(l) = Parsed(l, count, sub, r)
<1> DEFINE i == o.optind
           t == o.argv[i].t
           hasNext == i < Len(o.argv)
           after == o.argv[i + 1].id
<1>0. /\ i \in Nat /\ o.subind \in Nat /\ Len(o.argv) \in Nat /\ i <= Len(o.argv) /\ i >= 1
      /\ t \in Tokens /\ t.kind \in {"short", "long"}
  <2>1. o.argv \in Seq(Elements) /\ o.optind \in Nat /\ o.subind \in Nat
    BY DEF Scanners
  <2>2. o.argv[i] \in Elements
    BY <2>1
  <2>3. o.argv[i].t \in Tokens
    BY <2>2 DEF Elements
  <2>4. Len(o.argv) \in Nat
    BY <2>1
  <2> QED BY <2>1, <2>3, <2>4
<1>1. /\ l.optind = i /\ l.subind = o.subind /\ Len(l.argv) = Len(o.argv) /\ l.argv[i].t = t
      /\ hasNext => l.argv[i + 1].id = after
  BY <1>0, SMTT(60) DEF SameFrom
<1>2. ASSUME NEW p \in {o, l}
      PROVE  /\ p \in Scanners /\ p.optind = i /\ p.subind = o.subind /\ Len(p.argv) = Len(o.argv)
             /\ p.argv[i].t = t /\ (hasNext => p.argv[i + 1].id = after)
  BY <1>1
<1> HIDE DEF t, after
<1> DEFINE Moves(p, count, sub) == Scanner(p.argv, i + count, sub, p.permute)
<1>3. ASSUME NEW p \in Scanners, p.optind = i, p.subind = o.subind
      PROVE  /\ [p EXCEPT !.subind = @ + 1] = Moves(p, 0, o.subind + 1)
             /\ [p EXCEPT !.subind = 0, !.optind = @ + 1] = Moves(p, 1, 0)
             /\ [[p EXCEPT !.subind = 0, !.optind = @ + 1] EXCEPT !.optind = @ + 1] = Moves(p, 2, 0)
             /\ [p EXCEPT !.optind = @ + 1] = Moves(p, 1, o.subind)
             /\ [[p EXCEPT !.optind = @ + 1] EXCEPT !.optind = @ + 1] = Moves(p, 2, o.subind)
             /\ [p EXCEPT !.optind = @ + 1].optind = i + 1
  <2>1. i + 0 = i /\ (i + 1) + 1 = i + 2
    BY <1>0
  <2>2. /\ [p EXCEPT !.optind = @ + 1] = Scanner(p.argv, i + 1, o.subind, p.permute)
        /\ [p EXCEPT !.subind = @ + 1] = Scanner(p.argv, i, o.subind + 1, p.permute)
        /\ [p EXCEPT !.subind = 0, !.optind = @ + 1] = Scanner(p.argv, i + 1, 0, p.permute)
    BY <1>3, ScannerUpdates
  <2>3. ASSUME NEW sub
        PROVE  [Scanner(p.argv, i + 1, sub, p.permute) EXCEPT !.optind = @ + 1]
               = Scanner(p.argv, (i + 1) + 1, sub, p.permute)
    BY DEF Scanner
  <2>4. Scanner(p.argv, i + 1, o.subind, p.permute).optind = i + 1
    BY DEF Scanner
  <2> QED BY <2>1, <2>2, <2>3, <2>4
<1> HIDE DEF Moves
<1>p. ASSUME NEW p \in {o, l}, NEW count, NEW sub, NEW r
      PROVE  [o |-> Moves(p, count, sub), r |-> r] = Parsed(p, count, sub, r)
  BY <1>1 DEF Parsed, Moves
<1>4. CASE t.kind = "short"
  <2> DEFINE c == t.chars[o.subind + 1]
             rest == SubSeq(t.chars, o.subind + 2, Len(t.chars))
  <2>1. ASSUME NEW p \in {o, l}
        PROVE  ParseAt(p) =
                 CASE TypeOf(c) = "none" ->
                        IF rest # <<>> THEN Parsed(p, 0, o.subind + 1, <<"ok", c, None>>)
                        ELSE Parsed(p, 1, 0, <<"ok", c, None>>)
                   [] TypeOf(c) = "required" ->
                        IF rest # <<>> THEN Parsed(p, 1, 0, <<"ok", c, rest>>)
                        ELSE IF hasNext THEN Parsed(p, 2, 0, <<"ok", c, after>>)
                        ELSE Parsed(p, 1, 0, <<"missing", c, None>>)
                   [] TypeOf(c) = "optional" ->
                        Parsed(p, 1, 0, <<"ok", c, IF rest # <<>> THEN rest ELSE None>>)
                   [] OTHER -> Parsed(p, 1, 0, <<"invalid", c, None>>)
    <3>1. /\ p \in Scanners /\ p.optind = i /\ p.subind = o.subind /\ Len(p.argv) = Len(o.argv)
          /\ p.argv[i].t = t /\ (hasNext => p.argv[i + 1].id = after)
      BY <1>2
    <3>2. ParseAt(p) = ParseShort(p)
      BY <1>4, <3>1 DEF ParseAt
    <3>3. /\ [p EXCEPT !.subind = @ + 1] = Moves(p, 0, o.subind + 1)
          /\ [p EXCEPT !.subind = 0, !.optind = @ + 1] = Moves(p, 1, 0)
          /\ [[p EXCEPT !.subind = 0, !.optind = @ + 1] EXCEPT !.optind = @ + 1] = Moves(p, 2, 0)
      BY <1>3, <3>1, ZenonT(60)
    <3> DEFINE kind == TypeOf(c)
    <3>4. ParseShort(p) =
            CASE kind = "none" ->
                   [o |-> IF rest # <<>> THEN Moves(p, 0, o.subind + 1) ELSE Moves(p, 1, 0), r |-> <<"ok", c, None>>]
              [] kind = "required" ->
                   IF rest # <<>> THEN [o |-> Moves(p, 1, 0), r |-> <<"ok", c, rest>>]
                   ELSE IF hasNext THEN [o |-> Moves(p, 2, 0), r |-> <<"ok", c, after>>]
                   ELSE [o |-> Moves(p, 1, 0), r |-> <<"missing", c, None>>]
              [] kind = "optional" ->
                   [o |-> Moves(p, 1, 0), r |-> <<"ok", c, IF rest # <<>> THEN rest ELSE None>>]
              [] OTHER -> [o |-> Moves(p, 1, 0), r |-> <<"invalid", c, None>>]
      <4>1. hasNext => p.argv[p.optind + 1].id = after
        BY <3>1
      <4> QED BY <3>1, <3>3, <4>1 DEF ParseShort
    <3>5. \A count, sub, r : [o |-> Moves(p, count, sub), r |-> r] = Parsed(p, count, sub, r)
      BY <1>p
    <3> HIDE DEF c, rest
    <3> QED BY <3>2, <3>4, <3>5, SMTT(120)
  <2> HIDE DEF c, rest
  <2>2. CASE TypeOf(c) = "none" /\ rest # <<>>
    <3>1. \A p \in {o, l} : ParseAt(p) = Parsed(p, 0, o.subind + 1, <<"ok", c, None>>)
      BY <2>1, <2>2
    <3>2. 0 \in 0..2 /\ o.subind + 1 \in Nat /\ i + 0 <= Len(o.argv) + 1
      BY <1>0
    <3> QED BY <3>1, <3>2
  <2>3. ASSUME NEW count \in {1, 2}, NEW r, count = 2 => hasNext,
               \A p \in {o, l} : ParseAt(p) = Parsed(p, count, 0, r)
        PROVE  \E m \in 0..2, sub \in Nat : \E q :
                 /\ i + m <= Len(o.argv) + 1
                 /\ ParseAt(o) = Parsed(o, m, sub, q)
                 /\ ParseAt(l) = Parsed(l, m, sub, q)
    <3>1. count \in 0..2 /\ 0 \in Nat /\ i + count <= Len(o.argv) + 1
      BY <1>0, <2>3
    <3> QED BY <2>3, <3>1
  <2>4. CASE ~(TypeOf(c) = "none" /\ rest # <<>>)
    <3>1. \E count \in {1, 2} : \E r : (count = 2 => hasNext) /\ \A p \in {o, l} : ParseAt(p) = Parsed(p, count, 0, r)
      <4>1. CASE TypeOf(c) = "none"
        BY <2>1, <2>4, <4>1
      <4>2. CASE TypeOf(c) = "required" /\ rest # <<>>
        BY <2>1, <4>2
      <4>3. CASE TypeOf(c) = "required" /\ rest = <<>> /\ hasNext
        BY <2>1, <4>3
      <4>4. CASE TypeOf(c) = "required" /\ rest = <<>> /\ ~hasNext
        BY <2>1, <4>4
      <4>5. CASE TypeOf(c) = "optional"
        BY <2>1, <4>5
      <4>6. CASE TypeOf(c) \notin {"none", "required", "optional"}
        BY <2>1, <4>6
      <4> QED BY <4>1, <4>2, <4>3, <4>4, <4>5, <4>6
    <3> QED BY <2>3, <3>1
  <2> QED BY <2>2, <2>4
<1>5. CASE t.kind = "long"
  <2> DEFINE kind == TypeOf(t.name)
  <2>1. ASSUME NEW p \in {o, l}
        PROVE  ParseAt(p) =
                 CASE kind = "undefined" -> Parsed(p, 1, o.subind, <<"invalid", None, None>>)
                   [] t.eq /\ kind = "none" -> Parsed(p, 1, o.subind, <<"toomany", t.name, None>>)
                   [] t.eq /\ kind # "none" -> Parsed(p, 1, o.subind, <<"ok", t.name, "value">>)
                   [] ~t.eq /\ kind = "required" ->
                        IF hasNext THEN Parsed(p, 2, o.subind, <<"ok", t.name, after>>)
                        ELSE Parsed(p, 1, o.subind, <<"missing", t.name, None>>)
                   [] ~t.eq /\ kind \in {"none", "optional"} -> Parsed(p, 1, o.subind, <<"ok", t.name, None>>)
    <3>1. /\ p \in Scanners /\ p.optind = i /\ p.subind = o.subind /\ Len(p.argv) = Len(o.argv)
          /\ p.argv[i].t = t /\ (hasNext => p.argv[i + 1].id = after)
      BY <1>2
    <3>2. ParseAt(p) = ParseLong(p)
      BY <1>5, <3>1 DEF ParseAt
    <3>3. /\ [p EXCEPT !.optind = @ + 1] = Moves(p, 1, o.subind)
          /\ [[p EXCEPT !.optind = @ + 1] EXCEPT !.optind = @ + 1] = Moves(p, 2, o.subind)
          /\ [p EXCEPT !.optind = @ + 1].optind = i + 1
      BY <1>3, <3>1, ZenonT(60)
    <3>4. (i + 1 <= Len(o.argv)) = hasNext
      BY <1>0
    <3>5. ParseLong(p) =
            CASE kind = "undefined" -> [o |-> Moves(p, 1, o.subind), r |-> <<"invalid", None, None>>]
              [] t.eq /\ kind = "none" -> [o |-> Moves(p, 1, o.subind), r |-> <<"toomany", t.name, None>>]
              [] t.eq /\ kind # "none" -> [o |-> Moves(p, 1, o.subind), r |-> <<"ok", t.name, "value">>]
              [] ~t.eq /\ kind = "required" ->
                   IF hasNext THEN [o |-> Moves(p, 2, o.subind), r |-> <<"ok", t.name, after>>]
                   ELSE [o |-> Moves(p, 1, o.subind), r |-> <<"missing", t.name, None>>]
              [] ~t.eq /\ kind \in {"none", "optional"} ->
                   [o |-> Moves(p, 1, o.subind), r |-> <<"ok", t.name, None>>]
      <4>1. hasNext => p.argv[[p EXCEPT !.optind = @ + 1].optind].id = after
        BY <3>1, <3>3
      <4> QED BY <3>1, <3>3, <3>4, <4>1 DEF ParseLong
    <3>6. \A count, sub, r : [o |-> Moves(p, count, sub), r |-> r] = Parsed(p, count, sub, r)
      BY <1>p
    <3> HIDE DEF kind
    <3> QED BY <3>2, <3>5, <3>6, ZenonT(120)
  <2>2. kind \in {"undefined", "none", "required", "optional"} /\ t.eq \in BOOLEAN
    BY <1>0, <1>5, OptAssumption DEF TypeOf
  <2> HIDE DEF kind
  <2>3. \E count \in {1, 2} : \E r : (count = 2 => hasNext) /\ \A p \in {o, l} : ParseAt(p) = Parsed(p, count, o.subind, r)
    <3>1. CASE kind = "undefined"
      BY <2>1, <3>1
    <3>2. CASE t.eq /\ kind = "none"
      BY <2>1, <3>2
    <3>3. CASE t.eq /\ kind \in {"required", "optional"}
      BY <2>1, <3>3
    <3>4. CASE ~t.eq /\ kind = "required" /\ hasNext
      BY <2>1, <3>4
    <3>5. CASE ~t.eq /\ kind = "required" /\ ~hasNext
      BY <2>1, <3>5
    <3>6. CASE ~t.eq /\ kind \in {"none", "optional"}
      BY <2>1, <3>6
    <3> QED BY <2>2, <3>1, <3>2, <3>3, <3>4, <3>5, <3>6
  <2>a. PICK count \in {1, 2} : \E r : (count = 2 => hasNext) /\ \A p \in {o, l} : ParseAt(p) = Parsed(p, count, o.subind, r)
    BY <2>3
  <2>4. PICK r : (count = 2 => hasNext) /\ \A p \in {o, l} : ParseAt(p) = Parsed(p, count, o.subind, r)
    BY <2>a
  <2>5. count \in 0..2 /\ i + count <= Len(o.argv) + 1
    BY <1>0, <2>a, <2>4
  <2> QED BY <1>0, <2>4, <2>5
<1> QED BY <1>0, <1>4, <1>5

\* How the scanner stands to the reader of the line as given: from the reader's place on
\* the elements are where they were, and between the scanner's place and the reader's are
\* the words it has skipped, in their order.
Follows(o, l) ==
  /\ Len(o.argv) = Len(l.argv) /\ o.subind = l.subind /\ o.permute = l.permute
  /\ 1 <= o.optind /\ o.optind <= l.optind /\ l.optind <= Len(l.argv) + 1
  /\ \A k \in 1..Len(l.argv) : l.argv[k].id = k
  /\ Ids(o.argv) = 1..Len(o.argv)
  /\ \A k \in l.optind..Len(o.argv) : o.argv[k] = l.argv[k]
  /\ \A k \in o.optind..(l.optind - 1) : o.argv[k].t.kind = "word" /\ o.argv[k].id < l.optind
  /\ \A j, k \in o.optind..(l.optind - 1) : j < k => o.argv[j].id < o.argv[k].id
  /\ ~o.permute => o.optind = l.optind

LEMMA ScannerTypes ==
  ASSUME NEW o \in Scanners
  PROVE  /\ o.argv \in Seq(Elements) /\ o.optind \in Nat /\ o.subind \in Nat /\ o.permute \in BOOLEAN
         /\ Len(o.argv) \in Nat
         /\ \A k \in 1..Len(o.argv) : o.argv[k] \in Elements /\ o.argv[k].t \in Tokens /\ o.argv[k].id \in Nat
<1>1. o.argv \in Seq(Elements) /\ o.optind \in Nat /\ o.subind \in Nat /\ o.permute \in BOOLEAN
  BY DEF Scanners
<1>2. Len(o.argv) \in Nat
  BY <1>1
<1>3. ASSUME NEW k \in 1..Len(o.argv)
      PROVE  o.argv[k] \in Elements /\ o.argv[k].t \in Tokens /\ o.argv[k].id \in Nat
  <2>1. o.argv[k] \in Elements
    BY <1>1
  <2> QED BY <2>1 DEF Elements
<1> QED BY <1>1, <1>2, <1>3

\* Both find the same option first.
LEMMA SameFirstOption ==
  ASSUME NEW o \in Scanners, NEW l \in Scanners, Follows(o, l)
  PROVE  /\ FirstOption(o) = FirstOption(l)
         /\ \/ FirstOption(l) = 0
            \/ /\ FirstOption(l) \in l.optind..Len(l.argv)
               /\ l.argv[FirstOption(l)].t.kind # "word"
               /\ \A k \in l.optind..(FirstOption(l) - 1) : l.argv[k].t.kind = "word"
<1> DEFINE ahead == {i \in l.optind..Len(l.argv) : l.argv[i].t.kind # "word"}
<1>0. /\ o.optind \in Nat /\ l.optind \in Nat /\ Len(o.argv) = Len(l.argv) /\ Len(l.argv) \in Nat
      /\ o.optind <= l.optind
      /\ \A k \in l.optind..Len(o.argv) : o.argv[k] = l.argv[k]
      /\ \A k \in o.optind..(l.optind - 1) : o.argv[k].t.kind = "word"
  BY ScannerTypes DEF Follows
<1>1. {i \in o.optind..Len(o.argv) : o.argv[i].t.kind # "word"} = ahead
  <2>1. ASSUME NEW i \in o.optind..Len(o.argv), o.argv[i].t.kind # "word"
        PROVE  i \in ahead
    <3>1. ~(i < l.optind)
      BY <1>0, <2>1
    <3>2. i \in l.optind..Len(l.argv)
      BY <1>0, <3>1
    <3> QED BY <1>0, <2>1, <3>2
  <2>2. ASSUME NEW i \in ahead
        PROVE  i \in o.optind..Len(o.argv) /\ o.argv[i].t.kind # "word"
    <3>1. i \in l.optind..Len(l.argv) /\ l.argv[i].t.kind # "word"
      OBVIOUS
    <3>2. i \in o.optind..Len(o.argv) /\ i \in l.optind..Len(o.argv)
      BY <1>0, <3>1
    <3> QED BY <1>0, <3>1, <3>2
  <2> QED BY <2>1, <2>2
<1>2. /\ FirstOption(l) = IF ahead = {} THEN 0 ELSE CHOOSE i \in ahead : \A j \in ahead : i <= j
      /\ FirstOption(o) = FirstOption(l)
  <2> DEFINE other == {i \in o.optind..Len(o.argv) : o.argv[i].t.kind # "word"}
             first(S) == IF S = {} THEN 0 ELSE CHOOSE i \in S : \A j \in S : i <= j
  <2>1. FirstOption(l) = first(ahead)
    BY DEF FirstOption
  <2>2. FirstOption(o) = first(other)
    BY DEF FirstOption
  <2>3. other = ahead
    BY <1>1
  <2>4. FirstOption(l) = first(ahead) /\ FirstOption(o) = FirstOption(l)
    <3> HIDE DEF other, ahead, first
    <3> QED BY <2>1, <2>2, <2>3
  <2> QED BY <2>4
<1>3. CASE ahead = {}
  <2> HIDE DEF ahead
  <2> QED BY <1>2, <1>3, ZenonT(30)
<1>4. CASE ahead # {}
  <2>1. ahead \in SUBSET Nat
    BY <1>0
  <2>2. \E i \in ahead : \A j \in ahead : i <= j
    <3> HIDE DEF ahead
    <3> QED BY <1>4, <2>1, NatLeast
  <2> DEFINE first == FirstOption(l)
  <2>3. first \in ahead /\ \A j \in ahead : first <= j
    <3> HIDE DEF ahead
    <3> QED BY <1>2, <1>4, <2>2
  <2> HIDE DEF first
  <2>4. first \in l.optind..Len(l.argv) /\ l.argv[first].t.kind # "word"
    BY <2>3
  <2>5. ASSUME NEW k \in l.optind..(first - 1)
        PROVE  l.argv[k].t.kind = "word"
    <3>1. k \in l.optind..Len(l.argv) /\ ~(first <= k)
      BY <1>0, <2>4
    <3> HIDE DEF ahead
    <3>2. k \in ahead \/ l.argv[k].t.kind = "word"
      BY <3>1 DEF ahead
    <3> QED BY <2>3, <3>1, <3>2, ZenonT(30)
  <2> QED BY <1>2, <2>4, <2>5, ZenonT(30) DEF first
<1> QED BY <1>3, <1>4

\* Past an option found at place i the scanner stands to the reader as before.
LEMMA MovedFollows ==
  ASSUME NEW o \in Scanners, NEW l \in Scanners, Follows(o, l),
         NEW i \in l.optind..Len(l.argv), \A k \in l.optind..(i - 1) : l.argv[k].t.kind = "word",
         ~o.permute => i = o.optind, NEW count \in Nat, i + count <= Len(l.argv) + 1, NEW sub \in Nat
  PROVE  LET s == Scanner(Permuted(o.argv, i, o.optind, count), o.optind + count, sub, o.permute)
             m == Scanner(l.argv, i + count, sub, l.permute)
         IN s \in Scanners /\ m \in Scanners /\ Follows(s, m)
<1> DEFINE v == o.argv
           p == o.optind
           q == l.optind
           n == Len(l.argv)
           w == Permuted(v, i, p, count)
           s == Scanner(w, p + count, sub, o.permute)
           m == Scanner(l.argv, i + count, sub, l.permute)
<1>0. /\ v \in Seq(Elements) /\ p \in Nat /\ q \in Nat /\ n \in Nat /\ i \in Nat /\ Len(v) = n
      /\ 1 <= p /\ p <= q /\ q <= i /\ i <= n /\ i + count <= n + 1
      /\ o.permute \in BOOLEAN /\ l.permute = o.permute /\ l.argv \in Seq(Elements)
  BY ScannerTypes DEF Follows
<1>1. /\ \A k \in 1..n : l.argv[k].id = k
      /\ Ids(v) = 1..n
      /\ \A k \in q..n : v[k] = l.argv[k]
      /\ \A k \in p..(q - 1) : v[k].t.kind = "word" /\ v[k].id < q /\ v[k].id \in Nat
      /\ \A j, k \in p..(q - 1) : j < k => v[j].id < v[k].id
      /\ \A k \in q..(i - 1) : l.argv[k].t.kind = "word"
      /\ ~o.permute => i = p
  <2>1. ASSUME NEW k \in p..(q - 1) PROVE v[k].id \in Nat
    <3>1. k \in 1..Len(v)
      BY <1>0, SMTT(60)
    <3> QED BY <3>1, ScannerTypes
  <2> QED BY <1>0, <2>1 DEF Follows
<1>2. Moved(v, i, p, count, w)
  BY <1>0, PermutedElements, SMTT(60)
<1>3. Ids(w) = Ids(v)
  <2> HIDE DEF v, p, w
  <2> QED BY <1>2, MovedKeeps
<1>4. /\ w \in Seq(Elements) /\ Len(w) = n
      /\ \A k \in 1..n : w[k] = IF k < p THEN v[k]
                                ELSE IF k < p + count THEN v[k - p + i]
                                ELSE IF k < i + count THEN v[k - count]
                                ELSE v[k]
  BY <1>0, <1>2 DEF Moved
<1> HIDE DEF w
<1>5. s \in Scanners /\ m \in Scanners
  <2>1. p + count \in Nat /\ i + count \in Nat
    BY <1>0
  <2> QED BY <1>0, <1>4, <2>1 DEF Scanner, Scanners
<1> HIDE DEF v, p, q, n
\* The words skipped, those skipped before and those up to the option.
<1>6. ASSUME NEW k \in p..(i - 1)
      PROVE  v[k].t.kind = "word" /\ v[k].id < i /\ v[k].id \in Nat
  <2>1. CASE k < q
    <3>1. k \in p..(q - 1)
      BY <1>0, <2>1
    <3> QED BY <1>0, <1>1, <3>1
  <2>2. CASE ~(k < q)
    <3>1. k \in q..n /\ k \in q..(i - 1) /\ k \in 1..n
      BY <1>0, <2>2
    <3>2. v[k].t.kind = "word" /\ v[k].id = k
      BY <1>1, <3>1
    <3> QED BY <1>0, <3>2
  <2> QED BY <2>1, <2>2
<1>7. ASSUME NEW j \in p..(i - 1), NEW k \in p..(i - 1), j < k
      PROVE  v[j].id < v[k].id
  <2>1. CASE k < q
    <3>1. j \in p..(q - 1) /\ k \in p..(q - 1)
      BY <1>0, <1>7, <2>1, SMTT(60)
    <3> QED BY <1>1, <1>7, <3>1
  <2>2. CASE ~(k < q)
    <3>1. k \in q..n /\ k \in 1..n
      BY <1>0, <2>2
    <3>2. v[k].id = k
      BY <1>1, <3>1
    <3>3. CASE j < q
      <4>1. j \in p..(q - 1)
        BY <1>0, <3>3
      <4>2. v[j].id < q /\ v[j].id \in Nat
        BY <1>1, <4>1
      <4> QED BY <1>0, <2>2, <3>2, <4>2, SMTT(60)
    <3>4. CASE ~(j < q)
      <4>1. j \in q..n /\ j \in 1..n
        BY <1>0, <3>4, SMTT(60)
      <4>2. v[j].id = j
        BY <1>1, <4>1
      <4> QED BY <1>7, <3>2, <4>2
    <3> QED BY <3>3, <3>4
  <2> QED BY <2>1, <2>2
<1>8. ASSUME NEW k \in (p + count)..((i + count) - 1)
      PROVE  w[k] = v[k - count] /\ k - count \in p..(i - 1)
  <2>1. k \in 1..n /\ ~(k < p) /\ ~(k < p + count) /\ k < i + count /\ k - count \in p..(i - 1)
    BY <1>0, SMTT(60)
  <2> QED BY <1>4, <2>1
<1>9. ASSUME NEW k \in (i + count)..n
      PROVE  w[k] = l.argv[k]
  <2>1. k \in 1..n /\ ~(k < p) /\ ~(k < p + count) /\ ~(k < i + count) /\ k \in q..n
    BY <1>0
  <2> QED BY <1>1, <1>4, <2>1
<1>10. /\ \A k \in (p + count)..((i + count) - 1) : w[k].t.kind = "word" /\ w[k].id < i + count
       /\ \A j, k \in (p + count)..((i + count) - 1) : j < k => w[j].id < w[k].id
  <2>1. ASSUME NEW k \in (p + count)..((i + count) - 1)
        PROVE  w[k].t.kind = "word" /\ w[k].id < i + count
    <3>1. w[k] = v[k - count] /\ k - count \in p..(i - 1)
      BY <1>8
    <3>2. w[k].t.kind = "word" /\ w[k].id < i /\ w[k].id \in Nat
      BY <1>6, <3>1
    <3> QED BY <1>0, <3>2, SMTT(60)
  <2>2. ASSUME NEW j \in (p + count)..((i + count) - 1), NEW k \in (p + count)..((i + count) - 1), j < k
        PROVE  w[j].id < w[k].id
    <3>1. /\ w[j] = v[j - count] /\ j - count \in p..(i - 1)
          /\ w[k] = v[k - count] /\ k - count \in p..(i - 1)
      BY <1>8
    <3>2. j - count < k - count
      BY <1>0, <2>2
    <3> QED BY <1>7, <3>1, <3>2
  <2> QED BY <2>1, <2>2
<1>11. Ids(w) = 1..Len(w)
  BY <1>0, <1>1, <1>3, <1>4
<1>12. 1 <= p + count /\ p + count <= i + count /\ i + count <= n + 1 /\ (~o.permute => p + count = i + count)
  BY <1>0, <1>1
<1>13. /\ s.argv = w /\ s.optind = p + count /\ s.subind = sub /\ s.permute = o.permute
       /\ m.argv = l.argv /\ m.optind = i + count /\ m.subind = sub /\ m.permute = o.permute
  BY <1>0 DEF Scanner
<1> HIDE DEF s, m
<1>14. Follows(s, m)
  <2>1. /\ Len(w) = Len(l.argv) /\ Len(l.argv) = n
        /\ \A k \in 1..Len(l.argv) : l.argv[k].id = k
        /\ \A k \in (i + count)..Len(w) : w[k] = l.argv[k]
    BY <1>1, <1>4, <1>9 DEF n
  <2> QED BY <1>10, <1>11, <1>12, <1>13, <2>1 DEF Follows
<1> QED BY <1>5, <1>14 DEF s, m, w, v, p

LEMMA ScanFollows ==
  ASSUME NEW o \in Scanners, NEW l \in Scanners, Follows(o, l)
  PROVE  /\ Scan(o).r = Read(l).r
         /\ Scan(o).o \in Scanners /\ Read(l).o \in Scanners
         /\ Follows(Scan(o).o, Read(l).o)
<1> DEFINE i == FirstOption(l)
           ends == i = 0 \/ (~o.permute /\ i > o.optind)
<1>0. /\ o.optind \in Nat /\ l.optind \in Nat /\ Len(l.argv) \in Nat /\ Len(o.argv) = Len(l.argv)
      /\ o.permute \in BOOLEAN /\ l.permute = o.permute /\ o.subind = l.subind
      /\ o.optind <= l.optind /\ 1 <= o.optind /\ (~o.permute => o.optind = l.optind)
      /\ o.argv \in Seq(Elements) /\ l.argv \in Seq(Elements) /\ o.subind \in Nat
      /\ \A k \in l.optind..Len(l.argv) : o.argv[k] = l.argv[k]
  BY ScannerTypes DEF Follows
<1>1. /\ FirstOption(o) = i
      /\ \/ i = 0
         \/ /\ i \in l.optind..Len(l.argv) /\ l.argv[i].t.kind # "word"
            /\ \A k \in l.optind..(i - 1) : l.argv[k].t.kind = "word"
  BY SameFirstOption
<1> HIDE DEF i
<1>2. CASE ends
  <2>1. i = 0 \/ (~l.permute /\ i > l.optind)
    BY <1>0, <1>2
  <2>2. Scan(o) = Ends(o)
    BY <1>1, <1>2 DEF Scan
  <2>3. Read(l) = Ends(l)
    BY <2>1 DEF Read, i
  <2> QED BY <2>2, <2>3 DEF Ends
<1>3. CASE ~ends
  <2> DEFINE kind == l.argv[i].t.kind
             w(count) == Permuted(o.argv, i, o.optind, count)
             s(count, sub) == Scanner(w(count), o.optind + count, sub, o.permute)
             m(count, sub) == Scanner(l.argv, i + count, sub, l.permute)
  <2>1. /\ i \in l.optind..Len(l.argv) /\ i \in Nat /\ kind # "word"
        /\ \A k \in l.optind..(i - 1) : l.argv[k].t.kind = "word"
        /\ ~o.permute => i = o.optind
    BY <1>0, <1>1, <1>3
  <2>2. ~(i = 0 \/ (~l.permute /\ i > l.optind))
    BY <1>0, <1>3
  <2>3. o.argv[i] = l.argv[i] /\ i \in 1..Len(l.argv)
    BY <1>0, <2>1
  <2>4. ASSUME NEW count \in Nat, NEW sub \in Nat, i + count <= Len(l.argv) + 1
        PROVE  s(count, sub) \in Scanners /\ m(count, sub) \in Scanners /\ Follows(s(count, sub), m(count, sub))
    BY <2>1, <2>4, MovedFollows
  <2>5. CASE kind = "dashdash"
    <3>1. Scan(o) = Ends([o EXCEPT !.argv = w(1), !.optind = o.optind + 1])
      BY <1>1, <1>3, <2>3, <2>5 DEF Scan
    <3>2. Read(l) = Ends([l EXCEPT !.optind = i + 1])
      BY <2>2, <2>5 DEF Read, i
    <3>3. [o EXCEPT !.argv = w(1), !.optind = o.optind + 1] = s(1, o.subind)
      BY ScannerUpdates, ZenonT(120)
    <3>4. [l EXCEPT !.optind = i + 1] = m(1, o.subind)
      BY <1>0, ScannerUpdates, ZenonT(120)
    <3>5. 1 \in Nat /\ i + 1 <= Len(l.argv) + 1
      BY <1>0, <2>1
    <3>6. s(1, o.subind) \in Scanners /\ m(1, o.subind) \in Scanners /\ Follows(s(1, o.subind), m(1, o.subind))
      BY <1>0, <2>4, <3>5
    <3> HIDE DEF s, m
    <3> QED BY <3>1, <3>2, <3>3, <3>4, <3>6 DEF Ends
  <2>6. CASE kind # "dashdash"
    <3> DEFINE oi == [o EXCEPT !.optind = i]
               li == [l EXCEPT !.optind = i]
    <3>1. /\ oi = Scanner(o.argv, i, o.subind, o.permute)
          /\ li = Scanner(l.argv, i, l.subind, l.permute)
      BY ScannerUpdates
    <3>2. /\ oi \in Scanners /\ li \in Scanners
      BY <1>0, <2>1, <3>1, ScannerTypes DEF Scanner, Scanners
    <3>3. /\ oi.optind = i /\ li.optind = i /\ oi.subind = li.subind /\ oi.argv = o.argv /\ li.argv = l.argv
          /\ oi.permute = o.permute /\ li.permute = l.permute
      BY <1>0, <3>1 DEF Scanner
    <3>4. SameFrom(oi, li, oi.optind)
      <4>1. \A j \in i..Len(o.argv) : o.argv[j] = l.argv[j]
        BY <1>0, <2>1
      <4> QED BY <1>0, <3>3, <4>1 DEF SameFrom
    <3>5. oi.argv[oi.optind].t.kind \in {"short", "long"}
      <4>1. l.argv[i].t \in Tokens
        BY <2>3, ScannerTypes
      <4>2. kind \in {"word", "dashdash", "short", "long"}
        BY <4>1, OptAssumption
      <4> QED BY <2>1, <2>3, <2>6, <3>3, <4>2
    <3>6. Scan(o) = LET p == ParseAt(oi)
                        consumed == p.o.optind - i
                    IN [o |-> [p.o EXCEPT !.argv = Permuted(@, i, o.optind, consumed), !.optind = o.optind + consumed],
                        r |-> p.r]
      BY <1>1, <1>3, <2>3, <2>6 DEF Scan
    <3>7. Read(l) = ParseAt(li)
      BY <2>2, <2>6 DEF Read, i
    <3> HIDE DEF oi, li
    <3>a. PICK count \in 0..2, sub \in Nat : \E r :
            /\ i + count <= Len(l.argv) + 1
            /\ ParseAt(oi) = Parsed(oi, count, sub, r)
            /\ ParseAt(li) = Parsed(li, count, sub, r)
      <4>1. oi.optind \in 1..Len(oi.argv) /\ oi.optind = li.optind /\ oi.subind = li.subind
        BY <1>0, <2>3, <3>3
      <4>2. \E count \in 0..2, sub \in Nat : \E r :
              /\ oi.optind + count <= Len(oi.argv) + 1
              /\ ParseAt(oi) = Parsed(oi, count, sub, r)
              /\ ParseAt(li) = Parsed(li, count, sub, r)
        BY <3>2, <3>4, <3>5, <4>1, ParsedAlike
      <4> QED BY <1>0, <3>3, <4>2
    <3>8. PICK r :
            /\ i + count <= Len(l.argv) + 1
            /\ ParseAt(oi) = Parsed(oi, count, sub, r)
            /\ ParseAt(li) = Parsed(li, count, sub, r)
      BY <3>a
    <3>9. count \in Nat
      BY <3>a
    <3>10. Read(l).o = m(count, sub) /\ Read(l).r = r
      BY <3>3, <3>7, <3>8 DEF Parsed
    <3>11. Scan(o).o = s(count, sub) /\ Scan(o).r = r
      <4> DEFINE a == ParseAt(oi)
      <4>1. a.o = Scanner(o.argv, i + count, sub, o.permute) /\ a.r = r
        BY <3>3, <3>8 DEF Parsed
      <4>2. a.o.optind = i + count /\ a.o.argv = o.argv
        BY <4>1 DEF Scanner
      <4>3. (i + count) - i = count
        BY <2>1, <3>9
      <4>4. /\ Scan(o).o = [a.o EXCEPT !.argv = Permuted(a.o.argv, i, o.optind, a.o.optind - i),
                                       !.optind = o.optind + (a.o.optind - i)]
            /\ Scan(o).r = a.r
        BY <3>6
      <4> HIDE DEF a
      <4>5. Scan(o).o = [a.o EXCEPT !.argv = w(count), !.optind = o.optind + count]
        BY <4>2, <4>3, <4>4
      <4>6. a.o \in Scanners /\ a.o.subind = sub /\ a.o.permute = o.permute
        <5>1. i + count \in Nat
          BY <2>1, <3>9
        <5>2. Scanner(o.argv, i + count, sub, o.permute) \in Scanners
          BY <1>0, <5>1 DEF Scanner, Scanners
        <5> QED BY <4>1, <5>2 DEF Scanner
      <4>7. [a.o EXCEPT !.argv = w(count), !.optind = o.optind + count] = s(count, sub)
        <5> DEFINE moved == w(count)
                   place == o.optind + count
        <5> HIDE DEF moved, place
        <5>1. [a.o EXCEPT !.argv = moved, !.optind = place] = Scanner(moved, place, sub, o.permute)
          <6>1. PICK b \in Scanners : b = a.o
            BY <4>6
          <6>2. [b EXCEPT !.argv = moved, !.optind = place] = Scanner(moved, place, b.subind, b.permute)
            BY ScannerUpdates, ZenonT(120)
          <6> QED BY <4>6, <6>1, <6>2
        <5> QED BY <5>1 DEF moved, place
      <4> HIDE DEF s
      <4> QED BY <4>1, <4>4, <4>5, <4>7, Zenon
    <3>12. s(count, sub) \in Scanners /\ m(count, sub) \in Scanners /\ Follows(s(count, sub), m(count, sub))
      BY <2>4, <3>8, <3>9
    <3> HIDE DEF s, m
    <3> QED BY <3>10, <3>11, <3>12, SMTT(60)
  <2> QED BY <2>5, <2>6
<1> QED BY <1>2, <1>3

\* The inductive invariant: the scanner stands to the reader as Follows says, and both
\* have returned the same.
OptInv ==
  /\ opt \in Scanners /\ optLine \in Scanners
  /\ Follows(opt, optLine)
  /\ optOut = optMeant

LEMMA InitOptInv ==
  ASSUME OptInit
  PROVE  OptInv
<1>1. PICK line \in Lines, permute \in BOOLEAN :
        LET argv == [i \in DOMAIN line |-> [t |-> line[i], id |-> i]] IN
          /\ opt = [argv |-> argv, optind |-> 1, subind |-> 0, permute |-> permute]
          /\ optLine = opt
          /\ optOut = <<>> /\ optMeant = <<>>
  BY DEF OptInit
<1>2. PICK n \in 0..ArgcMax : line \in [1..n -> Tokens]
  BY DEF Lines
<1>3. n \in Nat /\ DOMAIN line = 1..n
  BY <1>2, OptAssumption
<1> DEFINE argv == [i \in 1..n |-> [t |-> line[i], id |-> i]]
<1>4. opt = Scanner(argv, 1, 0, permute) /\ optLine = opt /\ optOut = <<>> /\ optMeant = <<>>
  BY <1>1, <1>3 DEF Scanner
<1>5. /\ argv \in Seq(Elements) /\ Len(argv) = n
      /\ \A k \in 1..n : argv[k].id = k
  <2>1. ASSUME NEW k \in 1..n
        PROVE  argv[k] \in Elements /\ argv[k].id = k
    <3>1. line[k] \in Tokens /\ k \in Nat
      BY <1>2, <1>3
    <3> QED BY <3>1 DEF Elements
  <2>2. DOMAIN argv = 1..n /\ argv = [k \in 1..n |-> argv[k]]
    OBVIOUS
  <2> HIDE DEF argv
  <2>3. argv \in [1..n -> Elements]
    BY <2>1, <2>2
  <2>4. argv \in Seq(Elements) /\ Len(argv) = n
    BY <1>3, <2>3
  <2> QED BY <2>1, <2>4
<1> HIDE DEF argv
<1>6. opt \in Scanners /\ optLine \in Scanners
  BY <1>4, <1>5 DEF Scanner, Scanners
<1>7. opt.argv = argv /\ opt.optind = 1 /\ optLine.argv = argv /\ optLine.optind = 1
  BY <1>4 DEF Scanner
<1>8. Ids(argv) = 1..n
  BY <1>3, <1>5 DEF Ids
<1>9. Follows(opt, opt)
  <2>1. 1 <= 1 /\ 1 <= n + 1 /\ 1..(1 - 1) = {}
    BY <1>3
  <2> QED BY <1>5, <1>7, <1>8, <2>1 DEF Follows
<1> QED BY <1>4, <1>6, <1>9 DEF OptInv

\* One element taken as it is: of the words skipped, or the reader's next one.
LEMMA ArgKeepsOptInv ==
  ASSUME OptInv, OptArg
  PROVE  OptInv'
<1> DEFINE p == opt.optind
           q == optLine.optind
           n == Len(optLine.argv)
           id == opt.argv[p].id
           after == IF id >= q THEN id + 1 ELSE q
<1>0. /\ opt \in Scanners /\ optLine \in Scanners /\ Follows(opt, optLine)
      /\ opt.argv \in Seq(Elements) /\ optLine.argv \in Seq(Elements)
      /\ p \in Nat /\ q \in Nat /\ n \in Nat /\ Len(opt.argv) = n
      /\ 1 <= p /\ p <= q /\ q <= n + 1 /\ p <= n
      /\ \A k \in 1..n : optLine.argv[k].id = k
      /\ \A k \in q..n : opt.argv[k] = optLine.argv[k]
      /\ \A k \in p..(q - 1) : opt.argv[k].id < q
      /\ ~opt.permute => p = q
      /\ opt.subind \in Nat /\ optLine.subind \in Nat /\ opt.permute \in BOOLEAN /\ optLine.permute \in BOOLEAN
  BY ScannerTypes DEF OptInv, Follows, OptArg
<1>1. /\ opt' = [opt EXCEPT !.optind = p + 1]
      /\ optLine' = [optLine EXCEPT !.optind = after]
      /\ optOut' = Append(optOut, <<"arg", id, None>>)
      /\ optMeant' = Append(optMeant, <<"arg", id, None>>)
  BY DEF OptArg
<1>2. id \in Nat
  <2>1. p \in 1..Len(opt.argv)
    BY <1>0
  <2> QED BY <1>0, <2>1, ScannerTypes
<1>3. after \in Nat /\ q <= after /\ after <= n + 1 /\ p + 1 <= after /\ (p < q => after = q) /\ (p = q => after = q + 1)
  <2>1. CASE p < q
    <3>1. p \in p..(q - 1)
      BY <1>0, <2>1
    <3>2. id < q
      BY <1>0, <3>1
    <3> QED BY <1>0, <1>2, <2>1, <3>2, SMTT(60)
  <2>2. CASE ~(p < q)
    <3>1. p = q /\ p \in q..n /\ p \in 1..n
      BY <1>0, <2>2
    <3>2. id = p
      BY <1>0, <3>1, SMTT(60)
    <3> QED BY <1>0, <3>1, <3>2
  <2> QED BY <2>1, <2>2
<1> HIDE DEF after
<1>4. /\ opt' = Scanner(opt.argv, p + 1, opt.subind, opt.permute)
      /\ optLine' = Scanner(optLine.argv, after, optLine.subind, optLine.permute)
  BY <1>0, <1>1, ScannerUpdates
<1>5. /\ opt'.argv = opt.argv /\ opt'.optind = p + 1 /\ opt'.subind = opt.subind /\ opt'.permute = opt.permute
      /\ optLine'.argv = optLine.argv /\ optLine'.optind = after
      /\ optLine'.subind = optLine.subind /\ optLine'.permute = optLine.permute
  BY <1>4 DEF Scanner
<1>6. opt' \in Scanners /\ optLine' \in Scanners
  <2>1. p + 1 \in Nat
    BY <1>0
  <2> QED BY <1>0, <1>3, <1>4, <2>1 DEF Scanner, Scanners
<1>7. /\ \A k \in after..n : k \in q..n
      /\ \A k \in (p + 1)..(after - 1) : k \in p..(q - 1)
      /\ 1 <= p + 1
      /\ ~opt.permute => p + 1 = after
  <2>1. ASSUME NEW k \in (p + 1)..(after - 1)
        PROVE  k \in p..(q - 1)
    BY <1>0, <1>3
  <2>2. \A k \in after..n : k \in q..n
    BY <1>0, <1>3
  <2> QED BY <1>0, <1>3, <2>1, <2>2
<1>8. /\ Len(opt.argv) = Len(optLine.argv) /\ opt.subind = optLine.subind /\ opt.permute = optLine.permute
      /\ \A k \in 1..n : optLine.argv[k].id = k
      /\ Ids(opt.argv) = 1..Len(opt.argv)
      /\ \A k \in q..n : opt.argv[k] = optLine.argv[k]
      /\ \A k \in p..(q - 1) : opt.argv[k].t.kind = "word" /\ opt.argv[k].id < q
      /\ \A j, k \in p..(q - 1) : j < k => opt.argv[j].id < opt.argv[k].id
  BY <1>0 DEF Follows
<1>9. \A k \in (p + 1)..(after - 1) : opt.argv[k].id < after
  <2>1. ASSUME NEW k \in (p + 1)..(after - 1)
        PROVE  opt.argv[k].id < after
    <3>1. k \in p..(q - 1) /\ k \in 1..Len(opt.argv)
      BY <1>0, <1>7
    <3>2. opt.argv[k].id < q /\ opt.argv[k].id \in Nat
      BY <1>0, <1>8, <3>1, ScannerTypes
    <3> QED BY <1>0, <1>3, <3>2, SMTT(60)
  <2> QED BY <2>1
<1> HIDE DEF p, q, n
<1>10. Follows(opt', optLine')
  <2>1. Len(optLine.argv) = n /\ Len(opt.argv) = n
    BY <1>0 DEF n
  <2> QED BY <1>3, <1>5, <1>7, <1>8, <1>9, <2>1 DEF Follows
<1> QED BY <1>1, <1>6, <1>10 DEF OptInv

LEMMA NextKeepsOptInv ==
  ASSUME OptInv, [OptStep]_optVars
  PROVE  OptInv'
<1>1. CASE OptNext
  <2>1. /\ opt' = Scan(opt).o /\ optOut' = Append(optOut, Scan(opt).r)
        /\ optLine' = Read(optLine).o /\ optMeant' = Append(optMeant, Read(optLine).r)
    BY <1>1 DEF OptNext
  <2>2. /\ Scan(opt).r = Read(optLine).r
        /\ Scan(opt).o \in Scanners /\ Read(optLine).o \in Scanners
        /\ Follows(Scan(opt).o, Read(optLine).o)
    BY ScanFollows DEF OptInv
  <2> QED BY <2>1, <2>2 DEF OptInv
<1>2. CASE OptArg
  BY <1>2, ArgKeepsOptInv
<1>3. CASE UNCHANGED optVars
  BY <1>3 DEF optVars, OptInv
<1> QED BY <1>1, <1>2, <1>3 DEF OptStep

LEMMA OptInvGivesOptions ==
  ASSUME OptInv
  PROVE  OptionsAsGiven
<1> DEFINE p == opt.optind
           q == optLine.optind
           n == Len(optLine.argv)
           v == opt.argv
<1>0. /\ v \in Seq(Elements) /\ p \in Nat /\ q \in Nat /\ n \in Nat /\ Len(v) = n
      /\ 1 <= p /\ p <= q /\ q <= n + 1 /\ Ids(v) = 1..n
      /\ \A k \in 1..n : optLine.argv[k].id = k
      /\ \A k \in q..n : v[k] = optLine.argv[k]
      /\ \A k \in p..(q - 1) : v[k].id < q
      /\ \A j, k \in p..(q - 1) : j < k => v[j].id < v[k].id
      /\ optOut = optMeant
  BY ScannerTypes DEF OptInv, Follows
<1>1. {v[i].id : i \in DOMAIN v} = DOMAIN v /\ Len(v) = n
  <2>1. DOMAIN v = 1..n
    BY <1>0
  <2>2. {v[i].id : i \in 1..n} = 1..n
    BY <1>0 DEF Ids
  <2> QED BY <1>0, <2>1, <2>2
<1>2. ASSUME NEW i \in p..Len(v), NEW j \in p..Len(v), i < j
      PROVE  v[i].id < v[j].id
  <2>1. CASE j < q
    <3>1. i \in p..(q - 1) /\ j \in p..(q - 1)
      BY <1>0, <1>2, <2>1
    <3> QED BY <1>0, <1>2, <3>1
  <2>2. CASE ~(j < q)
    <3>1. j \in q..n /\ j \in 1..n
      BY <1>0, <2>2
    <3>2. v[j].id = j
      BY <1>0, <3>1
    <3>3. CASE i < q
      <4>1. i \in p..(q - 1) /\ i \in 1..Len(v)
        BY <1>0, <3>3
      <4>2. v[i].id < q /\ v[i].id \in Nat
        BY <1>0, <4>1, ScannerTypes DEF OptInv
      <4> QED BY <1>0, <2>2, <3>2, <4>2, SMTT(60)
    <3>4. CASE ~(i < q)
      <4>1. i \in q..n /\ i \in 1..n
        BY <1>0, <3>4
      <4>2. v[i].id = i
        BY <1>0, <4>1
      <4> QED BY <1>2, <3>2, <4>2
    <3> QED BY <3>3, <3>4
  <2> QED BY <2>1, <2>2
<1> QED BY <1>0, <1>1, <1>2 DEF OptionsAsGiven

\* The scanner returns what a reader of the line finds, for every line, every set of
\* options, either mode and every order of the calls; no element is lost and the words
\* left keep their order (opt.c:38-44, 162-192).
THEOREM ScannerReadsTheLine == OptSpec => []OptionsAsGiven
<1>1. OptInit => OptInv
  BY InitOptInv
<1>2. OptInv /\ [OptStep]_optVars => OptInv'
  BY NextKeepsOptInv
<1>3. OptInv => OptionsAsGiven
  BY OptInvGivesOptions
<1> QED BY <1>1, <1>2, <1>3, PTL DEF OptSpec

-----------------------------------------------------------------------------
(* Sequences put together of others. *)

\* What of q is put together up to each of its places.
Joins(S, q, f) ==
  /\ f \in [0..Len(q) -> Seq(S)] /\ f[0] = <<>>
  /\ \A i \in 1..Len(q) : f[i] = f[i - 1] \o q[i]

\* Flattening joins the elements one after the other, as the fold defines it.
LEMMA FlattenJoins ==
  ASSUME NEW S, NEW q \in Seq(Seq(S))
  PROVE  \E f : Joins(S, q, f) /\ FlattenSeq(q) = f[Len(q)]
<1> DEFINE n == Len(q)
           upTo(m, f) == /\ f \in [0..m -> Seq(S)] /\ f[0] = <<>>
                         /\ \A i \in 1..m : f[i] = f[i - 1] \o q[i]
           T == {m \in Nat : m <= n => \E f : upTo(m, f)}
<1>0. n \in Nat /\ \A i \in 1..n : q[i] \in Seq(S)
  OBVIOUS
<1> HIDE DEF n
<1>1. 0 \in T
  <2> DEFINE f == [i \in 0..0 |-> <<>>]
  <2>1. <<>> \in Seq(S)
    OBVIOUS
  <2>2. f \in [0..0 -> Seq(S)] /\ f[0] = <<>> /\ 1..0 = {}
    BY <2>1
  <2>3. upTo(0, f)
    BY <2>2
  <2> QED BY <2>3
<1>2. ASSUME NEW m \in T
      PROVE  m + 1 \in T
  <2>0. m \in Nat /\ m + 1 \in Nat
    OBVIOUS
  <2>1. SUFFICES ASSUME m + 1 <= n
                 PROVE  \E f : upTo(m + 1, f)
    <3> HIDE DEF upTo
    <3> QED BY <2>0
  <2>2. m \in Nat /\ m <= n
    BY <1>0, <2>1
  <2>3. PICK f : upTo(m, f)
    BY <2>2
  <2>4. f \in [0..m -> Seq(S)] /\ f[0] = <<>> /\ \A i \in 1..m : f[i] = f[i - 1] \o q[i]
    BY <2>3
  <2>5. f[m] \in Seq(S) /\ q[m + 1] \in Seq(S)
    BY <1>0, <2>1, <2>2, <2>4
  <2>6. f[m] \o q[m + 1] \in Seq(S)
    BY <2>5
  <2> DEFINE e == f[m] \o q[m + 1]
             g == [i \in 0..(m + 1) |-> IF i <= m THEN f[i] ELSE e]
  <2> HIDE DEF e
  <2>7. e \in Seq(S)
    BY <2>6 DEF e
  <2>8. g \in [0..(m + 1) -> Seq(S)]
    <3>1. ASSUME NEW i \in 0..(m + 1) PROVE (IF i <= m THEN f[i] ELSE e) \in Seq(S)
      <4>1. CASE i <= m
        <5>1. i \in 0..m
          BY <2>2, <4>1
        <5> QED BY <2>4, <4>1, <5>1
      <4>2. CASE ~(i <= m)
        BY <2>7, <4>2
      <4> QED BY <4>1, <4>2
    <3> QED BY <3>1
  <2>9. g[0] = <<>>
    BY <2>2, <2>4
  <2>10. ASSUME NEW i \in 1..(m + 1)
         PROVE  g[i] = g[i - 1] \o q[i]
    <3>1. i - 1 \in 0..(m + 1) /\ i \in 0..(m + 1) /\ i - 1 <= m
      BY <2>2
    <3>2. g[i - 1] = f[i - 1] /\ g[i] = IF i <= m THEN f[i] ELSE e
      BY <3>1
    <3>3. CASE i <= m
      <4>1. i \in 1..m
        BY <2>2, <3>3
      <4>2. f[i] = f[i - 1] \o q[i]
        BY <2>4, <4>1
      <4> HIDE DEF g
      <4> QED BY <3>2, <3>3, <4>2
    <3>4. CASE ~(i <= m)
      <4>1. i = m + 1 /\ i - 1 = m
        BY <2>2, <3>4
      <4> HIDE DEF g
      <4> QED BY <3>2, <3>4, <4>1 DEF e
    <3> QED BY <3>3, <3>4
  <2>11. upTo(m + 1, g)
    <3> HIDE DEF g
    <3> QED BY <2>8, <2>9, <2>10
  <2> QED BY <2>11
<1>3. T = Nat
  <2>1. T \in SUBSET Nat
    OBVIOUS
  <2> HIDE DEF T
  <2> QED BY <1>1, <1>2, <2>1, AllNumbers
<1>4. PICK f : upTo(n, f)
  <2>1. n \in T
    <3> HIDE DEF T
    <3> QED BY <1>0, <1>3
  <2>2. n <= n
    BY <1>0
  <2> QED BY <2>1, <2>2
<1>5. /\ f \in [0..n -> Seq(S)] /\ f[0] = <<>>
      /\ \A i \in 1..n : f[i] = f[i - 1] \o q[i]
  BY <1>4
<1>6. Joins(S, q, f)
  BY <1>5 DEF Joins, n
<1> HIDE DEF T, upTo
<1>7. FlattenSeq(q) = f[n]
  <2>1. CASE n = 0
    <3>1. q = <<>>
      BY <2>1 DEF n
    <3>2. FlattenSeq(q) = q
      BY <2>1 DEF n, FlattenSeq
    <3> QED BY <1>5, <2>1, <3>1, <3>2
  <2>2. CASE n # 0
    <3> DEFINE body(h) == [i \in 1..n |-> IF i = 1 THEN q[i] ELSE h[i - 1] \o q[i]]
               c == CHOOSE h : h = body(h)
               g == [i \in 1..n |-> f[i]]
    <3>1. FlattenSeq(q) = c[n]
      BY <2>2 DEF n, FlattenSeq
    <3>2. g = body(g)
      <4>1. ASSUME NEW i \in 1..n
            PROVE  f[i] = IF i = 1 THEN q[i] ELSE g[i - 1] \o q[i]
        <5>1. CASE i = 1
          <6>1. f[1] = f[0] \o q[1] /\ q[1] \in Seq(S) /\ f[0] = <<>>
            <7>1. 1 \in 1..n /\ 1 - 1 = 0
              BY <5>1
            <7> QED BY <1>0, <1>5, <7>1
          <6>2. <<>> \o q[1] = q[1]
            BY <6>1
          <6> QED BY <5>1, <6>1, <6>2
        <5>2. CASE i # 1
          <6>1. i - 1 \in 1..n
            BY <1>0, <5>2
          <6> QED BY <1>5, <5>2, <6>1
        <5> QED BY <5>1, <5>2
      <4> QED BY <4>1
    <3>3. c = body(c)
      <4> HIDE DEF g, body
      <4> QED BY <3>2
    <3>4. \A i \in 1..n : c[i] = IF i = 1 THEN q[i] ELSE c[i - 1] \o q[i]
      <4> HIDE DEF c
      <4> QED BY <3>3
    <3> HIDE DEF c
    <3>5. {i \in Nat : i + 1 <= n => c[i + 1] = f[i + 1]} = Nat
      <4> DEFINE U == {i \in Nat : i + 1 <= n => c[i + 1] = f[i + 1]}
      <4>1. 0 \in U
        <5>1. 1 \in 1..n /\ 0 + 1 = 1
          BY <1>0, <2>2
        <5>2. c[1] = q[1]
          BY <3>4, <5>1
        <5>3. f[1] = q[1]
          <6>1. g[1] = f[1] /\ body(g)[1] = q[1]
            BY <5>1
          <6> QED BY <3>2, <6>1
        <5> QED BY <5>1, <5>2, <5>3
      <4>2. ASSUME NEW i \in U
            PROVE  i + 1 \in U
        <5>1. SUFFICES ASSUME (i + 1) + 1 <= n
                       PROVE  c[(i + 1) + 1] = f[(i + 1) + 1]
          OBVIOUS
        <5>2. PICK j \in Nat : j = (i + 1) + 1
          OBVIOUS
        <5>3. j \in 1..n /\ j # 1 /\ i + 1 <= n /\ j - 1 = i + 1 /\ i \in Nat
          BY <1>0, <5>1, <5>2
        <5>4. c[j - 1] = f[j - 1]
          BY <5>3
        <5>5. c[j] = c[j - 1] \o q[j] /\ f[j] = f[j - 1] \o q[j]
          BY <1>5, <3>4, <5>3
        <5> QED BY <5>2, <5>4, <5>5
      <4>3. U \in SUBSET Nat
        OBVIOUS
      <4> HIDE DEF U
      <4>4. U = Nat
        BY <4>1, <4>2, <4>3, AllNumbers
      <4> QED BY <4>4 DEF U
    <3>6. c[n] = f[n]
      <4>1. PICK i \in Nat : i + 1 = n
        BY <1>0, <2>2
      <4>2. i + 1 <= n => c[i + 1] = f[i + 1]
        BY <3>5
      <4>3. i + 1 <= n
        BY <1>0, <4>1
      <4> QED BY <4>1, <4>2, <4>3
    <3> QED BY <3>1, <3>6
  <2> QED BY <2>1, <2>2
<1> QED BY <1>6, <1>7 DEF n

\* Where each of the sequences begins in what is put together.
Offsets(q, off) ==
  /\ off \in [0..Len(q) -> Nat] /\ off[0] = 0
  /\ \A i \in 1..Len(q) : off[i] = off[i - 1] + Len(q[i])

\* A sequence that has the elements of the others at their offsets is what they make.
LEMMA FlattenIs ==
  ASSUME NEW S, NEW q \in Seq(Seq(S)), NEW off, Offsets(q, off), NEW t \in Seq(S), Len(t) = off[Len(q)],
         \A i \in 1..Len(q) : \A j \in 1..Len(q[i]) : t[off[i - 1] + j] = q[i][j]
  PROVE  FlattenSeq(q) = t
<1> DEFINE n == Len(q)
<1>1. PICK f : Joins(S, q, f) /\ FlattenSeq(q) = f[n]
  BY FlattenJoins
<1>0. n \in Nat /\ \A i \in 1..n : q[i] \in Seq(S) /\ Len(q[i]) \in Nat
  OBVIOUS
<1>2. /\ f \in [0..n -> Seq(S)] /\ f[0] = <<>> /\ \A i \in 1..n : f[i] = f[i - 1] \o q[i]
      /\ off \in [0..n -> Nat] /\ off[0] = 0 /\ \A i \in 1..n : off[i] = off[i - 1] + Len(q[i])
  BY <1>1 DEF Joins, Offsets
<1>3. \A i \in 1..n : \A j \in 1..Len(q[i]) : t[off[i - 1] + j] = q[i][j]
  OBVIOUS
<1> HIDE DEF n
<1> DEFINE U == {i \in Nat : i <= n => Len(f[i]) = off[i] /\ \A k \in 1..off[i] : f[i][k] = t[k]}
<1>4. 0 \in U
  <2>1. 1..off[0] = {} /\ Len(f[0]) = 0
    BY <1>2
  <2> QED BY <1>2, <2>1
<1>5. ASSUME NEW i \in U
      PROVE  i + 1 \in U
  <2>1. SUFFICES ASSUME i + 1 <= n
                 PROVE  Len(f[i + 1]) = off[i + 1] /\ \A k \in 1..off[i + 1] : f[i + 1][k] = t[k]
    OBVIOUS
  <2>2. PICK j \in Nat : j = i + 1
    OBVIOUS
  <2>3. j \in 1..n /\ j - 1 = i /\ i <= n /\ i \in Nat /\ i \in 0..n /\ j \in 0..n
    BY <1>0, <2>1, <2>2
  <2>4. Len(f[i]) = off[i] /\ \A k \in 1..off[i] : f[i][k] = t[k]
    BY <2>3
  <2>5. f[j] = f[i] \o q[j] /\ off[j] = off[i] + Len(q[j]) /\ \A k \in 1..Len(q[j]) : t[off[i] + k] = q[j][k]
    BY <1>2, <1>3, <2>3
  <2>6. f[i] \in Seq(S) /\ q[j] \in Seq(S) /\ off[i] \in Nat /\ off[j] \in Nat /\ Len(q[j]) \in Nat
    BY <1>0, <1>2, <2>3
  <2> DEFINE a == f[i]
             b == q[j]
  <2> HIDE DEF a, b
  <2>7. /\ Len(a \o b) = Len(a) + Len(b)
        /\ \A k \in 1..(Len(a) + Len(b)) : (a \o b)[k] = IF k <= Len(a) THEN a[k] ELSE b[k - Len(a)]
    <3>1. a \in Seq(S) /\ b \in Seq(S)
      BY <2>6 DEF a, b
    <3> QED BY <3>1, JoinedElements
  <2>8. ASSUME NEW k \in 1..off[j]
        PROVE  (a \o b)[k] = t[k]
    <3>1. (a \o b)[k] = IF k <= off[i] THEN a[k] ELSE b[k - off[i]]
      BY <2>4, <2>5, <2>6, <2>7 DEF a, b
    <3>2. CASE k <= off[i]
      <4>1. k \in 1..off[i]
        BY <2>6, <3>2
      <4> QED BY <2>4, <3>1, <3>2, <4>1 DEF a
    <3>3. CASE ~(k <= off[i])
      <4>1. k - off[i] \in 1..Len(q[j]) /\ off[i] + (k - off[i]) = k
        BY <2>5, <2>6, <3>3, SMTT(120)
      <4>2. t[off[i] + (k - off[i])] = q[j][k - off[i]]
        BY <2>5, <4>1
      <4> QED BY <3>1, <3>3, <4>1, <4>2 DEF b
    <3> QED BY <3>2, <3>3
  <2>9. f[j] = a \o b /\ Len(a \o b) = off[j]
    BY <2>4, <2>5, <2>6, <2>7 DEF a, b
  <2> QED BY <2>2, <2>8, <2>9
<1>6. U = Nat
  <2>1. U \in SUBSET Nat
    OBVIOUS
  <2> HIDE DEF U
  <2> QED BY <1>4, <1>5, <2>1, AllNumbers
<1>7. Len(f[n]) = off[n] /\ \A k \in 1..off[n] : f[n][k] = t[k]
  <2>1. n \in U
    <3> HIDE DEF U
    <3> QED BY <1>0, <1>6
  <2>2. n <= n
    BY <1>0
  <2> QED BY <2>1, <2>2
<1>8. f[n] = t
  <2>1. f[n] \in Seq(S) /\ t \in Seq(S) /\ Len(f[n]) = Len(t)
    BY <1>0, <1>2, <1>7 DEF n
  <2>2. \A k \in 1..Len(f[n]) : f[n][k] = t[k]
    BY <1>7
  <2> DEFINE e == f[n]
  <2> HIDE DEF e
  <2> QED BY <2>1, <2>2, SameElements DEF e
<1> QED BY <1>1, <1>8

\* t has the elements of the others at their offsets.
Flattened(S, q, off, t) ==
  /\ t \in Seq(S) /\ Len(t) = off[Len(q)]
  /\ \A i \in 1..Len(q) : \A j \in 1..Len(q[i]) : t[off[i - 1] + j] = q[i][j]

\* A flattened sequence holds the elements of its parts at their offsets.
LEMMA FlattenElements ==
  ASSUME NEW S, NEW q \in Seq(Seq(S)), NEW off, Offsets(q, off)
  PROVE  Flattened(S, q, off, FlattenSeq(q))
<1> DEFINE n == Len(q)
<1>1. PICK f : Joins(S, q, f) /\ FlattenSeq(q) = f[n]
  BY FlattenJoins
<1>0. n \in Nat /\ \A i \in 1..n : q[i] \in Seq(S) /\ Len(q[i]) \in Nat
  OBVIOUS
<1>2. /\ f \in [0..n -> Seq(S)] /\ f[0] = <<>> /\ \A i \in 1..n : f[i] = f[i - 1] \o q[i]
      /\ off \in [0..n -> Nat] /\ off[0] = 0 /\ \A i \in 1..n : off[i] = off[i - 1] + Len(q[i])
  BY <1>1 DEF Joins, Offsets
<1> HIDE DEF n
<1> DEFINE good(m) == /\ Len(f[m]) = off[m]
                      /\ \A i \in 1..m : off[i] <= off[m]
                      /\ \A i \in 1..m : \A j \in 1..Len(q[i]) : f[m][off[i - 1] + j] = q[i][j]
           U == {m \in Nat : m <= n => good(m)}
<1>4. 0 \in U
  <2>1. 1..0 = {} /\ Len(f[0]) = 0
    BY <1>2
  <2> QED BY <1>2, <2>1
<1>5. ASSUME NEW m \in U
      PROVE  m + 1 \in U
  <2>1. SUFFICES ASSUME m + 1 <= n
                 PROVE  good(m + 1)
    BY SMTT(60)
  <2>2. PICK l \in Nat : l = m + 1
    OBVIOUS
  <2>3. l \in 1..n /\ l - 1 = m /\ m <= n /\ m \in Nat /\ m \in 0..n /\ l \in 0..n
    BY <1>0, <2>1, <2>2
  <2>4. good(m)
    BY <2>3
  <2>5. f[l] = f[m] \o q[l] /\ off[l] = off[m] + Len(q[l])
    BY <1>2, <2>3
  <2>6. f[m] \in Seq(S) /\ q[l] \in Seq(S) /\ off[m] \in Nat /\ off[l] \in Nat /\ Len(q[l]) \in Nat
    BY <1>0, <1>2, <2>3
  <2> DEFINE a == f[m]
             b == q[l]
  <2> HIDE DEF a, b
  <2>7. /\ Len(a \o b) = Len(a) + Len(b)
        /\ \A k \in 1..(Len(a) + Len(b)) : (a \o b)[k] = IF k <= Len(a) THEN a[k] ELSE b[k - Len(a)]
    <3>1. a \in Seq(S) /\ b \in Seq(S)
      BY <2>6 DEF a, b
    <3> QED BY <3>1, JoinedElements
  <2>8. \A k \in 1..off[l] : f[l][k] = IF k <= off[m] THEN f[m][k] ELSE q[l][k - off[m]]
    BY <2>4, <2>5, <2>6, <2>7 DEF a, b
  <2>9. Len(f[l]) = off[l]
    BY <2>4, <2>5, <2>6, <2>7 DEF a, b
  <2>10. ASSUME NEW i \in 1..l
         PROVE  off[i] <= off[l]
    <3>1. CASE i = l
      BY <2>6, <3>1
    <3>2. CASE i # l
      <4>1. i \in 1..m /\ i \in 0..n
        BY <1>0, <2>3, <3>2
      <4>2. off[i] <= off[m] /\ off[i] \in Nat
        BY <1>2, <2>4, <4>1
      <4> QED BY <2>5, <2>6, <4>2, SMTT(60)
    <3> QED BY <3>1, <3>2
  <2>11. ASSUME NEW i \in 1..l, NEW j \in 1..Len(q[i])
         PROVE  f[l][off[i - 1] + j] = q[i][j]
    <3>1. CASE i = l
      <4>1. off[i - 1] = off[m] /\ j \in 1..Len(q[l])
        BY <2>3, <3>1
      <4>2. off[m] + j \in 1..off[l] /\ ~(off[m] + j <= off[m]) /\ (off[m] + j) - off[m] = j
        BY <2>5, <2>6, <4>1, SMTT(120)
      <4> QED BY <2>8, <3>1, <4>1, <4>2
    <3>2. CASE i # l
      <4>1. i \in 1..m /\ i \in 1..n /\ i - 1 \in 0..n /\ i \in 0..n
        BY <1>0, <2>3, <3>2
      <4>2. off[i] <= off[m] /\ off[i] = off[i - 1] + Len(q[i]) /\ off[i - 1] \in Nat /\ Len(q[i]) \in Nat
        <5>1. off[i] <= off[m]
          BY <2>4, <4>1
        <5> QED BY <1>0, <1>2, <4>1, <5>1
      <4>3. off[i - 1] + j \in 1..off[l] /\ off[i - 1] + j <= off[m]
        <5>1. PICK x \in Nat, y \in Nat, z \in Nat, w \in Nat :
                x = off[i - 1] /\ y = Len(q[i]) /\ z = off[m] /\ w = Len(q[l])
          BY <2>6, <4>2
        <5>2. x + y <= z /\ off[l] = z + w /\ j \in 1..y
          BY <2>5, <4>2, <5>1
        <5>3. x + j \in 1..(z + w) /\ x + j <= z
          BY <5>2
        <5> QED BY <5>1, <5>2, <5>3
      <4>4. f[m][off[i - 1] + j] = q[i][j]
        BY <2>4, <4>1
      <4> QED BY <2>8, <4>3, <4>4
    <3> QED BY <3>1, <3>2
  <2>12. good(l)
    BY <2>9, <2>10, <2>11
  <2> QED BY <2>2, <2>12
<1>6. U = Nat
  <2>1. U \in SUBSET Nat
    OBVIOUS
  <2> HIDE DEF U
  <2> QED BY <1>4, <1>5, <2>1, AllNumbers
<1>7. good(n)
  <2>1. n \in U
    <3> HIDE DEF U
    <3> QED BY <1>0, <1>6
  <2>2. n <= n
    BY <1>0
  <2> HIDE DEF good
  <2> QED BY <2>1, <2>2
<1>8. f[n] \in Seq(S)
  BY <1>0, <1>2
<1> QED BY <1>1, <1>7, <1>8 DEF Flattened, n

-----------------------------------------------------------------------------
(* The streaming encoder. *)

\* A number and its quotient by three, with the remainder.
LEMMA Thirds ==
  ASSUME NEW n \in Nat, NEW g \in Nat, 3 * g <= n, n < 3 * g + 3
  PROVE  n \div 3 = g /\ n % 3 = n - 3 * g
OBVIOUS

\* A group of three bytes makes four characters.
LEMMA GroupOf ==
  ASSUME NEW a \in Int, NEW b \in Int, NEW c \in Int
  PROVE  Group(<<a, b, c>>) \in Seq(Int) /\ Len(Group(<<a, b, c>>)) = 4
<1>1. \A x \in Int : EncodeSingle(x) \in Int
  BY DEF EncodeSingle
<1>2. /\ a \div 4 \in Int /\ (a % 4) * 16 + b \div 16 \in Int
      /\ (b % 16) * 4 + c \div 64 \in Int /\ c % 64 \in Int
  OBVIOUS
<1> HIDE DEF EncodeSingle
<1> QED BY <1>1, <1>2 DEF Group

\* Each three bytes make four characters.
LEMMA GroupsElements ==
  ASSUME NEW s \in Seq(Int), NEW g \in Nat, 3 * g <= Len(s), Len(s) < 3 * g + 3
  PROVE  /\ Groups(s) \in Seq(Int) /\ Len(Groups(s)) = 4 * g
         /\ \A i \in 1..g, j \in 1..4 :
              Groups(s)[4 * i - 4 + j] = Group(<<s[3 * i - 2], s[3 * i - 1], s[3 * i]>>)[j]
<1> DEFINE part(i) == <<s[3 * i - 2], s[3 * i - 1], s[3 * i]>>
           q == [i \in 1..g |-> Group(part(i))]
           off == [i \in 0..g |-> 4 * i]
<1>0. Len(s) \in Nat /\ Len(s) \div 3 = g
  BY Thirds
<1>1. ASSUME NEW i \in 1..g
      PROVE  /\ Group(SubSeq(s, 3 * i - 2, 3 * i)) = Group(part(i))
             /\ Group(part(i)) \in Seq(Int) /\ Len(Group(part(i))) = 4
  <2>1. PICK a \in Nat, b \in Nat : a = 3 * i - 2 /\ b = 3 * i
    OBVIOUS
  <2>2. a >= 1 /\ b <= Len(s) /\ b = a + 2
    BY <1>0, <2>1
  <2>3. /\ SubSeq(s, a, b)[1] = s[a] /\ SubSeq(s, a, b)[2] = s[a + 1] /\ SubSeq(s, a, b)[3] = s[b]
    <3>1. \A k \in 1..(b - a + 1) : SubSeq(s, a, b)[k] = s[a + k - 1]
      BY <2>2, PartElements, SMTT(120)
    <3>2. /\ 1 \in 1..(b - a + 1) /\ 2 \in 1..(b - a + 1) /\ 3 \in 1..(b - a + 1)
          /\ a + 1 - 1 = a /\ a + 2 - 1 = a + 1 /\ a + 3 - 1 = b
      BY <2>2
    <3> QED BY <3>1, <3>2
  <2>4. a + 1 = 3 * i - 1
    BY <2>1
  <2>5. part(i)[1] = s[a] /\ part(i)[2] = s[a + 1] /\ part(i)[3] = s[b]
    BY <2>1, <2>4
  <2> DEFINE x == SubSeq(s, a, b)
             y == part(i)
  <2>6. Group(x) = Group(y)
    <3> HIDE DEF x, y
    <3>1. x[1] = y[1] /\ x[2] = y[2] /\ x[3] = y[3]
      BY <2>3, <2>5 DEF x, y
    <3> QED BY <3>1 DEF Group
  <2>7. s[a] \in Int /\ s[a + 1] \in Int /\ s[b] \in Int
    BY <2>2
  <2>8. part(i) = <<s[a], s[a + 1], s[b]>>
    BY <2>1, <2>4
  <2> QED BY <2>1, <2>6, <2>7, <2>8, GroupOf, SMTT(120)
<1> HIDE DEF part
<1>2. Groups(s) = FlattenSeq(q)
  <2>1. [i \in 1..g |-> Group(SubSeq(s, 3 * i - 2, 3 * i))] = q
    BY <1>1
  <2> QED BY <1>0, <2>1 DEF Groups
<1>3. q \in Seq(Seq(Int)) /\ Len(q) = g /\ \A i \in 1..g : q[i] = Group(part(i)) /\ Len(q[i]) = 4
  BY <1>1
<1> HIDE DEF q
<1>4. Offsets(q, off)
  <2>1. off \in [0..g -> Nat]
    OBVIOUS
  <2>2. ASSUME NEW i \in 1..g PROVE off[i] = off[i - 1] + 4
    <3>1. i - 1 \in 0..g /\ i \in 0..g
      OBVIOUS
    <3> QED BY <3>1
  <2>3. off[0] = 0
    OBVIOUS
  <2> HIDE DEF off
  <2> QED BY <1>3, <2>1, <2>2, <2>3 DEF Offsets
<1>5. /\ FlattenSeq(q) \in Seq(Int) /\ Len(FlattenSeq(q)) = off[g]
      /\ \A i \in 1..g : \A j \in 1..4 : FlattenSeq(q)[off[i - 1] + j] = q[i][j]
  <2> HIDE DEF off
  <2>1. /\ FlattenSeq(q) \in Seq(Int) /\ Len(FlattenSeq(q)) = off[Len(q)]
        /\ \A i \in 1..Len(q) : \A j \in 1..Len(q[i]) : FlattenSeq(q)[off[i - 1] + j] = q[i][j]
    <3>1. q \in Seq(Seq(Int))
      BY <1>3
    <3>2. Flattened(Int, q, off, FlattenSeq(q))
      BY <1>4, <3>1, FlattenElements, Zenon
    <3> QED BY <3>2 DEF Flattened
  <2> QED BY <1>3, <2>1
<1>6. off[g] = 4 * g
  OBVIOUS
<1>7. ASSUME NEW i \in 1..g, NEW j \in 1..4
      PROVE  Groups(s)[4 * i - 4 + j] = Group(part(i))[j]
  <2>1. off[i - 1] = 4 * i - 4
    <3>1. i - 1 \in 0..g /\ 4 * (i - 1) = 4 * i - 4
      OBVIOUS
    <3> QED BY <3>1
  <2> QED BY <1>2, <1>3, <1>5, <2>1
<1> QED BY <1>2, <1>5, <1>6, <1>7 DEF part

\* Every place of whole groups of four is a place of one of them.
LEMMA Fourths ==
  ASSUME NEW n \in Nat, NEW k \in 1..(4 * n)
  PROVE  \E i \in 1..n, j \in 1..4 : k = 4 * i - 4 + j
<1>1. PICK i \in Int : i = (k - 1) \div 4 + 1
  OBVIOUS
<1>2. 4 * (i - 1) <= k - 1 /\ k - 1 < 4 * (i - 1) + 4
  BY <1>1
<1>3. i \in 1..n
  BY <1>2
<1>4. PICK j \in 1..4 : j = k - 4 * i + 4
  BY <1>2
<1>5. k = 4 * i - 4 + j
  BY <1>4
<1> QED BY <1>3, <1>5

\* A sequence is what stands before a cut and what stands behind it.
LEMMA SplitAt ==
  ASSUME NEW S, NEW s \in Seq(S), NEW m \in Nat, m <= Len(s)
  PROVE  /\ SubSeq(s, 1, m) \in Seq(S) /\ Len(SubSeq(s, 1, m)) = m
         /\ SubSeq(s, m + 1, Len(s)) \in Seq(S) /\ Len(SubSeq(s, m + 1, Len(s))) = Len(s) - m
         /\ s = SubSeq(s, 1, m) \o SubSeq(s, m + 1, Len(s))
<1> DEFINE a == SubSeq(s, 1, m)
           b == SubSeq(s, m + 1, Len(s))
<1>0. Len(s) \in Nat
  OBVIOUS
<1>1. a \in Seq(S) /\ Len(a) = m /\ \A k \in 1..m : a[k] = s[k]
  <2>1. /\ a \in Seq(S) /\ Len(a) = IF 1 <= m THEN m - 1 + 1 ELSE 0
        /\ \A k \in 1..(m - 1 + 1) : a[k] = s[1 + k - 1]
    BY <1>0, PartElements
  <2> HIDE DEF a
  <2> QED BY <2>1
<1>2. PICK n \in Nat : n = Len(s)
  BY <1>0
<1>3. b \in Seq(S) /\ Len(b) = n - m /\ \A k \in 1..(n - m) : b[k] = s[m + k]
  <2>1. PICK l \in Nat : l = m + 1
    OBVIOUS
  <2>2. /\ SubSeq(s, l, n) \in Seq(S) /\ Len(SubSeq(s, l, n)) = IF l <= n THEN n - l + 1 ELSE 0
        /\ \A k \in 1..(n - l + 1) : SubSeq(s, l, n)[k] = s[l + k - 1]
    BY <1>2, <2>1, PartElements
  <2>3. b = SubSeq(s, l, n)
    BY <1>2, <2>1
  <2> HIDE DEF b
  <2> QED BY <1>2, <2>1, <2>2, <2>3
<1> HIDE DEF a, b
<1>4. /\ a \o b \in Seq(S) /\ Len(a \o b) = n
      /\ \A k \in 1..n : (a \o b)[k] = IF k <= m THEN a[k] ELSE b[k - m]
  <2>1. /\ a \o b \in Seq(S) /\ Len(a \o b) = Len(a) + Len(b)
        /\ \A k \in 1..(Len(a) + Len(b)) : (a \o b)[k] = IF k <= Len(a) THEN a[k] ELSE b[k - Len(a)]
    BY <1>1, <1>3, JoinedElements, ZenonT(60)
  <2> QED BY <1>1, <1>2, <1>3, <2>1
<1>5. ASSUME NEW k \in 1..n
      PROVE  s[k] = (a \o b)[k]
  <2>1. CASE k <= m
    BY <1>1, <1>4, <2>1
  <2>2. CASE ~(k <= m)
    <3>1. k - m \in 1..(n - m) /\ m + (k - m) = k
      BY <1>2, <2>2
    <3> QED BY <1>3, <1>4, <2>2, <3>1
  <2> QED BY <2>1, <2>2
<1>6. s = a \o b
  <2> DEFINE c == a \o b
  <2> HIDE DEF c
  <2>1. c \in Seq(S) /\ Len(s) = Len(c) /\ \A k \in 1..Len(s) : s[k] = c[k]
    BY <1>2, <1>4, <1>5 DEF c
  <2>2. s = c
    BY <2>1, SameElements
  <2> QED BY <2>2 DEF c
<1> QED BY <1>1, <1>2, <1>3, <1>6 DEF a, b

\* Joining is associative.
LEMMA JoinsAlike ==
  ASSUME NEW S, NEW a \in Seq(S), NEW b \in Seq(S), NEW c \in Seq(S)
  PROVE  (a \o b) \o c = a \o (b \o c)
OBVIOUS

\* Joining nothing changes nothing.
LEMMA JoinNothing ==
  ASSUME NEW S, NEW a \in Seq(S)
  PROVE  a \o <<>> = a /\ <<>> \o a = a
OBVIOUS

\* The groups of a line that is cut where a group ends.
LEMMA GroupsJoin ==
  ASSUME NEW s \in Seq(Int), NEW t \in Seq(Int), NEW m \in Nat, Len(s) = 3 * m
  PROVE  Groups(s \o t) = Groups(s) \o Groups(t)
<1>0. Len(t) \in Nat
  OBVIOUS
<1>1. PICK g \in Nat : 3 * g <= Len(t) /\ Len(t) < 3 * g + 3
  <2>1. Len(t) \div 3 \in Nat /\ 3 * (Len(t) \div 3) <= Len(t) /\ Len(t) < 3 * (Len(t) \div 3) + 3
    BY <1>0
  <2> QED BY <2>1
<1>2. /\ s \o t \in Seq(Int) /\ Len(s \o t) = 3 * m + Len(t)
      /\ \A k \in 1..(3 * m + Len(t)) : (s \o t)[k] = IF k <= 3 * m THEN s[k] ELSE t[k - 3 * m]
  <2>1. /\ s \o t \in Seq(Int) /\ Len(s \o t) = Len(s) + Len(t)
        /\ \A k \in 1..(Len(s) + Len(t)) : (s \o t)[k] = IF k <= Len(s) THEN s[k] ELSE t[k - Len(s)]
    BY JoinedElements
  <2> QED BY <2>1
<1> DEFINE u == s \o t
           x == Groups(u)
           y == Groups(s)
           z == Groups(t)
<1> HIDE DEF u
<1>3. PICK n \in Nat : n = m + g
  OBVIOUS
<1>4. /\ x \in Seq(Int) /\ Len(x) = 4 * n
      /\ \A i \in 1..n, j \in 1..4 : x[4 * i - 4 + j] = Group(<<u[3 * i - 2], u[3 * i - 1], u[3 * i]>>)[j]
  <2>1. u \in Seq(Int) /\ 3 * n <= Len(u) /\ Len(u) < 3 * n + 3
    BY <1>0, <1>1, <1>2, <1>3 DEF u
  <2> QED BY <2>1, GroupsElements
<1>5. /\ y \in Seq(Int) /\ Len(y) = 4 * m
      /\ \A i \in 1..m, j \in 1..4 : y[4 * i - 4 + j] = Group(<<s[3 * i - 2], s[3 * i - 1], s[3 * i]>>)[j]
  <2>1. 3 * m <= Len(s) /\ Len(s) < 3 * m + 3
    OBVIOUS
  <2> QED BY <2>1, GroupsElements
<1>6. /\ z \in Seq(Int) /\ Len(z) = 4 * g
      /\ \A i \in 1..g, j \in 1..4 : z[4 * i - 4 + j] = Group(<<t[3 * i - 2], t[3 * i - 1], t[3 * i]>>)[j]
  BY <1>1, GroupsElements
<1> HIDE DEF x, y, z
<1>7. /\ y \o z \in Seq(Int) /\ Len(y \o z) = 4 * m + 4 * g
      /\ \A k \in 1..(4 * m + 4 * g) : (y \o z)[k] = IF k <= 4 * m THEN y[k] ELSE z[k - 4 * m]
  <2>1. /\ y \o z \in Seq(Int) /\ Len(y \o z) = Len(y) + Len(z)
        /\ \A k \in 1..(Len(y) + Len(z)) : (y \o z)[k] = IF k <= Len(y) THEN y[k] ELSE z[k - Len(y)]
    BY <1>5, <1>6, JoinedElements, ZenonT(60)
  <2> QED BY <1>5, <1>6, <2>1
<1>8. ASSUME NEW k \in 1..(4 * n)
      PROVE  x[k] = (y \o z)[k]
  <2>1. PICK i \in 1..n, j \in 1..4 : k = 4 * i - 4 + j
    BY Fourths
  <2>2. x[k] = Group(<<u[3 * i - 2], u[3 * i - 1], u[3 * i]>>)[j]
    BY <1>4, <2>1
  <2>3. (y \o z)[k] = IF k <= 4 * m THEN y[k] ELSE z[k - 4 * m]
    BY <1>3, <1>7
  <2>4. CASE i <= m
    <3>1. /\ i \in 1..m /\ k <= 4 * m
          /\ \A l \in {3 * i - 2, 3 * i - 1, 3 * i} : l \in 1..(3 * m + Len(t)) /\ l <= 3 * m
      <4>1. i \in Nat /\ i >= 1 /\ i <= m /\ k <= 4 * m
        BY <2>1, <2>4
      <4> QED BY <1>0, <4>1
    <3>2. u[3 * i - 2] = s[3 * i - 2] /\ u[3 * i - 1] = s[3 * i - 1] /\ u[3 * i] = s[3 * i]
      BY <1>2, <3>1 DEF u
    <3>3. y[k] = Group(<<s[3 * i - 2], s[3 * i - 1], s[3 * i]>>)[j]
      BY <1>5, <2>1, <3>1
    <3> QED BY <2>2, <2>3, <3>1, <3>2, <3>3
  <2>5. CASE ~(i <= m)
    <3>1. PICK h \in 1..g : h = i - m
      BY <1>3, <2>5
    <3>2. /\ ~(k <= 4 * m) /\ k - 4 * m = 4 * h - 4 + j
          /\ \A l \in {3 * i - 2, 3 * i - 1, 3 * i} : l \in 1..(3 * m + Len(t)) /\ ~(l <= 3 * m)
          /\ 3 * i - 2 - 3 * m = 3 * h - 2 /\ 3 * i - 1 - 3 * m = 3 * h - 1 /\ 3 * i - 3 * m = 3 * h
      BY <1>0, <1>1, <2>1, <3>1
    <3>3. u[3 * i - 2] = t[3 * h - 2] /\ u[3 * i - 1] = t[3 * h - 1] /\ u[3 * i] = t[3 * h]
      BY <1>2, <3>2 DEF u
    <3>4. z[k - 4 * m] = Group(<<t[3 * h - 2], t[3 * h - 1], t[3 * h]>>)[j]
      BY <1>6, <3>1, <3>2, ZenonT(60)
    <3> QED BY <2>2, <2>3, <3>2, <3>3, <3>4
  <2> QED BY <2>4, <2>5
<1>9. x = y \o z
  <2> DEFINE w == y \o z
  <2> HIDE DEF w
  <2>1. w \in Seq(Int) /\ Len(x) = Len(w) /\ \A k \in 1..Len(x) : x[k] = w[k]
    <3>1. Len(x) = 4 * n /\ Len(y \o z) = 4 * n
      BY <1>3, <1>4, <1>7, SMTT(60)
    <3> QED BY <1>7, <1>8, <3>1 DEF w
  <2>2. x = w
    BY <1>4, <2>1, SameElements
  <2> QED BY <2>2 DEF w
<1> QED BY <1>9 DEF x, y, z, u

\* Less than three bytes make no group.
LEMMA NoGroups ==
  ASSUME NEW s \in Seq(Int), Len(s) < 3
  PROVE  Groups(s) = <<>>
<1>1. 0 \in Nat /\ 3 * 0 <= Len(s) /\ Len(s) < 3 * 0 + 3 /\ 4 * 0 = 0
  OBVIOUS
<1>2. Groups(s) \in Seq(Int) /\ Len(Groups(s)) = 0
  BY <1>1, GroupsElements
<1> DEFINE x == Groups(s)
<1> HIDE DEF x
<1>3. x = <<>>
  BY <1>2 DEF x
<1> QED BY <1>3 DEF x

\* Named, so that a fact about it applies to it alone.
Joined(s, a, b) == s = a \o b
\* What is left of s when its groups of three are taken.
IsTail(rest, s) == rest = SubSeq(s, Len(s) - (Len(s) % 3) + 1, Len(s))

\* What has been fed ends with the bytes left over; the rest of it has been written.
Streamed(fed, rest, out) ==
  \E m \in Nat, pre \in Seq(CdBytes) : Len(pre) = 3 * m /\ Joined(fed, pre, rest) /\ out = Groups(pre)

\* A line over some values is a line over more.
LEMMA WiderLine ==
  ASSUME NEW S, NEW T, S \subseteq T, NEW s \in Seq(S)
  PROVE  s \in Seq(T) /\ Len(s) \in Nat
OBVIOUS

\* What is encoded are bytes.
LEMMA ByteLines ==
  ASSUME NEW s \in Seq(CdBytes)
  PROVE  s \in Seq(Int) /\ s \in Seq(0..255) /\ Len(s) \in Nat
<1> DEFINE B == 0..255
<1>1. CdBytes \subseteq B /\ B \subseteq Int
  BY CdAssumption
<1> HIDE DEF B
<1>2. s \in Seq(B) /\ Len(s) \in Nat
  BY <1>1, WiderLine
<1>3. s \in Seq(Int)
  BY <1>1, <1>2, WiderLine
<1> QED BY <1>2, <1>3 DEF B

\* A length has groups of three and at most two more.
LEMMA ThirdsOf ==
  ASSUME NEW n \in Nat
  PROVE  \E g \in Nat, r \in 0..2 : n = 3 * g + r /\ n \div 3 = g /\ n % 3 = r
<1>1. PICK g \in Nat : g = n \div 3
  OBVIOUS
<1>2. 3 * g <= n /\ n < 3 * g + 3
  BY <1>1
<1>3. PICK r \in 0..2 : r = n - 3 * g
  BY <1>2
<1>4. n % 3 = r
  BY <1>1, <1>3
<1> QED BY <1>1, <1>3, <1>4

\* The tail of a line behind its whole groups.
LEMMA TailOf ==
  ASSUME NEW s \in Seq(CdBytes)
  PROVE  \E g \in Nat, pre \in Seq(CdBytes), rest \in Seq(CdBytes) :
           /\ Len(pre) = 3 * g /\ Len(rest) < 3 /\ Joined(s, pre, rest)
           /\ IsTail(rest, s) /\ Groups(s) = Groups(pre)
<1>0. Len(s) \in Nat
  OBVIOUS
<1>1. PICK g \in Nat, r \in 0..2 : Len(s) = 3 * g + r /\ Len(s) % 3 = r
  BY <1>0, ThirdsOf
<1>2. PICK m \in Nat : m = 3 * g /\ m <= Len(s) /\ Len(s) - (Len(s) % 3) + 1 = m + 1 /\ Len(s) - m < 3
  BY <1>0, <1>1
<1> DEFINE pre == SubSeq(s, 1, m)
           rest == SubSeq(s, m + 1, Len(s))
<1>3. pre \in Seq(CdBytes) /\ Len(pre) = m /\ rest \in Seq(CdBytes) /\ Len(rest) = Len(s) - m /\ s = pre \o rest
  BY <1>2, SplitAt, ZenonT(60)
<1>4. IsTail(rest, s) /\ Joined(s, pre, rest)
  BY <1>2, <1>3 DEF IsTail, Joined
<1> HIDE DEF pre, rest
<1>5. Groups(s) = Groups(pre)
  <2>1. pre \in Seq(Int) /\ rest \in Seq(Int)
    BY <1>3, ByteLines
  <2>2. Len(pre) = 3 * g /\ Len(rest) < 3
    BY <1>2, <1>3
  <2>3. Groups(pre \o rest) = Groups(pre) \o Groups(rest)
    BY <2>1, <2>2, GroupsJoin
  <2>4. Groups(rest) = <<>>
    BY <2>1, <2>2, NoGroups
  <2>5. Groups(pre) \in Seq(Int)
    BY <2>1, <2>2, GroupsElements, SMTT(60)
  <2>6. Groups(pre) \o <<>> = Groups(pre)
    BY <2>5, JoinNothing
  <2> QED BY <1>3, <2>3, <2>4, <2>6
<1> QED BY <1>2, <1>3, <1>4, <1>5

\* What was taken, what was left and the chunk, joined the other way.
LEMMA StreamJoins ==
  ASSUME NEW pre \in Seq(CdBytes), NEW rest \in Seq(CdBytes), NEW chunk \in Seq(CdBytes),
         NEW more \in Seq(CdBytes), NEW left \in Seq(CdBytes), NEW fed, NEW input, NEW both,
         Joined(fed, pre, rest), Joined(input, rest, chunk), Joined(input, more, left), Joined(both, pre, more)
  PROVE  Joined(fed \o chunk, both, left)
<1>1. (pre \o rest) \o chunk = pre \o (rest \o chunk)
  BY JoinsAlike, SMTT(120)
<1>2. (pre \o more) \o left = pre \o (more \o left)
  BY JoinsAlike, SMTT(120)
<1>3. fed = pre \o rest /\ input = rest \o chunk /\ input = more \o left /\ both = pre \o more
  BY DEF Joined
<1> QED BY <1>1, <1>2, <1>3 DEF Joined

\* What is written goes on where the calls before have stopped.
LEMMA StreamGoesOn ==
  ASSUME NEW fed, NEW rest \in Seq(CdBytes), NEW out, Streamed(fed, rest, out), NEW chunk \in Seq(CdBytes),
         NEW input \in Seq(CdBytes), Joined(input, rest, chunk), NEW left, IsTail(left, input)
  PROVE  /\ left \in Seq(CdBytes) /\ Len(left) < 3
         /\ Streamed(fed \o chunk, left, out \o Groups(input))
<1>1. PICK m \in Nat, pre \in Seq(CdBytes) : Len(pre) = 3 * m /\ Joined(fed, pre, rest) /\ out = Groups(pre)
  BY DEF Streamed
<1>2. PICK g \in Nat, more \in Seq(CdBytes), l \in Seq(CdBytes) :
        /\ Len(more) = 3 * g /\ Len(l) < 3 /\ Joined(input, more, l)
        /\ IsTail(l, input) /\ Groups(input) = Groups(more)
  BY TailOf
<1>3. l = left
  BY <1>2 DEF IsTail
<1>4. PICK n \in Nat : n = m + g
  OBVIOUS
<1>5. PICK both \in Seq(CdBytes) : Joined(both, pre, more) /\ Len(both) = 3 * n
  <2>1. pre \o more \in Seq(CdBytes) /\ Len(pre \o more) = Len(pre) + Len(more)
    BY JoinedElements
  <2>2. Len(pre \o more) = 3 * n
    BY <1>1, <1>2, <1>4, <2>1
  <2> QED BY <2>1, <2>2 DEF Joined
<1>6. Joined(fed \o chunk, both, left)
  BY <1>1, <1>2, <1>3, <1>5, StreamJoins
<1>7. out \o Groups(input) = Groups(both)
  <2>1. pre \in Seq(Int) /\ more \in Seq(Int)
    BY ByteLines
  <2>2. Groups(pre \o more) = Groups(pre) \o Groups(more)
    BY <1>1, <2>1, GroupsJoin
  <2>3. both = pre \o more
    BY <1>5 DEF Joined
  <2> QED BY <1>1, <1>2, <2>2, <2>3
<1> QED BY <1>2, <1>3, <1>5, <1>6, <1>7 DEF Streamed

\* The stream so far: what was fed is whole groups, all of them written, and what is left.
CdInv ==
  /\ b64Fed \in Seq(CdBytes) /\ Len(b64Fed) <= CdLen
  /\ b64 \in Seq(CdBytes) /\ Len(b64) <= 3
  /\ ~b64Lost => Streamed(b64Fed, b64, b64Out)

\* Before the first call nothing is fed, left or written.
LEMMA NothingStreamed == Streamed(<<>>, <<>>, <<>>)
<1>1. <<>> \in Seq(CdBytes) /\ <<>> \in Seq(Int) /\ Len(<<>>) = 3 * 0 /\ 0 \in Nat /\ <<>> \o <<>> = <<>>
  OBVIOUS
<1>2. Groups(<<>>) = <<>>
  <2>1. Len(<<>>) < 3
    OBVIOUS
  <2> QED BY <1>1, <2>1, NoGroups
<1> QED BY <1>1, <1>2 DEF Streamed, Joined

\* An update that has the room writes the groups that are complete.
LEMMA UpdateKeepsCdInv ==
  ASSUME CdInv, NEW chunk \in Chunks, NEW room \in {0, 4, 12},
         Len(b64Fed) + Len(chunk) <= CdLen, B64Update(chunk, room)
  PROVE  CdInv'
<1> DEFINE input == b64 \o chunk
           fits == room \div 4
           used == 3 * fits + 3
           left == SubSeq(input, Len(input) - (Len(input) % 3) + 1, Len(input))
<1>1. chunk \in Seq(CdBytes) /\ Len(chunk) \in Nat
  <2>1. PICK n \in 0..CdLen : chunk \in [1..n -> CdBytes]
    BY DEF Chunks, SeqOf
  <2>2. n \in Nat
    BY CdAssumption
  <2> QED BY <2>1, <2>2
<1>2. /\ b64Fed \in Seq(CdBytes) /\ b64 \in Seq(CdBytes) /\ Len(b64) <= 3 /\ Len(b64) \in Nat /\ Len(b64Fed) \in Nat
      /\ ~b64Lost => Streamed(b64Fed, b64, b64Out)
  BY DEF CdInv
<1>3. fits \in Nat /\ used \in Nat /\ used >= 3
  <2>1. (0 \div 4) = 0 /\ (4 \div 4) = 1 /\ (12 \div 4) = 3
    OBVIOUS
  <2> QED BY <2>1
<1>4. input \in Seq(CdBytes) /\ Len(input) = Len(b64) + Len(chunk)
  BY <1>1, <1>2
<1> HIDE DEF input, fits, used
<1>5. CASE Len(input) < used
  <2>1. b64Out' = b64Out \o Groups(input) /\ b64' = left /\ b64Fed' = b64Fed \o chunk /\ b64Lost' = b64Lost
    BY <1>5 DEF B64Update, input, fits, used
  <2>2. b64Fed' \in Seq(CdBytes) /\ Len(b64Fed') <= CdLen
    BY <1>1, <1>2, <2>1, CdAssumption
  <2>3. left \in Seq(CdBytes) /\ Len(left) < 3
    <3>1. PICK rest \in Seq(CdBytes) : Len(rest) < 3 /\ IsTail(rest, input)
      BY <1>4, TailOf
    <3> QED BY <3>1 DEF IsTail
  <2>4. ~b64Lost => Streamed(b64Fed \o chunk, left, b64Out \o Groups(input))
    <3>1. Joined(input, b64, chunk)
      BY DEF Joined, input
    <3>2. IsTail(left, input)
      BY DEF IsTail
    <3> HIDE DEF left
    <3> QED BY <1>1, <1>2, <1>4, <3>1, <3>2, StreamGoesOn
  <2>5. Len(left) <= 3
    BY <2>3
  <2> HIDE DEF left, input
  <2> QED BY <2>1, <2>2, <2>3, <2>4, <2>5 DEF CdInv
<1>6. CASE ~(Len(input) < used)
  <2> DEFINE head == SubSeq(chunk, 1, used - Len(b64))
             full == SubSeq(input, used - 2, used)
  <2>1. /\ b64' = full /\ b64Fed' = b64Fed \o head /\ b64Out' = b64Out
        /\ b64Lost' = (b64Lost \/ fits > 0 \/ used < Len(input))
    BY <1>6 DEF B64Update, input, fits, used
  <2>2. full \in Seq(CdBytes) /\ Len(full) = 3
    <3>1. PICK a \in Nat, b \in Nat : a = used - 2 /\ b = used
      BY <1>3
    <3>2. a >= 1 /\ b <= Len(input) /\ b - a + 1 = 3 /\ a <= b
      BY <1>3, <1>4, <1>6, <3>1
    <3>3. SubSeq(input, a, b) \in Seq(CdBytes) /\ Len(SubSeq(input, a, b)) = IF a <= b THEN b - a + 1 ELSE 0
      BY <1>4, <3>2, PartElements
    <3> QED BY <3>1, <3>2, <3>3
  <2>3. PICK k \in Nat : k = used - Len(b64) /\ k <= Len(chunk)
    <3>1. used <= Len(input) /\ used >= 3
      BY <1>1, <1>2, <1>3, <1>4, <1>6
    <3>2. used - Len(b64) \in Nat /\ used - Len(b64) <= Len(chunk)
      BY <1>1, <1>2, <1>3, <1>4, <3>1
    <3> QED BY <3>2
  <2>4. head \in Seq(CdBytes) /\ Len(head) = k
    <3>1. SubSeq(chunk, 1, k) \in Seq(CdBytes) /\ Len(SubSeq(chunk, 1, k)) = k
      BY <1>1, <2>3, SplitAt
    <3> QED BY <2>3, <3>1
  <2>5. b64Fed' \in Seq(CdBytes) /\ Len(b64Fed') <= CdLen
    <3>1. Len(b64Fed \o head) = Len(b64Fed) + k /\ b64Fed \o head \in Seq(CdBytes)
      BY <1>2, <2>4, SMTT(60)
    <3>2. Len(b64Fed) + k <= CdLen
      BY <1>1, <1>2, <2>3, CdAssumption
    <3> QED BY <2>1, <3>1, <3>2
  <2>6. ASSUME ~b64Lost'
        PROVE  Streamed(b64Fed', b64', b64Out')
    <3>1. ~b64Lost /\ fits = 0 /\ used = 3 /\ Len(input) = 3
      <4>1. ~b64Lost /\ ~(fits > 0) /\ ~(used < Len(input))
        BY <2>1, <2>6
      <4>2. fits = 0 /\ used = 3
        BY <1>3, <4>1 DEF used
      <4> QED BY <1>1, <1>2, <1>4, <1>6, <4>1, <4>2
    <3>2. head = chunk
      <4>1. k = Len(chunk)
        <5>1. PICK x \in Nat, y \in Nat : x = Len(b64) /\ y = Len(chunk)
          BY <1>1, <1>2
        <5>2. k = 3 - x /\ x + y = 3
          BY <1>4, <2>3, <3>1, <5>1
        <5> QED BY <5>1, <5>2
      <4>2. SubSeq(chunk, 1, Len(chunk)) = chunk
        BY <1>1
      <4> QED BY <2>3, <4>1, <4>2
    <3>3. full = input
      <4>1. SubSeq(input, 1, Len(input)) = input
        BY <1>4
      <4> QED BY <3>1, <4>1
    <3>4. PICK m \in Nat, pre \in Seq(CdBytes) : Len(pre) = 3 * m /\ b64Fed = pre \o b64 /\ b64Out = Groups(pre)
      BY <1>2, <3>1 DEF Streamed, Joined
    <3>5. b64Fed \o chunk = pre \o input
      <4>1. (pre \o b64) \o chunk = pre \o (b64 \o chunk)
        BY <1>1, <1>2, SMTT(60)
      <4> QED BY <3>4, <4>1 DEF input
    <3> QED BY <2>1, <3>2, <3>3, <3>4, <3>5 DEF Streamed, Joined
  <2> HIDE DEF full, head
  <2>7. b64' \in Seq(CdBytes) /\ Len(b64') <= 3
    BY <2>1, <2>2
  <2> QED BY <2>5, <2>6, <2>7 DEF CdInv
<1> QED BY <1>5, <1>6

\* The invariant of the stream is inductive.
LEMMA CdStep == CdInv /\ [CdNext]_cdVars => CdInv'
<1> SUFFICES ASSUME CdInv, [CdNext]_cdVars PROVE CdInv'
  OBVIOUS
<1>1. ASSUME NEW chunk \in Chunks, NEW room \in {0, 4, 12},
             Len(b64Fed) + Len(chunk) <= CdLen, B64Update(chunk, room)
      PROVE  CdInv'
  BY <1>1, UpdateKeepsCdInv
<1>2. ASSUME UNCHANGED cdVars
      PROVE  CdInv'
  BY <1>2 DEF cdVars, CdInv
<1>3. ASSUME NEW room \in {4, 5}, B64Final(room)
      PROVE  CdInv'
  <2>1. CASE b64' = <<>> /\ b64Out' = <<>> /\ b64Fed' = <<>> /\ b64Lost' = FALSE
    <3>1. <<>> \in Seq(CdBytes) /\ Len(<<>>) <= 3 /\ Len(<<>>) <= CdLen
      BY CdAssumption
    <3> QED BY <2>1, <3>1, NothingStreamed DEF CdInv
  <2>2. CASE UNCHANGED cdVars
    BY <1>2, <2>2
  <2> QED BY <1>3, <2>1, <2>2 DEF B64Final
<1> QED BY <1>1, <1>2, <1>3 DEF CdNext

\* The left-over is what stands behind the last whole group.
LEMMA TailIs ==
  ASSUME NEW S, NEW pre \in Seq(S), NEW rest \in Seq(S), NEW fed, Joined(fed, pre, rest),
         NEW m \in Nat, Len(pre) = 3 * m, Len(rest) < 3
  PROVE  IsTail(rest, fed)
<1>a. Len(pre) \in Nat /\ Len(rest) \in Nat
  OBVIOUS
<1>b. PICK n \in Nat : n = Len(pre)
  BY <1>a
<1>c. PICK r \in Nat : r = Len(rest)
  BY <1>a
<1>1. n = Len(pre) /\ r = Len(rest)
  BY <1>b, <1>c
<1>2. fed \in Seq(S) /\ Len(fed) = n + r
  <2>1. pre \o rest \in Seq(S) /\ Len(pre \o rest) = Len(pre) + Len(rest)
    BY JoinedElements
  <2> QED BY <1>1, <2>1 DEF Joined
<1>3. (n + r) % 3 = r /\ n + r - r + 1 = n + 1
  BY <1>1
<1> DEFINE t == SubSeq(fed, n + 1, n + r)
<1>4. /\ t \in Seq(S) /\ Len(t) = IF n + 1 <= n + r THEN n + r - (n + 1) + 1 ELSE 0
      /\ \A k \in 1..(n + r - (n + 1) + 1) : t[k] = fed[n + 1 + k - 1]
  <2>1. PICK a \in Nat, b \in Nat : a = n + 1 /\ b = n + r
    OBVIOUS
  <2>2. a >= 1 /\ b <= Len(fed)
    BY <1>2, <2>1
  <2>3. /\ SubSeq(fed, a, b) \in Seq(S) /\ Len(SubSeq(fed, a, b)) = IF a <= b THEN b - a + 1 ELSE 0
        /\ \A k \in 1..(b - a + 1) : SubSeq(fed, a, b)[k] = fed[a + k - 1]
    BY <1>2, <2>2, PartElements
  <2> QED BY <2>1, <2>3
<1>5. Len(t) = r
  BY <1>1, <1>4
<1>6. ASSUME NEW k \in 1..r PROVE t[k] = rest[k]
  <2>1. t[k] = fed[n + k]
    BY <1>4
  <2>2. fed[n + k] = rest[k]
    <3>1. \A i \in 1..(Len(pre) + Len(rest)) : (pre \o rest)[i] = IF i <= Len(pre) THEN pre[i] ELSE rest[i - Len(pre)]
      BY JoinedElements
    <3>2. n + k \in 1..(n + r) /\ ~(n + k <= n) /\ (n + k) - n = k
      OBVIOUS
    <3> QED BY <1>1, <3>1, <3>2 DEF Joined
  <2> QED BY <2>1, <2>2
<1> HIDE DEF t
<1>7. t = rest
  BY <1>1, <1>4, <1>5, <1>6, SameElements
<1> QED BY <1>2, <1>3, <1>7 DEF IsTail, t

\* The room of one call for all that was fed.
LEMMA RoomForAll ==
  ASSUME NEW n \in Nat, n <= CdLen
  PROVE  ~(4 * CdLen + 5 < 4 * ((n + 2) \div 3) + 1)
<1>1. CdLen \in Nat
  BY CdAssumption
<1>2. (n + 2) \div 3 <= n + 1
  OBVIOUS
<1>3. (n + 2) \div 3 \in Nat
  OBVIOUS
<1> QED BY <1>1, <1>2, <1>3

\* What the stream wrote, closed, is the encoding of all it was fed.
LEMMA CdInvEncodes == CdInv => StreamEncodes
<1> SUFFICES ASSUME CdInv, ~b64Lost
             PROVE  b64Out \o Padded(b64) = Encode64(b64Fed, 4 * CdLen + 5)
  BY DEF StreamEncodes
<1> DEFINE n == Len(b64Fed)
           tail == SubSeq(b64Fed, n - (n % 3) + 1, n)
<1>0. /\ b64Fed \in Seq(CdBytes) /\ n \in Nat /\ n <= CdLen
      /\ b64 \in Seq(CdBytes) /\ Len(b64) <= 3 /\ Len(b64) \in Nat
      /\ Streamed(b64Fed, b64, b64Out)
  BY DEF CdInv
<1>1. PICK m \in Nat, pre \in Seq(CdBytes) :
        Len(pre) = 3 * m /\ Joined(b64Fed, pre, b64) /\ b64Out = Groups(pre)
  BY <1>0 DEF Streamed
<1>2. Encode64(b64Fed, 4 * CdLen + 5) = Groups(b64Fed) \o Padded(tail)
  BY <1>0, RoomForAll DEF Encode64
<1>3. pre \in Seq(Int) /\ b64 \in Seq(Int) /\ Groups(pre) \in Seq(Int)
  <2>1. pre \in Seq(Int) /\ b64 \in Seq(Int)
    BY <1>0, ByteLines
  <2>2. 3 * m <= Len(pre) /\ Len(pre) < 3 * m + 3
    BY <1>1
  <2> QED BY <2>1, <2>2, GroupsElements
<1>4. Groups(b64Fed) = Groups(pre) \o Groups(b64)
  <2>1. Groups(pre \o b64) = Groups(pre) \o Groups(b64)
    BY <1>1, <1>3, GroupsJoin
  <2> QED BY <1>1, <2>1 DEF Joined
<1>5. CASE Len(b64) < 3
  <2>1. Groups(b64) = <<>>
    BY <1>3, <1>5, NoGroups
  <2>2. tail = b64
    <3>1. IsTail(b64, b64Fed)
      BY <1>0, <1>1, <1>5, TailIs
    <3> QED BY <3>1 DEF IsTail
  <2>3. Groups(pre) \o <<>> = Groups(pre)
    BY <1>3, JoinNothing
  <2> HIDE DEF tail
  <2> QED BY <1>1, <1>2, <1>4, <2>1, <2>2, <2>3
<1>6. CASE ~(Len(b64) < 3)
  <2>1. Len(b64) = 3
    <3>1. PICK r \in Nat : r = Len(b64)
      BY <1>0
    <3>2. r <= 3 /\ ~(r < 3)
      BY <1>0, <1>6, <3>1
    <3> QED BY <3>1, <3>2
  <2>2. Padded(b64) = Groups(b64)
    BY <2>1 DEF Padded
  <2>3. n % 3 = 0
    <3>1. n = 3 * m + 3
      <4>1. Len(pre \o b64) = Len(pre) + Len(b64)
        BY <1>0, <1>1, JoinedElements
      <4> QED BY <1>1, <2>1, <4>1 DEF Joined
    <3>2. 3 * (m + 1) <= n /\ n < 3 * (m + 1) + 3 /\ m + 1 \in Nat
      BY <1>0, <3>1
    <3>3. n % 3 = n - 3 * (m + 1)
      BY <1>0, <3>2, Thirds
    <3> QED BY <3>1, <3>3
  <2>4. tail = <<>>
    <3>1. n - (n % 3) + 1 > n
      BY <1>0, <2>3
    <3> QED BY <1>0, <3>1
  <2>5. Padded(<<>>) = <<>>
    <3>1. <<>> \in Seq(Int) /\ Len(<<>>) < 3
      OBVIOUS
    <3>2. Groups(<<>>) = <<>>
      BY <3>1, NoGroups
    <3> QED BY <3>2 DEF Padded
  <2>6. Groups(b64Fed) \o <<>> = Groups(b64Fed)
    <3>1. b64Fed \in Seq(Int)
      BY <1>0, ByteLines
    <3>2. Groups(b64) \in Seq(Int)
      <4>1. 3 * 1 <= Len(b64) /\ Len(b64) < 3 * 1 + 3
        BY <2>1
      <4> QED BY <1>3, <4>1, GroupsElements
    <3>3. Groups(b64Fed) \in Seq(Int)
      BY <1>3, <1>4, <3>2
    <3> QED BY <3>3, JoinNothing
  <2> HIDE DEF tail
  <2> QED BY <1>1, <1>2, <1>4, <2>2, <2>4, <2>5, <2>6
<1> QED BY <1>5, <1>6

-----------------------------------------------------------------------------
(* The decoders. *)

\* A character of the alphabet decodes to the six bits it encodes.
LEMMA SingleInverts ==
  ASSUME NEW x \in 0..63
  PROVE  EncodeSingle(x) \in Int /\ DecodeSingle(EncodeSingle(x)) = x
<1>1. PICK y \in Int : y = EncodeSingle(x)
  BY DEF EncodeSingle
<1>2. CASE x < 26
  BY <1>1, <1>2 DEF EncodeSingle, DecodeSingle
<1>3. CASE 26 <= x /\ x < 52
  BY <1>1, <1>3 DEF EncodeSingle, DecodeSingle
<1>4. CASE 52 <= x /\ x < 62
  BY <1>1, <1>4 DEF EncodeSingle, DecodeSingle
<1>a. /\ EncodeSingle(62) = 43 /\ DecodeSingle(43) = 62
      /\ EncodeSingle(63) = 47 /\ DecodeSingle(47) = 63
      /\ 43 \in Int /\ 47 \in Int
  BY DEF EncodeSingle, DecodeSingle
<1>5. CASE x = 62
  BY <1>5, <1>a, ZenonT(30)
<1>6. CASE x = 63
  BY <1>6, <1>a, ZenonT(60)
<1> QED BY <1>2, <1>3, <1>4, <1>5, <1>6

\* x, y, z and w are the six-bit parts of three bytes, which come back from them.
SixBits(a, b, c, x, y, z, w) ==
  /\ x = a \div 4 /\ y = (a % 4) * 16 + b \div 16 /\ z = (b % 16) * 4 + c \div 64 /\ w = c % 64
  /\ (x * 4 + y \div 16) % 256 = a
  /\ (y * 16 + z \div 4) % 256 = b
  /\ (z * 64 + w) % 256 = c

\* Three bytes are four times six bits, and back.
LEMMA SixBitParts ==
  ASSUME NEW a \in 0..255, NEW b \in 0..255, NEW c \in 0..255
  PROVE  \E x \in 0..63, y \in 0..63, z \in 0..63, w \in 0..63 : SixBits(a, b, c, x, y, z, w)
<1>1. PICK p \in 0..63, q \in 0..3 : a = 4 * p + q /\ a \div 4 = p /\ a % 4 = q
  OBVIOUS
<1>2. PICK r \in 0..15, s \in 0..15 : b = 16 * r + s /\ b \div 16 = r /\ b % 16 = s
  OBVIOUS
<1>3. PICK t \in 0..3, u \in 0..63 : c = 64 * t + u /\ c \div 64 = t /\ c % 64 = u
  OBVIOUS
<1>4. PICK y \in 0..63 : y = q * 16 + r
  OBVIOUS
<1>5. PICK z \in 0..63 : z = s * 4 + t
  OBVIOUS
<1>6. y \div 16 = q /\ z \div 4 = s
  BY <1>4, <1>5
<1>7. p * 4 + q \in 0..255 /\ (p * 4 + q) % 256 = p * 4 + q
  OBVIOUS
<1>8. (y * 16 + s) % 256 = r * 16 + s
  <2>1. y * 16 + s = 256 * q + (r * 16 + s) /\ r * 16 + s \in 0..255
    BY <1>4
  <2> QED BY <2>1
<1>9. (z * 64 + u) % 256 = t * 64 + u
  <2>1. z * 64 + u = 256 * s + (t * 64 + u) /\ t * 64 + u \in 0..255
    BY <1>5
  <2> QED BY <2>1
<1>10. /\ p = a \div 4 /\ y = (a % 4) * 16 + b \div 16 /\ z = (b % 16) * 4 + c \div 64 /\ u = c % 64
  BY <1>1, <1>2, <1>3, <1>4, <1>5
<1>11. /\ (p * 4 + y \div 16) % 256 = a
       /\ (y * 16 + z \div 4) % 256 = b
       /\ (z * 64 + u) % 256 = c
  BY <1>1, <1>2, <1>3, <1>6, <1>7, <1>8, <1>9
<1>12. SixBits(a, b, c, p, y, z, u)
  BY <1>10, <1>11 DEF SixBits
<1> QED BY <1>12, ZenonT(30)

\* The bytes of four decoded characters, and those of them that a quad gives.
QuadBytes(x, y, z, w) == <<(x * 4 + y \div 16) % 256, (y * 16 + z \div 4) % 256, (z * 64 + w) % 256>>

\* The bytes that four values decode to, less those the padding stands for.
Decoded(q, x, y, z, w) ==
  /\ x \in 0..63 /\ y \in 0..63 /\ z \in 0..64 /\ w \in 0..64
  /\ DecodeSingle(q[1]) = x /\ DecodeSingle(q[2]) = y /\ DecodeSingle(q[3]) = z /\ DecodeSingle(q[4]) = w

\* How many bytes there are before padding.
EndsAt(z, w, n) == n = IF z = 64 THEN 1 ELSE IF w = 64 THEN 2 ELSE 3

\* The first n of three.
FirstOf(s, n) == IF n = 1 THEN <<s[1]>> ELSE IF n = 2 THEN <<s[1], s[2]>> ELSE s

\* The first m elements.
LEMMA FirstPart ==
  ASSUME NEW S, NEW s \in Seq(S), NEW m \in Nat, 1 <= m, m <= Len(s)
  PROVE  /\ SubSeq(s, 1, m) \in Seq(S) /\ Len(SubSeq(s, 1, m)) = m
         /\ \A k \in 1..m : SubSeq(s, 1, m)[k] = s[k]
<1>1. PICK l \in Nat : l = 1
  OBVIOUS
<1>2. l >= 1
  BY <1>1
<1>3. /\ SubSeq(s, l, m) \in Seq(S) /\ Len(SubSeq(s, l, m)) = IF l <= m THEN m - l + 1 ELSE 0
      /\ \A k \in 1..(m - l + 1) : SubSeq(s, l, m)[k] = s[l + k - 1]
  BY <1>2, PartElements, SMTT(60)
<1>4. l <= m /\ m - l + 1 = m /\ \A k \in 1..m : l + k - 1 = k
  BY <1>1
<1> QED BY <1>1, <1>3, <1>4

\* The first n of three, by their places.
LEMMA FirstElements ==
  ASSUME NEW S, NEW s \in Seq(S), Len(s) = 3
  PROVE  SubSeq(s, 1, 1) = FirstOf(s, 1) /\ SubSeq(s, 1, 2) = FirstOf(s, 2) /\ s = FirstOf(s, 3)
<1>1. s[1] \in S /\ s[2] \in S
  OBVIOUS
<1>2. ASSUME NEW n \in {1, 2}
      PROVE  /\ SubSeq(s, 1, n) \in Seq(S) /\ Len(SubSeq(s, 1, n)) = n
             /\ \A k \in 1..n : SubSeq(s, 1, n)[k] = s[k]
  <2>1. PICK l \in Nat : l = n
    OBVIOUS
  <2>2. 1 <= l /\ l <= Len(s)
    BY <2>1
  <2>3. /\ SubSeq(s, 1, l) \in Seq(S) /\ Len(SubSeq(s, 1, l)) = l
        /\ \A k \in 1..l : SubSeq(s, 1, l)[k] = s[k]
    BY <2>2, FirstPart
  <2> QED BY <2>1, <2>3
<1>3. ASSUME NEW t \in Seq(S), Len(t) = 1, t[1] = s[1]
      PROVE  t = <<s[1]>>
  BY <1>1, <1>3
<1>4. ASSUME NEW t \in Seq(S), Len(t) = 2, t[1] = s[1], t[2] = s[2]
      PROVE  t = <<s[1], s[2]>>
  BY <1>1, <1>4
<1>5. SubSeq(s, 1, 1) = <<s[1]>>
  <2>1. SubSeq(s, 1, 1) \in Seq(S) /\ Len(SubSeq(s, 1, 1)) = 1 /\ SubSeq(s, 1, 1)[1] = s[1]
    BY <1>2
  <2> QED BY <1>3, <2>1
<1>6. SubSeq(s, 1, 2) = <<s[1], s[2]>>
  <2>1. SubSeq(s, 1, 2) \in Seq(S) /\ Len(SubSeq(s, 1, 2)) = 2 /\ SubSeq(s, 1, 2)[1] = s[1] /\ SubSeq(s, 1, 2)[2] = s[2]
    BY <1>2
  <2> QED BY <1>4, <2>1
<1> QED BY <1>5, <1>6 DEF FirstOf

\* Four characters decode by their values.
LEMMA QuadOf ==
  ASSUME NEW q, NEW x, NEW y, NEW z, NEW w, Decoded(q, x, y, z, w), NEW n, EndsAt(z, w, n)
  PROVE  Quad(q) = FirstOf(QuadBytes(x, y, z, w), n)
<1> DEFINE bytes == QuadBytes(x, y, z, w)
<1>0. x \in 0..63 /\ y \in 0..63 /\ z \in 0..64 /\ w \in 0..64
  BY DEF Decoded
<1>1. Quad(q) = IF z = 64 THEN SubSeq(bytes, 1, 1) ELSE IF w = 64 THEN SubSeq(bytes, 1, 2) ELSE bytes
  <2>1. ~(x \in {-1, 64} \/ y \in {-1, 64} \/ z = -1 \/ w = -1)
    BY <1>0
  <2> QED BY <2>1 DEF Quad, QuadBytes, Decoded
<1>2. bytes \in Seq(Int) /\ Len(bytes) = 3
  BY <1>0 DEF QuadBytes
<1>3. SubSeq(bytes, 1, 1) = FirstOf(bytes, 1) /\ SubSeq(bytes, 1, 2) = FirstOf(bytes, 2) /\ bytes = FirstOf(bytes, 3)
  BY <1>2, FirstElements
<1> QED BY <1>1, <1>3 DEF EndsAt

\* q has the characters of the first t of three bytes, the others being 0, with the padding.
Encoded(q, a, b, c, t) ==
  /\ a \in 0..255 /\ b \in 0..255 /\ c \in 0..255 /\ t \in {1, 2, 3}
  /\ (t < 3 => c = 0) /\ (t < 2 => b = 0)
  /\ \A j \in 1..4 : q[j] = IF j <= t + 1 THEN Group(<<a, b, c>>)[j] ELSE 61

\* Three bytes, two and one come back from the characters made of them.
LEMMA QuadInverts ==
  ASSUME NEW a, NEW b, NEW c, NEW q, NEW t, Encoded(q, a, b, c, t)
  PROVE  Quad(q) = FirstOf(<<a, b, c>>, t)
<1>0. /\ a \in 0..255 /\ b \in 0..255 /\ c \in 0..255 /\ t \in {1, 2, 3}
      /\ (t < 3 => c = 0) /\ (t < 2 => b = 0)
      /\ \A j \in 1..4 : q[j] = IF j <= t + 1 THEN Group(<<a, b, c>>)[j] ELSE 61
  BY ZenonT(30) DEF Encoded
<1>1. PICK x \in 0..63, y \in 0..63, z \in 0..63, w \in 0..63 : SixBits(a, b, c, x, y, z, w)
  BY <1>0, SixBitParts, ZenonT(60)
<1>a. /\ x = a \div 4 /\ y = (a % 4) * 16 + b \div 16 /\ z = (b % 16) * 4 + c \div 64 /\ w = c % 64
  BY <1>1 DEF SixBits
<1>b. /\ (x * 4 + y \div 16) % 256 = a
      /\ (y * 16 + z \div 4) % 256 = b
      /\ (z * 64 + w) % 256 = c
  BY <1>1 DEF SixBits
<1> DEFINE g == Group(<<a, b, c>>)
<1>2. g[1] = EncodeSingle(x) /\ g[2] = EncodeSingle(y) /\ g[3] = EncodeSingle(z) /\ g[4] = EncodeSingle(w)
  BY <1>a DEF Group
<1>3. DecodeSingle(61) = 64
  BY DEF DecodeSingle
<1> HIDE DEF g
<1>4. /\ q[1] = g[1] /\ q[2] = g[2] /\ q[3] = (IF t >= 2 THEN g[3] ELSE 61) /\ q[4] = (IF t = 3 THEN g[4] ELSE 61)
  BY <1>0 DEF g
<1>5. DecodeSingle(q[1]) = x /\ DecodeSingle(q[2]) = y
  BY <1>2, <1>4, SingleInverts
<1> DEFINE S == 0..63
           T == 0..64
<1>s. x \in S /\ y \in S /\ z \in T /\ w \in T /\ 64 \in T /\ z # 64 /\ w # 64
  OBVIOUS
<1>q. ASSUME NEW k \in T, NEW l \in T, DecodeSingle(q[3]) = k, DecodeSingle(q[4]) = l,
             NEW n, EndsAt(k, l, n)
      PROVE  Quad(q) = FirstOf(QuadBytes(x, y, k, l), n)
  <2>1. Decoded(q, x, y, k, l)
    BY <1>5, <1>q DEF Decoded
  <2> QED BY <1>q, <2>1, QuadOf
<1> HIDE DEF S, T
<1>6. CASE t = 3
  <2>1. DecodeSingle(q[3]) = z /\ DecodeSingle(q[4]) = w
    BY <1>0, <1>2, <1>4, <1>6, SingleInverts
  <2>2. Quad(q) = FirstOf(QuadBytes(x, y, z, w), 3)
    BY <1>q, <1>s, <2>1 DEF EndsAt
  <2> QED BY <1>0, <1>b, <1>6, <2>2 DEF QuadBytes
<1>7. CASE t = 2
  <2>1. DecodeSingle(q[3]) = z /\ DecodeSingle(q[4]) = 64
    BY <1>0, <1>2, <1>3, <1>4, <1>7, SingleInverts
  <2>2. Quad(q) = FirstOf(QuadBytes(x, y, z, 64), 2)
    BY <1>q, <1>s, <2>1 DEF EndsAt
  <2> QED BY <1>0, <1>b, <1>7, <2>2 DEF QuadBytes, FirstOf
<1>8. CASE t = 1
  <2>1. DecodeSingle(q[3]) = 64 /\ DecodeSingle(q[4]) = 64
    BY <1>0, <1>3, <1>4, <1>8
  <2>2. Quad(q) = FirstOf(QuadBytes(x, y, 64, 64), 1)
    BY <1>q, <1>s, <2>1 DEF EndsAt
  <2> QED BY <1>0, <1>b, <1>8, <2>2 DEF QuadBytes, FirstOf
<1> QED BY <1>0, <1>6, <1>7, <1>8

\* The bytes of a line, and zeros behind it.
ByteAt(s, k) == IF k <= Len(s) THEN s[k] ELSE 0

\* Characters j of four are those of a group, up to one more than its bytes.
FourOf(e, g, t) == \A j \in 1..4 : e[j] = IF j <= t + 1 THEN g[j] ELSE 61

\* p fills up t bytes.
Fills(p, t) == p = IF t = 1 THEN <<61, 61>> ELSE <<61>>

\* Characters cut from the padded encoding of the last group.
LEMMA CutPadded ==
  ASSUME NEW S, NEW g \in Seq(S), Len(g) = 4, NEW p \in Seq(S),
         NEW t \in {1, 2}, Fills(p, t), NEW m \in Nat, m = t + 1
  PROVE  /\ SubSeq(g, 1, m) \o p \in Seq(S) /\ Len(SubSeq(g, 1, m) \o p) = 4
         /\ FourOf(SubSeq(g, 1, m) \o p, g, t)
<1> DEFINE c == SubSeq(g, 1, m)
<1>2. c \in Seq(S) /\ Len(c) = m /\ \A k \in 1..m : c[k] = g[k]
  <2>1. 1 <= m /\ m <= Len(g)
    OBVIOUS
  <2> QED BY <2>1, FirstPart
<1> HIDE DEF c
<1>3. Len(p) = 4 - m /\ \A k \in 1..(4 - m) : p[k] = 61
  BY DEF Fills
<1>4. /\ c \o p \in Seq(S) /\ Len(c \o p) = Len(c) + Len(p)
      /\ \A k \in 1..(Len(c) + Len(p)) : (c \o p)[k] = IF k <= Len(c) THEN c[k] ELSE p[k - Len(c)]
  BY <1>2, JoinedElements
<1>5. c \o p \in Seq(S) /\ Len(c \o p) = 4
  BY <1>2, <1>3, <1>4
<1>6. ASSUME NEW j \in 1..4
      PROVE  (c \o p)[j] = IF j <= t + 1 THEN g[j] ELSE 61
  <2>1. (c \o p)[j] = IF j <= m THEN c[j] ELSE p[j - m]
    BY <1>2, <1>3, <1>4
  <2>2. CASE j <= m
    BY <1>2, <2>1, <2>2
  <2>3. CASE ~(j <= m)
    <3>1. j - m \in 1..(4 - m)
      BY <2>3
    <3> QED BY <1>3, <2>1, <2>3, <3>1
  <2> QED BY <2>2, <2>3
<1> QED BY <1>5, <1>6 DEF FourOf, c

\* The last group is padded to four characters.
LEMMA PaddedElements ==
  ASSUME NEW s \in Seq(Int), Len(s) \in {1, 2}
  PROVE  /\ Padded(s) \in Seq(Int) /\ Len(Padded(s)) = 4
         /\ FourOf(Padded(s), Group(<<ByteAt(s, 1), ByteAt(s, 2), ByteAt(s, 3)>>), Len(s))
<1> DEFINE I == Int
           g == Group(<<ByteAt(s, 1), ByteAt(s, 2), ByteAt(s, 3)>>)
<1>1. 61 \in I /\ <<61>> \in Seq(I) /\ <<61, 61>> \in Seq(I)
  OBVIOUS
<1>2. g \in Seq(I) /\ Len(g) = 4
  <2>1. ByteAt(s, 1) \in Int /\ ByteAt(s, 2) \in Int /\ ByteAt(s, 3) \in Int
    BY DEF ByteAt
  <2> HIDE DEF g
  <2> QED BY <2>1, GroupOf DEF g
<1>3. CASE Len(s) = 1
  <2>1. Padded(s) = SubSeq(Group(s \o <<0, 0>>), 1, 2) \o <<61, 61>>
    <3>1. s # <<>> /\ Len(s) # 3
      <4>1. Len(<<>>) = 0 /\ 1 # 0 /\ 1 # 3
        OBVIOUS
      <4> QED BY <1>3, <4>1
    <3> QED BY <1>3, <3>1 DEF Padded
  <2>2. (s \o <<0, 0>>)[1] = s[1] /\ (s \o <<0, 0>>)[2] = 0 /\ (s \o <<0, 0>>)[3] = 0
    <3>1. <<0, 0>> \in Seq(I) /\ s \in Seq(I)
      OBVIOUS
    <3> HIDE DEF I
    <3>2. \A k \in 1..(Len(s) + Len(<<0, 0>>)) :
            (s \o <<0, 0>>)[k] = IF k <= Len(s) THEN s[k] ELSE <<0, 0>>[k - Len(s)]
      BY <3>1, JoinedElements
    <3>3. Len(<<0, 0>>) = 2 /\ <<0, 0>>[1] = 0 /\ <<0, 0>>[2] = 0
      OBVIOUS
    <3>4. \A k \in 1..3 : (s \o <<0, 0>>)[k] = IF k <= 1 THEN s[k] ELSE <<0, 0>>[k - 1]
      <4>1. Len(s) + Len(<<0, 0>>) = 3
        BY <1>3, <3>3
      <4> QED BY <1>3, <3>2, <4>1
    <3> QED BY <3>3, <3>4
  <2>3. ByteAt(s, 1) = s[1] /\ ByteAt(s, 2) = 0 /\ ByteAt(s, 3) = 0
    BY <1>3 DEF ByteAt
  <2>4. Group(s \o <<0, 0>>) = g
    BY <2>2, <2>3 DEF Group
  <2>5. PICK t \in {1, 2}, m \in Nat : t = 1 /\ m = 2
    OBVIOUS
  <2>6. m = t + 1 /\ Fills(<<61, 61>>, t)
    BY <2>5 DEF Fills
  <2> HIDE DEF g, I
  <2>7. /\ SubSeq(g, 1, m) \o <<61, 61>> \in Seq(I) /\ Len(SubSeq(g, 1, m) \o <<61, 61>>) = 4
        /\ FourOf(SubSeq(g, 1, m) \o <<61, 61>>, g, t)
    <3>1. g \in Seq(I) /\ Len(g) = 4 /\ m \in Nat /\ t \in {1, 2}
      BY <1>2
    <3>2. PICK p \in Seq(I) : p = <<61, 61>>
      BY <1>1
    <3>3. Fills(p, t)
      BY <2>6, <3>2
    <3>4. /\ SubSeq(g, 1, m) \o p \in Seq(I) /\ Len(SubSeq(g, 1, m) \o p) = 4
          /\ FourOf(SubSeq(g, 1, m) \o p, g, t)
      BY <2>6, <3>1, <3>3, CutPadded
    <3> QED BY <3>2, <3>4
  <2> QED BY <1>3, <2>1, <2>4, <2>5, <2>7 DEF g, I
<1>4. CASE Len(s) = 2
  <2>1. Padded(s) = SubSeq(Group(s \o <<0>>), 1, 3) \o <<61>>
    BY <1>4 DEF Padded
  <2>2. (s \o <<0>>)[1] = s[1] /\ (s \o <<0>>)[2] = s[2] /\ (s \o <<0>>)[3] = 0
    <3>1. <<0>> \in Seq(I) /\ s \in Seq(I)
      OBVIOUS
    <3> HIDE DEF I
    <3>2. \A k \in 1..(Len(s) + Len(<<0>>)) :
            (s \o <<0>>)[k] = IF k <= Len(s) THEN s[k] ELSE <<0>>[k - Len(s)]
      BY <3>1, JoinedElements
    <3>3. Len(<<0>>) = 1 /\ <<0>>[1] = 0
      OBVIOUS
    <3>4. \A k \in 1..3 : (s \o <<0>>)[k] = IF k <= 2 THEN s[k] ELSE <<0>>[k - 2]
      <4>1. Len(s) + Len(<<0>>) = 3
        BY <1>4, <3>3
      <4> QED BY <1>4, <3>2, <4>1
    <3>5. 1 \in 1..3 /\ 2 \in 1..3 /\ 3 \in 1..3 /\ 1 <= 2 /\ 2 <= 2 /\ ~(3 <= 2) /\ 3 - 2 = 1
      OBVIOUS
    <3> QED BY <3>3, <3>4, <3>5
  <2>3. ByteAt(s, 1) = s[1] /\ ByteAt(s, 2) = s[2] /\ ByteAt(s, 3) = 0
    BY <1>4 DEF ByteAt
  <2>4. Group(s \o <<0>>) = g
    BY <2>2, <2>3 DEF Group
  <2>5. PICK t \in {1, 2}, m \in Nat : t = 2 /\ m = 3
    OBVIOUS
  <2>6. m = t + 1 /\ Fills(<<61>>, t)
    BY <2>5 DEF Fills
  <2> HIDE DEF g, I
  <2>7. /\ SubSeq(g, 1, m) \o <<61>> \in Seq(I) /\ Len(SubSeq(g, 1, m) \o <<61>>) = 4
        /\ FourOf(SubSeq(g, 1, m) \o <<61>>, g, t)
    <3>1. g \in Seq(I) /\ Len(g) = 4 /\ m \in Nat /\ t \in {1, 2}
      BY <1>2
    <3>2. PICK p \in Seq(I) : p = <<61>>
      BY <1>1
    <3>3. Fills(p, t)
      BY <2>6, <3>2
    <3>4. /\ SubSeq(g, 1, m) \o p \in Seq(I) /\ Len(SubSeq(g, 1, m) \o p) = 4
          /\ FourOf(SubSeq(g, 1, m) \o p, g, t)
      BY <2>6, <3>1, <3>3, CutPadded
    <3> QED BY <3>2, <3>4
  <2> QED BY <1>4, <2>1, <2>4, <2>5, <2>7 DEF g, I
<1> QED BY <1>3, <1>4

\* e holds s in h groups of four characters, the last of them padded.
Sixes(s, e, h) ==
  /\ h \in Nat /\ e \in Seq(Int) /\ Len(e) = 4 * h
  /\ Len(s) <= 3 * h /\ 3 * h <= Len(s) + 2
  /\ \A i \in 1..h : \A j \in 1..4 :
       e[4 * i - 4 + j] = IF j <= Len(s) - 3 * i + 4
                          THEN Group(<<ByteAt(s, 3 * i - 2), ByteAt(s, 3 * i - 1), ByteAt(s, 3 * i)>>)[j]
                          ELSE 61

\* Each four characters of an encoding come from three bytes, the last ones padded.
LEMMA Encoded64 ==
  ASSUME NEW s \in Seq(CdBytes)
  PROVE  \E h \in Nat, rest \in Seq(CdBytes) : IsTail(rest, s) /\ Sixes(s, Groups(s) \o Padded(rest), h)
<1>1. PICK g \in Nat, pre \in Seq(CdBytes), rest \in Seq(CdBytes) :
        /\ Len(pre) = 3 * g /\ Len(rest) < 3 /\ Joined(s, pre, rest)
        /\ IsTail(rest, s) /\ Groups(s) = Groups(pre)
  BY TailOf
<1>2. s \in Seq(Int) /\ pre \in Seq(Int) /\ rest \in Seq(Int)
  BY ByteLines
<1>a. PICK n \in Nat : n = Len(s)
  OBVIOUS
<1>b. PICK r \in 0..2 : r = Len(rest)
  <2>1. PICK r \in Nat : r = Len(rest)
    OBVIOUS
  <2> QED BY <1>1, <2>1
<1>3. n = Len(s) /\ r = Len(rest) /\ n = 3 * g + r
  <2>1. Len(pre \o rest) = Len(pre) + Len(rest)
    BY JoinedElements
  <2> QED BY <1>1, <1>a, <1>b, <2>1 DEF Joined
<1>c. n = 3 * g + r
  BY <1>3
<1>d. 3 * g <= n /\ n < 3 * g + 3
  BY <1>c
<1> DEFINE x == Groups(s)
<1>4. /\ x \in Seq(Int) /\ Len(x) = 4 * g
      /\ \A i \in 1..g, j \in 1..4 : x[4 * i - 4 + j] = Group(<<s[3 * i - 2], s[3 * i - 1], s[3 * i]>>)[j]
  <2>1. 3 * g <= n /\ n < 3 * g + 3
    BY <1>d
  <2>2. 3 * g <= Len(s) /\ Len(s) < 3 * g + 3
    BY <1>3, <2>1
  <2> QED BY <1>2, <2>2, GroupsElements
<1>5. \A k \in 1..r : s[3 * g + k] = rest[k]
  <2>1. \A i \in 1..(Len(pre) + Len(rest)) : (pre \o rest)[i] = IF i <= Len(pre) THEN pre[i] ELSE rest[i - Len(pre)]
    BY JoinedElements
  <2>2. \A k \in 1..r : 3 * g + k \in 1..(3 * g + r) /\ ~(3 * g + k <= 3 * g) /\ (3 * g + k) - 3 * g = k
    OBVIOUS
  <2> QED BY <1>1, <1>3, <2>1, <2>2, SMTT(60) DEF Joined
<1> HIDE DEF x
<1> DEFINE quad(e, i) == \A j \in 1..4 :
             e[4 * i - 4 + j] = IF j <= n - 3 * i + 4
                                THEN Group(<<ByteAt(s, 3 * i - 2), ByteAt(s, 3 * i - 1), ByteAt(s, 3 * i)>>)[j]
                                ELSE 61
<1>6. ASSUME NEW i \in 1..g
      PROVE  quad(x, i)
  <2>1. \A k \in {3 * i - 2, 3 * i - 1, 3 * i} : k <= n
    BY <1>3
  <2>2. ByteAt(s, 3 * i - 2) = s[3 * i - 2] /\ ByteAt(s, 3 * i - 1) = s[3 * i - 1] /\ ByteAt(s, 3 * i) = s[3 * i]
    BY <1>3, <2>1 DEF ByteAt
  <2>3. \A j \in 1..4 : j <= n - 3 * i + 4
    BY <1>3
  <2> QED BY <1>4, <2>2, <2>3
<1>7. CASE r = 0
  <2>1. rest = <<>>
    <3>1. Len(rest) = 0
      BY <1>3, <1>7
    <3> QED BY <3>1
  <2>2. Padded(rest) = <<>>
    <3>1. <<>> \in Seq(Int) /\ Len(<<>>) < 3
      OBVIOUS
    <3>2. Groups(<<>>) = <<>>
      BY <3>1, NoGroups
    <3> QED BY <2>1, <3>2 DEF Padded
  <2>3. x \o Padded(rest) = x
    BY <1>4, <2>2, JoinNothing
  <2>4. n <= 3 * g /\ 3 * g <= n + 2
    BY <1>3, <1>7
  <2>5. Sixes(s, x, g)
    BY <1>3, <1>4, <1>6, <2>4 DEF Sixes
  <2> QED BY <1>1, <2>3, <2>5 DEF x
<1>8. CASE r # 0
  <2>1. PICK p : p = Padded(rest)
    OBVIOUS
  <2>2. /\ p \in Seq(Int) /\ Len(p) = 4
        /\ FourOf(p, Group(<<ByteAt(rest, 1), ByteAt(rest, 2), ByteAt(rest, 3)>>), r)
    <3>1. Len(rest) \in {1, 2}
      BY <1>3, <1>8
    <3> QED BY <1>2, <1>3, <2>1, <3>1, PaddedElements
  <2>3. PICK h \in Nat : h = g + 1
    OBVIOUS
  <2>4. /\ ByteAt(rest, 1) = ByteAt(s, 3 * h - 2) /\ ByteAt(rest, 2) = ByteAt(s, 3 * h - 1)
        /\ ByteAt(rest, 3) = ByteAt(s, 3 * h)
    <3>1. ASSUME NEW k \in 1..3
          PROVE  ByteAt(rest, k) = ByteAt(s, 3 * g + k)
      <4>1. k <= r <=> 3 * g + k <= n
        BY <1>3
      <4>2. CASE k <= r
        BY <1>3, <1>5, <4>1, <4>2 DEF ByteAt
      <4>3. CASE ~(k <= r)
        BY <1>3, <4>1, <4>3 DEF ByteAt
      <4> QED BY <4>2, <4>3
    <3>2. 3 * g + 1 = 3 * h - 2 /\ 3 * g + 2 = 3 * h - 1 /\ 3 * g + 3 = 3 * h
      BY <2>3
    <3>3. ByteAt(rest, 1) = ByteAt(s, 3 * g + 1) /\ ByteAt(rest, 2) = ByteAt(s, 3 * g + 2) /\ ByteAt(rest, 3) = ByteAt(s, 3 * g + 3)
      BY <3>1
    <3> QED BY <3>2, <3>3
  <2> DEFINE e == x \o p
  <2>5. /\ e \in Seq(Int) /\ Len(e) = 4 * g + 4
        /\ \A k \in 1..(4 * g + 4) : e[k] = IF k <= 4 * g THEN x[k] ELSE p[k - 4 * g]
    <3>1. /\ x \o p \in Seq(Int) /\ Len(x \o p) = Len(x) + Len(p)
          /\ \A k \in 1..(Len(x) + Len(p)) : (x \o p)[k] = IF k <= Len(x) THEN x[k] ELSE p[k - Len(x)]
      BY <1>4, <2>2, JoinedElements, ZenonT(60)
    <3> QED BY <1>4, <2>2, <3>1
  <2> HIDE DEF e
  <2>6. ASSUME NEW i \in 1..h
        PROVE  quad(e, i)
    <3>1. CASE i # h
      <4>1. i \in 1..g
        BY <2>3, <3>1
      <4>2. \A j \in 1..4 : 4 * i - 4 + j \in 1..(4 * g + 4) /\ 4 * i - 4 + j <= 4 * g
        BY <4>1
      <4>3. \A j \in 1..4 : e[4 * i - 4 + j] = x[4 * i - 4 + j]
        BY <2>5, <4>2
      <4>4. quad(x, i)
        BY <1>6, <4>1
      <4> QED BY <4>3, <4>4, ZenonT(60)
    <3>2. CASE i = h
      <4>1. ASSUME NEW j \in 1..4
            PROVE  e[4 * h - 4 + j] = p[j] /\ (j <= n - 3 * h + 4 <=> j <= r + 1)
        <5>1. 4 * h - 4 + j \in 1..(4 * g + 4) /\ ~(4 * h - 4 + j <= 4 * g) /\ (4 * h - 4 + j) - 4 * g = j
          BY <2>3
        <5>2. j <= n - 3 * h + 4 <=> j <= r + 1
          BY <1>3, <2>3
        <5> QED BY <2>5, <5>1, <5>2
      <4> QED BY <2>2, <2>4, <3>2, <4>1, ZenonT(60) DEF FourOf
    <3> QED BY <3>1, <3>2
  <2>7. n <= 3 * h /\ 3 * h <= n + 2 /\ 4 * g + 4 = 4 * h
    BY <1>c, <1>8, <2>3
  <2>8. Sixes(s, e, h)
    BY <1>3, <2>5, <2>6, <2>7 DEF Sixes
  <2> QED BY <1>1, <2>1, <2>8 DEF e, x
<1> QED BY <1>7, <1>8

\* Four characters from a line.
LEMMA PartFour ==
  ASSUME NEW e \in Seq(Int), NEW h \in Nat, Len(e) = 4 * h, NEW i \in 1..h, NEW j \in 1..4
  PROVE  SubSeq(e, 4 * i - 3, 4 * i)[j] = e[4 * i - 4 + j]
<1> DEFINE I == Int
<1>1. e \in Seq(I)
  OBVIOUS
<1> HIDE DEF I
<1>2. PICK a \in Nat, b \in Nat : a = 4 * i - 3 /\ b = 4 * i
  OBVIOUS
<1>3. PICK n \in Nat : n = Len(e)
  BY <1>1
<1>4. a >= 1 /\ b <= n
  BY <1>2, <1>3
<1>5. \A k \in 1..(b - a + 1) : SubSeq(e, a, b)[k] = e[a + k - 1]
  BY <1>1, <1>3, <1>4, PartElements
<1>6. j \in 1..(b - a + 1) /\ a + j - 1 = 4 * i - 4 + j
  BY <1>2
<1> QED BY <1>2, <1>5, <1>6

\* How many bytes the group i of n bytes has.
SizeOf(n, i) == IF 3 * i <= n THEN 3 ELSE n - 3 * i + 3

\* Group i of a line, with zeros behind its end.
Triple(s, i) == <<ByteAt(s, 3 * i - 2), ByteAt(s, 3 * i - 1), ByteAt(s, 3 * i)>>

\* Four characters of an encoding decode to their bytes.
LEMMA QuadOfSixes ==
  ASSUME NEW s \in Seq(CdBytes), NEW e, NEW h, Sixes(s, e, h), NEW i \in 1..h
  PROVE  /\ SizeOf(Len(s), i) \in {1, 2, 3}
         /\ Quad(SubSeq(e, 4 * i - 3, 4 * i)) = FirstOf(Triple(s, i), SizeOf(Len(s), i))
<1>1. PICK n \in Nat : n = Len(s)
  OBVIOUS
<1>2. h \in Nat /\ e \in Seq(Int) /\ Len(e) = 4 * h /\ n <= 3 * h /\ 3 * h <= n + 2
  BY <1>1 DEF Sixes
<1>3. PICK t \in {1, 2, 3} : t = SizeOf(n, i)
  BY <1>2 DEF SizeOf
<1> DEFINE q == SubSeq(e, 4 * i - 3, 4 * i)
           a == ByteAt(s, 3 * i - 2)
           b == ByteAt(s, 3 * i - 1)
           c == ByteAt(s, 3 * i)
           B == 0..255
<1>4. \A j \in 1..4 : e[4 * i - 4 + j] = IF j <= n - 3 * i + 4 THEN Group(<<a, b, c>>)[j] ELSE 61
  BY <1>1, ZenonT(60) DEF Sixes
<1>5. \A j \in 1..4 : q[j] = e[4 * i - 4 + j]
  BY <1>2, PartFour
<1>6. \A j \in 1..4 : j <= n - 3 * i + 4 <=> j <= t + 1
  BY <1>2, <1>3 DEF SizeOf
<1>7. ASSUME NEW k \in Nat, k >= 1
      PROVE  ByteAt(s, k) \in B /\ (k > n => ByteAt(s, k) = 0)
  <2>1. s \in Seq(B)
    BY ByteLines
  <2>2. 0 \in B
    OBVIOUS
  <2> HIDE DEF B
  <2>3. CASE k <= n
    <3>1. k \in 1..Len(s)
      BY <1>1, <1>7, <2>3
    <3>2. s[k] \in B
      BY <2>1, <3>1
    <3> QED BY <1>1, <2>3, <3>2 DEF ByteAt
  <2>4. CASE ~(k <= n)
    BY <1>1, <2>2, <2>4 DEF ByteAt
  <2> QED BY <2>3, <2>4
<1>8. /\ 3 * i - 2 \in Nat /\ 3 * i - 2 >= 1 /\ 3 * i - 1 \in Nat /\ 3 * i - 1 >= 1 /\ 3 * i \in Nat /\ 3 * i >= 1
      /\ t < 3 => 3 * i > n
      /\ t < 2 => 3 * i - 1 > n
  BY <1>2, <1>3 DEF SizeOf
<1> HIDE DEF B
<1>9. a \in B /\ b \in B /\ c \in B /\ (t < 3 => c = 0) /\ (t < 2 => b = 0)
  BY <1>7, <1>8
<1>10. \A j \in 1..4 : q[j] = IF j <= t + 1 THEN Group(<<a, b, c>>)[j] ELSE 61
  BY <1>4, <1>5, <1>6, SMTT(120)
<1>e. Encoded(q, a, b, c, t)
  BY <1>9, <1>10 DEF Encoded, B
<1> HIDE DEF q, a, b, c
<1>11. Quad(q) = FirstOf(<<a, b, c>>, t)
  BY <1>e, QuadInverts
<1> QED BY <1>1, <1>3, <1>11 DEF q, a, b, c, Triple

\* What Base64 encodes it decodes.
LEMMA Decoded64 ==
  ASSUME NEW s \in Seq(CdBytes), NEW e, NEW h \in Nat, Sixes(s, e, h), NEW room \in Nat, 3 * h + 1 <= room
  PROVE  Decode64(e, room) = s
<1>1. PICK n \in Nat : n = Len(s)
  OBVIOUS
<1>2. e \in Seq(Int) /\ Len(e) = 4 * h /\ n <= 3 * h /\ 3 * h <= n + 2
  BY <1>1 DEF Sixes
<1> DEFINE part(i) == FirstOf(Triple(s, i), SizeOf(n, i))
           quads == [i \in 1..h |-> part(i)]
           off == [i \in 0..h |-> IF i < h THEN 3 * i ELSE n]
           B == 0..255
<1>3. s \in Seq(B)
  BY ByteLines
<1>4. ASSUME NEW i \in 1..h
      PROVE  /\ SizeOf(n, i) \in {1, 2, 3}
             /\ part(i) \in Seq(B) /\ Len(part(i)) = SizeOf(n, i)
             /\ off[i] = off[i - 1] + SizeOf(n, i)
             /\ off[i - 1] = 3 * i - 3
             /\ \A j \in 1..SizeOf(n, i) : part(i)[j] = s[3 * i - 3 + j]
  <2>1. PICK t \in {1, 2, 3} : t = SizeOf(n, i)
    BY <1>2 DEF SizeOf
  <2>2. off[i - 1] = 3 * i - 3 /\ off[i] = 3 * i - 3 + t /\ 3 * i - 3 + t <= n
    <3>1. i - 1 \in 0..h /\ i - 1 < h /\ i \in 0..h
      OBVIOUS
    <3>2. off[i - 1] = 3 * (i - 1) /\ off[i] = IF i < h THEN 3 * i ELSE n
      BY <3>1
    <3> HIDE DEF off
    <3> QED BY <1>2, <2>1, <3>2, SMTT(60) DEF SizeOf
  <2>3. ASSUME NEW j \in 1..t
        PROVE  ByteAt(s, 3 * i - 3 + j) = s[3 * i - 3 + j] /\ s[3 * i - 3 + j] \in B
    <3>1. PICK k \in 1..n : k = 3 * i - 3 + j
      BY <2>2
    <3>2. s[k] \in B
      <4> HIDE DEF B
      <4> QED BY <1>1, <1>3
    <3>3. ByteAt(s, k) = s[k]
      BY <1>1 DEF ByteAt
    <3> QED BY <3>1, <3>2, <3>3
  <2>4. 3 * i - 3 + 1 = 3 * i - 2 /\ 3 * i - 3 + 2 = 3 * i - 1 /\ 3 * i - 3 + 3 = 3 * i
    OBVIOUS
  <2> DEFINE x == ByteAt(s, 3 * i - 2)
             y == ByteAt(s, 3 * i - 1)
             z == ByteAt(s, 3 * i)
  <2>a. 1 \in 1..t /\ (t >= 2 => 2 \in 1..t) /\ (t >= 3 => 3 \in 1..t)
    BY <2>1
  <2> HIDE DEF B
  <2>b. ByteAt(s, 3 * i - 3 + 1) = s[3 * i - 3 + 1] /\ s[3 * i - 3 + 1] \in B
    BY <2>3, <2>a
  <2>c. t >= 2 => ByteAt(s, 3 * i - 3 + 2) = s[3 * i - 3 + 2] /\ s[3 * i - 3 + 2] \in B
    BY <2>3, <2>a
  <2>d. t >= 3 => ByteAt(s, 3 * i - 3 + 3) = s[3 * i - 3 + 3] /\ s[3 * i - 3 + 3] \in B
    BY <2>3, <2>a
  <2>5. x = s[3 * i - 3 + 1] /\ x \in B
    BY <2>4, <2>b
  <2>6. t >= 2 => y = s[3 * i - 3 + 2] /\ y \in B
    BY <2>4, <2>c
  <2>7. t >= 3 => z = s[3 * i - 3 + 3] /\ z \in B
    BY <2>4, <2>d
  <2>8. part(i) = IF t = 1 THEN <<x>> ELSE IF t = 2 THEN <<x, y>> ELSE <<x, y, z>>
    BY <2>1 DEF FirstOf, Triple
  <2> HIDE DEF x, y, z, B, part, off
  <2>9. part(i) \in Seq(B) /\ Len(part(i)) = t
    BY <2>5, <2>6, <2>7, <2>8
  <2>10. \A j \in 1..t : part(i)[j] = s[3 * i - 3 + j]
    <3>1. CASE t = 1
      BY <2>5, <2>8, <3>1
    <3>2. CASE t = 2
      BY <2>5, <2>6, <2>8, <3>2, SMTT(60)
    <3>3. CASE t = 3
      BY <2>5, <2>6, <2>7, <2>8, <3>3, SMTT(120)
    <3> QED BY <3>1, <3>2, <3>3
  <2>11. off[i] = off[i - 1] + t
    BY <2>2
  <2> QED BY <2>1, <2>2, <2>9, <2>10, <2>11
<1>5. quads = [i \in 1..h |-> Quad(SubSeq(e, 4 * i - 3, 4 * i))]
  <2>1. ASSUME NEW i \in 1..h
        PROVE  Quad(SubSeq(e, 4 * i - 3, 4 * i)) = part(i)
    BY <1>1, QuadOfSixes
  <2> HIDE DEF part
  <2> QED BY <2>1
<1>6. Len(e) \div 4 = h
  BY <1>2
<1> HIDE DEF part
<1>7. quads \in Seq(Seq(B)) /\ Len(quads) = h
  <2>1. \A i \in 1..h : part(i) \in Seq(B)
    BY <1>4
  <2> HIDE DEF B
  <2> QED BY <2>1
<1>8. Refused \notin ToSet(quads)
  <2>1. ASSUME NEW i \in 1..h
        PROVE  part(i) # Refused
    <3>1. part(i)[1] = s[3 * i - 3 + 1] /\ 3 * i - 3 + 1 \in 1..n
      <4>1. 1 \in 1..SizeOf(n, i)
        <5>1. SizeOf(n, i) \in {1, 2, 3}
          BY <1>4
        <5> QED BY <5>1
      <4>2. 3 * i - 3 + 1 \in 1..n
        BY <1>2
      <4> QED BY <1>4, <4>1, <4>2
    <3>2. s[3 * i - 3 + 1] \in B
      <4> HIDE DEF B
      <4> QED BY <1>1, <1>3, <3>1
    <3>3. Refused[1] = -1
      BY DEF Refused
    <3>4. -1 \notin B
      OBVIOUS
    <3> HIDE DEF B
    <3> QED BY <3>1, <3>2, <3>3, <3>4
  <2> QED BY <1>7, <2>1 DEF ToSet
<1>9. Decode64(e, room) = FlattenSeq(quads)
  <2>1. ~(room < 3 * h + 1)
    OBVIOUS
  <2> HIDE DEF quads
  <2> QED BY <1>5, <1>6, <1>8, <2>1 DEF Decode64
<1>10. Offsets(quads, off)
  <2>1. off \in [0..h -> Nat]
    OBVIOUS
  <2>2. off[0] = 0
    BY <1>2
  <2>3. \A i \in 1..h : off[i] = off[i - 1] + Len(quads[i])
    <3>1. ASSUME NEW i \in 1..h
          PROVE  off[i] = off[i - 1] + Len(quads[i])
      <4>1. quads[i] = part(i)
        OBVIOUS
      <4> HIDE DEF off, quads
      <4> QED BY <1>4, <4>1
    <3> QED BY <3>1
  <2> HIDE DEF off, quads
  <2> QED BY <1>7, <2>1, <2>2, <2>3 DEF Offsets
<1>11. off[Len(quads)] = n
  BY <1>7
<1>12. \A i \in 1..Len(quads) : \A j \in 1..Len(quads[i]) : s[off[i - 1] + j] = quads[i][j]
  <2>1. ASSUME NEW i \in 1..h, NEW j \in 1..Len(quads[i])
        PROVE  s[off[i - 1] + j] = quads[i][j]
    <3>1. quads[i] = part(i)
      OBVIOUS
    <3> HIDE DEF off, quads
    <3> QED BY <1>4, <2>1, <3>1, SMTT(60)
  <2> QED BY <1>7, <2>1
<1> HIDE DEF quads, off, B
<1>13. FlattenSeq(quads) = s
  BY <1>1, <1>3, <1>7, <1>10, <1>11, <1>12, FlattenIs
<1> QED BY <1>9, <1>13

\* A digit decodes to what it encodes.
LEMMA HexInverts ==
  ASSUME NEW c \in 0..255
  PROVE  /\ HexDigit(c \div 16) \in Int /\ HexDigit(c % 16) \in Int
         /\ HexValue(HexDigit(c \div 16)) # -1 /\ HexValue(HexDigit(c % 16)) # -1
         /\ HexValue(HexDigit(c \div 16)) * 16 + HexValue(HexDigit(c % 16)) = c
<1>1. PICK x \in 0..15, y \in 0..15 : x = c \div 16 /\ y = c % 16 /\ c = 16 * x + y
  OBVIOUS
<1>2. ASSUME NEW d \in 0..15
      PROVE  HexDigit(d) \in Int /\ HexValue(HexDigit(d)) = d
  <2>1. CASE d < 10
    BY <2>1 DEF HexDigit, HexValue
  <2>2. CASE d >= 10
    BY <2>2 DEF HexDigit, HexValue
  <2> QED BY <2>1, <2>2
<1>3. HexDigit(x) \in Int /\ HexValue(HexDigit(x)) = x /\ HexDigit(y) \in Int /\ HexValue(HexDigit(y)) = y
  BY <1>2
<1>4. x # -1 /\ y # -1 /\ x * 16 + y = c
  BY <1>1
<1> QED BY <1>1, <1>3, <1>4

\* How many bytes of n ct_hex_encode has room for.
HexRoom(n, max) == IF 2 * n <= max THEN n ELSE max \div 2

\* Two digits for each byte there is room for.
LEMMA HexElements ==
  ASSUME NEW s \in Seq(CdBytes), NEW max \in Nat, NEW m \in Nat, m = HexRoom(Len(s), max)
  PROVE  /\ EncodeHex(s, max) \in Seq(Int)
         /\ Len(EncodeHex(s, max)) = 2 * m
         /\ \A i \in 1..m : /\ EncodeHex(s, max)[2 * i - 1] = HexDigit(s[i] \div 16)
                            /\ EncodeHex(s, max)[2 * i] = HexDigit(s[i] % 16)
<1> DEFINE B == 0..255
           q == [i \in 1..m |-> <<HexDigit(s[i] \div 16), HexDigit(s[i] % 16)>>]
           off == [i \in 0..m |-> 2 * i]
           e == FlattenSeq(q)
           I == Int
<1>1. PICK n \in Nat : n = Len(s)
  OBVIOUS
<1>2. m <= n
  BY <1>1 DEF HexRoom
<1>3. s \in Seq(B)
  BY ByteLines
<1>4. ASSUME NEW i \in 1..m
      PROVE  HexDigit(s[i] \div 16) \in I /\ HexDigit(s[i] % 16) \in I
  <2>1. s[i] \in B
    <3> HIDE DEF B
    <3> QED BY <1>1, <1>2, <1>3
  <2> QED BY <2>1, HexInverts
<1>5. EncodeHex(s, max) = e
  BY DEF EncodeHex, HexRoom
<1> HIDE DEF I, e
<1>6. q \in Seq(Seq(I)) /\ Len(q) = m /\ \A i \in 1..m : Len(q[i]) = 2
  <2> DEFINE pair(i) == <<HexDigit(s[i] \div 16), HexDigit(s[i] % 16)>>
  <2>1. \A i \in 1..m : pair(i) \in Seq(I) /\ Len(pair(i)) = 2
    BY <1>4
  <2>2. q = [i \in 1..m |-> pair(i)]
    OBVIOUS
  <2> HIDE DEF q, pair
  <2> QED BY <2>1, <2>2
<1>7. Offsets(q, off)
  <2>1. off \in [0..m -> Nat] /\ off[0] = 0 /\ \A i \in 1..m : off[i] = off[i - 1] + 2
    OBVIOUS
  <2> HIDE DEF q, off
  <2> QED BY <1>6, <2>1 DEF Offsets
<1>8. Flattened(I, q, off, e)
  <2> HIDE DEF q, off
  <2> QED BY <1>6, <1>7, FlattenElements DEF e
<1>9. Len(e) = 2 * m
  <2>1. Len(e) = off[m]
    <3> HIDE DEF q, off
    <3> QED BY <1>6, <1>8 DEF Flattened
  <2> QED BY <2>1
<1>10. ASSUME NEW i \in 1..m
       PROVE  e[2 * i - 1] = HexDigit(s[i] \div 16) /\ e[2 * i] = HexDigit(s[i] % 16)
  <2>1. \A j \in 1..2 : e[off[i - 1] + j] = q[i][j]
    <3> HIDE DEF q, off
    <3> QED BY <1>6, <1>8 DEF Flattened
  <2>2. off[i - 1] = 2 * i - 2
    OBVIOUS
  <2>3. q[i][1] = HexDigit(s[i] \div 16) /\ q[i][2] = HexDigit(s[i] % 16)
    OBVIOUS
  <2> HIDE DEF q, off
  <2>4. e[2 * i - 2 + 1] = q[i][1] /\ e[2 * i - 2 + 2] = q[i][2]
    BY <2>1, <2>2
  <2>5. 2 * i - 2 + 1 = 2 * i - 1 /\ 2 * i - 2 + 2 = 2 * i
    OBVIOUS
  <2> QED BY <2>3, <2>4, <2>5
<1>11. e \in Seq(Int)
  <2> HIDE DEF q, off
  <2> QED BY <1>8 DEF Flattened, I
<1> HIDE DEF q, off
<1> QED BY <1>5, <1>9, <1>10, <1>11

\* How long a hexadecimal text is.
LEMMA HexLength ==
  ASSUME NEW s \in Seq(CdBytes), NEW max \in Nat
  PROVE  Len(EncodeHex(s, max)) <= max
<1>1. PICK n \in Nat : n = Len(s)
  OBVIOUS
<1>2. PICK m \in Nat : m = HexRoom(n, max) /\ 2 * m <= max
  <2>1. max \div 2 \in Nat /\ 2 * (max \div 2) <= max
    OBVIOUS
  <2> QED BY <2>1 DEF HexRoom
<1>3. Len(EncodeHex(s, max)) = 2 * m
  BY <1>1, <1>2, HexElements
<1> QED BY <1>2, <1>3

\* A string is as long as its text, when no character of it is the terminator.
LEMMA StringHolds ==
  ASSUME NEW s \in Seq(Int), \A i \in 1..Len(s) : s[i] # 0, NEW max
  PROVE  \A len \in {0, Len(s)} : DecodeHex(Append(s, 0), len, max) = DecodeDigits(s, max)
<1> DEFINE m == Append(s, 0)
<1>1. PICK n \in Nat : n = Len(s)
  OBVIOUS
<1>2. m \in Seq(Int) /\ Len(m) = n + 1 /\ m[n + 1] = 0 /\ \A i \in 1..n : m[i] = s[i]
  BY <1>1
<1> HIDE DEF m
<1>3. StringLength(m) = n
  <2>1. \A k \in 0..(Len(m) - 1) : (m[k + 1] = 0 /\ \A i \in 1..k : m[i] # 0) <=> k = n
    BY <1>1, <1>2, SMTT(60)
  <2> QED BY <1>1, <1>2, <2>1 DEF StringLength
<1>4. SubSeq(m, 1, n) = s
  <2>1. SubSeq(m, 1, n) \in Seq(Int) /\ Len(SubSeq(m, 1, n)) = n
    BY <1>2
  <2>2. \A i \in 1..n : SubSeq(m, 1, n)[i] = s[i]
    BY <1>2
  <2> HIDE DEF m
  <2> QED BY <1>1, <2>1, <2>2
<1> QED BY <1>1, <1>3, <1>4 DEF DecodeHex, m

\* What is encoded in hexadecimal digits decodes to the bytes there was room for.
LEMMA DecodedDigits ==
  ASSUME NEW s \in Seq(CdBytes), NEW max \in Nat, Len(s) <= max, max # 0
  PROVE  /\ EncodeHex(s, 2 * max + 1) \in Seq(Int)
         /\ \A k \in 1..Len(EncodeHex(s, 2 * max + 1)) : EncodeHex(s, 2 * max + 1)[k] # 0
         /\ DecodeDigits(EncodeHex(s, 2 * max + 1), max) = s
<1> DEFINE e == EncodeHex(s, 2 * max + 1)
           B == 0..255
<1>1. PICK n \in Nat : n = Len(s)
  OBVIOUS
<1>2. n <= max
  BY <1>1
<1>3. n = HexRoom(n, 2 * max + 1) /\ 2 * max + 1 \in Nat
  BY <1>2 DEF HexRoom
<1>4. /\ e \in Seq(Int) /\ Len(e) = 2 * n
      /\ \A i \in 1..n : e[2 * i - 1] = HexDigit(s[i] \div 16) /\ e[2 * i] = HexDigit(s[i] % 16)
  BY <1>1, <1>3, HexElements, ZenonT(60)
<1> HIDE DEF e
<1>5. s \in Seq(B)
  BY ByteLines
<1>6. ASSUME NEW i \in 1..n
      PROVE  /\ HexValue(e[2 * i - 1]) # -1 /\ HexValue(e[2 * i]) # -1
             /\ HexValue(e[2 * i - 1]) * 16 + HexValue(e[2 * i]) = s[i]
  <2>1. s[i] \in B
    <3> HIDE DEF B
    <3> QED BY <1>1, <1>5
  <2>2. PICK c \in 0..255 : c = s[i]
    BY <2>1
  <2>3. e[2 * i - 1] = HexDigit(c \div 16) /\ e[2 * i] = HexDigit(c % 16)
    BY <1>4, <2>2
  <2> QED BY <2>2, <2>3, HexInverts, ZenonT(60)
<1>7. ASSUME NEW k \in 1..(2 * n)
      PROVE  HexValue(e[k]) # -1
  <2>1. PICK i \in 1..n : k = 2 * i - 1 \/ k = 2 * i
    <3>1. PICK h \in Nat : h = (k + 1) \div 2
      OBVIOUS
    <3>2. h \in 1..n /\ (k = 2 * h - 1 \/ k = 2 * h)
      BY <3>1
    <3> QED BY <3>2
  <2> QED BY <1>6, <2>1
<1>8. (2 * n) \div 2 = n /\ (2 * n) % 2 = 0
  OBVIOUS
<1>9. DecodeDigits(e, max) = [i \in 1..n |-> HexValue(e[2 * i - 1]) * 16 + HexValue(e[2 * i])]
  <2> HIDE DEF B
  <2> QED BY <1>2, <1>4, <1>7, <1>8 DEF DecodeDigits
<1>10. s = [i \in 1..n |-> s[i]]
  BY <1>1
<1>11. DecodeDigits(e, max) = s
  <2> DEFINE f(i) == HexValue(e[2 * i - 1]) * 16 + HexValue(e[2 * i])
  <2>1. \A i \in 1..n : f(i) = s[i]
    BY <1>6
  <2>2. DecodeDigits(e, max) = [i \in 1..n |-> f(i)]
    BY <1>9
  <2> HIDE DEF f
  <2>3. [i \in 1..n |-> f(i)] = [i \in 1..n |-> s[i]]
    BY <2>1
  <2> QED BY <1>10, <2>2, <2>3
<1>12. \A k \in 1..Len(e) : e[k] # 0
  <2>1. HexValue(0) = -1
    BY DEF HexValue
  <2> QED BY <1>4, <1>7, <2>1
<1> QED BY <1>4, <1>11, <1>12 DEF e

\* The same of the string, whether its length is given or left to the decoder.
LEMMA DecodedHex ==
  ASSUME NEW s \in Seq(CdBytes), NEW max \in Nat, Len(s) <= max, max # 0
  PROVE  LET e == EncodeHex(s, 2 * max + 1) IN
           \A len \in {0, Len(e)} : DecodeHex(Append(e, 0), len, max) = s
<1> DEFINE e == EncodeHex(s, 2 * max + 1)
<1>1. e \in Seq(Int) /\ (\A k \in 1..Len(e) : e[k] # 0) /\ DecodeDigits(e, max) = s
  BY DecodedDigits
<1> HIDE DEF e
<1>2. \A len \in {0, Len(e)} : DecodeHex(Append(e, 0), len, max) = s
  BY <1>1, StringHolds
<1> QED BY <1>2 DEF e

-----------------------------------------------------------------------------
(* The decoders on any text. *)

\* The texts that the decoders are tried with.
LEMMA TriesAre ==
  ASSUME NEW s \in SeqOf(CdChars, 4)
  PROVE  s \in Seq(Int) /\ Len(s) \in 0..4
<1> DEFINE C == CdChars
           I == Int
<1>1. PICK n \in 0..4 : s \in [1..n -> C]
  BY DEF SeqOf
<1>2. C \subseteq I
  BY CdAssumption
<1> HIDE DEF C, I
<1>3. s \in Seq(C) /\ Len(s) = n
  BY <1>1
<1>4. s \in Seq(I)
  BY <1>2, <1>3, WiderLine
<1> QED BY <1>3, <1>4 DEF I

\* A character decodes to a number.
LEMMA SingleIsNumber ==
  ASSUME NEW c \in Int
  PROVE  DecodeSingle(c) \in Int
BY DEF DecodeSingle

\* Four characters decode to three bytes at most.
LEMMA QuadIsShort ==
  ASSUME NEW s \in Seq(Int), Len(s) = 4
  PROVE  Quad(s) \in Seq(Int) /\ Len(Quad(s)) <= 3 /\ Len(Quad(s)) \in Nat
<1>1. PICK a \in Int, b \in Int, c \in Int, d \in Int :
        a = DecodeSingle(s[1]) /\ b = DecodeSingle(s[2]) /\ c = DecodeSingle(s[3]) /\ d = DecodeSingle(s[4])
  <2>1. s[1] \in Int /\ s[2] \in Int /\ s[3] \in Int /\ s[4] \in Int
    <3> DEFINE I == Int
    <3>1. s \in Seq(I) /\ 1..Len(s) = 1..4
      OBVIOUS
    <3> HIDE DEF I
    <3>2. \A k \in 1..4 : s[k] \in I
      BY <3>1, SMTT(60)
    <3> QED BY <3>2 DEF I
  <2> QED BY <2>1, SingleIsNumber
<1> DEFINE I == Int
           bytes == <<(a * 4 + b \div 16) % 256, (b * 16 + c \div 4) % 256, (c * 64 + d) % 256>>
<1>2. bytes \in Seq(I) /\ Len(bytes) = 3 /\ Refused \in Seq(I) /\ Len(Refused) = 1
  BY DEF Refused
<1>3. \/ Quad(s) = Refused \/ Quad(s) = SubSeq(bytes, 1, 1) \/ Quad(s) = SubSeq(bytes, 1, 2) \/ Quad(s) = bytes
  <2> DEFINE bad == a \in {-1, 64} \/ b \in {-1, 64} \/ c = -1 \/ d = -1
  <2>1. Quad(s) = IF bad THEN Refused
                  ELSE IF c = 64 THEN SubSeq(bytes, 1, 1) ELSE IF d = 64 THEN SubSeq(bytes, 1, 2) ELSE bytes
    BY <1>1 DEF Quad
  <2> HIDE DEF bad, bytes
  <2> QED BY <2>1
<1> HIDE DEF bytes, I
<1>4. PICK m \in Nat, l \in Nat : m = 1 /\ l = 2
  OBVIOUS
<1>5. /\ SubSeq(bytes, 1, m) \in Seq(I) /\ Len(SubSeq(bytes, 1, m)) = m
      /\ SubSeq(bytes, 1, l) \in Seq(I) /\ Len(SubSeq(bytes, 1, l)) = l
  <2>1. 1 <= m /\ m <= Len(bytes) /\ 1 <= l /\ l <= Len(bytes)
    BY <1>2, <1>4
  <2> QED BY <1>2, <2>1, FirstPart
<1>6. Quad(s) \in Seq(I) /\ Len(Quad(s)) \in {1, 2, 3}
  BY <1>2, <1>3, <1>4, <1>5
<1>7. PICK n \in {1, 2, 3} : n = Len(Quad(s))
  BY <1>6
<1>8. n <= 3 /\ n \in Nat
  OBVIOUS
<1> QED BY <1>6, <1>7, <1>8 DEF I

\* Every short string ends somewhere.
LEMMA StringEnds ==
  ASSUME NEW n \in 0..4, NEW m \in Seq(Int), Len(m) = n + 1, m[n + 1] = 0
  PROVE  StringLength(m) \in 0..n
<1> DEFINE StopsAt(k) == m[k + 1] = 0 /\ \A i \in 1..k : m[i] # 0
<1>1. \E k \in 0..n : StopsAt(k)
  <2>0. \A k \in 0..n : StopsAt(k) <=> m[k + 1] = 0 /\ \A i \in 1..k : m[i] # 0
    OBVIOUS
  <2> HIDE DEF StopsAt
  <2>1. CASE m[1] = 0
    <3>1. StopsAt(0) /\ 0 \in 0..n
      BY <2>0, <2>1
    <3> QED BY <3>1
  <2>2. CASE m[1] # 0 /\ m[2] = 0 /\ n >= 1
    <3>1. StopsAt(1) /\ 1 \in 0..n
      BY <2>0, <2>2
    <3> QED BY <3>1
  <2>3. CASE m[1] # 0 /\ m[2] # 0 /\ m[3] = 0 /\ n >= 2
    <3>1. StopsAt(2) /\ 2 \in 0..n
      BY <2>0, <2>3
    <3> QED BY <3>1
  <2>4. CASE m[1] # 0 /\ m[2] # 0 /\ m[3] # 0 /\ m[4] = 0 /\ n >= 3
    <3>1. StopsAt(3) /\ 3 \in 0..n
      BY <2>0, <2>4
    <3> QED BY <3>1
  <2>5. CASE m[1] # 0 /\ m[2] # 0 /\ m[3] # 0 /\ m[4] # 0 /\ n = 4
    <3>1. StopsAt(4) /\ 4 \in 0..n
      BY <2>0, <2>5
    <3> QED BY <3>1
  <2>6. CASE n = 0
    BY <2>1, <2>6
  <2>7. CASE n = 1
    BY <2>1, <2>2, <2>7
  <2>8. CASE n = 2
    BY <2>1, <2>2, <2>3, <2>8
  <2>9. CASE n = 3
    BY <2>1, <2>2, <2>3, <2>4, <2>9
  <2>10. CASE n = 4
    BY <2>1, <2>2, <2>3, <2>4, <2>5, <2>10
  <2> QED BY <2>6, <2>7, <2>8, <2>9, <2>10
<1>2. StringLength(m) = CHOOSE k \in 0..n : StopsAt(k)
  BY DEF StringLength
<1> HIDE DEF StopsAt
<1> QED BY <1>1, <1>2

\* The decoder of digits writes no more bytes than it has room for.
LEMMA DigitsKeepRoom ==
  ASSUME NEW t \in Seq(Int), NEW room \in Nat, DecodeDigits(t, room) # Refused
  PROVE  Len(DecodeDigits(t, room)) <= room
<1>1. PICK n \in Nat : n = Len(t)
  OBVIOUS
<1>2. PICK m \in Nat : m = IF n \div 2 <= room THEN n \div 2 ELSE room
  OBVIOUS
<1>3. DecodeDigits(t, room) = [i \in 1..m |-> HexValue(t[2 * i - 1]) * 16 + HexValue(t[2 * i])]
  BY <1>1, <1>2 DEF DecodeDigits
<1>4. Len(DecodeDigits(t, room)) = m
  BY <1>3
<1>5. m <= room
  BY <1>2
<1> QED BY <1>4, <1>5

\* No decoder writes beyond its room, whatever the text (base64.c, hex.c).
LEMMA KeepsRoom == DecodersKeepRoom
<1> SUFFICES ASSUME NEW s \in SeqOf(CdChars, 4), NEW room \in 0..5
             PROVE  /\ Decode64(s, room) # <<>> => Len(Decode64(s, room)) < room
                    /\ \A len \in {0, Len(s)} : LET d == DecodeHex(Append(s, 0), len, room) IN
                         d # Refused => Len(d) <= room
  BY DEF DecodersKeepRoom
<1>1. PICK n \in 0..4 : s \in Seq(Int) /\ n = Len(s)
  BY TriesAre
<1>2. ASSUME Decode64(s, room) # <<>>
      PROVE  Len(Decode64(s, room)) < room
  <2> DEFINE quads == [i \in 1..(Len(s) \div 4) |-> Quad(SubSeq(s, 4 * i - 3, 4 * i))]
  <2>1. ~(room < 3 * (Len(s) \div 4) + 1) /\ Decode64(s, room) = FlattenSeq(quads)
    <3> HIDE DEF quads
    <3> QED BY <1>2 DEF Decode64, quads
  <2>2. CASE n < 4
    <3>1. n \div 4 = 0 /\ 1..0 = {}
      BY <2>2
    <3>2. quads = <<>>
      BY <1>1, <3>1
    <3>3. FlattenSeq(<<>>) = <<>>
      BY DEF FlattenSeq
    <3> HIDE DEF quads
    <3> QED BY <1>2, <2>1, <3>2, <3>3
  <2>3. CASE n = 4
    <3>1. n \div 4 = 1
      BY <2>3
    <3> DEFINE x == Quad(SubSeq(s, 4 * 1 - 3, 4 * 1))
               I == Int
               off == [i \in 0..1 |-> IF i = 0 THEN 0 ELSE Len(x)]
    <3>2. quads = [i \in 1..1 |-> Quad(SubSeq(s, 4 * i - 3, 4 * i))]
      BY <1>1, <3>1
    <3>3. quads = <<x>>
      <4>1. quads[1] = x /\ quads \in [1..1 -> {x}]
        <5> HIDE DEF x
        <5>1. \A i \in 1..1 : i = 1
          OBVIOUS
        <5> QED BY <3>2, <5>1 DEF x
      <4> HIDE DEF quads, x
      <4> QED BY <4>1
    <3>4. x \in Seq(I) /\ Len(x) \in Nat /\ Len(x) <= 3
      <4>1. SubSeq(s, 1, Len(s)) = s
        BY <1>1
      <4>2. 4 * 1 - 3 = 1 /\ 4 * 1 = 4
        OBVIOUS
      <4>3. x = Quad(s)
        BY <1>1, <2>3, <4>1, <4>2
      <4> HIDE DEF x
      <4> QED BY <1>1, <2>3, <4>3, QuadIsShort
    <3> HIDE DEF x, quads, I
    <3>5. quads \in Seq(Seq(I)) /\ Len(quads) = 1 /\ quads[1] = x
      BY <3>3, <3>4
    <3>6. Offsets(quads, off)
      <4>1. off \in [0..1 -> Nat] /\ off[0] = 0 /\ off[1] = off[0] + Len(x)
        BY <3>4
      <4>2. \A i \in 1..1 : i = 1 /\ i - 1 = 0
        OBVIOUS
      <4> HIDE DEF off
      <4> QED BY <3>5, <4>1, <4>2 DEF Offsets
    <3>7. off[1] = Len(x)
      OBVIOUS
    <3> HIDE DEF off
    <3>8. Flattened(I, quads, off, FlattenSeq(quads))
      BY <3>5, <3>6, FlattenElements
    <3>9. Len(FlattenSeq(quads)) = Len(x)
      BY <3>5, <3>7, <3>8 DEF Flattened
    <3>10. room >= 4
      BY <1>1, <2>1, <3>1
    <3> QED BY <2>1, <3>4, <3>9, <3>10
  <2> QED BY <2>2, <2>3
<1>3. ASSUME NEW len \in {0, Len(s)}, DecodeHex(Append(s, 0), len, room) # Refused
      PROVE  Len(DecodeHex(Append(s, 0), len, room)) <= room
  <2> DEFINE m == Append(s, 0)
             k == IF len = 0 THEN StringLength(m) ELSE len
             t == SubSeq(m, 1, k)
  <2>1. m \in Seq(Int) /\ Len(m) = n + 1 /\ m[n + 1] = 0
    BY <1>1
  <2> HIDE DEF m
  <2>2. k \in 0..n
    <3>1. StringLength(m) \in 0..n
      BY <2>1, StringEnds
    <3>2. len \in 0..n
      BY <1>1
    <3> QED BY <3>1, <3>2
  <2> HIDE DEF k
  <2>3. t \in Seq(Int)
    BY <2>1, <2>2
  <2>4. DecodeHex(m, len, room) = DecodeDigits(t, room)
    BY DEF DecodeHex, k
  <2> HIDE DEF t
  <2>5. DecodeHex(m, len, room) # Refused /\ room \in Nat
    BY <1>3 DEF m
  <2> QED BY <2>3, <2>4, <2>5, DigitsKeepRoom DEF m
<1> QED BY <1>2, <1>3

-----------------------------------------------------------------------------
(* Packed decimals, and the reversed copies. *)

\* Tens and ones of a number below a hundred.
LEMMA TensOf ==
  ASSUME NEW v \in 0..99
  PROVE  (((v \div 2) % 128) * 52) \div 256 = v \div 10
<1>1. PICK p \in 0..9, q \in 0..9 : v = 10 * p + q /\ v \div 10 = p
  OBVIOUS
<1>2. PICK w \in 0..49, x \in 0..1 : v = 2 * w + x /\ v \div 2 = w
  OBVIOUS
<1>3. w % 128 = w
  OBVIOUS
<1>4. 256 * p <= w * 52 /\ w * 52 < 256 * p + 256
  BY <1>1, <1>2
<1>5. (w * 52) \div 256 = p
  BY <1>4
<1> QED BY <1>1, <1>2, <1>3, <1>5

\* A byte of two digits is read back.
LEMMA Decimal8 ==
  ASSUME NEW k \in 0..255
  PROVE  BcdValid8(Bcd8(k)) /\ BcdTo8(Bcd8(k)) = k % 100
<1>1. PICK u \in 0..9, v \in 0..9 : k % 100 = 10 * u + v /\ (k % 100) \div 10 = u
  OBVIOUS
<1>2. Bcd8(k) = (10 * u + v + u * 6) % 256
  BY <1>1 DEF Bcd8
<1>3. 10 * u + v + u * 6 = 16 * u + v /\ (16 * u + v) % 256 = 16 * u + v
  OBVIOUS
<1>4. (16 * u + v) % 16 = v /\ (16 * u + v) \div 16 = u
  OBVIOUS
<1>5. Bcd8(k) = 16 * u + v
  BY <1>2, <1>3
<1> QED BY <1>1, <1>4, <1>5 DEF BcdValid8, BcdTo8

\* The tens of the lower and of the upper byte.
LowTens(bcd) == (bcd \div 16) % 16
HighTens(bcd) == (bcd \div 4096) % 16

\* Taking six for each ten, byte by byte, reads the number back.
LEMMA DecimalRead ==
  ASSUME NEW x, NEW n, n = LowTens(x) + 256 * HighTens(x), NEW w, w = x - n * 6
  PROVE  BcdTo16(x) = w - (w \div 256) * 156
<1>1. BcdTo16(x) = (x - (LowTens(x) + 256 * HighTens(x)) * 6)
                     - ((x - (LowTens(x) + 256 * HighTens(x)) * 6) \div 256) * 156
  BY DEF BcdTo16, LowTens, HighTens
<1> QED BY <1>1

\* Two bytes of four digits are read back.
LEMMA Decimal16 ==
  ASSUME NEW bin \in Nat, bin < 65536
  PROVE  /\ BcdTo16(Bcd16(bin)) = bin % 10000
         /\ BcdValid8(Bcd16(bin) \div 256) /\ BcdValid8(Bcd16(bin) % 256)
<1>1. PICK n \in Nat : n = bin % 10000 /\ n < 10000
  OBVIOUS
<1>a. PICK u \in 0..99 : n \div 100 = u
  BY <1>1
<1>b. PICK v \in 0..99 : n % 100 = v
  OBVIOUS
<1>2. n = 100 * u + v /\ n \div 100 = u
  BY <1>a, <1>b
<1>3. PICK a \in 0..9, b \in 0..9 : u = 10 * a + b /\ u \div 10 = a
  OBVIOUS
<1>4. PICK c \in 0..9, d \in 0..9 : v = 10 * c + d /\ v \div 10 = c
  OBVIOUS
<1>5. PICK w \in Nat : w = 256 * u + v /\ w < 65536
  OBVIOUS
<1>6. (n + u * 156) % 65536 = w
  BY <1>2, <1>5
<1>7. (w \div 2) % 128 = (v \div 2) % 128
  <2>1. w \div 2 = 128 * u + v \div 2
    BY <1>5
  <2>2. v \div 2 \in 0..49
    OBVIOUS
  <2> QED BY <2>1, <2>2
<1>8. w \div 512 = u \div 2
  BY <1>5
<1>9. Bcd16(bin) = (w + (c + 256 * a) * 6) % 65536
  <2>1. (((w \div 2) % 128) * 52) \div 256 = c
    BY <1>4, <1>7, TensOf
  <2>2. (((w \div 512) % 128) * 52) \div 256 = a
    BY <1>3, <1>8, TensOf
  <2> QED BY <1>1, <1>2, <1>6, <2>1, <2>2 DEF Bcd16
<1>c. PICK hi \in 0..255 : hi = 16 * a + b
  OBVIOUS
<1>d. PICK lo \in 0..255 : lo = 16 * c + d
  OBVIOUS
<1>10. hi = 16 * a + b /\ lo = 16 * c + d
  BY <1>c, <1>d
<1>11. w + (c + 256 * a) * 6 = 256 * hi + lo
  BY <1>3, <1>4, <1>5, <1>10
<1>12. PICK x \in Nat : x = 256 * hi + lo /\ x < 65536
  OBVIOUS
<1>13. Bcd16(bin) = x
  BY <1>9, <1>11, <1>12
<1>14. x \div 256 = hi /\ x % 256 = lo
  BY <1>12
<1>15. hi % 16 = b /\ hi \div 16 = a /\ lo % 16 = d /\ lo \div 16 = c
  BY <1>10
<1>16. BcdValid8(hi) /\ BcdValid8(lo)
  BY <1>15 DEF BcdValid8
<1>17. LowTens(x) = c /\ HighTens(x) = a
  <2>1. x \div 16 = 16 * hi + c
    BY <1>10, <1>12
  <2>2. x \div 4096 = a
    BY <1>10, <1>12
  <2> QED BY <2>1, <2>2 DEF LowTens, HighTens
<1>18. BcdTo16(x) = n
  <2>1. x - (c + 256 * a) * 6 = w
    BY <1>11, <1>12
  <2>2. w \div 256 = u /\ w - u * 156 = n
    BY <1>2, <1>5
  <2>3. BcdTo16(x) = w - (w \div 256) * 156
    <3>1. PICK k : k = c + 256 * a
      OBVIOUS
    <3>2. k = LowTens(x) + 256 * HighTens(x) /\ w = x - k * 6
      BY <1>17, <2>1, <3>1, SMTT(120)
    <3> QED BY <3>2, DecimalRead
  <2> QED BY <2>2, <2>3
<1> QED BY <1>1, <1>13, <1>14, <1>16, <1>18

\* Decimal numbers are read back (bcd.c).
LEMMA Decimals == DecimalsInvert
<1> DEFINE Narrow == \A k \in 0..255 : BcdValid8(Bcd8(k)) /\ BcdTo8(Bcd8(k)) = k % 100
           Reads(hi, lo) == /\ BcdTo16(Bcd16(hi * 256 + lo)) = (hi * 256 + lo) % 10000
                            /\ BcdValid8(Bcd16(hi * 256 + lo) \div 256) /\ BcdValid8(Bcd16(hi * 256 + lo) % 256)
           Wide == \A hi \in CdBytes, lo \in 0..255 : Reads(hi, lo)
<1>1. DecimalsInvert <=> Narrow /\ Wide
  BY DEF DecimalsInvert
<1>2. ASSUME NEW hi \in CdBytes, NEW lo \in 0..255
      PROVE  Reads(hi, lo)
  <2>0. hi * 256 + lo \in Nat /\ hi * 256 + lo < 65536
    <3>1. PICK h \in 0..255 : h = hi
      BY CdAssumption
    <3>2. h * 256 + lo \in Nat /\ h * 256 + lo < 65536
      OBVIOUS
    <3> QED BY <3>1, <3>2
  <2>1. PICK bin : bin = hi * 256 + lo
    OBVIOUS
  <2>2. /\ BcdTo16(Bcd16(bin)) = bin % 10000
        /\ BcdValid8(Bcd16(bin) \div 256) /\ BcdValid8(Bcd16(bin) % 256)
    <3>1. bin \in Nat /\ bin < 65536
      BY <2>0, <2>1
    <3> QED BY <3>1, Decimal16
  <2> QED BY <2>1, <2>2, SMTT(60)
<1>3. Narrow
  BY Decimal8
<1> HIDE DEF Narrow, Reads
<1>4. Wide
  BY <1>2
<1> HIDE DEF Wide
<1> QED BY <1>1, <1>3, <1>4

\* Two regions of n cells in a memory of N.
InMemory(N, mem, d, s, n) ==
  DOMAIN mem = 1..N /\ d \in 1..N /\ s \in 1..N /\ d + n <= N + 1 /\ s + n <= N + 1

\* A reversed copy is the reverse, in memories of any size and whether or not the two
\* regions overlap, and changes nothing beside the destination (strings.c:99-137).
THEOREM MovedIsReversed ==
  ASSUME NEW N \in Nat, NEW mem, NEW d \in Nat, NEW s \in Nat, NEW n \in Nat, InMemory(N, mem, d, s, n)
  PROVE  /\ \A i \in 0..(n - 1) : RevMoved(mem, d, s, n)[d + i] = mem[s + n - 1 - i]
         /\ \A k \in 1..N : k < d \/ d + n <= k => RevMoved(mem, d, s, n)[k] = mem[k]
<1>1. /\ DOMAIN mem = 1..N /\ d \in 1..N /\ s \in 1..N
      /\ d + n <= N + 1 /\ s + n <= N + 1
  BY DEF InMemory
<1>2. SUFFICES ASSUME NEW x \in 1..N
               PROVE  RevMoved(mem, d, s, n)[x] =
                        IF d <= x /\ x < d + n THEN mem[s + n - 1 - (x - d)] ELSE mem[x]
  <2>1. ASSUME NEW i \in 0..(n - 1)
        PROVE  RevMoved(mem, d, s, n)[d + i] = mem[s + n - 1 - i]
    <3>1. d + i \in 1..N /\ d <= d + i /\ d + i < d + n /\ s + n - 1 - ((d + i) - d) = s + n - 1 - i
      BY <1>1
    <3>2. PICK x : x = d + i
      OBVIOUS
    <3>3. RevMoved(mem, d, s, n)[x] = mem[s + n - 1 - (x - d)]
      BY <1>2, <3>1, <3>2
    <3> QED BY <3>1, <3>2, <3>3
  <2>2. ASSUME NEW k \in 1..N, k < d \/ d + n <= k
        PROVE  RevMoved(mem, d, s, n)[k] = mem[k]
    <3>1. ~(d <= k /\ k < d + n)
      BY <2>2
    <3> QED BY <1>2, <3>1
  <2> QED BY <2>1, <2>2
<1>4. RevCopied(mem, d, s, n)[x] = IF d <= x /\ x < d + n THEN mem[s + n - 1 - (x - d)] ELSE mem[x]
  BY <1>1 DEF RevCopied
<1>5. CASE d < s /\ d + n > s
  <2> DEFINE m == RevCopied(mem, d, d + n, s - d)
             r == RevCopied(m, s, s, n - (s - d))
  <2>1. RevMoved(mem, d, s, n) = r
    BY <1>5 DEF RevMoved
  <2>2. DOMAIN m = 1..N /\ \A k \in 1..N :
          m[k] = IF d <= k /\ k < d + (s - d) THEN mem[d + n + (s - d) - 1 - (k - d)] ELSE mem[k]
    BY <1>1 DEF RevCopied
  <2> HIDE DEF m
  <2>3. r[x] = IF s <= x /\ x < s + (n - (s - d)) THEN m[s + (n - (s - d)) - 1 - (x - s)] ELSE m[x]
    BY <2>2 DEF RevCopied
  <2> HIDE DEF r
  <2>4. CASE s <= x /\ x < d + n
    <3>1. PICK y \in 1..N : y = s + n - 1 - (x - d)
      BY <1>1, <1>5, <2>4
    <3>2. x < s + (n - (s - d)) /\ s + (n - (s - d)) - 1 - (x - s) = y /\ ~(y < d + (s - d))
      BY <1>1, <1>5, <2>4, <3>1
    <3>3. r[x] = m[y] /\ m[y] = mem[y]
      BY <2>2, <2>3, <2>4, <3>2
    <3> QED BY <1>5, <2>1, <2>4, <3>1, <3>3
  <2>5. CASE d <= x /\ x < s
    <3>1. PICK y \in 1..N : y = s + n - 1 - (x - d)
      BY <1>1, <1>5, <2>5
    <3>2. x < d + (s - d) /\ d + n + (s - d) - 1 - (x - d) = y /\ ~(s <= x) /\ x < d + n
      BY <1>1, <1>5, <2>5, <3>1
    <3>3. r[x] = m[x] /\ m[x] = mem[y]
      BY <2>2, <2>3, <2>5, <3>2
    <3> QED BY <2>1, <2>5, <3>1, <3>2, <3>3
  <2>6. CASE x < d \/ d + n <= x
    <3>1. /\ ~(s <= x /\ x < s + (n - (s - d))) /\ ~(d <= x /\ x < d + (s - d))
          /\ ~(d <= x /\ x < d + n)
      BY <1>1, <1>5, <2>6
    <3> QED BY <2>1, <2>2, <2>3, <3>1
  <2>7. (s <= x /\ x < d + n) \/ (d <= x /\ x < s) \/ x < d \/ d + n <= x
    BY <1>5
  <2> QED BY <2>4, <2>5, <2>6, <2>7
<1>6. CASE d > s /\ d < s + n
  <2> DEFINE m == RevCopied(mem, s + n, s, d - s)
             r == RevCopied(m, d, d, n - (d - s))
  <2>1. RevMoved(mem, d, s, n) = r
    BY <1>6 DEF RevMoved
  <2>2. DOMAIN m = 1..N /\ \A k \in 1..N :
          m[k] = IF s + n <= k /\ k < s + n + (d - s) THEN mem[s + (d - s) - 1 - (k - (s + n))] ELSE mem[k]
    BY <1>1 DEF RevCopied
  <2> HIDE DEF m
  <2>3. r[x] = IF d <= x /\ x < d + (n - (d - s)) THEN m[d + (n - (d - s)) - 1 - (x - d)] ELSE m[x]
    BY <2>2 DEF RevCopied
  <2> HIDE DEF r
  <2>4. CASE d <= x /\ x < s + n
    <3>1. PICK y \in 1..N : y = s + n - 1 - (x - d)
      BY <1>1, <1>6, <2>4
    <3>2. /\ x < d + (n - (d - s)) /\ d + (n - (d - s)) - 1 - (x - d) = y /\ ~(s + n <= y)
          /\ x < d + n
      BY <1>1, <1>6, <2>4, <3>1
    <3>3. r[x] = m[y] /\ m[y] = mem[y]
      BY <2>2, <2>3, <2>4, <3>2
    <3> QED BY <2>1, <2>4, <3>1, <3>2, <3>3
  <2>5. CASE s + n <= x /\ x < d + n
    <3>1. PICK y \in 1..N : y = s + n - 1 - (x - d)
      BY <1>1, <1>6, <2>5
    <3>2. /\ ~(x < d + (n - (d - s))) /\ x < s + n + (d - s) /\ d <= x
          /\ s + (d - s) - 1 - (x - (s + n)) = y
      BY <1>1, <1>6, <2>5, <3>1
    <3>3. r[x] = m[x] /\ m[x] = mem[y]
      BY <2>2, <2>3, <2>5, <3>2
    <3> QED BY <2>1, <2>5, <3>1, <3>2, <3>3
  <2>6. CASE x < d \/ d + n <= x
    <3>1. /\ ~(d <= x /\ x < d + (n - (d - s))) /\ ~(s + n <= x /\ x < s + n + (d - s))
          /\ ~(d <= x /\ x < d + n)
      BY <1>1, <1>6, <2>6
    <3> QED BY <2>1, <2>2, <2>3, <3>1
  <2>7. (d <= x /\ x < s + n) \/ (s + n <= x /\ x < d + n) \/ x < d \/ d + n <= x
    OBVIOUS
  <2> QED BY <2>4, <2>5, <2>6, <2>7
<1>7. CASE ~(d < s /\ d + n > s) /\ ~(d > s /\ d < s + n)
  <2>1. RevMoved(mem, d, s, n) = RevCopied(mem, d, s, n)
    BY <1>7 DEF RevMoved
  <2> QED BY <1>4, <2>1
<1> QED BY <1>5, <1>6, <1>7

\* The instances that the run looks at.
LEMMA Reverses == ReversesOverlaps
<1> DEFINE mem == [k \in 1..7 |-> k]
<1> SUFFICES ASSUME NEW d \in 1..4, NEW s \in 1..4, NEW n \in 0..3, NEW i \in 0..2, i < n
             PROVE  RevMoved(mem, d, s, n)[d + i] = s + n - 1 - i
  BY DEF ReversesOverlaps
<1>1. DOMAIN mem = 1..7
  OBVIOUS
<1>2. \A k \in 1..7 : mem[k] = k
  OBVIOUS
<1> HIDE DEF mem
<1>3. \A j \in 0..(n - 1) : RevMoved(mem, d, s, n)[d + j] = mem[s + n - 1 - j]
  <2>1. PICK N \in Nat, e \in Nat, t \in Nat, m \in Nat : N = 7 /\ e = d /\ t = s /\ m = n
    OBVIOUS
  <2>2. InMemory(N, mem, e, t, m)
    BY <1>1, <2>1 DEF InMemory
  <2>3. \A j \in 0..(m - 1) : RevMoved(mem, e, t, m)[e + j] = mem[t + m - 1 - j]
    BY <2>2, MovedIsReversed, SMTT(60)
  <2> QED BY <2>1, <2>3
<1>4. i \in 0..(n - 1) /\ s + n - 1 - i \in 1..7
  OBVIOUS
<1> QED BY <1>2, <1>3, <1>4

-----------------------------------------------------------------------------

\* What each codec encodes it decodes, in any room.
LEMMA CdInvInverts == CdInv => CodecsInvert
<1> SUFFICES ASSUME CdInv PROVE CodecsInvert
  OBVIOUS
<1>1. b64Fed \in Seq(CdBytes) /\ Len(b64Fed) <= CdLen /\ CdLen \in Nat /\ CdLen # 0
  BY CdAssumption DEF CdInv
<1>2. PICK n \in Nat : n = Len(b64Fed) /\ n <= CdLen
  BY <1>1
<1>3. ASSUME NEW room \in 0..(4 * CdLen), Encode64(b64Fed, room) # <<>>
      PROVE  Len(Encode64(b64Fed, room)) < room /\ Decode64(Encode64(b64Fed, room), CdLen + 3) = b64Fed
  <2>1. PICK h \in Nat, rest \in Seq(CdBytes) : IsTail(rest, b64Fed) /\ Sixes(b64Fed, Groups(b64Fed) \o Padded(rest), h)
    BY <1>1, Encoded64
  <2> DEFINE e == Groups(b64Fed) \o Padded(rest)
  <2>2. Encode64(b64Fed, room) = e /\ ~(room < 4 * ((n + 2) \div 3) + 1)
    <3> DEFINE tail == SubSeq(b64Fed, n - (n % 3) + 1, n)
               small == room < 4 * ((n + 2) \div 3) + 1
    <3>1. Encode64(b64Fed, room) = IF small THEN <<>> ELSE Groups(b64Fed) \o Padded(tail)
      BY <1>2, ZenonT(30) DEF Encode64
    <3>2. rest = tail
      BY <1>2, <2>1, ZenonT(30) DEF IsTail
    <3> HIDE DEF tail, small
    <3>3. Encode64(b64Fed, room) = e /\ ~small
      BY <1>3, <3>1, <3>2
    <3> QED BY <3>3 DEF small
  <2> HIDE DEF e
  <2>3. Sixes(b64Fed, e, h)
    BY <2>1 DEF e
  <2>4. Len(e) = 4 * h /\ n <= 3 * h /\ 3 * h <= n + 2
    BY <1>2, <2>3 DEF Sixes
  <2>5. (n + 2) \div 3 = h
    <3>1. PICK k \in Nat : k = n + 2
      OBVIOUS
    <3>2. 3 * h <= k /\ k < 3 * h + 3
      BY <2>4, <3>1
    <3> QED BY <3>1, <3>2, Thirds
  <2>6. 4 * h < room
    BY <1>1, <2>2, <2>5
  <2>7. PICK k \in Nat : k = CdLen + 3
    BY <1>1
  <2>8. 3 * h + 1 <= k
    BY <1>1, <1>2, <2>4, <2>7
  <2>9. Decode64(e, k) = b64Fed
    BY <1>1, <2>3, <2>8, Decoded64
  <2> QED BY <2>2, <2>4, <2>6, <2>7, <2>9
<1>4. LET e == EncodeHex(b64Fed, 2 * CdLen + 1) IN
        \A len \in {0, Len(e)} : DecodeHex(Append(e, 0), len, CdLen) = b64Fed
  BY <1>1, DecodedHex
<1>5. \A room \in 0..4 : Len(EncodeHex(b64Fed, room)) <= room
  <2>1. ASSUME NEW room \in Nat
        PROVE  Len(EncodeHex(b64Fed, room)) <= room
    BY <1>1, HexLength
  <2>2. \A room \in 0..4 : room \in Nat
    OBVIOUS
  <2> QED BY <2>1, <2>2
<1> QED BY <1>3, <1>4, <1>5, KeepsRoom, Decimals, Reverses DEF CodecsInvert

\* The invariant holds of the stream that was fed nothing.
LEMMA CdInitInv == CdInit => CdInv
<1>1. <<>> \in Seq(CdBytes) /\ Len(<<>>) <= 3 /\ Len(<<>>) <= CdLen
  BY CdAssumption
<1> QED BY <1>1, NothingStreamed DEF CdInit, CdInv

-----------------------------------------------------------------------------
(* Blocks. *)

\* Quotient and remainder by any number.
LEMMA Divided ==
  ASSUME NEW a \in Nat, NEW b \in Nat, b > 0
  PROVE  \E q \in Nat, r \in Nat : a = b * q + r /\ r < b /\ q = a \div b /\ r = a % b
<1>1. PICK q \in Int : q = a \div b
  OBVIOUS
<1>2. PICK r \in Int : r = a % b
  OBVIOUS
<1>3. a = b * q + r /\ 0 <= r /\ r < b
  BY <1>1, <1>2
<1>4. q >= 0
  <2>1. SUFFICES ASSUME q <= -1 PROVE FALSE
    OBVIOUS
  <2>2. b * q <= -b
    BY <2>1
  <2> QED BY <1>3, <2>2
<1>5. q \in Nat /\ r \in Nat
  BY <1>3, <1>4
<1> QED BY <1>1, <1>2, <1>3, <1>5

\* A quotient with its remainder is the only one.
LEMMA DividedOnce ==
  ASSUME NEW b \in Nat, NEW q \in Nat, NEW r \in Nat, r < b, NEW p \in Nat, NEW s \in Nat, s < b,
         b * q + r = b * p + s
  PROVE  q = p /\ r = s
<1>1. b * (q - p) = s - r
  OBVIOUS
<1>2. CASE q > p
  <2>1. q - p >= 1
    BY <1>2
  <2>2. b * (q - p) >= b
    BY <2>1
  <2> QED BY <1>1, <2>2
<1>3. CASE q < p
  <2>1. q - p <= -1
    BY <1>3
  <2>2. b * (q - p) <= -b
    BY <2>1
  <2> QED BY <1>1, <2>2
<1>4. CASE q = p
  BY <1>4
<1> QED BY <1>2, <1>3, <1>4

\* What div and mod are.
LEMMA Quotient ==
  ASSUME NEW b \in Nat, NEW q \in Nat, NEW r \in Nat, r < b, NEW a, a = b * q + r
  PROVE  a \div b = q /\ a % b = r
<1>1. a \in Nat /\ b > 0
  OBVIOUS
<1>2. PICK p \in Nat, s \in Nat : a = b * p + s /\ s < b /\ p = a \div b /\ s = a % b
  BY <1>1, Divided
<1>3. b * q + r = b * p + s
  BY <1>2
<1>4. q = p /\ r = s
  BY <1>2, <1>3, DividedOnce
<1> QED BY <1>2, <1>4

\* Where block k + 1 of a message begins.
Start(k) == DgBlock * k

\* Where blocks begin, of a sum of numbers of blocks.
LEMMA Starts ==
  /\ Start(0) = 0 /\ Start(1) = DgBlock
  /\ \A a \in Nat, b \in Nat : Start(a) \in Nat /\ Start(a + b) = Start(a) + Start(b)
<1>1. DgBlock \in Nat
  BY DgAssumption
<1>2. ASSUME NEW a \in Nat, NEW b \in Nat
      PROVE  DgBlock * a \in Nat /\ DgBlock * (a + b) = DgBlock * a + DgBlock * b
  BY <1>1
<1>3. DgBlock * 0 = 0 /\ DgBlock * 1 = DgBlock
  BY <1>1
<1> QED BY <1>2, <1>3 DEF Start

\* Later blocks begin behind the end of earlier ones.
LEMMA StartsGrow ==
  ASSUME NEW a \in Nat, NEW b \in Nat, a < b
  PROVE  Start(a) + DgBlock <= Start(b) /\ Start(b) \in Nat /\ Start(a) \in Nat
<1>1. PICK d \in Nat : b = a + 1 + d
  <2>1. b - a - 1 \in Nat /\ b = a + 1 + (b - a - 1)
    OBVIOUS
  <2> QED BY <2>1
<1>2. Start(a + 1) = Start(a) + Start(1) /\ Start((a + 1) + d) = Start(a + 1) + Start(d)
  <2>1. PICK c \in Nat : c = a + 1
    OBVIOUS
  <2>2. 1 \in Nat
    OBVIOUS
  <2>3. Start(a + 1) = Start(a) + Start(1)
    BY <2>2, Starts
  <2>4. Start(c + d) = Start(c) + Start(d)
    BY Starts
  <2> QED BY <2>1, <2>3, <2>4
<1>3. Start(1) = DgBlock /\ Start(a) \in Nat /\ Start(d) \in Nat /\ Start(b) \in Nat /\ DgBlock \in Nat
  BY Starts, DgAssumption
<1> QED BY <1>1, <1>2, <1>3

\* A length has q blocks and r cells more.
Blocks(n, q, r) == q \in Nat /\ r \in Nat /\ r < DgBlock /\ n = Start(q) + r

\* Every length has its blocks.
LEMMA InBlocks ==
  ASSUME NEW n \in Nat
  PROVE  \E q \in Nat, r \in Nat : Blocks(n, q, r)
<1>1. DgBlock \in Nat /\ DgBlock > 0
  BY DgAssumption
<1>2. PICK q \in Nat, r \in Nat : n = DgBlock * q + r /\ r < DgBlock
  BY <1>1, Divided
<1> QED BY <1>2 DEF Blocks, Start

\* The blocks of a length by division.
LEMMA BlocksDivide ==
  ASSUME NEW n, NEW q, NEW r, Blocks(n, q, r)
  PROVE  n \div DgBlock = q /\ n % DgBlock = r /\ n \in Nat
<1>1. DgBlock \in Nat
  BY DgAssumption
<1>2. q \in Nat /\ r \in Nat /\ r < DgBlock /\ n = DgBlock * q + r
  BY DEF Blocks, Start
<1>3. n \div DgBlock = q /\ n % DgBlock = r
  BY <1>1, <1>2, Quotient
<1>4. n \in Nat
  BY <1>1, <1>2
<1> QED BY <1>3, <1>4

\* The blocks of a message by their cells.
Cut(S, b, u) ==
  \E q \in Nat, r \in Nat :
    /\ Blocks(Len(u), q, r)
    /\ b \in Seq(Seq(S)) /\ Len(b) = q
    /\ \A k \in 1..q : Len(b[k]) = DgBlock /\ \A j \in 1..DgBlock : b[k][j] = u[Start(k - 1) + j]

\* A block of a message by its cells.
LEMMA BlockOf ==
  ASSUME NEW S, NEW u \in Seq(S), NEW q \in Nat, NEW r \in Nat, Blocks(Len(u), q, r), NEW k \in 1..q
  PROVE  /\ SubSeq(u, DgBlock * (k - 1) + 1, DgBlock * k) \in Seq(S)
         /\ Len(SubSeq(u, DgBlock * (k - 1) + 1, DgBlock * k)) = DgBlock
         /\ \A j \in 1..DgBlock : SubSeq(u, DgBlock * (k - 1) + 1, DgBlock * k)[j] = u[Start(k - 1) + j]
<1>1. PICK h \in Nat : h = k - 1 /\ h < k /\ k = h + 1
  OBVIOUS
<1>a. k \in Nat /\ q \in Nat
  BY <1>1 DEF Blocks
<1>2. PICK x \in Nat, y \in Nat, z \in Nat : x = Start(h) /\ y = Start(k) /\ z = Start(q)
  <2>1. Start(h) \in Nat /\ Start(k) \in Nat /\ Start(q) \in Nat
    BY <1>a, Starts
  <2> QED BY <2>1
<1>3. DgBlock \in Nat /\ DgBlock > 0
  BY DgAssumption
<1>4. y = x + DgBlock
  <2>1. Start(h + 1) = Start(h) + Start(1)
    BY Starts
  <2> QED BY <1>1, <1>2, <2>1, Starts
<1>5. y <= z
  <2>1. CASE k = q
    BY <1>2, <2>1
  <2>2. CASE k # q
    <3>1. k < q /\ k \in Nat
      BY <2>2
    <3>2. Start(k) + DgBlock <= Start(q)
      BY <3>1, StartsGrow
    <3> QED BY <1>2, <1>3, <3>2
  <2> QED BY <2>1, <2>2
<1>6. PICK n \in Nat : n = Len(u)
  OBVIOUS
<1>7. z <= n
  BY <1>2, <1>6 DEF Blocks
<1>8. PICK a \in Nat : a = x + 1
  OBVIOUS
<1>9. a >= 1 /\ y <= Len(u)
  BY <1>5, <1>6, <1>7, <1>8
<1>10. /\ SubSeq(u, a, y) \in Seq(S) /\ Len(SubSeq(u, a, y)) = IF a <= y THEN y - a + 1 ELSE 0
       /\ \A j \in 1..(y - a + 1) : SubSeq(u, a, y)[j] = u[a + j - 1]
  BY <1>9, PartElements
<1>11. a <= y /\ y - a + 1 = DgBlock /\ \A j \in 1..DgBlock : a + j - 1 = x + j
  BY <1>3, <1>4, <1>8
<1>12. DgBlock * (k - 1) + 1 = a /\ DgBlock * k = y
  BY <1>1, <1>2, <1>8 DEF Start
<1> QED BY <1>1, <1>2, <1>10, <1>11, <1>12

\* Whole cuts a message into its blocks.
LEMMA WholeIsCut ==
  ASSUME NEW S, NEW u \in Seq(S)
  PROVE  Cut(S, Whole(u), u)
<1>1. Len(u) \in Nat
  OBVIOUS
<1>2. PICK q \in Nat, r \in Nat : Blocks(Len(u), q, r)
  BY <1>1, InBlocks
<1> DEFINE part(k) == SubSeq(u, DgBlock * (k - 1) + 1, DgBlock * k)
<1>3. \A k \in 1..q : part(k) \in Seq(S) /\ Len(part(k)) = DgBlock /\ \A j \in 1..DgBlock : part(k)[j] = u[Start(k - 1) + j]
  BY <1>2, BlockOf
<1>4. Len(u) \div DgBlock = q
  BY <1>2, BlocksDivide
<1>5. Whole(u) = [k \in 1..q |-> part(k)]
  BY <1>4 DEF Whole
<1> HIDE DEF part
<1>6. Whole(u) \in Seq(Seq(S)) /\ Len(Whole(u)) = q /\ \A k \in 1..q : Whole(u)[k] = part(k)
  BY <1>3, <1>5
<1> QED BY <1>2, <1>3, <1>6 DEF Cut

\* A message is cut into blocks in one way.
LEMMA CutOnce ==
  ASSUME NEW S, NEW u, NEW b, NEW c, Cut(S, b, u), Cut(S, c, u)
  PROVE  b = c
<1>1. PICK q \in Nat, r \in Nat :
        /\ Blocks(Len(u), q, r)
        /\ b \in Seq(Seq(S)) /\ Len(b) = q
        /\ \A k \in 1..q : Len(b[k]) = DgBlock /\ \A j \in 1..DgBlock : b[k][j] = u[Start(k - 1) + j]
  BY DEF Cut
<1>2. PICK p \in Nat, s \in Nat :
        /\ Blocks(Len(u), p, s)
        /\ c \in Seq(Seq(S)) /\ Len(c) = p
        /\ \A k \in 1..p : Len(c[k]) = DgBlock /\ \A j \in 1..DgBlock : c[k][j] = u[Start(k - 1) + j]
  BY DEF Cut
<1>3. p = q
  BY <1>1, <1>2, BlocksDivide
<1>4. ASSUME NEW k \in 1..q
      PROVE  b[k] = c[k]
  <2>1. b[k] \in Seq(S) /\ c[k] \in Seq(S) /\ Len(b[k]) = Len(c[k])
    BY <1>1, <1>2, <1>3
  <2>2. \A j \in 1..Len(b[k]) : b[k][j] = c[k][j]
    BY <1>1, <1>2, <1>3
  <2> DEFINE x == b[k]
             y == c[k]
  <2> HIDE DEF x, y
  <2>3. x = y
    BY <2>1, <2>2, SameElements DEF x, y
  <2> QED BY <2>3 DEF x, y
<1> QED BY <1>1, <1>2, <1>3, <1>4, SameElements

\* a is q times b and r more.
Parts(a, b, q, r) == a \in Nat /\ b \in Nat /\ q \in Nat /\ r \in Nat /\ r < b /\ a = b * q + r

\* Every number has its parts.
LEMMA HasParts ==
  ASSUME NEW a \in Nat, NEW b \in Nat, b > 0
  PROVE  \E q \in Nat, r \in Nat : Parts(a, b, q, r)
<1>1. PICK q \in Nat, r \in Nat : a = b * q + r /\ r < b /\ q = a \div b /\ r = a % b
  BY Divided
<1>2. Parts(a, b, q, r)
  BY <1>1 DEF Parts
<1> QED BY <1>2

\* The parts of a number by division.
LEMMA PartsAre ==
  ASSUME NEW a, NEW b, NEW q, NEW r, Parts(a, b, q, r)
  PROVE  a \div b = q /\ a % b = r
<1>1. a \in Nat /\ b \in Nat /\ q \in Nat /\ r \in Nat /\ r < b /\ a = b * q + r
  BY DEF Parts
<1> QED BY <1>1, Quotient

\* Bytes counted in bits.
LEMMA PartsScaled ==
  ASSUME NEW n, NEW W, NEW Q, NEW R, Parts(n, W, Q, R)
  PROVE  Parts(8 * n, 8 * W, Q, 8 * R)
<1>1. n \in Nat /\ W \in Nat /\ Q \in Nat /\ R \in Nat /\ R < W /\ n = W * Q + R
  BY DEF Parts
<1>2. PICK m \in Nat : m = W * Q
  BY <1>1
<1>3. (8 * W) * Q = 8 * m
  BY <1>1, <1>2
<1>4. 8 * n = 8 * m + 8 * R
  BY <1>1, <1>2
<1>5. 8 * n = (8 * W) * Q + 8 * R
  BY <1>3, <1>4
<1>6. 8 * n \in Nat /\ 8 * W \in Nat /\ 8 * R \in Nat /\ 8 * R < 8 * W
  BY <1>1
<1> QED BY <1>1, <1>5, <1>6 DEF Parts

\* What is added to a number is added to its remainder.
LEMMA PartsAdded ==
  ASSUME NEW a, NEW b \in Nat, NEW D, NEW x, NEW y, Parts(a, D, x, y), NEW c, c = y + b, NEW p, NEW s, Parts(c, D, p, s),
         NEW d, d = a + b, NEW z, z = x + p
  PROVE  Parts(d, D, z, s)
<1>1. a \in Nat /\ D \in Nat /\ x \in Nat /\ y \in Nat /\ a = D * x + y
  BY DEF Parts
<1>2. p \in Nat /\ s \in Nat /\ s < D /\ c = D * p + s
  BY DEF Parts
<1>3. PICK m \in Nat : m = D * x
  BY <1>1
<1>4. PICK k \in Nat : k = D * p
  BY <1>1, <1>2
<1>5. D * (x + p) = m + k
  BY <1>1, <1>2, <1>3, <1>4
<1>6. d = m + k + s
  BY <1>1, <1>2, <1>3, <1>4
<1>7. d = D * z + s
  BY <1>5, <1>6
<1>8. d \in Nat /\ z \in Nat
  BY <1>1, <1>2
<1> QED BY <1>1, <1>2, <1>7, <1>8 DEF Parts

\* A remainder may be taken before adding.
LEMMA RemainderOfSum ==
  ASSUME NEW D \in Nat, D > 0, NEW a \in Nat, NEW b \in Nat
  PROVE  ((a % D) + b) % D = (a + b) % D
<1>1. PICK x \in Nat, y \in Nat : Parts(a, D, x, y)
  BY HasParts
<1>2. PICK c \in Nat : c = y + b
  OBVIOUS
<1>3. PICK p \in Nat, s \in Nat : Parts(c, D, p, s)
  BY HasParts
<1>4. PICK z \in Nat : z = x + p
  OBVIOUS
<1>5. PICK d \in Nat : d = a + b
  OBVIOUS
<1>6. Parts(d, D, z, s)
  BY <1>1, <1>2, <1>3, <1>4, <1>5, PartsAdded
<1>7. a % D = y /\ c % D = s /\ d % D = s
  BY <1>1, <1>3, <1>6, PartsAre
<1> QED BY <1>2, <1>5, <1>7

\* The count of n bytes in the two words of a context.
Counts(c, n) == c.lo = (8 * n) % DgWord /\ c.hi = ((8 * n) \div DgWord) % DgWord

\* A word counts the bits of W bytes, w blocks.
WordIs(w, W) == w \in Nat /\ W \in Nat /\ W > 0 /\ W = DgBlock * w /\ DgWord = 8 * W /\ DgWord \div 8 = W

\* The assumption on the word of the count.
LEMMA WordBytes == \E w \in Nat, W \in Nat : WordIs(w, W)
<1>1. DgBlock \in Nat /\ DgBlock > 0
  BY DgAssumption
<1>2. PICK w \in Nat : w >= 1 /\ DgWord = 8 * (DgBlock * w)
  BY DgAssumption
<1>3. DgBlock * w \in Nat /\ DgBlock * w >= DgBlock
  BY <1>1, <1>2
<1>4. PICK W \in Nat : W = DgBlock * w
  BY <1>3
<1>5. W > 0 /\ DgWord = 8 * W
  BY <1>1, <1>2, <1>3, <1>4
<1>6. DgWord \div 8 = W
  BY <1>5
<1>7. WordIs(w, W)
  BY <1>4, <1>5, <1>6 DEF WordIs
<1> QED BY <1>7

\* The bits of n bytes in words.
LEMMA CountOf ==
  ASSUME NEW n, NEW w, NEW W, WordIs(w, W), NEW Q, NEW R, Parts(n, W, Q, R)
  PROVE  (8 * n) % DgWord = 8 * R /\ (8 * n) \div DgWord = Q
<1>1. Parts(8 * n, 8 * W, Q, 8 * R)
  BY PartsScaled
<1>2. DgWord = 8 * W
  BY DEF WordIs
<1>3. Parts(8 * n, DgWord, Q, 8 * R)
  BY <1>1, <1>2
<1> QED BY <1>3, PartsAre

\* Blocks are parts.
LEMMA BlocksAreParts ==
  ASSUME NEW n \in Nat, NEW z, NEW y, Parts(n, DgBlock, z, y)
  PROVE  Blocks(n, z, y)
BY DEF Parts, Blocks, Start

\* A length has its blocks in one way.
LEMMA BlocksOnce ==
  ASSUME NEW n, NEW q, NEW r, Blocks(n, q, r), NEW p, NEW s, Blocks(n, p, s)
  PROVE  q = p /\ r = s
BY BlocksDivide

\* How much of the buffer is filled is what is left of the count.
LEMMA FilledIs ==
  ASSUME NEW c, NEW n \in Nat, Counts(c, n), NEW q, NEW r, Blocks(n, q, r)
  PROVE  Filled(c) = r
<1>1. PICK w \in Nat, W \in Nat : WordIs(w, W)
  BY WordBytes
<1>2. W > 0 /\ W = DgBlock * w
  BY <1>1 DEF WordIs
<1>3. PICK Q \in Nat, R \in Nat : Parts(n, W, Q, R)
  BY <1>2, HasParts
<1>4. c.lo = 8 * R
  BY <1>1, <1>3, CountOf DEF Counts
<1>5. (8 * R) \div 8 = R
  OBVIOUS
<1>6. DgBlock \in Nat /\ DgBlock > 0
  BY DgAssumption
<1>7. PICK x \in Nat, y \in Nat : Parts(R, DgBlock, x, y)
  BY <1>6, HasParts
<1>8. PICK v \in Nat : v = w * Q
  OBVIOUS
<1>9. PICK z \in Nat : z = v + x
  OBVIOUS
<1>10. n = DgBlock * z + y /\ y < DgBlock
  <2>1. W * Q = DgBlock * v
    BY <1>2, <1>6, <1>8
  <2>2. DgBlock * (v + x) = DgBlock * v + DgBlock * x
    BY <1>6
  <2>3. n = W * Q + R
    BY <1>3 DEF Parts
  <2>4. R = DgBlock * x + y /\ y < DgBlock
    BY <1>7 DEF Parts
  <2>5. PICK e \in Nat : e = DgBlock * v
    BY <1>6
  <2>6. PICK f \in Nat : f = DgBlock * x
    BY <1>6
  <2>7. DgBlock * z = e + f
    BY <1>9, <2>2, <2>5, <2>6
  <2> QED BY <2>1, <2>3, <2>4, <2>5, <2>6, <2>7
<1>11. Parts(n, DgBlock, z, y)
  BY <1>6, <1>10 DEF Parts
<1>12. y = r
  BY <1>11, BlocksAreParts, BlocksOnce
<1>13. R % DgBlock = y
  BY <1>7, PartsAre
<1> QED BY <1>4, <1>5, <1>12, <1>13 DEF Filled

\* A context over the cells S.
IsContext(S, c) == c \in [blocks : Seq(Seq(S)), in : Seq(S), lo : Nat, hi : Nat]

\* The two words count on, with their carry.
LEMMA CountedOn ==
  ASSUME NEW S, NEW c, IsContext(S, c), NEW n \in Nat, Counts(c, n), NEW m \in Nat
  PROVE  /\ IsContext(S, Counted(c, m)) /\ Counts(Counted(c, m), n + m)
         /\ Counted(c, m).blocks = c.blocks /\ Counted(c, m).in = c.in
<1>1. PICK w \in Nat, W \in Nat : WordIs(w, W)
  BY WordBytes
<1>a. W > 0 /\ DgWord = 8 * W /\ DgWord \div 8 = W
  BY <1>1 DEF WordIs
<1>2. PICK Q \in Nat, R \in Nat : Parts(n, W, Q, R)
  BY <1>a, HasParts
<1>3. PICK P \in Nat, T \in Nat : Parts(m, W, P, T)
  BY <1>a, HasParts
<1>b. R < W /\ T < W /\ n = W * Q + R /\ m = W * P + T
  BY <1>2, <1>3 DEF Parts
<1>4. c.lo = 8 * R /\ c.hi = Q % DgWord
  BY <1>1, <1>2, CountOf DEF Counts
<1>5. PICK k \in {0, 1} : k = IF R + T < W THEN 0 ELSE 1
  OBVIOUS
<1>6. PICK U \in Nat : R + T = W * k + U /\ U < W
  <2>1. CASE R + T < W
    <3>1. W * k = 0
      BY <1>5, <2>1
    <3> QED BY <2>1, <3>1
  <2>2. CASE ~(R + T < W)
    <3>1. W * k = W
      BY <1>5, <2>2
    <3>2. R + T - W \in Nat /\ R + T - W < W /\ R + T = W + (R + T - W)
      BY <1>b, <2>2
    <3> QED BY <3>1, <3>2
  <2> QED BY <2>1, <2>2
<1>7. PICK N \in Nat : N = n + m
  OBVIOUS
<1>8. PICK Z \in Nat : Z = Q + P + k
  OBVIOUS
<1>9. Parts(N, W, Z, U)
  <2>1. PICK u \in Nat : u = W * Q
    OBVIOUS
  <2>2. PICK v \in Nat : v = W * P
    OBVIOUS
  <2>3. PICK x \in Nat : x = W * k
    OBVIOUS
  <2>4. W * (Q + P + k) = u + v + x
    BY <2>1, <2>2, <2>3
  <2>5. N = u + v + x + U
    BY <1>b, <1>6, <1>7, <2>1, <2>2, <2>3
  <2>6. N = W * Z + U
    BY <1>8, <2>4, <2>5
  <2> QED BY <1>6, <2>6 DEF Parts
<1>10. (8 * N) % DgWord = 8 * U /\ (8 * N) \div DgWord = Z
  BY <1>1, <1>9, CountOf
<1> DEFINE lo == (c.lo + 8 * m) % DgWord
           carry == IF lo < c.lo THEN 1 ELSE 0
           hi == (c.hi + carry + (m \div (DgWord \div 8))) % DgWord
<1>11. lo = 8 * U
  <2>a. PICK a \in Nat : a = 8 * n
    OBVIOUS
  <2>b. PICK b \in Nat : b = 8 * m
    OBVIOUS
  <2>c. PICK D \in Nat : D = 8 * W
    OBVIOUS
  <2>1. D = DgWord /\ a = 8 * n /\ b = 8 * m
    BY <1>a, <2>a, <2>b, <2>c
  <2>2. D > 0 /\ c.lo = a % D /\ a + b = 8 * N
    BY <1>a, <1>7, <2>1 DEF Counts
  <2>3. ((a % D) + b) % D = (a + b) % D
    <3>1. D > 0
      BY <2>2
    <3> QED BY <3>1, RemainderOfSum, ZenonT(60)
  <2> QED BY <1>10, <2>1, <2>2, <2>3, ZenonT(30)
<1>12. carry = k
  <2>1. CASE R + T < W
    <3>1. k = 0 /\ W * k = 0
      BY <1>5, <2>1
    <3>2. ~(8 * U < 8 * R)
      BY <1>6, <3>1
    <3> HIDE DEF lo
    <3> QED BY <1>4, <1>11, <3>1, <3>2
  <2>2. CASE ~(R + T < W)
    <3>1. k = 1 /\ W * k = W
      BY <1>5, <2>2
    <3>2. 8 * U < 8 * R
      BY <1>b, <1>6, <3>1
    <3> HIDE DEF lo
    <3> QED BY <1>4, <1>11, <3>1, <3>2
  <2> QED BY <2>1, <2>2
<1> HIDE DEF lo, carry
<1>13. hi = Z % DgWord
  <2>a. PICK b \in Nat : b = k + P
    OBVIOUS
  <2>b. PICK D \in Nat : D = 8 * W
    OBVIOUS
  <2>1. D = DgWord /\ D > 0 /\ b = k + P
    BY <1>a, <2>a, <2>b
  <2>2. ((Q % D) + b) % D = (Q + b) % D
    <3>1. D > 0
      BY <2>1
    <3> QED BY <3>1, RemainderOfSum, ZenonT(60)
  <2>3. m \div (DgWord \div 8) = P
    BY <1>a, <1>3, PartsAre
  <2>4. PICK h \in Nat : h = Q % D
    <3>1. PICK g \in Nat, h \in Nat : Parts(Q, D, g, h)
      BY <2>1, HasParts
    <3> QED BY <3>1, PartsAre
  <2>5. c.hi + carry + P = h + b
    BY <1>4, <1>12, <2>1, <2>4
  <2>6. Q + b = Z
    BY <1>8, <2>1
  <2> QED BY <2>1, <2>2, <2>3, <2>4, <2>5, <2>6
<1>14. hi \in Nat /\ lo \in Nat
  <2>1. Z % DgWord \in Nat
    BY <1>a
  <2> HIDE DEF hi
  <2> QED BY <1>11, <1>13, <2>1
<1> HIDE DEF hi
<1>15. Counted(c, m) = [c EXCEPT !.lo = lo, !.hi = hi]
  BY DEF Counted, lo, hi, carry
<1>16. /\ Counted(c, m).lo = lo /\ Counted(c, m).hi = hi /\ Counted(c, m).blocks = c.blocks /\ Counted(c, m).in = c.in
       /\ IsContext(S, Counted(c, m))
  BY <1>14, <1>15 DEF IsContext
<1> QED BY <1>7, <1>10, <1>11, <1>13, <1>16 DEF Counts

\* A buffer with bytes laid over it.
LEMMA LaidIs ==
  ASSUME NEW S, NEW in \in Seq(S), NEW s \in Seq(S), NEW at \in Nat
  PROVE  /\ Laid(in, at, s) \in Seq(S) /\ Len(Laid(in, at, s)) = Len(in)
         /\ \A i \in 1..Len(in) : Laid(in, at, s)[i] = IF at < i /\ i <= at + Len(s) THEN s[i - at] ELSE in[i]
<1> DEFINE cell(i) == IF at < i /\ i <= at + Len(s) THEN s[i - at] ELSE in[i]
<1>1. PICK n \in Nat : n = Len(in) /\ DOMAIN in = 1..n
  OBVIOUS
<1>2. PICK m \in Nat : m = Len(s)
  OBVIOUS
<1>3. ASSUME NEW i \in 1..n
      PROVE  cell(i) \in S
  <2>1. CASE at < i /\ i <= at + m
    <3>1. PICK j \in 1..m : j = i - at
      BY <2>1
    <3>2. s[j] \in S
      BY <1>2, <3>1
    <3> QED BY <1>2, <2>1, <3>1, <3>2
  <2>2. CASE ~(at < i /\ i <= at + m)
    <3>1. in[i] \in S
      BY <1>1
    <3> QED BY <1>2, <2>2, <3>1
  <2> QED BY <2>1, <2>2
<1>4. Laid(in, at, s) = [i \in 1..n |-> cell(i)]
  BY <1>1 DEF Laid
<1> HIDE DEF cell
<1>5. Laid(in, at, s) \in Seq(S) /\ Len(Laid(in, at, s)) = n /\ \A i \in 1..n : Laid(in, at, s)[i] = cell(i)
  BY <1>3, <1>4
<1> QED BY <1>1, <1>5 DEF cell

\* A sequence with an element appended.
LEMMA OneMore ==
  ASSUME NEW S, NEW s \in Seq(S), NEW x \in S
  PROVE  /\ Append(s, x) \in Seq(S) /\ Len(Append(s, x)) = Len(s) + 1 /\ Len(s) \in Nat
         /\ Append(s, x)[Len(s) + 1] = x /\ \A i \in 1..Len(s) : Append(s, x)[i] = s[i]
OBVIOUS

\* Block k of b is the one that begins behind k - 1 blocks of t.
BlockFrom(S, b, k, t) ==
  b[k] \in Seq(S) /\ Len(b[k]) = DgBlock /\ \A j \in 1..DgBlock : b[k][j] = t[Start(k - 1) + j]

\* The blocks b hold the first q blocks of t, and a buffer the r bytes behind them.
Held(S, b, in, t, q, r) ==
  /\ t \in Seq(S) /\ Blocks(Len(t), q, r)
  /\ b \in Seq(Seq(S)) /\ Len(b) = q
  /\ \A k \in 1..q : BlockFrom(S, b, k, t)
  /\ in \in Seq(S) /\ Len(in) = DgBlock
  /\ \A i \in 1..r : in[i] = t[Start(q) + i]

\* The blocks held are the blocks of the message.
LEMMA HeldIsCut ==
  ASSUME NEW S, NEW b, NEW in, NEW t, NEW q, NEW r, Held(S, b, in, t, q, r)
  PROVE  Cut(S, b, t) /\ b = Whole(t)
<1>1. q \in Nat /\ r \in Nat /\ t \in Seq(S)
  BY DEF Held, Blocks
<1>2. Cut(S, b, t)
  BY <1>1 DEF Held, BlockFrom, Cut
<1>3. Cut(S, Whole(t), t)
  BY <1>1, WholeIsCut
<1> QED BY <1>2, <1>3, CutOnce

\* A block begins where the one before ends.
LEMMA StartStep ==
  ASSUME NEW k \in Nat, k > 0
  PROVE  Start(k) = Start(k - 1) + DgBlock /\ Start(k - 1) \in Nat /\ Start(k) \in Nat
<1>1. PICK h \in Nat : h = k - 1 /\ k = h + 1
  OBVIOUS
<1>2. 1 \in Nat
  OBVIOUS
<1>3. Start(h + 1) = Start(h) + Start(1) /\ Start(h) \in Nat
  BY <1>2, Starts
<1>4. Start(1) = DgBlock /\ DgBlock \in Nat
  BY Starts, DgAssumption
<1>5. Start(k) = Start(h) + DgBlock
  BY <1>1, <1>3, <1>4
<1> QED BY <1>1, <1>3, <1>4, <1>5

\* A block inside a message stays where it is when the message grows.
LEMMA BlockStays ==
  ASSUME NEW S, NEW t \in Seq(S), NEW s \in Seq(S), NEW q, NEW r, Blocks(Len(t), q, r),
         NEW b, NEW k \in 1..q, BlockFrom(S, b, k, t)
  PROVE  BlockFrom(S, b, k, t \o s)
<1>1. q \in Nat /\ r \in Nat /\ Len(t) = Start(q) + r /\ Len(t) \in Nat
  BY DEF Blocks
<1>2. DgBlock \in Nat /\ Start(q) \in Nat /\ k \in Nat /\ k > 0
  BY <1>1, DgAssumption, Starts
<1>3. Start(k) = Start(k - 1) + DgBlock /\ Start(k - 1) \in Nat /\ Start(k) \in Nat
  BY <1>2, StartStep
<1>4. Start(k) <= Start(q)
  <2>1. CASE k = q
    BY <1>3, <2>1
  <2>2. CASE k # q
    <3>1. k < q
      BY <1>1, <2>2
    <3>2. Start(k) + DgBlock <= Start(q)
      BY <1>1, <1>2, <3>1, StartsGrow
    <3> QED BY <1>2, <1>3, <3>2
  <2> QED BY <2>1, <2>2
<1>5. ASSUME NEW j \in 1..DgBlock
      PROVE  b[k][j] = (t \o s)[Start(k - 1) + j]
  <2>1. PICK i \in Nat : i = Start(k - 1) + j
    BY <1>2, <1>3
  <2>2. 1 <= i /\ i <= Len(t)
    BY <1>1, <1>2, <1>3, <1>4, <2>1, SMTT(60)
  <2>3. (t \o s)[i] = t[i]
    BY <2>2, JoinedElements
  <2>4. b[k][j] = t[Start(k - 1) + j]
    BY DEF BlockFrom
  <2> QED BY <2>1, <2>3, <2>4
<1> QED BY <1>5 DEF BlockFrom

\* Bytes that do not complete the buffer.
LEMMA HeldMore ==
  ASSUME NEW S, NEW b, NEW in, NEW t, NEW q, NEW r, Held(S, b, in, t, q, r),
         NEW s \in Seq(S), r + Len(s) < DgBlock
  PROVE  Held(S, b, Laid(in, r, s), t \o s, q, r + Len(s))
<1>1. t \in Seq(S) /\ Blocks(Len(t), q, r) /\ in \in Seq(S) /\ Len(in) = DgBlock
  BY DEF Held
<1>2. q \in Nat /\ r \in Nat /\ Len(t) = Start(q) + r /\ Len(t) \in Nat /\ Len(s) \in Nat
  BY <1>1 DEF Blocks
<1>3. DgBlock \in Nat /\ Start(q) \in Nat
  BY <1>2, DgAssumption, Starts
<1>4. t \o s \in Seq(S) /\ Len(t \o s) = Len(t) + Len(s)
  BY <1>1, JoinedElements
<1>5. Blocks(Len(t \o s), q, r + Len(s))
  BY <1>2, <1>3, <1>4 DEF Blocks
<1>6. \A k \in 1..q : BlockFrom(S, b, k, t \o s)
  BY <1>1, BlockStays DEF Held
<1>7. /\ Laid(in, r, s) \in Seq(S) /\ Len(Laid(in, r, s)) = DgBlock
      /\ \A i \in 1..DgBlock : Laid(in, r, s)[i] = IF r < i /\ i <= r + Len(s) THEN s[i - r] ELSE in[i]
  <2>1. DgBlock = Len(in)
    BY <1>1
  <2> QED BY <1>1, <1>2, <2>1, LaidIs
<1>8. ASSUME NEW i \in 1..(r + Len(s))
      PROVE  Laid(in, r, s)[i] = (t \o s)[Start(q) + i]
  <2>1. PICK j \in Nat : j = Start(q) + i
    BY <1>2, <1>3
  <2>2. i \in 1..DgBlock /\ 1 <= j /\ j <= Len(t) + Len(s)
    BY <1>2, <1>3, <2>1, SMTT(60)
  <2>3. (t \o s)[j] = IF j <= Len(t) THEN t[j] ELSE s[j - Len(t)]
    BY <1>1, <2>2, JoinedElements
  <2>4. CASE i <= r
    <3>1. in[i] = t[j]
      BY <1>2, <2>1, <2>4 DEF Held
    <3>2. j <= Len(t)
      BY <1>2, <1>3, <2>1, <2>4
    <3>3. Laid(in, r, s)[i] = in[i]
      BY <1>2, <1>7, <2>2, <2>4
    <3> QED BY <2>1, <2>3, <3>1, <3>2, <3>3
  <2>5. CASE ~(i <= r)
    <3>0. i > r
      BY <1>2, <1>3, <2>5
    <3>1. ~(j <= Len(t)) /\ j - Len(t) = i - r
      BY <1>2, <1>3, <2>1, <3>0
    <3>2. Laid(in, r, s)[i] = s[i - r]
      BY <1>2, <1>7, <2>2, <3>0
    <3> QED BY <2>1, <2>3, <3>1, <3>2
  <2> QED BY <2>4, <2>5
<1> QED BY <1>4, <1>5, <1>6, <1>7, <1>8 DEF Held

\* Bytes that complete the buffer make it the next block.
LEMMA HeldFull ==
  ASSUME NEW S, NEW b, NEW in, NEW t, NEW q, NEW r, Held(S, b, in, t, q, r),
         NEW s \in Seq(S), r + Len(s) = DgBlock, NEW any \in Seq(S), Len(any) = DgBlock
  PROVE  Held(S, Append(b, Laid(in, r, s)), any, t \o s, q + 1, 0)
<1>1. t \in Seq(S) /\ Blocks(Len(t), q, r) /\ in \in Seq(S) /\ Len(in) = DgBlock /\ b \in Seq(Seq(S)) /\ Len(b) = q
  BY DEF Held
<1>2. q \in Nat /\ r \in Nat /\ Len(t) = Start(q) + r /\ Len(t) \in Nat /\ Len(s) \in Nat
  BY <1>1 DEF Blocks
<1>3. DgBlock \in Nat /\ DgBlock > 0 /\ Start(q) \in Nat
  BY <1>2, DgAssumption, Starts
<1>4. t \o s \in Seq(S) /\ Len(t \o s) = Len(t) + Len(s)
  BY <1>1, JoinedElements
<1>a. PICK p \in Nat : p = q + 1 /\ p > 0 /\ q = p - 1
  BY <1>2
<1>b. Start(p) = Start(q) + DgBlock
  BY <1>a, StartStep
<1>5. Blocks(Len(t \o s), p, 0)
  BY <1>2, <1>3, <1>4, <1>b DEF Blocks
<1>6. /\ Laid(in, r, s) \in Seq(S) /\ Len(Laid(in, r, s)) = DgBlock
      /\ \A i \in 1..DgBlock : Laid(in, r, s)[i] = IF r < i /\ i <= r + Len(s) THEN s[i - r] ELSE in[i]
  <2>1. DgBlock = Len(in)
    BY <1>1
  <2> QED BY <1>1, <1>2, <2>1, LaidIs
<1> DEFINE full == Laid(in, r, s)
           c == Append(b, full)
<1>7. ASSUME NEW i \in 1..DgBlock
      PROVE  full[i] = (t \o s)[Start(q) + i]
  <2>1. PICK j \in Nat : j = Start(q) + i
    BY <1>2, <1>3
  <2>2. 1 <= j /\ j <= Len(t) + Len(s)
    BY <1>2, <1>3, <2>1
  <2>3. (t \o s)[j] = IF j <= Len(t) THEN t[j] ELSE s[j - Len(t)]
    BY <1>1, <2>2, JoinedElements
  <2>4. CASE i <= r
    <3>1. in[i] = t[j]
      BY <1>2, <2>1, <2>4 DEF Held
    <3>2. j <= Len(t)
      BY <1>2, <1>3, <2>1, <2>4, SMTT(60)
    <3>3. full[i] = in[i]
      BY <1>2, <1>6, <2>4
    <3> QED BY <2>1, <2>3, <3>1, <3>2, <3>3
  <2>5. CASE ~(i <= r)
    <3>0. i > r
      BY <1>2, <1>3, <2>5
    <3>1. ~(j <= Len(t)) /\ j - Len(t) = i - r
      BY <1>2, <1>3, <2>1, <3>0
    <3>2. full[i] = s[i - r]
      BY <1>2, <1>6, <3>0
    <3> QED BY <2>1, <2>3, <3>1, <3>2
  <2> QED BY <2>4, <2>5
<1> HIDE DEF full
<1>8. c \in Seq(Seq(S)) /\ Len(c) = q + 1 /\ c[q + 1] = full /\ \A k \in 1..q : c[k] = b[k]
  <2>1. full \in Seq(S)
    BY <1>6 DEF full
  <2> QED BY <1>1, <2>1, OneMore
<1> HIDE DEF c
<1>9. ASSUME NEW k \in 1..p
      PROVE  BlockFrom(S, c, k, t \o s)
  <2>1. CASE k \in 1..q
    <3>1. BlockFrom(S, b, k, t \o s)
      BY <1>1, <2>1, BlockStays DEF Held
    <3> QED BY <1>8, <2>1, <3>1 DEF BlockFrom
  <2>2. CASE k = p
    <3>1. c[k] = full /\ k - 1 = q
      BY <1>a, <1>8, <2>2
    <3>2. full \in Seq(S) /\ Len(full) = DgBlock
      BY <1>6 DEF full
    <3> QED BY <1>7, <3>1, <3>2 DEF BlockFrom
  <2> QED BY <1>a, <2>1, <2>2
<1>10. Held(S, c, any, t \o s, p, 0)
  <2>1. \A i \in 1..0 : any[i] = (t \o s)[Start(p) + i]
    OBVIOUS
  <2> QED BY <1>a, <1>4, <1>5, <1>8, <1>9, <2>1 DEF Held
<1> QED BY <1>a, <1>10 DEF c, full

\* The remainder of a message is what stands behind its blocks.
LEMMA RemainderIs ==
  ASSUME NEW S, NEW s \in Seq(S), NEW p, NEW e, Blocks(Len(s), p, e)
  PROVE  /\ Remainder(s) \in Seq(S) /\ Len(Remainder(s)) = e
         /\ \A i \in 1..e : Remainder(s)[i] = s[Start(p) + i]
<1>1. p \in Nat /\ e \in Nat /\ Len(s) = Start(p) + e /\ Len(s) \in Nat /\ Start(p) \in Nat
  BY Starts DEF Blocks
<1>2. Len(s) % DgBlock = e
  BY BlocksDivide
<1>3. PICK n \in Nat : n = Len(s)
  BY <1>1
<1>4. PICK m \in Nat : m = Start(p)
  BY <1>1
<1>5. PICK a \in Nat : a = m + 1
  OBVIOUS
<1>6. n - e + 1 = a /\ a >= 1 /\ n <= Len(s) /\ n - a + 1 = e
  BY <1>1, <1>3, <1>4, <1>5, SMTT(60)
<1>7. Remainder(s) = SubSeq(s, a, n)
  BY <1>2, <1>3, <1>6 DEF Remainder
<1>8. /\ SubSeq(s, a, n) \in Seq(S) /\ Len(SubSeq(s, a, n)) = IF a <= n THEN n - a + 1 ELSE 0
      /\ \A k \in 1..(n - a + 1) : SubSeq(s, a, n)[k] = s[a + k - 1]
  BY <1>6, PartElements
<1>9. Len(SubSeq(s, a, n)) = e
  BY <1>1, <1>6, <1>8
<1>10. \A i \in 1..e : a + i - 1 = m + i
  BY <1>5
<1> QED BY <1>4, <1>6, <1>7, <1>8, <1>9, <1>10

\* The blocks of a message, each.
LEMMA WholeBlocks ==
  ASSUME NEW S, NEW s \in Seq(S), NEW p, NEW e, Blocks(Len(s), p, e)
  PROVE  /\ Whole(s) \in Seq(Seq(S)) /\ Len(Whole(s)) = p
         /\ \A k \in 1..p : BlockFrom(S, Whole(s), k, s)
<1>1. PICK q \in Nat, r \in Nat :
        /\ Blocks(Len(s), q, r)
        /\ Whole(s) \in Seq(Seq(S)) /\ Len(Whole(s)) = q
        /\ \A k \in 1..q : Len(Whole(s)[k]) = DgBlock /\ \A j \in 1..DgBlock : Whole(s)[k][j] = s[Start(k - 1) + j]
  <2>1. Cut(S, Whole(s), s)
    BY WholeIsCut
  <2> QED BY <2>1 DEF Cut
<1>2. p = q
  BY <1>1, BlocksOnce
<1>3. \A k \in 1..p : Whole(s)[k] \in Seq(S)
  <2> HIDE DEF Whole
  <2> QED BY <1>1, <1>2
<1> QED BY <1>1, <1>2, <1>3 DEF BlockFrom

\* A block of what follows whole blocks is a block of all.
LEMMA BlockMoves ==
  ASSUME NEW S, NEW t \in Seq(S), NEW s \in Seq(S), NEW q \in Nat, Blocks(Len(t), q, 0),
         NEW p, NEW e, Blocks(Len(s), p, e), NEW w, NEW k \in 1..p, BlockFrom(S, w, k, s),
         NEW c, NEW h, h = q + k, c[h] = w[k]
  PROVE  BlockFrom(S, c, h, t \o s)
<1>1. p \in Nat /\ e \in Nat /\ Len(s) = Start(p) + e /\ Len(s) \in Nat /\ Start(p) \in Nat
  BY Starts DEF Blocks
<1>2. Len(t) = Start(q) /\ Start(q) \in Nat /\ Len(t) \in Nat
  BY Starts DEF Blocks
<1>3. DgBlock \in Nat
  BY DgAssumption
<1>4. PICK g \in Nat : g = k - 1 /\ g < p
  BY <1>1
<1>5. h - 1 = q + g
  BY <1>1, <1>4
<1>6. Start(q + g) = Start(q) + Start(g) /\ Start(g) \in Nat
  BY Starts
<1>7. Start(g) + DgBlock <= Start(p)
  BY <1>1, <1>4, StartsGrow
<1>8. ASSUME NEW j \in 1..DgBlock
      PROVE  c[h][j] = (t \o s)[Start(h - 1) + j]
  <2>1. PICK i \in Nat : i = Start(g) + j
    BY <1>3, <1>6
  <2>2. PICK x \in Nat : x = Start(q) + i
    BY <1>2
  <2>3. Start(h - 1) + j = x
    <3>1. Start(h - 1) = Start(q) + Start(g)
      BY <1>5, <1>6
    <3> QED BY <1>2, <1>3, <1>6, <2>1, <2>2, <3>1, SMTT(60)
  <2>4. 1 <= x /\ x <= Len(t) + Len(s) /\ ~(x <= Len(t)) /\ x - Len(t) = i
    <3>1. PICK a \in Nat, b \in Nat, d \in Nat : a = Start(q) /\ b = Start(g) /\ d = Start(p)
      BY <1>1, <1>2, <1>6
    <3>2. 1 <= i /\ i <= d
      BY <1>3, <1>7, <2>1, <3>1, SMTT(120)
    <3>3. Len(t) = a /\ d <= Len(s)
      BY <1>1, <1>2, <3>1
    <3>4. x = a + i
      BY <2>2, <3>1
    <3> QED BY <1>1, <1>2, <3>2, <3>3, <3>4, SMTT(60)
  <2>5. (t \o s)[x] = s[x - Len(t)]
    BY <2>4, JoinedElements
  <2>6. w[k][j] = s[Start(k - 1) + j]
    BY DEF BlockFrom
  <2> QED BY <1>4, <2>1, <2>3, <2>4, <2>5, <2>6
<1> QED BY <1>8 DEF BlockFrom

\* Behind whole blocks, the blocks of what follows and its remainder.
LEMMA HeldWhole ==
  ASSUME NEW S, NEW b, NEW in, NEW t, NEW q, Held(S, b, in, t, q, 0), NEW s \in Seq(S),
         NEW p, NEW e, Blocks(Len(s), p, e), NEW any \in Seq(S), Len(any) = DgBlock
  PROVE  Held(S, b \o Whole(s), Laid(any, 0, Remainder(s)), t \o s, q + p, e)
<1>1. t \in Seq(S) /\ Blocks(Len(t), q, 0) /\ b \in Seq(Seq(S)) /\ Len(b) = q
  BY DEF Held
<1>2. q \in Nat /\ Len(t) = Start(q) /\ Start(q) \in Nat /\ Len(t) \in Nat
  BY <1>1, Starts DEF Blocks
<1>3. p \in Nat /\ e \in Nat /\ e < DgBlock /\ Len(s) = Start(p) + e /\ Len(s) \in Nat /\ Start(p) \in Nat
  BY Starts DEF Blocks
<1>4. DgBlock \in Nat
  BY DgAssumption
<1>5. t \o s \in Seq(S) /\ Len(t \o s) = Len(t) + Len(s)
  BY <1>1, JoinedElements
<1>6. PICK z \in Nat : z = q + p
  BY <1>2, <1>3
<1>7. Start(z) = Start(q) + Start(p)
  BY <1>2, <1>3, <1>6, Starts
<1>8. Blocks(Len(t \o s), z, e)
  BY <1>2, <1>3, <1>5, <1>7, SMTT(60) DEF Blocks
<1> DEFINE w == Whole(s)
           c == b \o w
           rest == Remainder(s)
<1>9. w \in Seq(Seq(S)) /\ Len(w) = p /\ \A k \in 1..p : BlockFrom(S, w, k, s)
  BY WholeBlocks
<1> HIDE DEF w
<1>10. c \in Seq(Seq(S)) /\ Len(c) = z /\ \A k \in 1..z : c[k] = IF k <= q THEN b[k] ELSE w[k - q]
  BY <1>1, <1>6, <1>9, JoinedElements, ZenonT(60)
<1> HIDE DEF c
<1>11. ASSUME NEW h \in 1..z
       PROVE  BlockFrom(S, c, h, t \o s)
  <2>1. CASE h <= q
    <3>1. h \in 1..q /\ c[h] = b[h]
      BY <1>10, <2>1
    <3>2. BlockFrom(S, b, h, t \o s)
      BY <1>1, <3>1, BlockStays DEF Held
    <3> QED BY <3>1, <3>2 DEF BlockFrom
  <2>2. CASE ~(h <= q)
    <3>1. PICK k \in 1..p : h = q + k /\ h - q = k
      <4>1. h - q \in 1..p /\ h = q + (h - q)
        BY <1>2, <1>3, <1>6, <2>2
      <4> QED BY <4>1
    <3>2. c[h] = w[k]
      BY <1>10, <2>2, <3>1
    <3>3. BlockFrom(S, w, k, s)
      BY <1>9
    <3> QED BY <1>1, <1>2, <3>1, <3>2, <3>3, BlockMoves
  <2> QED BY <2>1, <2>2
<1>12. rest \in Seq(S) /\ Len(rest) = e /\ \A i \in 1..e : rest[i] = s[Start(p) + i]
  BY RemainderIs
<1> HIDE DEF rest
<1>13. /\ Laid(any, 0, rest) \in Seq(S) /\ Len(Laid(any, 0, rest)) = DgBlock
       /\ \A i \in 1..e : Laid(any, 0, rest)[i] = rest[i]
  <2>1. PICK n \in Nat : n = 0
    OBVIOUS
  <2>2. /\ Laid(any, n, rest) \in Seq(S) /\ Len(Laid(any, n, rest)) = Len(any)
        /\ \A i \in 1..Len(any) : Laid(any, n, rest)[i] = IF n < i /\ i <= n + Len(rest) THEN rest[i - n] ELSE any[i]
    BY <1>12, LaidIs
  <2>3. \A i \in 1..e : i \in 1..Len(any) /\ n < i /\ i <= n + Len(rest) /\ i - n = i
    BY <1>3, <1>4, <1>12, <2>1
  <2>4. \A i \in 1..e : Laid(any, n, rest)[i] = rest[i]
    BY <2>2, <2>3
  <2> QED BY <2>1, <2>2, <2>4
<1>14. ASSUME NEW i \in 1..e
       PROVE  Laid(any, 0, rest)[i] = (t \o s)[Start(z) + i]
  <2>1. PICK x \in Nat : x = Start(z) + i
    BY <1>2, <1>3, <1>7, SMTT(60)
  <2>2. 1 <= x /\ x <= Len(t) + Len(s) /\ ~(x <= Len(t)) /\ x - Len(t) = Start(p) + i
    BY <1>2, <1>3, <1>7, <2>1, SMTT(60)
  <2>3. (t \o s)[x] = s[x - Len(t)]
    BY <1>1, <2>2, JoinedElements
  <2> QED BY <1>12, <1>13, <2>1, <2>2, <2>3
<1>15. Held(S, c, Laid(any, 0, rest), t \o s, z, e)
  BY <1>5, <1>8, <1>10, <1>11, <1>13, <1>14 DEF Held
<1> QED BY <1>6, <1>15 DEF c, w, rest

\* A context with other blocks and another buffer.
With(c, b, in) == [c EXCEPT !.blocks = b, !.in = in]

\* The fields of such a context.
LEMMA ContextWith ==
  ASSUME NEW S, NEW c, IsContext(S, c), NEW b \in Seq(Seq(S)), NEW in \in Seq(S)
  PROVE  /\ IsContext(S, With(c, b, in)) /\ With(c, b, in).blocks = b /\ With(c, b, in).in = in
         /\ With(c, b, in).lo = c.lo /\ With(c, b, in).hi = c.hi
BY DEF IsContext, With

\* A context of which only the buffer is replaced.
LEMMA ContextWithIn ==
  ASSUME NEW S, NEW c, IsContext(S, c), NEW in \in Seq(S)
  PROVE  [c EXCEPT !.in = in] = With(c, c.blocks, in)
BY DEF IsContext, With

\* The context holds t: q blocks, and r bytes in its buffer.
DgHolds(S, c, t, q, r) == IsContext(S, c) /\ Held(S, c.blocks, c.in, t, q, r) /\ Counts(c, Len(t))

\* What a context holds is what its count says; the count goes on alone.
LEMMA HoldsCounted ==
  ASSUME NEW S, NEW c, NEW t, NEW q, NEW r, DgHolds(S, c, t, q, r), NEW s \in Seq(S)
  PROVE  /\ Filled(c) = r /\ q \in Nat /\ r \in Nat /\ r < DgBlock /\ t \in Seq(S)
         /\ IsContext(S, Counted(c, Len(s))) /\ Counts(Counted(c, Len(s)), Len(t \o s))
         /\ Counted(c, Len(s)).blocks = c.blocks /\ Counted(c, Len(s)).in = c.in
<1>1. IsContext(S, c) /\ Counts(c, Len(t)) /\ t \in Seq(S) /\ Blocks(Len(t), q, r)
  BY DEF DgHolds, Held
<1>2. PICK n \in Nat : n = Len(t)
  BY <1>1
<1>3. PICK m \in Nat : m = Len(s)
  OBVIOUS
<1>4. Filled(c) = r
  BY <1>1, <1>2, FilledIs
<1>5. /\ IsContext(S, Counted(c, m)) /\ Counts(Counted(c, m), n + m)
      /\ Counted(c, m).blocks = c.blocks /\ Counted(c, m).in = c.in
  BY <1>1, <1>2, CountedOn, ZenonT(60)
<1>6. Len(t \o s) = n + m
  BY <1>1, <1>2, <1>3, JoinedElements
<1>7. q \in Nat /\ r \in Nat /\ r < DgBlock
  BY <1>1 DEF Blocks
<1> QED BY <1>1, <1>3, <1>4, <1>5, <1>6, <1>7

\* A context with its count gone on and its blocks and buffer replaced.
LEMMA HoldsWith ==
  ASSUME NEW S, NEW d, IsContext(S, d), NEW u, Counts(d, Len(u)), NEW b, NEW in, NEW q, NEW r, Held(S, b, in, u, q, r)
  PROVE  DgHolds(S, With(d, b, in), u, q, r)
<1>1. b \in Seq(Seq(S)) /\ in \in Seq(S)
  BY DEF Held
<1> DEFINE e == With(d, b, in)
<1>2. IsContext(S, e) /\ e.blocks = b /\ e.in = in /\ e.lo = d.lo /\ e.hi = d.hi
  BY <1>1, ContextWith
<1> HIDE DEF e
<1>3. Counts(e, Len(u))
  BY <1>2 DEF Counts
<1>4. DgHolds(S, e, u, q, r)
  BY <1>2, <1>3 DEF DgHolds
<1> QED BY <1>4 DEF e

\* The last block transformed, or the buffer, is a block.
LEMMA LastBlock ==
  ASSUME NEW S, NEW b, NEW in, NEW t, NEW q, NEW r, Held(S, b, in, t, q, r), NEW a \in Seq(Seq(S)),
         NEW any \in Seq(S), Len(any) = DgBlock, NEW last, last = IF Len(b) > Len(a) THEN Last(b) ELSE any
  PROVE  last \in Seq(S) /\ Len(last) = DgBlock
<1>1. CASE Len(b) > Len(a)
  <2>1. q \in Nat /\ Len(b) = q /\ Len(a) \in Nat
    BY DEF Held, Blocks
  <2>2. q \in 1..q
    BY <1>1, <2>1
  <2>3. BlockFrom(S, b, q, t)
    BY <2>2 DEF Held
  <2>4. last = b[q]
    BY <1>1, <2>1 DEF Last
  <2> QED BY <2>3, <2>4 DEF BlockFrom
<1>2. CASE ~(Len(b) > Len(a))
  BY <1>2
<1> QED BY <1>1, <1>2

\* Joining is associative, for joined sequences by name.
LEMMA JoinedTwice ==
  ASSUME NEW S, NEW t \in Seq(S), NEW x \in Seq(S), NEW y \in Seq(S), NEW s, Joined(s, x, y), NEW u, Joined(u, t, x),
         NEW v, Joined(v, u, y)
  PROVE  Joined(v, t, s)
<1>1. s = x \o y /\ u = t \o x /\ v = u \o y
  BY DEF Joined
<1>2. (t \o x) \o y = t \o (x \o y)
  BY JoinsAlike, SMTT(60)
<1> QED BY <1>1, <1>2 DEF Joined

\* Bytes that complete the buffer, the blocks behind it and what remains of them.
LEMMA HeldThrough ==
  ASSUME NEW S, NEW b, NEW in, NEW t, NEW q, NEW r, Held(S, b, in, t, q, r),
         NEW s \in Seq(S), NEW h, h = DgBlock - r, h <= Len(s), NEW any \in Seq(S), Len(any) = DgBlock
  PROVE  LET full == Laid(in, r, SubSeq(s, 1, h))
             rest == SubSeq(s, h + 1, Len(s))
         IN /\ full \in Seq(S) /\ Len(full) = DgBlock /\ rest \in Seq(S)
            /\ \E p \in Nat, e \in Nat : Held(S, Append(b, full) \o Whole(rest), Laid(any, 0, Remainder(rest)), t \o s, p, e)
<1> DEFINE x == SubSeq(s, 1, h)
           rest == SubSeq(s, h + 1, Len(s))
           full == Laid(in, r, x)
<1>1. q \in Nat /\ r \in Nat /\ r < DgBlock /\ t \in Seq(S) /\ in \in Seq(S) /\ Len(in) = DgBlock
  BY DEF Held, Blocks
<1>2. DgBlock \in Nat
  BY DgAssumption
<1>3. h \in Nat /\ r + h = DgBlock
  BY <1>1, <1>2
<1>4. x \in Seq(S) /\ Len(x) = h /\ rest \in Seq(S) /\ s = x \o rest
  BY <1>3, SplitAt, ZenonT(60)
<1> HIDE DEF x, rest
<1>5. Held(S, Append(b, full), any, t \o x, q + 1, 0)
  BY <1>3, <1>4, HeldFull
<1>6. full \in Seq(S) /\ Len(full) = DgBlock
  BY <1>1, <1>4, LaidIs
<1> HIDE DEF full
<1>7. Len(rest) \in Nat
  BY <1>4
<1>8. PICK p \in Nat, e \in Nat : Blocks(Len(rest), p, e)
  BY <1>7, InBlocks
<1>9. PICK z \in Nat : z = q + 1
  BY <1>1
<1>10. Held(S, Append(b, full), any, t \o x, z, 0)
  BY <1>5, <1>9
<1>11. Held(S, Append(b, full) \o Whole(rest), Laid(any, 0, Remainder(rest)), (t \o x) \o rest, z + p, e)
  BY <1>4, <1>8, <1>10, HeldWhole
<1>12. (t \o x) \o rest = t \o s
  <2>1. Joined(s, x, rest) /\ Joined(t \o x, t, x) /\ Joined((t \o x) \o rest, t \o x, rest)
    BY <1>4 DEF Joined
  <2>2. Joined((t \o x) \o rest, t, s)
    BY <1>1, <1>4, <2>1, JoinedTwice, SMTT(60)
  <2> QED BY <2>2 DEF Joined
<1>13. z + p \in Nat
  OBVIOUS
<1> QED BY <1>4, <1>6, <1>8, <1>11, <1>12, <1>13 DEF x, rest, full

\* ct_md5_update: the context holds what it held and what was fed (md5.c:160-187).
LEMMA Md5Goes ==
  ASSUME NEW S, NEW c, NEW t, NEW q, NEW r, DgHolds(S, c, t, q, r), NEW s \in Seq(S)
  PROVE  \E p \in Nat, e \in Nat : DgHolds(S, Md5Update(c, s), t \o s, p, e)
<1> DEFINE d == Counted(c, Len(s))
<1>1. /\ Filled(c) = r /\ q \in Nat /\ r \in Nat /\ r < DgBlock /\ t \in Seq(S)
      /\ IsContext(S, d) /\ Counts(d, Len(t \o s)) /\ d.blocks = c.blocks /\ d.in = c.in
  BY HoldsCounted
<1> HIDE DEF d
<1>2. Held(S, c.blocks, c.in, t, q, r) /\ IsContext(S, c)
  BY DEF DgHolds
<1>3. c.blocks \in Seq(Seq(S)) /\ c.in \in Seq(S) /\ Len(c.in) = DgBlock
  BY <1>2 DEF Held
<1>4. DgBlock \in Nat /\ Len(s) \in Nat
  BY DgAssumption
<1>5. CASE r = 0
  <2> DEFINE rest == SubSeq(s, 0 + 1, Len(s))
             done == c.blocks \o <<>> \o Whole(rest)
             last == IF Len(done) > Len(c.blocks) THEN Last(done) ELSE c.in
             e == Laid(last, 0, Remainder(rest))
  <2>1. rest = s
    BY <1>4
  <2>2. c.blocks \o <<>> = c.blocks
    BY <1>3, JoinNothing
  <2>3. done = c.blocks \o Whole(s)
    BY <2>1, <2>2
  <2>4. ~(Len(s) < 0)
    BY <1>4
  <2>5. Md5Update(c, s) = With(d, done, e)
    BY <1>1, <1>5, <2>4 DEF Md5Update, d, With
  <2> HIDE DEF rest, done
  <2>6. PICK p \in Nat, m \in Nat : Blocks(Len(s), p, m)
    BY <1>4, InBlocks
  <2>a. Held(S, c.blocks, c.in, t, q, 0)
    BY <1>2, <1>5
  <2>7. Held(S, c.blocks \o Whole(s), Laid(c.in, 0, Remainder(s)), t \o s, q + p, m)
    BY <1>3, <2>6, <2>a, HeldWhole
  <2>b. Held(S, done, Laid(c.in, 0, Remainder(s)), t \o s, q + p, m)
    BY <2>3, <2>7
  <2>8. last \in Seq(S) /\ Len(last) = DgBlock
    <3>1. last = IF Len(done) > Len(c.blocks) THEN Last(done) ELSE c.in
      OBVIOUS
    <3> HIDE DEF last
    <3> QED BY <1>3, <2>b, <3>1, LastBlock
  <2> HIDE DEF last
  <2>9. Held(S, done, e, t \o s, q + p, m)
    BY <1>2, <2>1, <2>3, <2>6, <2>8, <2>a, HeldWhole
  <2> HIDE DEF e
  <2>10. DgHolds(S, Md5Update(c, s), t \o s, q + p, m)
    BY <1>1, <2>5, <2>9, HoldsWith
  <2>11. q + p \in Nat
    BY <1>1
  <2> QED BY <2>6, <2>10, <2>11
<1> DEFINE h == DgBlock - r
<1>6. h \in Nat /\ h > 0
  BY <1>1, <1>4
<1>7. CASE r # 0 /\ Len(s) < h
  <2>1. Md5Update(c, s) = [d EXCEPT !.in = Laid(d.in, r, s)]
    BY <1>1, <1>7 DEF Md5Update, d
  <2>2. r + Len(s) < DgBlock
    BY <1>1, <1>4, <1>7
  <2>3. Held(S, c.blocks, Laid(c.in, r, s), t \o s, q, r + Len(s))
    BY <1>2, <2>2, HeldMore
  <2>4. Laid(d.in, r, s) \in Seq(S)
    BY <1>1, <2>3 DEF Held
  <2>5. Md5Update(c, s) = With(d, d.blocks, Laid(d.in, r, s))
    BY <1>1, <2>1, <2>4, ContextWithIn
  <2>6. Held(S, d.blocks, Laid(d.in, r, s), t \o s, q, r + Len(s))
    BY <1>1, <2>3
  <2>7. DgHolds(S, Md5Update(c, s), t \o s, q, r + Len(s))
    BY <1>1, <2>5, <2>6, HoldsWith
  <2>8. r + Len(s) \in Nat
    BY <1>1, <1>4
  <2> QED BY <1>1, <2>7, <2>8
<1>8. CASE r # 0 /\ ~(Len(s) < h)
  <2> DEFINE full == Laid(c.in, r, SubSeq(s, 1, h))
             rest == SubSeq(s, h + 1, Len(s))
             done == c.blocks \o <<full>> \o Whole(rest)
             last == IF Len(done) > Len(c.blocks) THEN Last(done) ELSE c.in
             e == Laid(last, 0, Remainder(rest))
  <2>1. Md5Update(c, s) = With(d, done, e)
    BY <1>1, <1>8 DEF Md5Update, d, With
  <2>2. h <= Len(s)
    BY <1>4, <1>6, <1>8
  <2> DEFINE blocks == Append(c.blocks, full) \o Whole(rest)
  <2>3. /\ full \in Seq(S) /\ Len(full) = DgBlock /\ rest \in Seq(S)
        /\ \E p \in Nat, m \in Nat : Held(S, blocks, Laid(c.in, 0, Remainder(rest)), t \o s, p, m)
    <3> HIDE DEF h
    <3>1. h = DgBlock - r
      BY DEF h
    <3> QED BY <1>2, <1>3, <2>2, <3>1, HeldThrough
  <2>4. ASSUME NEW any \in Seq(S), Len(any) = DgBlock
        PROVE  \E p \in Nat, m \in Nat : Held(S, blocks, Laid(any, 0, Remainder(rest)), t \o s, p, m)
    <3> HIDE DEF h
    <3>1. h = DgBlock - r
      BY DEF h
    <3> QED BY <1>2, <2>2, <2>4, <3>1, HeldThrough
  <2> HIDE DEF full, rest
  <2>5. c.blocks \o <<full>> = Append(c.blocks, full)
    BY <1>3, <2>3
  <2>6. done = blocks
    BY <2>5
  <2> HIDE DEF done, blocks
  <2>7. last \in Seq(S) /\ Len(last) = DgBlock
    <3>1. last = IF Len(done) > Len(c.blocks) THEN Last(done) ELSE c.in
      OBVIOUS
    <3>2. PICK p \in Nat, m \in Nat : Held(S, done, Laid(c.in, 0, Remainder(rest)), t \o s, p, m)
      BY <2>3, <2>6
    <3> HIDE DEF last
    <3> QED BY <1>3, <3>1, <3>2, LastBlock
  <2> HIDE DEF last
  <2>8. PICK p \in Nat, m \in Nat : Held(S, blocks, e, t \o s, p, m)
    BY <2>4, <2>7
  <2> HIDE DEF e
  <2>9. DgHolds(S, Md5Update(c, s), t \o s, p, m)
    BY <1>1, <2>1, <2>6, <2>8, HoldsWith
  <2> QED BY <2>9
<1> QED BY <1>5, <1>7, <1>8

\* ct_sha1_update: the same (sha1.c:176-195).
LEMMA Sha1Goes ==
  ASSUME NEW S, NEW c, NEW t, NEW q, NEW r, DgHolds(S, c, t, q, r), NEW s \in Seq(S)
  PROVE  \E p \in Nat, e \in Nat : DgHolds(S, Sha1Update(c, s), t \o s, p, e)
<1> DEFINE d == Counted(c, Len(s))
<1>1. /\ Filled(c) = r /\ q \in Nat /\ r \in Nat /\ r < DgBlock /\ t \in Seq(S)
      /\ IsContext(S, d) /\ Counts(d, Len(t \o s)) /\ d.blocks = c.blocks /\ d.in = c.in
  BY HoldsCounted
<1> HIDE DEF d
<1>2. Held(S, c.blocks, c.in, t, q, r) /\ IsContext(S, c)
  BY DEF DgHolds
<1>3. c.blocks \in Seq(Seq(S)) /\ c.in \in Seq(S) /\ Len(c.in) = DgBlock
  BY <1>2 DEF Held
<1>4. DgBlock \in Nat /\ Len(s) \in Nat
  BY DgAssumption
<1> DEFINE h == DgBlock - r
<1>6. h \in Nat /\ h > 0
  BY <1>1, <1>4
<1>7. CASE Len(s) < h
  <2>0. ~(r + Len(s) > DgBlock - 1)
    BY <1>1, <1>4, <1>7
  <2>1. Sha1Update(c, s) = [d EXCEPT !.in = Laid(d.in, r, s)]
    BY <1>1, <2>0 DEF Sha1Update, d
  <2>2. r + Len(s) < DgBlock
    BY <1>1, <1>4, <1>7
  <2>3. Held(S, c.blocks, Laid(c.in, r, s), t \o s, q, r + Len(s))
    BY <1>2, <2>2, HeldMore
  <2>4. Laid(d.in, r, s) \in Seq(S)
    BY <1>1, <2>3 DEF Held
  <2>5. Sha1Update(c, s) = With(d, d.blocks, Laid(d.in, r, s))
    BY <1>1, <2>1, <2>4, ContextWithIn
  <2>6. Held(S, d.blocks, Laid(d.in, r, s), t \o s, q, r + Len(s))
    BY <1>1, <2>3
  <2>7. DgHolds(S, Sha1Update(c, s), t \o s, q, r + Len(s))
    BY <1>1, <2>5, <2>6, HoldsWith
  <2>8. r + Len(s) \in Nat
    BY <1>1, <1>4
  <2> QED BY <1>1, <2>7, <2>8
<1>8. CASE ~(Len(s) < h)
  <2> DEFINE full == Laid(c.in, r, SubSeq(s, 1, h))
             rest == SubSeq(s, h + 1, Len(s))
             blocks == Append(c.blocks, full) \o Whole(rest)
             e == Laid(full, 0, Remainder(rest))
  <2>0. r + Len(s) > DgBlock - 1
    BY <1>1, <1>4, <1>8
  <2>1. Sha1Update(c, s) = With(d, Append(d.blocks, full) \o Whole(rest), e)
    BY <1>1, <2>0 DEF Sha1Update, d, With
  <2>2. h <= Len(s)
    BY <1>4, <1>6, <1>8
  <2>3. full \in Seq(S) /\ Len(full) = DgBlock
    <3> HIDE DEF h
    <3>1. h = DgBlock - r
      BY DEF h
    <3> QED BY <1>2, <1>3, <2>2, <3>1, HeldThrough
  <2>4. \E p \in Nat, m \in Nat : Held(S, blocks, e, t \o s, p, m)
    <3>0. PICK any \in Seq(S) : any = full /\ Len(any) = DgBlock
      BY <2>3
    <3> HIDE DEF h
    <3>1. h = DgBlock - r
      BY DEF h
    <3>2. \E p \in Nat, m \in Nat : Held(S, blocks, Laid(any, 0, Remainder(rest)), t \o s, p, m)
      BY <1>2, <2>2, <3>0, <3>1, HeldThrough
    <3> QED BY <3>0, <3>2
  <2> HIDE DEF full, rest
  <2>5. Sha1Update(c, s) = With(d, blocks, e)
    BY <1>1, <2>1
  <2> HIDE DEF blocks, e
  <2>6. PICK p \in Nat, m \in Nat : Held(S, blocks, e, t \o s, p, m)
    BY <2>4
  <2>7. DgHolds(S, Sha1Update(c, s), t \o s, p, m)
    BY <1>1, <2>5, <2>6, HoldsWith
  <2> QED BY <2>7
<1> QED BY <1>7, <1>8

\* The bytes of a padded message.
DgCells == {MsgByte(i) : i \in Nat} \cup {CountByte(v) : v \in Nat} \cup {Pad, ZeroByte, Garbage}

\* The message of n bytes.
Message(n) == [i \in 1..n |-> MsgByte(i)]

\* Two sequences and their lengths.
Lengths(S, s, m, t, n, k) == s \in Seq(S) /\ t \in Seq(S) /\ Len(s) = m /\ Len(t) = n /\ m \in Nat /\ n \in Nat /\ k = m + n

\* w is s and behind it t, by their places.
Both(S, w, s, m, t, k) == w \in Seq(S) /\ Len(w) = k /\ \A i \in 1..k : w[i] = IF i <= m THEN s[i] ELSE t[i - m]

\* Joined sequences by their places.
LEMMA JoinedCells ==
  ASSUME NEW S, NEW s, NEW m, NEW t, NEW n, NEW k, Lengths(S, s, m, t, n, k)
  PROVE  Both(S, s \o t, s, m, t, k)
<1>1. s \in Seq(S) /\ t \in Seq(S) /\ Len(s) = m /\ Len(t) = n /\ k = m + n
  BY DEF Lengths
<1>2. /\ s \o t \in Seq(S) /\ Len(s \o t) = Len(s) + Len(t)
      /\ \A i \in 1..(Len(s) + Len(t)) : (s \o t)[i] = IF i <= Len(s) THEN s[i] ELSE t[i - Len(s)]
  BY <1>1, JoinedElements
<1>3. /\ s \o t \in Seq(S) /\ Len(s \o t) = k
      /\ \A i \in 1..k : (s \o t)[i] = IF i <= m THEN s[i] ELSE t[i - m]
  BY <1>1, <1>2
<1> QED BY <1>3 DEF Both

\* The bytes of a padded message are cells.
LEMMA CellsAre ==
  /\ Pad \in DgCells /\ ZeroByte \in DgCells /\ Garbage \in DgCells
  /\ \A i \in Nat : MsgByte(i) \in DgCells /\ CountByte(i) \in DgCells
BY DEF DgCells

\* A message is a sequence of cells.
LEMMA Messages ==
  ASSUME NEW n \in Nat
  PROVE  /\ Message(n) \in Seq(DgCells) /\ Len(Message(n)) = n /\ \A i \in 1..n : Message(n)[i] = MsgByte(i)
<1>1. \A i \in 1..n : MsgByte(i) \in DgCells
  BY CellsAre
<1> QED BY <1>1 DEF Message

\* What is fed next goes on with the message.
LEMMA MessageGoesOn ==
  ASSUME NEW n \in Nat, NEW m \in Nat, NEW s, s = [i \in 1..m |-> MsgByte(n + i)]
  PROVE  s \in Seq(DgCells) /\ Len(s) = m /\ Message(n + m) = Message(n) \o s
<1>1. \A i \in 1..m : MsgByte(n + i) \in DgCells
  <2>1. \A i \in 1..m : n + i \in Nat
    OBVIOUS
  <2> QED BY <2>1, CellsAre
<1>2. s \in Seq(DgCells) /\ Len(s) = m /\ \A i \in 1..m : s[i] = MsgByte(n + i)
  BY <1>1
<1>3. PICK k \in Nat : k = n + m
  OBVIOUS
<1>4. Message(k) \in Seq(DgCells) /\ Len(Message(k)) = k /\ \A i \in 1..k : Message(k)[i] = MsgByte(i)
  BY Messages
<1>5. Message(n) \in Seq(DgCells) /\ Len(Message(n)) = n /\ \A i \in 1..n : Message(n)[i] = MsgByte(i)
  BY Messages
<1> DEFINE u == Message(n)
           v == Message(k)
           w == u \o s
<1> HIDE DEF u, v
<1>6. w \in Seq(DgCells) /\ Len(w) = k /\ \A i \in 1..k : w[i] = IF i <= n THEN u[i] ELSE s[i - n]
  <2>1. Lengths(DgCells, u, n, s, m, k)
    BY <1>2, <1>3, <1>5 DEF u, Lengths
  <2>2. Both(DgCells, u \o s, u, n, s, k)
    BY <2>1, JoinedCells
  <2> QED BY <2>2 DEF Both
<1> HIDE DEF w
<1>7. ASSUME NEW i \in 1..k
      PROVE  v[i] = w[i]
  <2>1. CASE i <= n
    <3>1. i \in 1..n
      BY <2>1
    <3> QED BY <1>4, <1>5, <1>6, <2>1, <3>1 DEF u, v
  <2>2. CASE ~(i <= n)
    <3>1. PICK j \in 1..m : j = i - n /\ i = n + j
      <4>1. i - n \in 1..m /\ i = n + (i - n)
        BY <1>3, <2>2
      <4> QED BY <4>1
    <3> QED BY <1>2, <1>4, <1>6, <2>2, <3>1 DEF v
  <2> QED BY <2>1, <2>2
<1>8. v = w
  BY <1>4, <1>6, <1>7, SameElements DEF v
<1> QED BY <1>2, <1>3, <1>8 DEF u, v, w

\* A context that was given nothing.
LEMMA FreshHolds ==
  ASSUME NEW x \in DgCells
  PROVE  DgHolds(DgCells, Context(x), Message(0), 0, 0)
<1>1. DgBlock \in Nat /\ DgBlock > 0 /\ DgWord \in Nat /\ DgWord > 0
  <2>1. PICK w \in Nat, W \in Nat : WordIs(w, W)
    BY WordBytes
  <2> QED BY <2>1, DgAssumption DEF WordIs
<1> DEFINE in == [i \in 1..DgBlock |-> x]
           none == <<>>
<1>2. in \in Seq(DgCells) /\ Len(in) = DgBlock
  BY <1>1
<1> HIDE DEF in
<1>3. none \in Seq(Seq(DgCells)) /\ Len(none) = 0
  OBVIOUS
<1> HIDE DEF none
<1>4. Context(x) = [blocks |-> none, in |-> in, lo |-> 0, hi |-> 0]
  BY DEF Context, in, none
<1>5. IsContext(DgCells, Context(x))
  BY <1>2, <1>3, <1>4 DEF IsContext
<1>6. Message(0) \in Seq(DgCells) /\ Len(Message(0)) = 0
  BY Messages
<1>7. Blocks(0, 0, 0)
  BY <1>1, Starts DEF Blocks
<1>8. Held(DgCells, none, in, Message(0), 0, 0)
  BY <1>2, <1>3, <1>6, <1>7 DEF Held
<1>9. Counts(Context(x), 0)
  <2>1. PICK z \in Nat : z = 0
    OBVIOUS
  <2>2. PICK D \in Nat : D = DgWord /\ D > 0
    BY <1>1
  <2>3. Parts(z, D, z, z)
    BY <2>1, <2>2 DEF Parts
  <2>4. z \div D = z /\ z % D = z
    BY <2>3, PartsAre
  <2>5. (8 * 0) % DgWord = 0 /\ ((8 * 0) \div DgWord) % DgWord = 0
    BY <2>1, <2>2, <2>4
  <2> QED BY <1>4, <2>5 DEF Counts
<1> QED BY <1>4, <1>5, <1>6, <1>8, <1>9 DEF DgHolds

\* The message behind its padding of g zeros, and the count.
Ending(g, a, b) == <<Pad>> \o Zeros(g) \o <<a, b>>
\* The message t behind which stands such an ending.
Closed(t, g, a, b) == t \o <<Pad>> \o Zeros(g) \o <<a, b>>

\* Zeros are cells.
LEMMA ZerosAre ==
  ASSUME NEW g \in Nat
  PROVE  Zeros(g) \in Seq(DgCells) /\ Len(Zeros(g)) = g /\ \A i \in 1..g : Zeros(g)[i] = ZeroByte
<1>1. ZeroByte \in DgCells
  BY CellsAre
<1> QED BY <1>1 DEF Zeros

\* The padding by its places.
LEMMA PadZeros ==
  ASSUME NEW g \in Nat
  PROVE  /\ <<Pad>> \o Zeros(g) \in Seq(DgCells) /\ Len(<<Pad>> \o Zeros(g)) = g + 1
         /\ \A i \in 1..(g + 1) : (<<Pad>> \o Zeros(g))[i] = IF i = 1 THEN Pad ELSE ZeroByte
<1> DEFINE P == <<Pad>>
           Z == Zeros(g)
<1>1. P \in Seq(DgCells) /\ Len(P) = 1 /\ P[1] = Pad
  BY CellsAre
<1>2. Z \in Seq(DgCells) /\ Len(Z) = g /\ \A i \in 1..g : Z[i] = ZeroByte
  BY ZerosAre
<1> HIDE DEF P, Z
<1>3. P \o Z \in Seq(DgCells) /\ Len(P \o Z) = 1 + g /\ \A i \in 1..(1 + g) : (P \o Z)[i] = IF i <= 1 THEN P[i] ELSE Z[i - 1]
  <2>1. Lengths(DgCells, P, 1, Z, g, 1 + g)
    BY <1>1, <1>2 DEF Lengths
  <2> QED BY <2>1, JoinedCells DEF Both
<1> DEFINE u == P \o Z
<1> HIDE DEF u
<1>4. ASSUME NEW i \in 1..(g + 1)
      PROVE  u[i] = IF i = 1 THEN Pad ELSE ZeroByte
  <2>1. CASE i = 1
    BY <1>1, <1>3, <2>1, SMTT(60) DEF u
  <2>2. CASE i # 1
    <3>1. i - 1 \in 1..g /\ ~(i <= 1) /\ i \in 1..(1 + g)
      BY <2>2
    <3>2. u[i] = Z[i - 1]
      BY <1>3, <3>1, SMTT(60) DEF u
    <3> QED BY <1>2, <2>2, <3>1, <3>2
  <2> QED BY <2>1, <2>2
<1>5. u \in Seq(DgCells) /\ Len(u) = g + 1
  BY <1>3 DEF u
<1>6. \A i \in 1..(g + 1) : u[i] = IF i = 1 THEN Pad ELSE ZeroByte
  BY <1>4
<1>7. u = <<Pad>> \o Zeros(g)
  BY Zenon DEF P, Z, u
<1> HIDE DEF u
<1> QED BY <1>5, <1>6, <1>7, Zenon

\* A sequence with two cells behind it.
LEMMA EndsWith ==
  ASSUME NEW s \in Seq(DgCells), NEW a \in DgCells, NEW b \in DgCells
  PROVE  /\ s \o <<a, b>> \in Seq(DgCells) /\ Len(s \o <<a, b>>) = Len(s) + 2 /\ Len(s) \in Nat
         /\ \A i \in 1..Len(s) : (s \o <<a, b>>)[i] = s[i]
         /\ (s \o <<a, b>>)[Len(s) + 1] = a /\ (s \o <<a, b>>)[Len(s) + 2] = b
<1> DEFINE e == <<a, b>>
<1>1. e \in Seq(DgCells) /\ Len(e) = 2 /\ e[1] = a /\ e[2] = b
  OBVIOUS
<1> HIDE DEF e
<1>2. PICK n \in Nat : n = Len(s)
  OBVIOUS
<1>3. s \o e \in Seq(DgCells) /\ Len(s \o e) = n + 2 /\ \A i \in 1..(n + 2) : (s \o e)[i] = IF i <= n THEN s[i] ELSE e[i - n]
  <2>1. Lengths(DgCells, s, n, e, 2, n + 2)
    BY <1>1, <1>2 DEF Lengths
  <2> QED BY <2>1, JoinedCells, SMTT(60) DEF Both
<1>4. (n + 1) - n = 1 /\ (n + 2) - n = 2 /\ n + 1 \in 1..(n + 2) /\ n + 2 \in 1..(n + 2) /\ ~(n + 1 <= n) /\ ~(n + 2 <= n)
  OBVIOUS
<1>5. (s \o e)[n + 1] = a /\ (s \o e)[n + 2] = b
  BY <1>1, <1>3, <1>4
<1>6. \A i \in 1..n : i \in 1..(n + 2) /\ i <= n
  OBVIOUS
<1>7. \A i \in 1..n : (s \o e)[i] = s[i]
  BY <1>3, <1>6
<1> QED BY <1>2, <1>3, <1>5, <1>7 DEF e

\* The length of an ending.
LEMMA EndingIs ==
  ASSUME NEW g \in Nat, NEW a \in DgCells, NEW b \in DgCells
  PROVE  Ending(g, a, b) \in Seq(DgCells) /\ Len(Ending(g, a, b)) = g + 3
<1> DEFINE u == <<Pad>> \o Zeros(g)
<1>1. u \in Seq(DgCells) /\ Len(u) = g + 1
  BY PadZeros
<1> HIDE DEF u
<1>2. u \o <<a, b>> \in Seq(DgCells) /\ Len(u \o <<a, b>>) = Len(u) + 2
  BY <1>1, EndsWith
<1>3. Len(u) + 2 = g + 3
  BY <1>1
<1> QED BY <1>2, <1>3 DEF Ending, u

\* A closed message is the message joined with its ending.
LEMMA ClosedIs ==
  ASSUME NEW t \in Seq(DgCells), NEW g \in Nat, NEW a \in DgCells, NEW b \in DgCells
  PROVE  /\ Ending(g, a, b) \in Seq(DgCells) /\ Len(Ending(g, a, b)) = g + 3
         /\ Closed(t, g, a, b) = t \o Ending(g, a, b)
         /\ Closed(t, g, a, b) \in Seq(DgCells) /\ Len(Closed(t, g, a, b)) = Len(t) + g + 3
<1> DEFINE P == <<Pad>>
           Z == Zeros(g)
           C == <<a, b>>
           T == P \o Z
<1>1. T \in Seq(DgCells) /\ Len(T) = g + 1
  BY PadZeros
<1>2. Ending(g, a, b) = T \o C
  BY DEF Ending
<1>3. Closed(t, g, a, b) = ((t \o P) \o Z) \o C
  BY DEF Closed
<1>4. P \in Seq(DgCells) /\ C \in Seq(DgCells) /\ Z \in Seq(DgCells) /\ Len(C) = 2
  BY CellsAre, ZerosAre
<1> HIDE DEF P, Z, C
<1>5. (t \o P) \o Z = t \o (P \o Z)
  BY <1>4, JoinsAlike, SMTT(60)
<1> HIDE DEF T
<1>6. (t \o T) \o C = t \o (T \o C)
  BY <1>1, <1>4, JoinsAlike, SMTT(60)
<1>7. T \o C \in Seq(DgCells) /\ Len(T \o C) = g + 3
  <2>1. Lengths(DgCells, T, g + 1, C, 2, g + 3)
    BY <1>1, <1>4 DEF Lengths
  <2> QED BY <2>1, JoinedCells DEF Both
<1> DEFINE V == T \o C
<1> HIDE DEF V
<1>8. t \o V \in Seq(DgCells) /\ Len(t \o V) = Len(t) + (g + 3) /\ Len(t) \in Nat
  <2>1. Lengths(DgCells, t, Len(t), V, g + 3, Len(t) + (g + 3)) /\ Len(t) \in Nat
    BY <1>7 DEF Lengths, V
  <2> QED BY <2>1, JoinedCells DEF Both
<1>9. Closed(t, g, a, b) = t \o V /\ Ending(g, a, b) = V
  BY <1>2, <1>3, <1>5, <1>6 DEF T, V
<1>10. Len(t) + (g + 3) = Len(t) + g + 3
  BY <1>8
<1> QED BY <1>7, <1>8, <1>9, <1>10 DEF V

\* An ending by its places.
LEMMA TailElements ==
  ASSUME NEW g \in Nat, NEW a \in DgCells, NEW b \in DgCells
  PROVE  \A i \in 1..(g + 3) : Ending(g, a, b)[i] = IF i = 1 THEN Pad ELSE IF i <= g + 1 THEN ZeroByte ELSE IF i = g + 2 THEN a ELSE b
<1> DEFINE u == <<Pad>> \o Zeros(g)
           v == u \o <<a, b>>
<1>1. u \in Seq(DgCells) /\ Len(u) = g + 1 /\ \A i \in 1..(g + 1) : u[i] = IF i = 1 THEN Pad ELSE ZeroByte
  BY PadZeros
<1> HIDE DEF u
<1>2. /\ \A i \in 1..Len(u) : v[i] = u[i]
      /\ v[Len(u) + 1] = a /\ v[Len(u) + 2] = b
  BY <1>1, EndsWith
<1>3. Ending(g, a, b) = v
  BY DEF Ending, u
<1> HIDE DEF v
<1>4. ASSUME NEW i \in 1..(g + 3)
      PROVE  v[i] = IF i = 1 THEN Pad ELSE IF i <= g + 1 THEN ZeroByte ELSE IF i = g + 2 THEN a ELSE b
  <2>1. CASE i <= g + 1
    <3>1. i \in 1..(g + 1) /\ i \in 1..Len(u)
      BY <1>1, <2>1
    <3>2. v[i] = IF i = 1 THEN Pad ELSE ZeroByte
      BY <1>1, <1>2, <3>1
    <3> QED BY <2>1, <3>2
  <2>2. CASE i = g + 2
    <3>1. i = Len(u) + 1 /\ ~(i = 1) /\ ~(i <= g + 1)
      BY <1>1, <2>2
    <3> QED BY <1>2, <2>2, <3>1
  <2>3. CASE i = g + 3
    <3>1. i = Len(u) + 2 /\ ~(i = 1) /\ ~(i <= g + 1) /\ ~(i = g + 2)
      BY <1>1, <2>3
    <3> QED BY <1>2, <3>1
  <2> QED BY <2>1, <2>2, <2>3
<1> QED BY <1>3, <1>4

\* The block behind q blocks.
LEMMA StartNext ==
  ASSUME NEW q \in Nat
  PROVE  Start(q + 1) = Start(q) + DgBlock /\ Start(q) \in Nat /\ DgBlock \in Nat /\ DgBlock > 2 /\ DgLen = 2
<1>1. 1 \in Nat
  OBVIOUS
<1>2. Start(q + 1) = Start(q) + Start(1) /\ Start(q) \in Nat
  BY <1>1, Starts
<1>3. Start(1) = DgBlock
  BY Starts
<1> QED BY <1>2, <1>3, DgAssumption

\* The least padding is the padding that fills the last block.
LEMMA FreeIs ==
  ASSUME NEW n \in Nat, NEW g \in Nat, g < DgBlock, NEW m, m = n + 3 + g, NEW x, Blocks(m, x, 0)
  PROVE  (DgBlock - ((n + 1 + DgLen) % DgBlock)) % DgBlock = g
<1>1. DgBlock \in Nat /\ DgBlock > 2 /\ DgLen = 2
  BY DgAssumption
<1>2. PICK a \in Nat : a = n + 3
  OBVIOUS
<1>3. PICK z \in Nat, y \in Nat : Blocks(a, z, y)
  BY <1>2, InBlocks
<1>4. a % DgBlock = y /\ y < DgBlock /\ a = Start(z) + y /\ Start(z) \in Nat
  <2>1. a % DgBlock = y
    BY <1>3, BlocksDivide
  <2>2. Start(z) \in Nat
    BY Starts
  <2> QED BY <1>3, <2>1, <2>2 DEF Blocks
<1>5. n + 1 + DgLen = a
  BY <1>1, <1>2
<1>6. Start(z + 1) = Start(z) + DgBlock /\ z + 1 \in Nat
  BY StartNext
<1>7. Start(1) = DgBlock /\ Start(0) = 0
  BY Starts
<1>8. CASE y = 0
  <2>1. Blocks(m, z, g)
    BY <1>1, <1>2, <1>3, <1>4, <1>8 DEF Blocks
  <2>2. g = 0
    BY <2>1, BlocksOnce
  <2>3. Blocks(DgBlock, 1, 0)
    BY <1>1, <1>7 DEF Blocks
  <2>4. DgBlock % DgBlock = 0
    BY <2>3, BlocksDivide
  <2>5. DgBlock - (a % DgBlock) = DgBlock
    BY <1>1, <1>4, <1>8
  <2> QED BY <1>5, <2>2, <2>4, <2>5
<1>9. CASE y > 0
  <2>1. PICK f \in Nat : f = DgBlock - y /\ f < DgBlock
    <3>1. DgBlock - y \in Nat /\ DgBlock - y < DgBlock
      BY <1>1, <1>4, <1>9
    <3> QED BY <3>1
  <2>2. Blocks(f, 0, f)
    BY <1>1, <1>7, <2>1 DEF Blocks
  <2>3. f % DgBlock = f
    BY <2>2, BlocksDivide
  <2>4. g = f
    <3>1. CASE g < f
      <4>1. PICK w \in Nat : w = y + g
        OBVIOUS
      <4>2. w < DgBlock /\ m = Start(z) + w /\ w > 0
        BY <1>1, <1>2, <1>4, <1>9, <2>1, <3>1, <4>1
      <4>3. Blocks(m, z, w)
        BY <4>2 DEF Blocks
      <4> QED BY <4>2, <4>3, BlocksOnce
    <3>2. CASE g >= f
      <4>1. PICK w \in Nat : w = y + g - DgBlock
        <5>1. y + g - DgBlock \in Nat
          BY <1>1, <2>1, <3>2
        <5> QED BY <5>1
      <4>2. w < DgBlock /\ m = Start(z + 1) + w
        BY <1>1, <1>2, <1>4, <1>6, <4>1
      <4>3. Blocks(m, z + 1, w)
        BY <1>6, <4>2 DEF Blocks
      <4>4. w = 0
        BY <4>3, BlocksOnce
      <4> QED BY <1>1, <2>1, <4>1, <4>4
    <3> QED BY <2>1, <3>1, <3>2
  <2>5. DgBlock - (a % DgBlock) = f
    BY <1>4, <2>1
  <2> QED BY <1>5, <2>3, <2>4, <2>5
<1> QED BY <1>8, <1>9

\* The blocks of the closed message.
LEMMA FinalIs ==
  ASSUME NEW n \in Nat, NEW g \in Nat, g < DgBlock, NEW a \in DgCells, NEW b \in DgCells,
         NEW w, NEW in, NEW x, Held(DgCells, w, in, Closed(Message(n), g, a, b), x, 0)
  PROVE  w = PaddedMessage(n, <<a, b>>)
<1> DEFINE t == Message(n)
<1>1. t \in Seq(DgCells) /\ Len(t) = n
  BY Messages
<1> HIDE DEF t
<1>2. Len(Closed(t, g, a, b)) = n + g + 3
  BY <1>1, ClosedIs, ZenonT(60)
<1>3. Blocks(n + g + 3, x, 0)
  BY <1>2 DEF Held, t
<1>4. PICK m \in Nat : m = n + 3 + g
  OBVIOUS
<1>5. n + g + 3 = m
  BY <1>4
<1>6. (DgBlock - ((n + 1 + DgLen) % DgBlock)) % DgBlock = g
  BY <1>3, <1>4, <1>5, FreeIs
<1>7. w = Whole(Closed(t, g, a, b))
  BY HeldIsCut DEF t
<1>8. PaddedMessage(n, <<a, b>>) = Whole(t \o <<Pad>> \o Zeros(g) \o <<a, b>>)
  BY <1>6 DEF PaddedMessage, Message, t
<1> QED BY <1>7, <1>8 DEF Closed

\* Behind r bytes there is room for the padding byte and this much, the count with g zeros.
Fits(r, g, room) == r + g + 3 = DgBlock /\ room = g + 2

\* The buffer with padding, and the count over its end, is the buffer with the tail.
LEMMA TailLaid ==
  ASSUME NEW in \in Seq(DgCells), Len(in) = DgBlock, NEW r \in Nat, NEW g \in Nat, NEW room, Fits(r, g, room),
         NEW a \in DgCells, NEW b \in DgCells
  PROVE  Laid(Laid(in, r, <<Pad>> \o Zeros(room)), DgBlock - DgLen, <<a, b>>) = Laid(in, r, Ending(g, a, b))
<1>1. DgBlock \in Nat /\ DgBlock > 2 /\ DgLen = 2 /\ room \in Nat /\ r + g + 3 = DgBlock /\ room = g + 2
  BY DgAssumption DEF Fits
<1> DEFINE s == <<Pad>> \o Zeros(room)
           full == Laid(in, r, s)
           e == <<a, b>>
           y == Ending(g, a, b)
<1>2. s \in Seq(DgCells) /\ Len(s) = room + 1 /\ \A i \in 1..(room + 1) : s[i] = IF i = 1 THEN Pad ELSE ZeroByte
  BY <1>1, PadZeros
<1> HIDE DEF s
<1>3. e \in Seq(DgCells) /\ Len(e) = 2 /\ e[1] = a /\ e[2] = b
  OBVIOUS
<1> HIDE DEF e
<1>4. y \in Seq(DgCells) /\ Len(y) = g + 3
  <2>1. Ending(g, a, b) \in Seq(DgCells) /\ Len(Ending(g, a, b)) = g + 3
    BY EndingIs
  <2> QED BY <2>1
<1>5. \A i \in 1..(g + 3) : y[i] = IF i = 1 THEN Pad ELSE IF i <= g + 1 THEN ZeroByte ELSE IF i = g + 2 THEN a ELSE b
  BY TailElements
<1> HIDE DEF y
<1>6. PICK d \in Nat : d = DgBlock - DgLen /\ d + 2 = DgBlock /\ d = r + g + 1
  <2>1. DgBlock - DgLen \in Nat /\ (DgBlock - DgLen) + 2 = DgBlock /\ DgBlock - DgLen = r + g + 1
    BY <1>1
  <2> QED BY <2>1
<1>7. /\ full \in Seq(DgCells) /\ Len(full) = Len(in)
      /\ \A i \in 1..Len(in) : full[i] = IF r < i /\ i <= r + Len(s) THEN s[i - r] ELSE in[i]
  BY <1>2, LaidIs
<1> HIDE DEF full
<1>8. /\ Laid(full, d, e) \in Seq(DgCells) /\ Len(Laid(full, d, e)) = Len(full)
      /\ \A i \in 1..Len(full) : Laid(full, d, e)[i] = IF d < i /\ i <= d + Len(e) THEN e[i - d] ELSE full[i]
  BY <1>3, <1>7, LaidIs, ZenonT(60)
<1>9. /\ Laid(in, r, y) \in Seq(DgCells) /\ Len(Laid(in, r, y)) = Len(in)
      /\ \A i \in 1..Len(in) : Laid(in, r, y)[i] = IF r < i /\ i <= r + Len(y) THEN y[i - r] ELSE in[i]
  BY <1>4, LaidIs
<1> DEFINE u == Laid(full, d, e)
           v == Laid(in, r, y)
<1> HIDE DEF u, v
<1>10. ASSUME NEW i \in 1..DgBlock
       PROVE  u[i] = v[i]
  <2>1. i \in 1..Len(in) /\ i \in 1..Len(full) /\ i \in Nat
    BY <1>1, <1>7
  <2>2. CASE i <= r
    <3>1. ~(d < i) /\ ~(r < i)
      BY <1>6, <2>1, <2>2
    <3> QED BY <1>7, <1>8, <1>9, <2>1, <3>1 DEF u, v
  <2>3. CASE r < i /\ i <= d
    <3>1. PICK j \in 1..(g + 1) : j = i - r
      <4>1. i - r \in 1..(g + 1)
        BY <1>6, <2>1, <2>3
      <4> QED BY <4>1
    <3>2. i <= r + Len(s) /\ i <= r + Len(y) /\ ~(d < i) /\ j \in 1..(room + 1) /\ j \in 1..(g + 3)
      BY <1>1, <1>2, <1>4, <1>6, <2>1, <2>3
    <3>3. u[i] = s[j]
      BY <1>7, <1>8, <2>1, <2>3, <3>1, <3>2 DEF u
    <3>4. v[i] = y[j]
      BY <1>9, <2>1, <2>3, <3>1, <3>2 DEF v
    <3>5. s[j] = y[j]
      <4>1. s[j] = IF j = 1 THEN Pad ELSE ZeroByte
        BY <1>2, <3>2
      <4>2. j <= g + 1
        OBVIOUS
      <4> QED BY <1>5, <3>2, <4>1, <4>2
    <3> QED BY <3>3, <3>4, <3>5
  <2>4. CASE d < i
    <3>1. i <= d + Len(e) /\ r < i /\ i <= r + Len(y)
      BY <1>1, <1>3, <1>4, <1>6, <2>1, <2>4
    <3>2. u[i] = e[i - d]
      BY <1>8, <2>1, <2>4, <3>1 DEF u
    <3>3. PICK j \in 1..(g + 3) : j = i - r
      <4>1. i - r \in 1..(g + 3)
        BY <1>1, <2>1, <3>1, <1>4
      <4> QED BY <4>1
    <3>4. v[i] = y[j]
      BY <1>9, <2>1, <3>1, <3>3 DEF v
    <3>5. CASE i = d + 1
      <4>1. i - d = 1 /\ j = g + 2 /\ ~(j = 1) /\ ~(j <= g + 1)
        BY <1>6, <3>3, <3>5
      <4> QED BY <1>3, <1>5, <3>2, <3>4, <4>1
    <3>6. CASE i = d + 2
      <4>1. i - d = 2 /\ j = g + 3 /\ ~(j = 1) /\ ~(j <= g + 1) /\ ~(j = g + 2)
        BY <1>6, <3>3, <3>6
      <4> QED BY <1>3, <1>5, <3>2, <3>4, <4>1
    <3>7. i = d + 1 \/ i = d + 2
      BY <1>6, <2>1, <2>4
    <3> QED BY <3>5, <3>6, <3>7
  <2> QED BY <1>6, <2>1, <2>2, <2>3, <2>4
<1>11. u \in Seq(DgCells) /\ v \in Seq(DgCells) /\ Len(u) = DgBlock /\ Len(v) = DgBlock
  BY <1>7, <1>8, <1>9 DEF u, v
<1>12. u = v
  BY <1>10, <1>11, SameElements
<1> QED BY <1>6, <1>12 DEF u, v, full, s, e, y

\* The zeros of two blocks.
Sums(g, k, m) == g = k + m

\* The tail that goes into a block more: the count behind zeros.
LEMMA TailSplit ==
  ASSUME NEW k \in Nat, NEW g \in Nat, NEW m \in Nat, Sums(g, k, m), NEW a \in DgCells, NEW b \in DgCells
  PROVE  (<<Pad>> \o Zeros(k)) \o (Zeros(m) \o <<a, b>>) = Ending(g, a, b)
<1>0. g = k + m
  BY DEF Sums
<1> DEFINE s == <<Pad>> \o Zeros(k)
           z == Zeros(m)
           y == z \o <<a, b>>
           w == Ending(g, a, b)
<1>1. s \in Seq(DgCells) /\ Len(s) = k + 1 /\ \A i \in 1..(k + 1) : s[i] = IF i = 1 THEN Pad ELSE ZeroByte
  BY PadZeros
<1> HIDE DEF s
<1>2. z \in Seq(DgCells) /\ Len(z) = m /\ \A i \in 1..m : z[i] = ZeroByte
  BY ZerosAre
<1> HIDE DEF z
<1>3. y \in Seq(DgCells) /\ Len(y) = m + 2 /\ (\A i \in 1..m : y[i] = ZeroByte) /\ y[m + 1] = a /\ y[m + 2] = b
  BY <1>2, EndsWith
<1> HIDE DEF y
<1>4. w \in Seq(DgCells) /\ Len(w) = g + 3
  <2>1. Ending(g, a, b) \in Seq(DgCells) /\ Len(Ending(g, a, b)) = g + 3
    BY EndingIs
  <2> QED BY <1>0, <2>1
<1>5. \A i \in 1..(g + 3) : w[i] = IF i = 1 THEN Pad ELSE IF i <= g + 1 THEN ZeroByte ELSE IF i = g + 2 THEN a ELSE b
  BY TailElements
<1> HIDE DEF w
<1> DEFINE v == s \o y
<1>6. v \in Seq(DgCells) /\ Len(v) = g + 3 /\ \A i \in 1..(g + 3) : v[i] = IF i <= k + 1 THEN s[i] ELSE y[i - (k + 1)]
  <2>1. Lengths(DgCells, s, k + 1, y, m + 2, g + 3)
    BY <1>0, <1>1, <1>3 DEF Lengths
  <2>2. Both(DgCells, s \o y, s, k + 1, y, g + 3)
    BY <2>1, JoinedCells
  <2> QED BY <2>2 DEF Both
<1> HIDE DEF v
<1>7. ASSUME NEW i \in 1..(g + 3)
      PROVE  v[i] = w[i]
  <2>1. CASE i <= k + 1
    <3>1. i \in 1..(k + 1) /\ i <= g + 1
      BY <1>0, <2>1
    <3>2. v[i] = IF i = 1 THEN Pad ELSE ZeroByte
      BY <1>1, <1>6, <2>1, <3>1
    <3> QED BY <1>5, <3>1, <3>2
  <2>2. CASE ~(i <= k + 1)
    <3>1. PICK j \in 1..(m + 2) : j = i - (k + 1)
      <4>1. i - (k + 1) \in 1..(m + 2)
        BY <1>0, <2>2
      <4> QED BY <4>1
    <3>2. v[i] = y[j]
      BY <1>6, <2>2, <3>1
    <3>3. CASE j \in 1..m
      <4>1. ~(i = 1) /\ i <= g + 1
        BY <1>0, <2>2, <3>1, <3>3
      <4> QED BY <1>3, <1>5, <3>2, <3>3, <4>1
    <3>4. CASE j = m + 1
      <4>1. ~(i = 1) /\ ~(i <= g + 1) /\ i = g + 2
        BY <1>0, <2>2, <3>1, <3>4
      <4> QED BY <1>3, <1>5, <3>2, <3>4, <4>1
    <3>5. CASE j = m + 2
      <4>1. ~(i = 1) /\ ~(i <= g + 1) /\ ~(i = g + 2)
        BY <1>0, <2>2, <3>1, <3>5
      <4> QED BY <1>3, <1>5, <3>2, <3>5, <4>1
    <3>6. j \in 1..m \/ j = m + 1 \/ j = m + 2
      OBVIOUS
    <3> QED BY <3>3, <3>4, <3>5, <3>6
  <2> QED BY <2>1, <2>2
<1>8. v = w
  BY <1>4, <1>6, <1>7, SameElements
<1> QED BY <1>8 DEF v, w, s, y, z

\* The count over the end of a block of zeros.
LEMMA ZerosLaid ==
  ASSUME NEW m \in Nat, m + 2 = DgBlock, NEW a \in DgCells, NEW b \in DgCells
  PROVE  Laid(Zeros(DgBlock), DgBlock - DgLen, <<a, b>>) = Laid(Zeros(DgBlock), 0, Zeros(m) \o <<a, b>>)
<1>1. DgBlock \in Nat /\ DgBlock > 2 /\ DgLen = 2
  BY DgAssumption
<1> DEFINE in == Zeros(DgBlock)
           e == <<a, b>>
           z == Zeros(m)
           y == z \o e
<1>2. in \in Seq(DgCells) /\ Len(in) = DgBlock /\ \A i \in 1..DgBlock : in[i] = ZeroByte
  BY <1>1, ZerosAre
<1> HIDE DEF in
<1>3. z \in Seq(DgCells) /\ Len(z) = m /\ \A i \in 1..m : z[i] = ZeroByte
  BY ZerosAre
<1> HIDE DEF z
<1>4. y \in Seq(DgCells) /\ Len(y) = m + 2 /\ (\A i \in 1..m : y[i] = ZeroByte) /\ y[m + 1] = a /\ y[m + 2] = b
  BY <1>3, EndsWith
<1>5. e \in Seq(DgCells) /\ Len(e) = 2 /\ e[1] = a /\ e[2] = b
  OBVIOUS
<1> HIDE DEF e, y
<1>6. DgBlock - DgLen = m
  BY <1>1
<1>7. PICK o \in Nat : o = 0
  OBVIOUS
<1>8. /\ Laid(in, m, e) \in Seq(DgCells) /\ Len(Laid(in, m, e)) = Len(in)
      /\ \A i \in 1..Len(in) : Laid(in, m, e)[i] = IF m < i /\ i <= m + Len(e) THEN e[i - m] ELSE in[i]
  BY <1>2, <1>5, LaidIs
<1>9. /\ Laid(in, o, y) \in Seq(DgCells) /\ Len(Laid(in, o, y)) = Len(in)
      /\ \A i \in 1..Len(in) : Laid(in, o, y)[i] = IF o < i /\ i <= o + Len(y) THEN y[i - o] ELSE in[i]
  BY <1>2, <1>4, LaidIs
<1> DEFINE u == Laid(in, m, e)
           v == Laid(in, o, y)
<1> HIDE DEF u, v
<1>10. ASSUME NEW i \in 1..DgBlock
       PROVE  u[i] = v[i]
  <2>1. i \in 1..Len(in) /\ i \in Nat /\ o < i /\ i <= o + Len(y) /\ i - o = i
    BY <1>1, <1>2, <1>4, <1>7
  <2>2. v[i] = y[i]
    BY <1>9, <2>1 DEF v
  <2>3. CASE i <= m
    <3>1. ~(m < i) /\ i \in 1..m
      BY <2>1, <2>3
    <3> QED BY <1>2, <1>4, <1>8, <2>1, <2>2, <3>1 DEF u
  <2>4. CASE i = m + 1
    <3>1. m < i /\ i <= m + Len(e) /\ i - m = 1
      BY <1>5, <2>4
    <3> QED BY <1>4, <1>5, <1>8, <2>1, <2>2, <2>4, <3>1 DEF u
  <2>5. CASE i = m + 2
    <3>1. m < i /\ i <= m + Len(e) /\ i - m = 2
      BY <1>5, <2>5
    <3> QED BY <1>4, <1>5, <1>8, <2>1, <2>2, <2>5, <3>1 DEF u
  <2>6. i <= m \/ i = m + 1 \/ i = m + 2
    OBVIOUS
  <2> QED BY <2>3, <2>4, <2>5, <2>6
<1>11. u \in Seq(DgCells) /\ v \in Seq(DgCells) /\ Len(u) = DgBlock /\ Len(v) = DgBlock
  BY <1>2, <1>8, <1>9 DEF u, v
<1>12. u = v
  BY <1>10, <1>11, SameElements
<1> QED BY <1>6, <1>7, <1>12 DEF u, v, in, e, y, z

\* The words of a count are cells.
LEMMA CountCells ==
  ASSUME NEW S, NEW c, IsContext(S, c)
  PROVE  CountByte(c.lo) \in DgCells /\ CountByte(c.hi) \in DgCells
<1>1. c.lo \in Nat /\ c.hi \in Nat
  BY DEF IsContext
<1> QED BY <1>1, CellsAre

\* ct_md5_final: the blocks are those of the padded message (md5.c:189-220).
LEMMA Md5Closes ==
  ASSUME NEW c, NEW n \in Nat, NEW q, NEW r, DgHolds(DgCells, c, Message(n), q, r)
  PROVE  Md5Final(c) = PaddedMessage(n, <<CountByte(c.lo), CountByte(c.hi)>>)
<1> DEFINE t == Message(n)
           in == c.in
           blocks == c.blocks
           room == DgBlock - 1 - r
           full == Laid(in, r, <<Pad>> \o Zeros(room))
<1>1. t \in Seq(DgCells) /\ Len(t) = n
  BY Messages
<1> HIDE DEF t
<1>2. IsContext(DgCells, c) /\ Held(DgCells, blocks, in, t, q, r)
  BY DEF DgHolds, t
<1>3. PICK none \in Seq(DgCells) : none = t
  BY <1>1
<1>4. Filled(c) = r /\ q \in Nat /\ r \in Nat /\ r < DgBlock
  BY <1>3, HoldsCounted
<1>5. DgBlock \in Nat /\ DgBlock > 2 /\ DgLen = 2
  BY DgAssumption
<1>6. PICK a \in DgCells, b \in DgCells : a = CountByte(c.lo) /\ b = CountByte(c.hi)
  BY <1>2, CountCells
<1>7. blocks \in Seq(Seq(DgCells)) /\ in \in Seq(DgCells) /\ Len(in) = DgBlock
  BY <1>2 DEF Held
<1> HIDE DEF in, blocks
<1>8. room \in Nat /\ r + (room + 1) = DgBlock
  BY <1>4, <1>5
<1> DEFINE s == <<Pad>> \o Zeros(room)
<1>9. s \in Seq(DgCells) /\ Len(s) = room + 1
  BY <1>8, PadZeros
<1>10. CASE ~(room < DgLen)
  <2>1. PICK g \in Nat : room = g + 2 /\ r + g + 3 = DgBlock /\ g < DgBlock
    <3>1. room - 2 \in Nat /\ room = (room - 2) + 2 /\ r + (room - 2) + 3 = DgBlock /\ room - 2 < DgBlock
      BY <1>4, <1>5, <1>8, <1>10
    <3> QED BY <3>1
  <2> DEFINE block == Laid(full, DgBlock - DgLen, <<a, b>>)
             y == Ending(g, a, b)
  <2> HIDE DEF room
  <2>2. block = Laid(in, r, y)
    <3>1. Fits(r, g, room)
      BY <2>1 DEF Fits
    <3> QED BY <1>4, <1>7, <3>1, TailLaid
  <2>3. y \in Seq(DgCells) /\ Len(y) = g + 3 /\ Closed(t, g, a, b) = t \o y
    <3>1. Ending(g, a, b) \in Seq(DgCells) /\ Len(Ending(g, a, b)) = g + 3
      BY EndingIs
    <3>2. Closed(t, g, a, b) = t \o Ending(g, a, b)
      BY <1>1, ClosedIs, ZenonT(60)
    <3> QED BY <3>1, <3>2
  <2> HIDE DEF y
  <2>4. r + Len(y) = DgBlock
    BY <1>4, <2>1, <2>3
  <2>5. Held(DgCells, Append(blocks, Laid(in, r, y)), in, t \o y, q + 1, 0)
    BY <1>2, <1>7, <2>3, <2>4, HeldFull
  <2>6. Held(DgCells, Append(blocks, Laid(in, r, y)), in, Closed(Message(n), g, a, b), q + 1, 0)
    BY <2>3, <2>5 DEF t
  <2>7. Append(blocks, Laid(in, r, y)) = PaddedMessage(n, <<a, b>>)
    BY <2>1, <2>6, FinalIs
  <2>8. Laid(in, r, y) \in Seq(DgCells)
    BY <1>4, <1>7, <2>3, LaidIs
  <2>9. Md5Final(c) = blocks \o <<>> \o <<block>>
    BY <1>4, <1>6, <1>10 DEF Md5Final, in, blocks, room
  <2>10. blocks \o <<>> \o <<block>> = Append(blocks, block)
    <3> HIDE DEF block
    <3>1. block \in Seq(DgCells)
      BY <2>2, <2>8
    <3> QED BY <1>7, <3>1
  <2> HIDE DEF block
  <2> QED BY <1>6, <2>2, <2>7, <2>9, <2>10
<1>11. CASE room < DgLen
  <2>1. PICK m \in Nat : m + 2 = DgBlock
    <3>1. DgBlock - 2 \in Nat /\ (DgBlock - 2) + 2 = DgBlock
      BY <1>5
    <3> QED BY <3>1
  <2> DEFINE zeros == Zeros(DgBlock)
             block == Laid(zeros, DgBlock - DgLen, <<a, b>>)
             y == Zeros(m) \o <<a, b>>
  <2>2. PICK g \in Nat : g = room + m /\ g < DgBlock
    <3>1. room + m \in Nat /\ room + m < DgBlock
      BY <1>5, <1>8, <1>11, <2>1
    <3> QED BY <3>1
  <2>3. Md5Final(c) = blocks \o <<full>> \o <<block>>
    BY <1>4, <1>6, <1>11 DEF Md5Final, in, blocks
  <2> HIDE DEF room
  <2>4. block = Laid(zeros, 0, y)
    BY <2>1, ZerosLaid
  <2>5. s \o y = Ending(g, a, b)
    <3>1. Sums(g, room, m) /\ room \in Nat
      BY <1>8, <2>2 DEF Sums
    <3> QED BY <3>1, TailSplit, SMTT(60)
  <2>6. y \in Seq(DgCells) /\ Len(y) = m + 2
    <3>1. Zeros(m) \in Seq(DgCells) /\ Len(Zeros(m)) = m
      BY ZerosAre
    <3> QED BY <3>1, EndsWith
  <2>7. zeros \in Seq(DgCells) /\ Len(zeros) = DgBlock
    BY <1>5, ZerosAre
  <2>8. Closed(t, g, a, b) = t \o Ending(g, a, b)
    BY <1>1, ClosedIs, ZenonT(60)
  <2> HIDE DEF y, zeros, s
  <2>9. full = Laid(in, r, s)
    BY DEF s
  <2>10. r + Len(s) = DgBlock
    BY <1>8, <1>9
  <2>11. Held(DgCells, Append(blocks, Laid(in, r, s)), zeros, t \o s, q + 1, 0)
    BY <1>2, <1>9, <2>7, <2>10, HeldFull
  <2>12. PICK p \in Nat, d \in Seq(Seq(DgCells)), v \in Seq(DgCells) : p = q + 1 /\ d = Append(blocks, full) /\ v = t \o s
    <3>1. q + 1 \in Nat
      BY <1>4
    <3>2. Append(blocks, full) \in Seq(Seq(DgCells)) /\ t \o s \in Seq(DgCells)
      BY <2>9, <2>11 DEF Held
    <3> QED BY <3>1, <3>2
  <2>13. Held(DgCells, d, zeros, v, p, 0)
    BY <2>9, <2>11, <2>12
  <2>14. PICK o \in Nat : o = 0 /\ o + Len(y) = DgBlock
    BY <2>1, <2>6
  <2>15. Held(DgCells, d, zeros, v, p, o)
    BY <2>13, <2>14
  <2>16. Held(DgCells, Append(d, Laid(zeros, o, y)), zeros, v \o y, p + 1, 0)
    BY <2>6, <2>7, <2>14, <2>15, HeldFull
  <2>17. v \o y = Closed(t, g, a, b)
    <3>1. (t \o s) \o y = t \o (s \o y)
      BY <1>1, <1>9, <2>6, JoinsAlike, SMTT(60)
    <3> QED BY <2>5, <2>8, <2>12, <3>1
  <2>18. Held(DgCells, Append(d, Laid(zeros, o, y)), zeros, Closed(Message(n), g, a, b), p + 1, 0)
    BY <2>16, <2>17 DEF t
  <2>19. Append(d, Laid(zeros, o, y)) = PaddedMessage(n, <<a, b>>)
    BY <2>2, <2>18, FinalIs
  <2>20. full \in Seq(DgCells) /\ block \in Seq(DgCells)
    <3>1. Laid(in, r, s) \in Seq(DgCells)
      BY <1>4, <1>7, <1>9, LaidIs
    <3>2. Laid(zeros, o, y) \in Seq(DgCells)
      BY <2>6, <2>7, LaidIs
    <3> QED BY <2>4, <2>9, <2>14, <3>1, <3>2
  <2> HIDE DEF full, block
  <2>21. blocks \o <<full>> \o <<block>> = Append(Append(blocks, full), block)
    BY <1>7, <2>20, SMTT(60)
  <2> QED BY <1>6, <2>3, <2>4, <2>12, <2>14, <2>19, <2>21
<1> QED BY <1>10, <1>11

\* The remainder of a number just below zero.
LEMMA BelowZero ==
  ASSUME NEW a \in Int, NEW b \in Nat, a < 0, b + a >= 0
  PROVE  a % b = b + a
<1>1. b > 0
  OBVIOUS
<1>2. PICK q \in Int : q = a \div b
  BY <1>1
<1>3. PICK r \in Int : r = a % b
  BY <1>1
<1>4. a = b * q + r /\ 0 <= r /\ r < b
  BY <1>1, <1>2, <1>3
<1>5. q = -1
  <2>1. CASE q >= 0
    <3>1. b * q >= 0
      BY <1>1, <2>1
    <3> QED BY <1>4, <3>1
  <2>2. CASE q <= -2
    <3>1. b * q <= -b - b
      BY <1>1, <2>2
    <3> QED BY <1>4, <3>1
  <2> QED BY <2>1, <2>2
<1>6. b * q = -b
  BY <1>5
<1> QED BY <1>3, <1>4, <1>6

\* Feeding byte by byte, as far as n.
FedTo(f, c, s, n) == f = [k \in 0..n |-> IF k = 0 THEN c ELSE Sha1Update(f[k - 1], <<s[k]>>)]

\* The bytes can be fed, however many.
LEMMA FedExists ==
  ASSUME NEW c, NEW s, NEW n \in Nat
  PROVE  \E f : FedTo(f, c, s, n)
<1> DEFINE P == {m \in Nat : \E f : FedTo(f, c, s, m)}
<1>1. 0 \in P
  <2> DEFINE f == [k \in 0..0 |-> c]
  <2>1. f = [k \in 0..0 |-> IF k = 0 THEN c ELSE Sha1Update(f[k - 1], <<s[k]>>)]
    <3>1. \A k \in 0..0 : k = 0
      OBVIOUS
    <3> QED BY <3>1
  <2> HIDE DEF f
  <2>2. FedTo(f, c, s, 0)
    BY <2>1 DEF FedTo
  <2> QED BY <2>2
<1>2. ASSUME NEW m \in P
      PROVE  m + 1 \in P
  <2>1. PICK f : FedTo(f, c, s, m)
    OBVIOUS
  <2>2. PICK z \in Nat : z = m + 1
    OBVIOUS
  <2> DEFINE h == [k \in 0..z |-> IF k <= m THEN f[k] ELSE Sha1Update(f[m], <<s[z]>>)]
  <2>3. f = [k \in 0..m |-> IF k = 0 THEN c ELSE Sha1Update(f[k - 1], <<s[k]>>)]
    BY <2>1 DEF FedTo
  <2>4. \A k \in 0..m : f[k] = IF k = 0 THEN c ELSE Sha1Update(f[k - 1], <<s[k]>>)
    BY <2>3
  <2>5. \A k \in 0..m : h[k] = f[k]
    <3>1. \A k \in 0..m : k \in 0..z /\ k <= m
      BY <2>2
    <3> QED BY <3>1
  <2>6. h[z] = Sha1Update(f[m], <<s[z]>>)
    <3>1. z \in 0..z /\ ~(z <= m)
      BY <2>2
    <3> QED BY <3>1
  <2>7. DOMAIN h = 0..z /\ h = [k \in 0..z |-> h[k]]
    OBVIOUS
  <2> HIDE DEF h
  <2>8. ASSUME NEW k \in 0..z
        PROVE  h[k] = IF k = 0 THEN c ELSE Sha1Update(h[k - 1], <<s[k]>>)
    <3>1. CASE k = 0
      <4>1. k \in 0..m
        BY <3>1
      <4> QED BY <2>4, <2>5, <3>1, <4>1
    <3>2. CASE k # 0 /\ k <= m
      <4>1. k \in 0..m /\ k - 1 \in 0..m
        BY <3>2
      <4> QED BY <2>4, <2>5, <3>2, <4>1
    <3>3. CASE k = z
      <4>1. k # 0 /\ k - 1 = m /\ m \in 0..m
        BY <2>2, <3>3
      <4> QED BY <2>5, <2>6, <3>3, <4>1
    <3> QED BY <2>2, <3>1, <3>2, <3>3
  <2>9. FedTo(h, c, s, z)
    BY <2>7, <2>8 DEF FedTo
  <2> QED BY <2>2, <2>9
<1>3. P = Nat
  BY <1>1, <1>2, AllNumbers
<1> QED BY <1>3

\* The padding of ct_sha1_final is fed byte by byte.
LEMMA Sha1Unfolds ==
  ASSUME NEW c, NEW s, s = <<Pad>> \o Zeros((DgBlock - DgLen - 1 - Filled(c)) % DgBlock), Len(s) \in Nat
  PROVE  \E f : FedTo(f, c, s, Len(s)) /\ Sha1Final(c) = Sha1Update(f[Len(s)], <<CountByte(c.hi), CountByte(c.lo)>>).blocks
<1> DEFINE f == CHOOSE f : FedTo(f, c, s, Len(s))
<1>1. \E g : FedTo(g, c, s, Len(s))
  BY FedExists
<1>2. FedTo(f, c, s, Len(s))
  BY <1>1
<1>3. Sha1Final(c) = Sha1Update(f[Len(s)], <<CountByte(c.hi), CountByte(c.lo)>>).blocks
  BY DEF Sha1Final, FedTo
<1> QED BY <1>2, <1>3

\* What was fed byte by byte is held.
LEMMA FedHolds ==
  ASSUME NEW c, NEW t, NEW q0, NEW r0, DgHolds(DgCells, c, t, q0, r0), NEW s \in Seq(DgCells), NEW f, FedTo(f, c, s, Len(s))
  PROVE  \E q \in Nat, r \in Nat : DgHolds(DgCells, f[Len(s)], t \o s, q, r)
<1> DEFINE P == {m \in Nat : m <= Len(s) => \E q \in Nat, r \in Nat : DgHolds(DgCells, f[m], t \o SubSeq(s, 1, m), q, r)}
<1>1. PICK n \in Nat : n = Len(s)
  OBVIOUS
<1>2. t \in Seq(DgCells) /\ q0 \in Nat /\ r0 \in Nat
  BY DEF DgHolds, Held, Blocks
<1>3. \A k \in 0..n : f[k] = IF k = 0 THEN c ELSE Sha1Update(f[k - 1], <<s[k]>>)
  <2>1. f = [k \in 0..n |-> IF k = 0 THEN c ELSE Sha1Update(f[k - 1], <<s[k]>>)]
    BY <1>1 DEF FedTo
  <2> QED BY <2>1
<1>4. 0 \in P
  <2>1. SubSeq(s, 1, 0) = <<>>
    OBVIOUS
  <2>2. t \o <<>> = t
    BY <1>2, JoinNothing
  <2>3. 0 \in 0..n
    OBVIOUS
  <2>4. f[0] = c
    BY <1>3, <2>3
  <2> QED BY <1>2, <2>1, <2>2, <2>4
<1>5. ASSUME NEW m \in P
      PROVE  m + 1 \in P
  <2>1. PICK z \in Nat : z = m + 1 /\ m = z - 1
    OBVIOUS
  <2>2. SUFFICES ASSUME z <= Len(s)
                 PROVE  \E q \in Nat, r \in Nat : DgHolds(DgCells, f[z], t \o SubSeq(s, 1, z), q, r)
    BY <2>1
  <2>3. m <= Len(s) /\ z \in 0..n /\ z \in 1..Len(s) /\ z # 0 /\ m \in Nat
    BY <1>1, <2>1, <2>2
  <2> DEFINE a == SubSeq(s, 1, m)
             x == <<s[z]>>
  <2>4. PICK q \in Nat, r \in Nat : DgHolds(DgCells, f[m], t \o a, q, r)
    BY <2>3
  <2>5. x \in Seq(DgCells)
    BY <2>3
  <2>6. a \in Seq(DgCells)
    BY <2>3, SplitAt
  <2>7. a \o x = SubSeq(s, 1, z)
    BY <2>1, <2>3
  <2> HIDE DEF a, x
  <2>8. \E p \in Nat, e \in Nat : DgHolds(DgCells, Sha1Update(f[m], x), (t \o a) \o x, p, e)
    BY <2>4, <2>5, Sha1Goes
  <2>9. (t \o a) \o x = t \o (a \o x)
    BY <1>2, <2>5, <2>6, JoinsAlike, SMTT(60)
  <2>10. f[z] = Sha1Update(f[m], x)
    BY <1>3, <2>1, <2>3 DEF x
  <2> QED BY <2>7, <2>8, <2>9, <2>10
<1>6. P = Nat
  BY <1>4, <1>5, AllNumbers
<1>7. \E q \in Nat, r \in Nat : DgHolds(DgCells, f[n], t \o SubSeq(s, 1, n), q, r)
  BY <1>1, <1>6
<1>8. SubSeq(s, 1, n) = s
  BY <1>1
<1> QED BY <1>1, <1>7, <1>8

\* ct_sha1_final: the blocks are those of the padded message (sha1.c:197-214).
LEMMA Sha1Closes ==
  ASSUME NEW c, NEW n \in Nat, NEW q, NEW r, DgHolds(DgCells, c, Message(n), q, r)
  PROVE  Sha1Final(c) = PaddedMessage(n, <<CountByte(c.hi), CountByte(c.lo)>>)
<1> DEFINE t == Message(n)
           s == <<Pad>> \o Zeros((DgBlock - DgLen - 1 - Filled(c)) % DgBlock)
<1>1. t \in Seq(DgCells) /\ Len(t) = n
  BY Messages
<1> HIDE DEF t
<1>2. DgHolds(DgCells, c, t, q, r)
  BY DEF t
<1>3. Filled(c) = r /\ q \in Nat /\ r \in Nat /\ r < DgBlock
  BY <1>1, <1>2, HoldsCounted
<1>4. IsContext(DgCells, c) /\ n = Start(q) + r
  BY <1>1, <1>2 DEF DgHolds, Held, Blocks
<1>5. DgBlock \in Nat /\ DgBlock > 2 /\ DgLen = 2
  BY DgAssumption
<1>6. PICK b \in DgCells, a \in DgCells : b = CountByte(c.lo) /\ a = CountByte(c.hi)
  BY <1>4, CountCells
<1>7. PICK g \in Nat, d \in {1, 2} :
        /\ g = (DgBlock - DgLen - 1 - Filled(c)) % DgBlock /\ g < DgBlock
        /\ r + g + 3 = IF d = 1 THEN DgBlock ELSE DgBlock + DgBlock
  <2>1. PICK v \in Int : v = DgBlock - DgLen - 1 - Filled(c) /\ v = DgBlock - 3 - r
    <3>1. DgBlock - 3 - r \in Int /\ DgBlock - DgLen - 1 - Filled(c) = DgBlock - 3 - r
      BY <1>3, <1>5
    <3> QED BY <3>1
  <2>2. CASE v >= 0
    <3>1. v \in Nat /\ v < DgBlock
      BY <1>3, <1>5, <2>1, <2>2
    <3>2. Blocks(v, 0, v)
      BY <3>1, Starts DEF Blocks
    <3>3. v % DgBlock = v
      BY <3>2, BlocksDivide
    <3>4. r + v + 3 = DgBlock
      BY <1>3, <1>5, <2>1
    <3> QED BY <2>1, <3>1, <3>3, <3>4
  <2>3. CASE v < 0
    <3>1. DgBlock + v \in Nat /\ DgBlock + v >= 0 /\ DgBlock + v < DgBlock
      BY <1>3, <1>5, <2>1, <2>3
    <3>2. v % DgBlock = DgBlock + v
      BY <1>5, <2>3, <3>1, BelowZero
    <3>3. r + (DgBlock + v) + 3 = DgBlock + DgBlock
      BY <1>3, <1>5, <2>1
    <3>4. PICK g \in Nat : g = DgBlock + v
      BY <3>1
    <3> QED BY <2>1, <3>1, <3>2, <3>3, <3>4
  <2> QED BY <2>2, <2>3
<1>8. s = <<Pad>> \o Zeros(g)
  BY <1>7
<1>9. s \in Seq(DgCells) /\ Len(s) = g + 1
  BY <1>8, PadZeros
<1>10. PICK f : FedTo(f, c, s, Len(s)) /\ Sha1Final(c) = Sha1Update(f[Len(s)], <<CountByte(c.hi), CountByte(c.lo)>>).blocks
  <2>1. Len(s) \in Nat
    BY <1>9
  <2>2. s = <<Pad>> \o Zeros((DgBlock - DgLen - 1 - Filled(c)) % DgBlock)
    OBVIOUS
  <2> HIDE DEF s
  <2> QED BY <2>1, <2>2, Sha1Unfolds
<1> HIDE DEF s
<1>11. PICK p1 \in Nat, e1 \in Nat : DgHolds(DgCells, f[Len(s)], t \o s, p1, e1)
  BY <1>2, <1>9, <1>10, FedHolds
<1> DEFINE x == <<a, b>>
           v == Sha1Update(f[Len(s)], x)
<1>12. x \in Seq(DgCells)
  OBVIOUS
<1> HIDE DEF x
<1>13. PICK p \in Nat, e \in Nat : DgHolds(DgCells, v, (t \o s) \o x, p, e)
  BY <1>11, <1>12, Sha1Goes
<1>14. (t \o s) \o x = t \o (s \o x)
  BY <1>1, <1>9, <1>12, JoinsAlike
<1>15. s \o x = Ending(g, a, b)
  BY <1>8 DEF Ending, x
<1>16. Closed(t, g, a, b) = t \o Ending(g, a, b) /\ Len(Closed(t, g, a, b)) = Len(t) + g + 3
  BY <1>1, ClosedIs, ZenonT(60)
<1> HIDE DEF v
<1>17. Held(DgCells, v.blocks, v.in, Closed(t, g, a, b), p, e)
  BY <1>13, <1>14, <1>15, <1>16 DEF DgHolds
<1>18. Blocks(n + g + 3, p, e)
  BY <1>1, <1>16, <1>17 DEF Held
<1>19. e = 0
  <2>1. PICK y \in Nat : y = q + 1
    BY <1>3
  <2>2. Start(y) = Start(q) + DgBlock /\ Start(q) \in Nat
    BY <1>3, <2>1, StartNext
  <2>3. Start(y + 1) = Start(y) + DgBlock /\ y + 1 \in Nat
    BY <2>1, StartNext
  <2>4. CASE d = 1
    <3>1. n + g + 3 = Start(y) + 0
      BY <1>3, <1>4, <1>5, <1>7, <2>2, <2>4
    <3>2. Blocks(n + g + 3, y, 0)
      BY <1>5, <3>1 DEF Blocks
    <3> QED BY <1>18, <3>2, BlocksOnce
  <2>5. CASE d = 2
    <3>1. n + g + 3 = Start(y + 1) + 0
      BY <1>3, <1>4, <1>5, <1>7, <2>2, <2>3, <2>5
    <3>2. Blocks(n + g + 3, y + 1, 0)
      BY <1>5, <2>3, <3>1 DEF Blocks
    <3> QED BY <1>18, <3>2, BlocksOnce
  <2> QED BY <2>4, <2>5
<1>20. Held(DgCells, v.blocks, v.in, Closed(Message(n), g, a, b), p, 0)
  BY <1>17, <1>19 DEF t
<1>21. v.blocks = PaddedMessage(n, <<a, b>>)
  BY <1>7, <1>20, FinalIs
<1> QED BY <1>6, <1>10, <1>21 DEF v, x

-----------------------------------------------------------------------------
(* The digests. *)

\* Each context holds the message so far.
DgInv ==
  /\ dgFed \in Nat
  /\ \E q \in Nat, r \in Nat : DgHolds(DgCells, md5, Message(dgFed), q, r)
  /\ \E q \in Nat, r \in Nat : DgHolds(DgCells, sha1, Message(dgFed), q, r)

\* Both contexts hold the empty message first.
LEMMA DgInitInv == DgInit => DgInv
<1> SUFFICES ASSUME DgInit PROVE DgInv
  OBVIOUS
<1>1. DgHolds(DgCells, Context(ZeroByte), Message(0), 0, 0) /\ DgHolds(DgCells, Context(Garbage), Message(0), 0, 0)
  BY CellsAre, FreshHolds
<1> QED BY <1>1 DEF DgInit, DgInv

\* The invariant of the contexts is inductive.
LEMMA DgStep == DgInv /\ [DgNext]_dgVars => DgInv'
<1> SUFFICES ASSUME DgInv, [DgNext]_dgVars PROVE DgInv'
  OBVIOUS
<1>1. CASE UNCHANGED dgVars
  BY <1>1 DEF DgInv, dgVars
<1>2. CASE DgNext
  <2>1. PICK m \in 0..DgMax : DgUpdate(m)
    BY <1>2 DEF DgNext
  <2>2. m \in Nat
    BY DgAssumption
  <2> DEFINE s == [i \in 1..m |-> MsgByte(dgFed + i)]
  <2>3. dgFed' = dgFed + m /\ md5' = Md5Update(md5, s) /\ sha1' = Sha1Update(sha1, s)
    BY <2>1 DEF DgUpdate
  <2>4. dgFed \in Nat
    BY DEF DgInv
  <2>5. s \in Seq(DgCells) /\ Len(s) = m /\ Message(dgFed + m) = Message(dgFed) \o s
    BY <2>2, <2>4, MessageGoesOn
  <2> HIDE DEF s
  <2>6. \E q \in Nat, r \in Nat : DgHolds(DgCells, Md5Update(md5, s), Message(dgFed) \o s, q, r)
    BY <2>5, Md5Goes DEF DgInv
  <2>7. \E q \in Nat, r \in Nat : DgHolds(DgCells, Sha1Update(sha1, s), Message(dgFed) \o s, q, r)
    BY <2>5, Sha1Goes DEF DgInv
  <2>8. dgFed' \in Nat
    BY <2>2, <2>3, <2>4
  <2> QED BY <2>3, <2>5, <2>6, <2>7, <2>8 DEF DgInv
<1> QED BY <1>1, <1>2

\* What is closed from such contexts is the padded message.
LEMMA DgInvDigests == DgInv => DigestsWhole
<1> SUFFICES ASSUME DgInv PROVE DigestsWhole
  OBVIOUS
<1>1. PICK n \in Nat : n = dgFed
  BY DEF DgInv
<1>2. PICK q \in Nat, r \in Nat : DgHolds(DgCells, md5, Message(n), q, r)
  BY <1>1 DEF DgInv
<1>3. PICK p \in Nat, e \in Nat : DgHolds(DgCells, sha1, Message(n), p, e)
  BY <1>1 DEF DgInv
<1>4. Len(Message(n)) = n
  BY Messages
<1>5. md5.lo = (8 * n) % DgWord /\ md5.hi = ((8 * n) \div DgWord) % DgWord
  BY <1>2, <1>4 DEF DgHolds, Counts
<1>6. sha1.lo = (8 * n) % DgWord /\ sha1.hi = ((8 * n) \div DgWord) % DgWord
  BY <1>3, <1>4 DEF DgHolds, Counts
<1>7. Md5Final(md5) = PaddedMessage(n, <<CountByte(md5.lo), CountByte(md5.hi)>>)
  BY <1>2, Md5Closes
<1>8. Sha1Final(sha1) = PaddedMessage(n, <<CountByte(sha1.hi), CountByte(sha1.lo)>>)
  BY <1>3, Sha1Closes
<1> QED BY <1>1, <1>5, <1>6, <1>7, <1>8 DEF DigestsWhole

\* What is encoded, in one call or in chunks and whatever room there was, decodes to what
\* it was; what is digested, in chunks for which ct_sha1_update returns (each of less than
\* 4 GiB, or little more: sha1.c:178-187), is the whole message, padded, with its length in
\* both words, for every size of block and word (src/encoding, src/crypto,
\* strings.c:56-137).
THEOREM EncodingsKept == CdSpec /\ DgSpec => []EncodingsInvert
<1>1. CdInit => CdInv
  BY CdInitInv
<1>2. CdInv /\ [CdNext]_cdVars => CdInv'
  BY CdStep
<1>3. DgInit => DgInv
  BY DgInitInv
<1>4. DgInv /\ [DgNext]_dgVars => DgInv'
  BY DgStep
<1>5. CdInv /\ DgInv => EncodingsInvert
  BY CdInvEncodes, CdInvInverts, DgInvDigests DEF EncodingsInvert
<1> QED BY <1>1, <1>2, <1>3, <1>4, <1>5, PTL DEF CdSpec, DgSpec
=============================================================================
