------------------------------- MODULE Vector -------------------------------
(***************************************************************************)
(* The growing array of src/container/src/vector.c, and its two faces: the *)
(* typed vector of vector.h, which destroys the elements that leave it,    *)
(* and the untyped array of array.c, which does not.                       *)
(* An array is [mem, size]: mem is the storage, of cap_ cells.             *)
(***************************************************************************)
EXTENDS Integers, Sequences, SequencesExt

CONSTANTS VcIds,      \* elements, each with an identity
          VcLimit,    \* CT_VEC_MEMORY_MAX / elem_size
          VcMax       \* bound of the instance on the size and the capacity asked

Zero == "zero"        \* a cell of zero bytes: an element given by no data
Junk == "junk"        \* a cell of fresh storage

ASSUME VcAssumption ==
  VcLimit \in Nat /\ VcMax \in Nat /\ VcIds \intersect {Zero, Junk} = {}

VARIABLES vec,        \* the vector
          vcAlive,    \* constructed elements whose destructor has not run
          arr,        \* the array
          vcRef, arRef    \* history: what the two hold, as sequences

vcVars == <<vec, vcAlive, arr, vcRef, arRef>>

NoStorage == [mem |-> <<>>, size |-> 0]

VcInit ==
  /\ vec = NoStorage /\ arr = NoStorage
  /\ vcAlive = {}
  /\ vcRef = <<>> /\ arRef = <<>>

Failed(v) == [ok |-> FALSE, v |-> v]
Done(v) == [ok |-> TRUE, v |-> v]

\* The bits below the top one set, plus one: the least power of two that is enough.
RoundUp(n) ==
  LET enough == {p \in {2^k : k \in 0..n} : p >= n}
  IN  CHOOSE p \in enough : \A q \in enough : p <= q

\* The outcomes of ct_vector_impl_reserve; realloc may find no memory.
Reserved(v, n) ==
  IF n <= Len(v.mem) THEN {Done(v)}
  ELSE {Failed(v)} \union
       {Done([v EXCEPT !.mem = @ \o [i \in 1..(RoundUp(n) - Len(@)) |-> Junk]]) :
          x \in {m \in {n} : m <= VcLimit /\ RoundUp(m) <= VcLimit}}

Resized(v, n) ==
  {IF r.ok
   THEN Done([mem |-> [i \in DOMAIN r.v.mem |-> IF v.size < i /\ i <= n THEN Zero ELSE r.v.mem[i]],
              size |-> n])
   ELSE r : r \in Reserved(v, n)}

\* Index i counts from 0; the cells from i on move up by one.
InsertedAt(v, i, x) ==
  IF i > v.size THEN {Failed(v)}
  ELSE {IF r.ok
        THEN Done([mem |-> [k \in DOMAIN r.v.mem |->
                              IF k = i + 1 THEN x
                              ELSE IF i + 1 < k /\ k <= v.size + 1 THEN r.v.mem[k - 1]
                              ELSE r.v.mem[k]],
                   size |-> v.size + 1])
        ELSE r : r \in Reserved(v, v.size + 1)}

Erased(v, i) ==
  IF i >= v.size THEN Failed(v)
  ELSE Done([mem |-> [k \in DOMAIN v.mem |-> IF i < k /\ k < v.size THEN v.mem[k + 1] ELSE v.mem[k]],
             size |-> v.size - 1])

Shrunk(v) ==
  IF Len(v.mem) = v.size THEN {Done(v)}
  ELSE {Done([v EXCEPT !.mem = SubSeq(@, 1, v.size)])}
       \union {Failed(v) : x \in {n \in {v.size} : n > 0}}

Contents(v) == SubSeq(v.mem, 1, v.size)

\* The elements that DTOR is called on, which must be alive at that moment.
Destroyed(v, from, to) == {v.mem[i] : i \in from..to} \ {Zero}

\* The vector becomes r.v; when the call succeeded, ref is what it should hold.
VecBecomes(r, alive, ref) ==
  /\ vec' = r.v
  /\ vcAlive' = alive
  /\ vcRef' = IF r.ok THEN ref ELSE vcRef
  /\ UNCHANGED <<arr, arRef>>

VecReserve(n) == \E r \in Reserved(vec, n) : VecBecomes(r, vcAlive, vcRef)
VecShrink == \E r \in Shrunk(vec) : VecBecomes(r, vcAlive, vcRef)

\* The typed resize destroys what it cuts off.
VecResize(n) ==
  IF n <= vec.size
  THEN VecBecomes(Done([vec EXCEPT !.size = n]), vcAlive \ Destroyed(vec, n + 1, vec.size), SubSeq(vcRef, 1, n))
  ELSE \E r \in Resized(vec, n) : VecBecomes(r, vcAlive, vcRef \o [i \in 1..(n - Len(vcRef)) |-> Zero])

\* insert, and push at the end; no data stands for an element of zero bytes.
VecInsert(i, x) ==
  \E r \in InsertedAt(vec, i, x) :
     VecBecomes(r, IF r.ok THEN vcAlive \union ({x} \ {Zero}) ELSE vcAlive, InsertAt(vcRef, i + 1, x))

VecErase(i) ==
  /\ i < vec.size
  /\ VecBecomes(Erased(vec, i), vcAlive \ Destroyed(vec, i + 1, i + 1), RemoveAt(vcRef, i + 1))

VecPop ==
  /\ vec.size > 0
  /\ VecBecomes(Done([vec EXCEPT !.size = @ - 1]), vcAlive \ Destroyed(vec, vec.size, vec.size), Front(vcRef))

VecAssign(i, x) ==
  /\ i < vec.size
  /\ VecBecomes(Done([vec EXCEPT !.mem[i + 1] = x]), (vcAlive \ Destroyed(vec, i + 1, i + 1)) \union {x},
                [vcRef EXCEPT ![i + 1] = x])

VecClear ==
  VecBecomes(Done([vec EXCEPT !.size = 0]), vcAlive \ Destroyed(vec, 1, vec.size), <<>>)

VecDestroy ==
  VecBecomes(Done(NoStorage), vcAlive \ Destroyed(vec, 1, vec.size), <<>>)

ArrBecomes(r, ref) ==
  /\ arr' = r.v
  /\ arRef' = IF r.ok THEN ref ELSE arRef
  /\ UNCHANGED <<vec, vcAlive, vcRef>>

\* The functions of array.c, over the same helpers, with no destructor.
ArrNext ==
  \/ \E i \in 0..VcMax :
       \/ \E r \in Reserved(arr, i) \union Shrunk(arr) : ArrBecomes(r, arRef)
       \/ \E r \in Resized(arr, i) :
            ArrBecomes(r, IF i <= Len(arRef) THEN SubSeq(arRef, 1, i)
                          ELSE arRef \o [k \in 1..(i - Len(arRef)) |-> Zero])
       \/ \E x \in VcIds \union {Zero} : \E r \in InsertedAt(arr, i, x) :
            ArrBecomes(r, InsertAt(arRef, i + 1, x))
       \/ ArrBecomes(Erased(arr, i), RemoveAt(arRef, i + 1))
  \/ ArrBecomes(Done([arr EXCEPT !.size = 0]), <<>>)
  \/ ArrBecomes(Done(NoStorage), <<>>)

VecNext ==
  \/ \E n \in 0..VcMax : VecReserve(n) \/ VecResize(n)
  \/ VecShrink \/ VecPop \/ VecClear \/ VecDestroy
  \/ \E i \in 0..VcMax : VecErase(i) \/ \E x \in VcIds \ vcAlive : VecAssign(i, x)
  \/ \E i \in 0..VcMax, x \in (VcIds \ vcAlive) \union {Zero} : VecInsert(i, x)

VcNext == VecNext \/ ArrNext

VcSpec == VcInit /\ [][VcNext]_vcVars

-----------------------------------------------------------------------------
(* Properties. *)

\* The moves, growths and cuts keep the elements in order, show no fresh cell,
\* and run the destructor once on each element that leaves (vector.c, vector.h).
VectorIntact ==
  /\ Contents(vec) = vcRef /\ vec.size <= Len(vec.mem)
  /\ vcAlive = ToSet(vcRef) \ {Zero}
  /\ Contents(arr) = arRef /\ arr.size <= Len(arr.mem)
=============================================================================
