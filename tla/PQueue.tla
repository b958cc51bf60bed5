------------------------------- MODULE PQueue -------------------------------
(***************************************************************************)
(* The four-ary heap of src/container/src/pqueue.c, in an array.  pqAll is *)
(* the first size_ elements of all_; the element of index i of the code is *)
(* pqAll[i + 1].                                                           *)
(***************************************************************************)
EXTENDS Integers, Sequences, FiniteSets

CONSTANTS Prios,      \* elements: numbers, the smaller the more urgent
          PqBound     \* bound of the instance on the number of elements

ASSUME PqAssumption == Prios \subseteq Nat /\ PqBound \in Nat \ {0}

VARIABLES pqAll,      \* the elements of all_
          pqCap,      \* cap_
          pqDynamic,  \* is_dynamic_
          pqHeld      \* history: Prios -> copies pushed and not yet popped

pqVars == <<pqAll, pqCap, pqDynamic, pqHeld>>

PqInit ==
  /\ pqAll = <<>>
  /\ \/ pqDynamic = TRUE /\ pqCap = 0
     \/ pqDynamic = FALSE /\ pqCap \in {1, PqBound}
  /\ pqHeld = [p \in Prios |-> 0]

\* The hole moves up one level when its parent is less urgent than v.
Raised(hole, v) ==
  LET parent == ((hole.at - 1) - 1) \div 4 + 1 IN
    IF hole.at > 1 /\ v < hole.all[parent]
    THEN [all |-> [hole.all EXCEPT ![hole.at] = hole.all[parent]], at |-> parent]
    ELSE hole

\* The hole moves down one level.  smallest starts as the hole, whose cell is
\* compared as it is: after a move it still holds the child that moved up.
Sunk(hole, v) ==
  LET all == hole.all
      i == hole.at
      children == {c \in (4 * (i - 1) + 2)..(4 * (i - 1) + 5) : c <= Len(all)}
      smaller == {c \in children : all[c] < all[i]}
      smallest == CHOOSE c \in smaller : \A d \in smaller :
                     all[c] < all[d] \/ (all[c] = all[d] /\ c <= d)
  IN IF smaller # {} /\ v > all[smallest]
     THEN [all |-> [all EXCEPT ![i] = all[smallest]], at |-> smallest]
     ELSE hole

\* Each loop ends after fewer turns than there are cells; v goes where the hole is then.
SiftUp(all, i, v) ==
  LET hole[k \in 0..Len(all)] == IF k = 0 THEN [all |-> all, at |-> i] ELSE Raised(hole[k - 1], v)
      end == hole[Len(all)]
  IN [end.all EXCEPT ![end.at] = v]

SiftDown(all, i, v) ==
  LET hole[k \in 0..Len(all)] == IF k = 0 THEN [all |-> all, at |-> i] ELSE Sunk(hole[k - 1], v)
      end == hole[Len(all)]
  IN [end.all EXCEPT ![end.at] = v]

\* ct_pqueue_reserve: a queue over the caller's storage never grows, and
\* realloc may find no memory.
PqReserve(n) ==
  /\ IF pqDynamic THEN pqCap' \in {pqCap, IF n > pqCap THEN n ELSE pqCap} ELSE pqCap' = pqCap
  /\ UNCHANGED <<pqAll, pqDynamic, pqHeld>>

PqPush(p) ==
  /\ Len(pqAll) < PqBound
  /\ pqCap' \in {c \in {pqCap, IF pqCap = 0 THEN 8 ELSE 2 * pqCap} :
                   c = pqCap \/ (pqDynamic /\ Len(pqAll) = pqCap)}
  /\ IF Len(pqAll) < pqCap'
     THEN /\ pqAll' = SiftUp(Append(pqAll, p), Len(pqAll) + 1, p)
          /\ pqHeld' = [pqHeld EXCEPT ![p] = @ + 1]
     ELSE UNCHANGED <<pqAll, pqHeld>>
  /\ UNCHANGED pqDynamic

PqPop ==
  /\ pqAll # <<>>
  /\ pqHeld' = [pqHeld EXCEPT ![pqAll[1]] = @ - 1]
  /\ LET n == Len(pqAll) - 1
         last == pqAll[n + 1]
     IN pqAll' = IF n = 0 THEN <<>>
                 ELSE SiftDown([SubSeq(pqAll, 1, n) EXCEPT ![1] = last], 1, last)
  /\ UNCHANGED <<pqCap, pqDynamic>>

PqClear ==
  /\ pqAll' = <<>>
  /\ pqHeld' = [p \in Prios |-> 0]
  /\ UNCHANGED <<pqCap, pqDynamic>>

PqNext ==
  \/ \E p \in Prios : PqPush(p)
  \/ PqPop
  \/ PqClear
  \/ PqReserve(PqBound)

PqSpec == PqInit /\ [][PqNext]_pqVars

-----------------------------------------------------------------------------
(* Properties. *)

\* The sifts lose and duplicate no element (pqueue.c:10-46), within the capacity.
PqKeepsElements ==
  /\ Len(pqAll) <= pqCap
  /\ \A p \in Prios : Cardinality({i \in DOMAIN pqAll : pqAll[i] = p}) = pqHeld[p]

\* pqueue.h:83: "Remove the highest-priority element."  The element that the
\* next pop removes, and that ct_pqueue_top returns, is one of the most urgent.
PopsHighestPriority ==
  pqAll # <<>> => \A p \in Prios : pqHeld[p] > 0 => pqAll[1] <= p
=============================================================================
