----------------------------- MODULE LinkedList -----------------------------
(***************************************************************************)
(* The intrusive circular list of src/container/src/list.c.  Sentinels are *)
(* nodes that head a list; the others are elements.                        *)
(***************************************************************************)
EXTENDS Integers, Sequences, SequencesExt

CONSTANTS LsHeads, LsNodes

ASSUME LsAssumption == LsHeads \intersect LsNodes = {}

VARIABLES next, prev,   \* the links of sentinels and elements
          lsRef         \* history: LsHeads -> the elements of the list in order

lsVars == <<next, prev, lsRef>>

LsAll == LsHeads \union LsNodes

\* ct_list_init of the sentinels; an element not in a list holds anything.
LsInit ==
  /\ next = [n \in LsAll |-> n]
  /\ prev = [n \in LsAll |-> n]
  /\ lsRef = [h \in LsHeads |-> <<>>]

Unlisted == LsNodes \ UNION {ToSet(lsRef[h]) : h \in LsHeads}

\* node goes between two linked neighbours: append, prepend, before and after
\* make the same four assignments around different neighbours.
LinkBetween(p, node, n) ==
  /\ prev' = [prev EXCEPT ![node] = p, ![n] = node]
  /\ next' = [next EXCEPT ![node] = n, ![p] = node]

ListAppend(h, node) ==
  /\ LinkBetween(prev[h], node, h)
  /\ lsRef' = [lsRef EXCEPT ![h] = Append(@, node)]

ListPrepend(h, node) ==
  /\ LinkBetween(h, node, next[h])
  /\ lsRef' = [lsRef EXCEPT ![h] = <<node>> \o @]

ListBefore(h, i, node) ==
  /\ LET target == lsRef[h][i] IN LinkBetween(prev[target], node, target)
  /\ lsRef' = [lsRef EXCEPT ![h] = InsertAt(@, i, node)]

ListAfter(h, i, node) ==
  /\ LET target == lsRef[h][i] IN LinkBetween(target, node, next[target])
  /\ lsRef' = [lsRef EXCEPT ![h] = InsertAt(@, i + 1, node)]

ListRemove(h, i) ==
  /\ LET node == lsRef[h][i] IN
       /\ next' = [next EXCEPT ![prev[node]] = next[node]]
       /\ prev' = [prev EXCEPT ![next[node]] = prev[node]]
  /\ lsRef' = [lsRef EXCEPT ![h] = RemoveAt(@, i)]

\* ct_list_splice_prev: the elements of src go to the front of self.
SplicePrev(self, src) ==
  /\ next[src] # src
  /\ next' = [next EXCEPT ![prev[src]] = next[self], ![self] = next[src], ![src] = src]
  /\ prev' = [prev EXCEPT ![next[self]] = prev[src], ![next[src]] = self, ![src] = src]
  /\ lsRef' = [lsRef EXCEPT ![self] = lsRef[src] \o @, ![src] = <<>>]

\* ct_list_splice_next: the elements of src go to the end of self.
SpliceNext(self, src) ==
  /\ next[src] # src
  /\ prev' = [prev EXCEPT ![next[src]] = prev[self], ![self] = prev[src], ![src] = src]
  /\ next' = [next EXCEPT ![prev[self]] = next[src], ![prev[src]] = self, ![src] = src]
  /\ lsRef' = [lsRef EXCEPT ![self] = @ \o lsRef[src], ![src] = <<>>]

LsNext ==
  \/ \E h \in LsHeads, node \in Unlisted :
       \/ ListAppend(h, node) \/ ListPrepend(h, node)
       \/ \E i \in DOMAIN lsRef[h] : ListBefore(h, i, node) \/ ListAfter(h, i, node)
  \/ \E h \in LsHeads : \E i \in DOMAIN lsRef[h] : ListRemove(h, i)
  \/ \E self \in LsHeads, src \in LsHeads : self # src /\ (SplicePrev(self, src) \/ SpliceNext(self, src))

LsSpec == LsInit /\ [][LsNext]_lsVars

-----------------------------------------------------------------------------
(* Properties. *)

\* The node at place k of the circle of h: the sentinel stands before the first
\* element of its list and behind the last.
At(h, k) == IF k \in DOMAIN lsRef[h] THEN lsRef[h][k] ELSE h

\* Walking next_ from a sentinel, as ct_list_foreach does, meets the elements of its
\* list in order and comes back, and walking prev_ meets them in reverse (list.c:
\* insertions, removal, splices).
ListIntact ==
  \A h \in LsHeads : \A k \in 0..Len(lsRef[h]) :
    next[At(h, k)] = At(h, k + 1) /\ prev[At(h, k + 1)] = At(h, k)
=============================================================================
