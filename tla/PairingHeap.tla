---------------------------- MODULE PairingHeap -----------------------------
(***************************************************************************)
(* The intrusive pairing heap of src/container/src/heap.c: nodes linked by *)
(* child_, left_ (the left sibling, or the parent of a first child) and    *)
(* right_.  Heaps are pairs of root_ and size_ over the same nodes.        *)
(***************************************************************************)
EXTENDS Integers, FiniteSets

CONSTANTS HpNodes, Heaps, HpPrios

Nil == "nil"

ASSUME HpAssumption ==
  IsFiniteSet(HpNodes) /\ Nil \notin HpNodes /\ Nil \notin Heaps /\ HpPrios \subseteq Int

VARIABLES hp,       \* the links: [child, left, right : HpNodes -> node or Nil]
          hpPrio,   \* HpNodes -> HpPrios, the caller's key
          hpRoot,   \* Heaps -> root_
          hpSize,   \* Heaps -> size_
          hpIn      \* history: HpNodes -> the heap that holds the node, or Nil

hpVars == <<hp, hpPrio, hpRoot, hpSize, hpIn>>

HpInit ==
  /\ hp = [f \in {"child", "left", "right"} |-> [n \in HpNodes |-> Nil]]
  /\ hpPrio \in [HpNodes -> HpPrios]
  /\ hpRoot = [h \in Heaps |-> Nil]
  /\ hpSize = [h \in Heaps |-> 0]
  /\ hpIn = [n \in HpNodes |-> Nil]

\* n->f_ = m, where n may be NULL (the code then skips the assignment).
SetLink(g, f, n, m) == IF n = Nil THEN g ELSE [g EXCEPT ![f][n] = m]

Detached(g, n) == [f \in DOMAIN g |-> [g[f] EXCEPT ![n] = Nil]]

\* The root that loses becomes the first child of the other.
Meld(g, prio, a, b) ==
  IF a = Nil \/ b = Nil THEN [g |-> g, root |-> IF a = Nil THEN b ELSE a]
  ELSE LET up == IF prio[a] < prio[b] THEN a ELSE b
           down == IF up = a THEN b ELSE a
           g1 == SetLink(g, "right", down, g.child[up])
           g2 == SetLink(g1, "left", g.child[up], down)
       IN [g |-> SetLink(SetLink(g2, "child", up, down), "left", down, up), root |-> up]

\* First pass: adjacent trees are melded in pairs, from left to right, and
\* chained in reverse by their right_ links.  One turn of its loop.
PairMelded(s, prio) ==
  IF s.curr = Nil THEN s
  ELSE LET a == s.curr
           b == s.g.right[a]
           next == IF b = Nil THEN Nil ELSE s.g.right[b]
           cut == SetLink(SetLink(s.g, "left", a, Nil), "right", a, Nil)
           pair == Meld(SetLink(SetLink(cut, "left", b, Nil), "right", b, Nil), prio, a, b)
       IN [g |-> SetLink(pair.g, "right", pair.root, s.chain), curr |-> next, chain |-> pair.root]

\* Second pass: the chain is melded into one tree.
ChainMelded(s, prio) ==
  IF s.chain = Nil THEN s
  ELSE LET m == Meld(SetLink(s.g, "right", s.chain, Nil), prio, s.root, s.chain)
       IN [g |-> m.g, root |-> m.root, chain |-> s.g.right[s.chain]]

\* Neither loop turns more often than there are nodes.
MergePairs(g, prio, first) ==
  LET last == Cardinality(HpNodes)
      pairs[k \in 0..last] ==
        IF k = 0 THEN [g |-> g, curr |-> first, chain |-> Nil] ELSE PairMelded(pairs[k - 1], prio)
      chain[k \in 0..last] ==
        IF k = 0 THEN [g |-> pairs[last].g, root |-> Nil, chain |-> pairs[last].chain]
        ELSE ChainMelded(chain[k - 1], prio)
  IN [g |-> chain[last].g, root |-> chain[last].root]

\* A heap [g, root, size] after the insertion of n.
Inserted(s, prio, n) ==
  LET m == Meld(Detached(s.g, n), prio, s.root, n)
  IN [g |-> m.g, root |-> m.root, size |-> s.size + 1]

Popped(s, prio) ==
  LET first == s.g.child[s.root]
      m == MergePairs(SetLink(s.g, "left", first, Nil), prio, first)
  IN [g |-> Detached(m.g, s.root), root |-> m.root, size |-> s.size - 1]

\* A mutant of Removed: the right sibling keeps pointing at the removed node.
LooseRemoved(s, prio, n) ==
  IF n = s.root THEN Popped(s, prio)
  ELSE LET g2 == IF s.g.child[s.g.left[n]] = n THEN SetLink(s.g, "child", s.g.left[n], s.g.right[n])
                 ELSE SetLink(s.g, "right", s.g.left[n], s.g.right[n])
           sub == MergePairs(Detached(SetLink(g2, "left", s.g.child[n], Nil), n), prio, s.g.child[n])
           m == Meld(sub.g, prio, s.root, sub.root)
       IN [g |-> m.g, root |-> m.root, size |-> s.size - 1]

Removed(s, prio, n) ==
  IF n = s.root THEN Popped(s, prio)
  ELSE LET g1 == SetLink(s.g, "left", s.g.right[n], s.g.left[n])
           g2 == IF g1.child[g1.left[n]] = n THEN SetLink(g1, "child", g1.left[n], g1.right[n])
                 ELSE SetLink(g1, "right", g1.left[n], g1.right[n])
           sub == MergePairs(Detached(SetLink(g2, "left", s.g.child[n], Nil), n), prio, s.g.child[n])
           m == Meld(sub.g, prio, s.root, sub.root)
       IN [g |-> m.g, root |-> m.root, size |-> s.size - 1]

HeapState(h) == [g |-> hp, root |-> hpRoot[h], size |-> hpSize[h]]

HeapBecomes(h, s) ==
  /\ hp' = s.g
  /\ hpRoot' = [hpRoot EXCEPT ![h] = s.root]
  /\ hpSize' = [hpSize EXCEPT ![h] = s.size]

HpInsert(h, n) ==
  /\ hpIn[n] = Nil
  /\ HeapBecomes(h, Inserted(HeapState(h), hpPrio, n))
  /\ hpIn' = [hpIn EXCEPT ![n] = h]
  /\ UNCHANGED hpPrio

HpPop(h) ==
  /\ hpRoot[h] # Nil
  /\ HeapBecomes(h, Popped(HeapState(h), hpPrio))
  /\ hpIn' = [hpIn EXCEPT ![hpRoot[h]] = Nil]
  /\ UNCHANGED hpPrio

HpRemove(n) ==
  /\ hpIn[n] # Nil
  /\ HeapBecomes(hpIn[n], Removed(HeapState(hpIn[n]), hpPrio, n))
  /\ hpIn' = [hpIn EXCEPT ![n] = Nil]
  /\ UNCHANGED hpPrio

\* The caller changes the key of a node and calls ct_heap_update.
HpUpdate(n, p) ==
  /\ hpIn[n] # Nil
  /\ hpPrio' = [hpPrio EXCEPT ![n] = p]
  /\ HeapBecomes(hpIn[n], Inserted(Removed(HeapState(hpIn[n]), hpPrio', n), hpPrio', n))
  /\ UNCHANGED hpIn

HpMove(dst, src) ==
  /\ dst # src
  /\ LET m == Meld(hp, hpPrio, hpRoot[dst], hpRoot[src]) IN
       /\ hp' = m.g
       /\ hpRoot' = [hpRoot EXCEPT ![dst] = m.root, ![src] = Nil]
  /\ hpSize' = [hpSize EXCEPT ![dst] = @ + hpSize[src], ![src] = 0]
  /\ hpIn' = [n \in HpNodes |-> IF hpIn[n] = src THEN dst ELSE hpIn[n]]
  /\ UNCHANGED hpPrio

\* ct_heap_clear drops the nodes with their links, which nothing reads before
\* the next insertion resets them: they are forgotten here.
HpClear(h) ==
  /\ hp' = [f \in DOMAIN hp |-> [n \in HpNodes |-> IF hpIn[n] = h THEN Nil ELSE hp[f][n]]]
  /\ hpRoot' = [hpRoot EXCEPT ![h] = Nil]
  /\ hpSize' = [hpSize EXCEPT ![h] = 0]
  /\ hpIn' = [n \in HpNodes |-> IF hpIn[n] = h THEN Nil ELSE hpIn[n]]
  /\ UNCHANGED hpPrio

HpNext ==
  \/ \E h \in Heaps, n \in HpNodes : HpInsert(h, n)
  \/ \E h \in Heaps : HpPop(h) \/ HpClear(h)
  \/ \E n \in HpNodes : HpRemove(n)
  \/ \E n \in HpNodes, p \in HpPrios : HpUpdate(n, p)
  \/ \E dst, src \in Heaps : HpMove(dst, src)

HpSpec == HpInit /\ [][HpNext]_hpVars

-----------------------------------------------------------------------------
(* Properties. *)

\* The nodes that the links lead to from one of them, itself included.
Along(links, from) ==
  {n \in HpNodes : \A S \in SUBSET HpNodes :
     (/\ from \in S \union {Nil}
      /\ \A m \in S, f \in links : hp[f][m] \in S \union {Nil}) => n \in S}

\* The nodes linked under a root are exactly those inserted in that heap and
\* not removed, size_ counts them, left_ inverts child_ and right_, and no node
\* is more urgent than its parent (heap.c: meld, the passes of pop, remove).
HeapIntact ==
  \A h \in Heaps : LET S == Along({"child", "right"}, hpRoot[h]) IN
    /\ S = {n \in HpNodes : hpIn[n] = h} /\ hpSize[h] = Cardinality(S)
    /\ hpRoot[h] # Nil => hp.left[hpRoot[h]] = Nil /\ hp.right[hpRoot[h]] = Nil
    /\ \A n \in S :
         /\ hp.child[n] # Nil => hp.left[hp.child[n]] = n
         /\ hp.right[n] # Nil => hp.left[hp.right[n]] = n
         /\ \A m \in Along({"right"}, hp.child[n]) : hpPrio[n] <= hpPrio[m]
=============================================================================
