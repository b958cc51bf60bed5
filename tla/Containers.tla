----------------------------- MODULE Containers -----------------------------
(***************************************************************************)
(* What the containers of src/container promise alike: those that keep an  *)
(* order (the vector and the array, the linked list, the queue, the stack, *)
(* and with them the ring buffer of src/bytes/src/rbuf.c), and the heaps.  *)
(***************************************************************************)
EXTENDS Vector, LinkedList, RingBuffer, PQueue, PairingHeap

\* After any calls each of them holds what was put into it and not taken out,
\* in its order, with its links and cursors whole (vector.c, array.c, list.c,
\* queue.c, stack.c, rbuf.c).
SequencesIntact == VectorIntact /\ ListIntact /\ RingIntact

\* After any calls the two heaps hold what was put into them and not taken out,
\* the pairing heap in its order and with its links whole (pqueue.c, heap.c).
HeapsIntact == PqKeepsElements /\ HeapIntact
=============================================================================
