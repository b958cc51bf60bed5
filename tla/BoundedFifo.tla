---------------------------- MODULE BoundedFifo ----------------------------
(***************************************************************************)
(* What coter/sync/msgqueue.h promises of a message queue, without the     *)
(* ring, the threads and the waits: at most Max elements, handed out in    *)
(* the order in which they came in and each of them once; nothing goes in  *)
(* or out after the close.                                                 *)
(***************************************************************************)
EXTENDS Naturals, Sequences

CONSTANTS Items, Max

VARIABLES contents,  \* the queued elements, oldest first
          taken,     \* the elements handed out
          shut       \* the queue is closed

vars == <<contents, taken, shut>>

Init == contents = <<>> /\ taken = {} /\ shut = FALSE

Put(i) ==
  /\ ~shut /\ Len(contents) < Max
  /\ i \notin taken /\ \A k \in DOMAIN contents : contents[k] # i
  /\ contents' = Append(contents, i)
  /\ UNCHANGED <<taken, shut>>

Get ==
  /\ ~shut /\ contents # <<>>
  /\ taken' = taken \union {Head(contents)}
  /\ contents' = Tail(contents)
  /\ UNCHANGED shut

Shut == shut' = TRUE /\ UNCHANGED <<contents, taken>>

Next == (\E i \in Items : Put(i)) \/ Get \/ Shut

Spec == Init /\ [][Next]_vars
=============================================================================
