----------------------------- MODULE MCThPool -----------------------------
(***************************************************************************)
(* Instances of ThPool for TLC.                                            *)
(***************************************************************************)
EXTENDS ThPool, TLC

CONSTANTS t1, t2, t3, t4, t5

\* Every task is submitted by a thread of its own.
NoNesting == [t \in Tasks |-> NoTask]

\* t2 is submitted by t1 from inside the pool.
Nested == [t \in Tasks |-> IF t = t2 THEN t1 ELSE NoTask]

WorkerSymmetry == Permutations(Workers)
WorkerAndTaskSymmetry == Permutations(Workers) \union Permutations(Tasks)
=============================================================================
