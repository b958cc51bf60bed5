----------------------------- MODULE MCJobPool -----------------------------
(***************************************************************************)
(* Instances of JobPool for TLC.                                           *)
(***************************************************************************)
EXTENDS JobPool, TLC

CONSTANTS i1, i2, i3

\* i2 is submitted by i1 from inside the pool.
Nested == [i \in Items |-> IF i = i2 THEN i1 ELSE NoItem]
=============================================================================
