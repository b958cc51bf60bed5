---------------------------- MODULE MCRefCount ----------------------------
(***************************************************************************)
(* Instances of RefCount for TLC.                                          *)
(***************************************************************************)
EXTENDS RefCount, TLC

Symmetry == Permutations(Threads) \union Permutations(Slots)
=============================================================================
