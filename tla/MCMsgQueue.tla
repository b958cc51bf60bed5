---------------------------- MODULE MCMsgQueue ----------------------------
(***************************************************************************)
(* Instances of MsgQueue for TLC.                                          *)
(***************************************************************************)
EXTENDS MsgQueue, TLC

ThreadSymmetry == Permutations(Items) \union Permutations(Consumers)
=============================================================================
