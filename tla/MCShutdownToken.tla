-------------------------- MODULE MCShutdownToken --------------------------
(***************************************************************************)
(* Instances of ShutdownToken for TLC.                                     *)
(***************************************************************************)
EXTENDS ShutdownToken

\* No timeout, one that has ended, a short one, and the longest.
MCTimeouts == {-1, 0, 1, Horizon}
=============================================================================
