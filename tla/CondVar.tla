------------------------------ MODULE CondVar ------------------------------
(***************************************************************************)
(* The condition variable of src/sync/src/cond.c as the components of this *)
(* library use it: a function pc gives the place of every thread, and the  *)
(* threads at place "asleep" are the ones in the wait set.  Leaving the    *)
(* wait set and getting the mutex back are two steps, so a thread that was *)
(* woken finds whatever the others did in between.                         *)
(***************************************************************************)

\* The threads asleep at place s.
In(pc, s) == {t \in DOMAIN pc : pc[t] = s}

\* ct_cond_signal: one sleeper, whichever the system picks, or nobody.
SignalOne(pc, s, woken) ==
  IF In(pc, s) = {} THEN {pc} ELSE {[pc EXCEPT ![t] = woken] : t \in In(pc, s)}

\* ct_cond_broadcast.
WakeAll(pc, s, woken) == [t \in DOMAIN pc |-> IF pc[t] = s THEN woken ELSE pc[t]]
=============================================================================
