---------------------------- MODULE TaskService ----------------------------
(***************************************************************************)
(* What coter/thread/thpool.h and coter/thread/jobpool.h promise of their  *)
(* pools, without threads, locks or condition variables: accepted tasks    *)
(* are started in the order they were accepted, each of them once; after a *)
(* close nothing more is accepted; and the pool is released only when      *)
(* every accepted task has finished.  The job pool discards at the close   *)
(* the tasks that have not started.                                        *)
(***************************************************************************)
EXTENDS Sequences

CONSTANTS Tasks,
          Discards  \* a close drops the tasks that have not started

VARIABLES pending,   \* accepted tasks that have not started, oldest first
          running,   \* tasks whose routine is executing
          finished,  \* tasks whose routine has returned
          open,      \* submissions are still accepted
          released   \* the pool has been freed

vars == <<pending, running, finished, open, released>>

Init ==
  /\ pending = <<>>
  /\ running = {}
  /\ finished = {}
  /\ open = TRUE
  /\ released = FALSE

Pending == {pending[i] : i \in DOMAIN pending}

\* A submit returns 0.
Accept(t) ==
  /\ open
  /\ t \notin Pending \union running \union finished
  /\ pending' = Append(pending, t)
  /\ UNCHANGED <<running, finished, open, released>>

\* The oldest accepted task starts.
Start ==
  /\ pending # <<>>
  /\ running' = running \union {Head(pending)}
  /\ pending' = Tail(pending)
  /\ UNCHANGED <<finished, open, released>>

\* The routine of t returns.
Finish(t) ==
  /\ t \in running
  /\ running' = running \ {t}
  /\ finished' = finished \union {t}
  /\ UNCHANGED <<pending, open, released>>

\* The pool is closed, by its close or by its destroy.
Close ==
  /\ open' = FALSE
  /\ pending' = IF Discards THEN <<>> ELSE pending
  /\ UNCHANGED <<running, finished, released>>

\* The call that destroys the pool returns.
Release ==
  /\ ~open
  /\ pending = <<>>
  /\ running = {}
  /\ released' = TRUE
  /\ UNCHANGED <<pending, running, finished, open>>

Next ==
  \/ \E t \in Tasks : Accept(t) \/ Finish(t)
  \/ Start
  \/ Close
  \/ Release

Spec == Init /\ [][Next]_vars
=============================================================================
