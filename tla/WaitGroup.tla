------------------------------ MODULE WaitGroup ------------------------------
(***************************************************************************)
(* The wait group of src/sync/src/waitgroup.c: a counter of tasks and the  *)
(* threads that wait for it to be zero.  A call that would take it below   *)
(* zero or above its width ends the program (CT_ABORT).                    *)
(***************************************************************************)
EXTENDS CondVar, Integers, FiniteSets

CONSTANTS WgThreads,    \* threads that wait for the group
          CounterMax    \* UINT32_MAX

VARIABLES counter,      \* counter_
          wg,           \* WgThreads -> place of the thread
          wgTimed,      \* the waiters inside ct_waitgroup_wait_for
          wgAborted     \* CT_ABORT was reached

wgVars == <<counter, wg, wgTimed, wgAborted>>

WgInit ==
  /\ counter = 0
  /\ wg = [t \in WgThreads |-> "out"]
  /\ wgTimed = {}
  /\ wgAborted = FALSE

\* ct_waitgroup_add, and ct_waitgroup_done with -1.
WgAdd(delta) ==
  LET next == counter + delta IN
  IF next < 0 \/ next > CounterMax
  THEN wgAborted' = TRUE /\ UNCHANGED <<counter, wg, wgTimed>>
  ELSE /\ counter' = next
       /\ wg' = IF next = 0 THEN WakeAll(wg, "asleep", "woken") ELSE wg
       /\ UNCHANGED <<wgTimed, wgAborted>>

\* The loop: a waiter that finds the counter raised again goes back to sleep.
WgLook(t) ==
  /\ wg' = [wg EXCEPT ![t] = IF counter > 0 THEN "asleep" ELSE "out"]
  /\ UNCHANGED <<counter, wgAborted>>

WgWait(t) ==
  /\ wg[t] = "out"
  /\ WgLook(t)
  /\ wgTimed' \in {wgTimed \ {t}, wgTimed \union {t}}

WgResume(t) ==
  /\ wg[t] = "woken"
  /\ WgLook(t)
  /\ UNCHANGED wgTimed

\* ct_waitgroup_wait_for returns false: the counter is tested before the clock.
WgGiveUp(t) ==
  /\ wg[t] = "woken"
  /\ t \in wgTimed
  /\ counter > 0
  /\ wg' = [wg EXCEPT ![t] = "out"]
  /\ UNCHANGED <<counter, wgTimed, wgAborted>>

\* The wait ends at its deadline or without a cause: its result is not used.
WgWaitEnds(t) ==
  /\ wg[t] = "asleep"
  /\ wg' = [wg EXCEPT ![t] = "woken"]
  /\ UNCHANGED <<counter, wgTimed, wgAborted>>

WgNext ==
  /\ ~wgAborted
  /\ \/ \E delta \in -2 .. 2 : WgAdd(delta)
     \/ \E t \in WgThreads : WgWait(t) \/ WgResume(t) \/ WgGiveUp(t) \/ WgWaitEnds(t)

WgSpec == WgInit /\ [][WgNext]_wgVars

-----------------------------------------------------------------------------
(* Properties. *)

\* Reaching zero releases everybody (ct_waitgroup_add, waitgroup.c:36): a thread
\* asleep has a task to wait for, also when the counter was raised again before
\* the threads woken at zero could look.
WgSleepersJustified == In(wg, "asleep") # {} => counter > 0
=============================================================================
