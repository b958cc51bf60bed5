------------------------------- MODULE Event --------------------------------
(***************************************************************************)
(* The auto-reset event of src/sync/src/event.c over a mutex and a         *)
(* condition variable: one flag, count_, that a signal sets and the wait   *)
(* it releases clears.  An action is one critical section.                 *)
(***************************************************************************)
EXTENDS CondVar, Integers, FiniteSets

CONSTANT EvThreads      \* threads that wait for the event

VARIABLES count,        \* count_
          ev,           \* EvThreads -> EvPlaces
          evTimed       \* the waiters inside ct_event_timedwait

evVars == <<count, ev, evTimed>>

EvPlaces == {"out", "asleep", "woken", "timedout"}

EvInit ==
  /\ count = 0
  /\ ev = [t \in EvThreads |-> "out"]
  /\ evTimed = {}

\* The loop and the test after it: take the signal, or wait (again).
EvLook(t) ==
  IF count = 0
  THEN ev' = [ev EXCEPT ![t] = "asleep"] /\ UNCHANGED count
  ELSE ev' = [ev EXCEPT ![t] = "out"] /\ count' = 0

EvWait(t) ==
  /\ ev[t] = "out"
  /\ EvLook(t)
  /\ evTimed' \in {evTimed \ {t}, evTimed \union {t}}

EvResume(t) ==
  /\ ev[t] = "woken"
  /\ EvLook(t)
  /\ UNCHANGED evTimed

\* ETIMEDOUT: from the wait whatever count_ is now, or from the test of the
\* clock, which comes after the test of count_.  The flag is left alone.
EvGiveUp(t) ==
  /\ t \in evTimed
  /\ \/ ev[t] = "timedout"
     \/ ev[t] = "woken" /\ count = 0
  /\ ev' = [ev EXCEPT ![t] = "out"]
  /\ UNCHANGED <<count, evTimed>>

\* The wait ends at its deadline, or without a cause.
EvWaitEnds(t) ==
  /\ ev[t] = "asleep"
  /\ \/ ev' = [ev EXCEPT ![t] = "woken"]
     \/ t \in evTimed /\ ev' = [ev EXCEPT ![t] = "timedout"]
  /\ UNCHANGED <<count, evTimed>>

EvSignal ==
  /\ count' = 1
  /\ ev' \in SignalOne(ev, "asleep", "woken")
  /\ UNCHANGED evTimed

EvReset ==
  /\ count' = 0
  /\ UNCHANGED <<ev, evTimed>>

EvNext ==
  \/ EvSignal
  \/ EvReset
  \/ \E t \in EvThreads : EvWait(t) \/ EvResume(t) \/ EvGiveUp(t) \/ EvWaitEnds(t)

EvSpec == EvInit /\ [][EvNext]_evVars

-----------------------------------------------------------------------------
(* Properties. *)

\* A signal is not lost: while the flag is up, nobody sleeps unless another
\* waiter was woken and has still to look; a waiter that times out at that
\* moment leaves the signal to the next (ct_event_timedwait, event.c:78-92).
EvSleepersJustified ==
  count = 1 /\ In(ev, "asleep") # {} => In(ev, "woken") # {}
=============================================================================
