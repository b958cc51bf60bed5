----------------------------- MODULE Semaphore ------------------------------
(***************************************************************************)
(* The counting semaphore of src/sync/src/sem.c.  Three of its four        *)
(* platforms hand every call to the system's semaphore, and the fourth     *)
(* builds one from a mutex and a condition variable: that one is modelled  *)
(* here, a critical section per action.  A system semaphore differs in     *)
(* that a sleeper takes its permit in the step that wakes it.              *)
(***************************************************************************)
EXTENDS CondVar, Integers, FiniteSets

CONSTANTS SemThreads,   \* threads that wait for permits
          PermitMax     \* bound of the instance on the permits posted

ASSUME SemAssumption == IsFiniteSet(SemThreads) /\ PermitMax \in Nat

VARIABLES permits,      \* count_
          sem,          \* SemThreads -> place of the thread
          semTimed      \* the waiters inside ct_sem_wait_for

semVars == <<permits, sem, semTimed>>

SemInit ==
  /\ permits \in 0 .. PermitMax
  /\ sem = [t \in SemThreads |-> "out"]
  /\ semTimed = {}

\* Take a permit or wait (again).
SemLook(t) ==
  IF permits = 0
  THEN sem' = [sem EXCEPT ![t] = "asleep"] /\ UNCHANGED permits
  ELSE sem' = [sem EXCEPT ![t] = "out"] /\ permits' = permits - 1

SemWait(t) ==
  /\ sem[t] = "out"
  /\ SemLook(t)
  /\ semTimed' \in {semTimed \ {t}, semTimed \union {t}}

SemResume(t) ==
  /\ sem[t] = "woken"
  /\ SemLook(t)
  /\ UNCHANGED semTimed

\* A permit taken without waiting; EAGAIN changes nothing.
SemTryWait(t) ==
  /\ sem[t] = "out"
  /\ permits > 0
  /\ permits' = permits - 1
  /\ UNCHANGED <<sem, semTimed>>

\* The wait ends without a cause, or at its deadline: that waiter leaves at
\* once, whatever count_ is.
SemWaitEnds(t) ==
  /\ sem[t] = "asleep"
  /\ \/ sem' = [sem EXCEPT ![t] = "woken"]
     \/ t \in semTimed /\ sem' = [sem EXCEPT ![t] = "out"]
  /\ UNCHANGED <<permits, semTimed>>

\* A mutant: the post signals only when the count leaves zero.
EdgePost ==
  /\ permits < PermitMax
  /\ permits' = permits + 1
  /\ IF permits = 0 THEN sem' \in SignalOne(sem, "asleep", "woken") ELSE UNCHANGED sem
  /\ UNCHANGED semTimed

SemPost ==
  /\ permits < PermitMax
  /\ permits' = permits + 1
  /\ sem' \in SignalOne(sem, "asleep", "woken")
  /\ UNCHANGED semTimed

SemNext ==
  \/ SemPost
  \/ \E t \in SemThreads :
       SemWait(t) \/ SemResume(t) \/ SemTryWait(t) \/ SemWaitEnds(t)

SemSpec == SemInit /\ [][SemNext]_semVars

-----------------------------------------------------------------------------
(* Properties. *)

\* Every permit that lies about while somebody sleeps has a thread on its way
\* to it (ct_sem_post signals at every post, sem.c:122-124), so two posts in a
\* row release two waiters even if the first has not run yet.
SemSleepersJustified ==
  In(sem, "asleep") # {} => permits <= Cardinality(In(sem, "woken"))
=============================================================================
