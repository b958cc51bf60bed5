------------------------------- MODULE RwLock -------------------------------
(***************************************************************************)
(* The read-write lock of src/sync/src/rwlock.c where the platform has     *)
(* none of its own: a mutex, a condition for readers, one for writers, the *)
(* counter state_ and the count waiting_writers_, which makes new readers  *)
(* stand back.  An action is one critical section of the mutex.            *)
(*                                                                         *)
(* Calls is the set of activations of the lock: an activation takes the    *)
(* lock once, as a reader or as a writer, and gives it back.  rw[c] is its *)
(* place: asleep in one of the two wait sets ("read", "write"), out of it  *)
(* and on the way to the mutex ("readWoken", "writeWoken", or "readFailed" *)
(* and "writeFailed" when the wait returned an error), or holding.         *)
(***************************************************************************)
EXTENDS CondVar, Integers, FiniteSets

CONSTANTS Calls,     \* activations of the lock
          IntMax     \* INT_MAX, the largest number of readers

ASSUME RwAssumption == IsFiniteSet(Calls) /\ IntMax \in Nat \ {0}

VARIABLES state,             \* state_: -1 a writer, otherwise the number of readers
          waiting_writers,   \* waiting_writers_
          rw                 \* Calls -> RwPlaces

rwVars == <<state, waiting_writers, rw>>

RwPlaces == {"out", "read", "readWoken", "readFailed", "reading",
             "write", "writeWoken", "writeFailed", "writing"}

RwInit ==
  /\ state = 0
  /\ waiting_writers = 0
  /\ rw = [c \in Calls |-> "out"]

Go(c, place) == rw' = [rw EXCEPT ![c] = place]

(* Readers. *)

\* A mutant: a reader only minds the writers in line.
LooseReadersWait == waiting_writers # 0

ReadersWait == state < 0 \/ waiting_writers # 0

\* Past the loop of ct_rwlock_rdlock: EAGAIN at the limit, or one reader more.
Admit(c) ==
  /\ state' = IF state = IntMax THEN state ELSE state + 1
  /\ Go(c, IF state = IntMax THEN "out" ELSE "reading")

\* ct_rwlock_rdlock, from its call or from a wake-up.
RdLock(c) ==
  /\ rw[c] \in {"out", "readWoken"}
  /\ IF ReadersWait THEN Go(c, "read") /\ UNCHANGED state ELSE Admit(c)
  /\ UNCHANGED waiting_writers

TryRdLock(c) ==
  /\ rw[c] = "out"
  /\ ~ReadersWait
  /\ Admit(c)
  /\ UNCHANGED waiting_writers

RdWaitFails(c) ==
  /\ rw[c] = "readFailed"
  /\ Go(c, "out")
  /\ UNCHANGED <<state, waiting_writers>>

RdUnlock(c) ==
  /\ rw[c] = "reading"
  /\ state > 0
  /\ state' = state - 1
  /\ LET out == [rw EXCEPT ![c] = "out"] IN
       IF state = 1 /\ waiting_writers # 0
       THEN rw' \in SignalOne(out, "write", "writeWoken")
       ELSE rw' = out
  /\ UNCHANGED waiting_writers

(* Writers. *)

\* ct_rwlock_wrlock: a writer in line stays counted until it has run again.
WrLock(c) ==
  /\ rw[c] \in {"out", "writeWoken"}
  /\ IF state # 0
     THEN /\ Go(c, "write")
          /\ waiting_writers' = waiting_writers + IF rw[c] = "out" THEN 1 ELSE 0
          /\ UNCHANGED state
     ELSE /\ Go(c, "writing")
          /\ waiting_writers' = waiting_writers - IF rw[c] = "out" THEN 0 ELSE 1
          /\ state' = -1

TryWrLock(c) ==
  /\ rw[c] = "out"
  /\ state = 0
  /\ state' = -1
  /\ Go(c, "writing")
  /\ UNCHANGED waiting_writers

\* The wait of a writer fails: the readers it held back are let go with it.
WrWaitFails(c) ==
  /\ rw[c] = "writeFailed"
  /\ waiting_writers' = waiting_writers - 1
  /\ LET out == [rw EXCEPT ![c] = "out"] IN
       rw' = IF waiting_writers = 1 /\ state >= 0
             THEN WakeAll(out, "read", "readWoken") ELSE out
  /\ UNCHANGED state

\* A mutant: the readers are left to the writer that comes next.
SilentWrUnlock(c) ==
  /\ rw[c] = "writing"
  /\ state = -1
  /\ state' = 0
  /\ rw' \in SignalOne([rw EXCEPT ![c] = "out"], "write", "writeWoken")
  /\ UNCHANGED waiting_writers

WrUnlock(c) ==
  /\ rw[c] = "writing"
  /\ state = -1
  /\ state' = 0
  /\ LET out == [rw EXCEPT ![c] = "out"] IN
       IF waiting_writers # 0
       THEN rw' \in SignalOne(out, "write", "writeWoken")
       ELSE rw' = WakeAll(out, "read", "readWoken")
  /\ UNCHANGED waiting_writers

\* A wait ends although nobody signalled.
RwSpurious(c) ==
  /\ \/ rw[c] = "read" /\ Go(c, "readWoken")
     \/ rw[c] = "write" /\ Go(c, "writeWoken")
  /\ UNCHANGED <<state, waiting_writers>>

\* A wait ends with an error.
RwWaitErrs(c) ==
  /\ \/ rw[c] = "read" /\ Go(c, "readFailed")
     \/ rw[c] = "write" /\ Go(c, "writeFailed")
  /\ UNCHANGED <<state, waiting_writers>>

\* A call that waits is let on.
RwResume(c) ==
  \/ rw[c] = "readWoken" /\ RdLock(c)
  \/ rw[c] = "writeWoken" /\ WrLock(c)
  \/ RwSpurious(c)

RwNext ==
  \E c \in Calls :
     \/ rw[c] = "out" /\ (RdLock(c) \/ WrLock(c))
     \/ TryRdLock(c) \/ TryWrLock(c)
     \/ RdUnlock(c) \/ WrUnlock(c)
     \/ RwResume(c)
     \/ RwWaitErrs(c) \/ RdWaitFails(c) \/ WrWaitFails(c)

RwSpec == RwInit /\ [][RwNext]_rwVars

-----------------------------------------------------------------------------
(* Properties. *)

RwTypeOK ==
  /\ state \in -1 .. IntMax
  /\ waiting_writers \in Nat
  /\ rw \in [Calls -> RwPlaces]

\* A writer is alone: no second writer and no reader holds the lock with it
\* (the tests of state_ in ct_rwlock_rdlock and ct_rwlock_wrlock).
RwExclusion ==
  \A c, d \in Calls : rw[c] = "writing" /\ d # c => rw[d] \notin {"writing", "reading"}

\* Nobody sleeps at a lock he could have: a sleeping reader has a writer before
\* it, and when the lock is free and a writer sleeps, another one was woken and
\* is on its way (whom ct_rwlock_rdunlock and ct_rwlock_wrunlock choose to wake
\* from a count that includes writers already woken).
RwSleepersJustified ==
  /\ In(rw, "read") # {} => ReadersWait
  /\ In(rw, "write") # {} /\ state = 0 => In(rw, "writeWoken") # {}
=============================================================================
