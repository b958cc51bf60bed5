----------------------------- MODULE SyncWaits ------------------------------
(***************************************************************************)
(* What the blocking primitives of src/sync promise alike: nobody sleeps   *)
(* beside what would let it go.                                            *)
(***************************************************************************)
EXTENDS RwLock, Event, WaitGroup, Semaphore

\* Nobody sleeps in the read-write lock, an event, a wait group or a semaphore
\* unless what it waits for is not there, or a thread that was woken and has not
\* run yet will pass the signal on (rwlock.c:113-222, event.c:78-92,
\* waitgroup.c:36, sem.c:122-124).
WaitersJustified ==
  RwSleepersJustified /\ EvSleepersJustified /\ WgSleepersJustified /\ SemSleepersJustified
=============================================================================
