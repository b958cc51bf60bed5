------------------------------ MODULE RefCount ------------------------------
(***************************************************************************)
(* The reference counter of sync/src/ref.c on its atomic steps.            *)
(*                                                                         *)
(* An operation is one atomic addition, or a load and a loop of            *)
(* compare-and-swaps; the store that poisons a damaged counter is a later  *)
(* step of its own, and other threads see the counter in between.          *)
(*                                                                         *)
(* Around the counter the module puts the use for which ref.h is written:  *)
(* an object is found in a table under a lock (ct_refcount_inc_not_zero),  *)
(* passed on by owners (ct_refcount_inc), dropped by either of the two     *)
(* puts, and taken off the table under the lock by whoever drops the last  *)
(* reference.                                                              *)
(***************************************************************************)
EXTENDS Integers, FiniteSets

CONSTANTS Threads,
          NoThread,
          Slots,      \* a thread owns at most one reference per slot
          Modulus,    \* 2^32 in the code
          RefMax,     \* REFCOUNT_MAX
          Saturated   \* REFCOUNT_SATURATED

Refs == Threads \X Slots

ASSUME ThreadsAssumption ==
  NoThread \notin Threads /\ IsFiniteSet(Threads) /\ IsFiniteSet(Slots)

\* The gap of ref.h: the threads are fewer than the values between the ranges.
ASSUME WidthAssumption ==
  /\ Modulus \in Nat /\ RefMax \in Nat \ {0} /\ Saturated \in Nat
  /\ RefMax + Cardinality(Threads) < Saturated
  /\ Saturated + 3 + Cardinality(Threads) < Modulus

VARIABLES value,     \* value_
          poisoned,  \* refcount_saturate has been executed (history)
          lock,      \* holder of the lock of the table
          linked,    \* the object is in the table
          releases,  \* how often the object has been released (history)
          held,      \* the references that exist: pairs of owner and slot
          pc,        \* where each thread stands
          old        \* the value each thread has loaded

vars == <<value, poisoned, lock, linked, releases, held, pc, old>>

(***************************************************************************)
(* pc[t]:  "idle"                                                          *)
(*   ct_refcount_inc_not_zero, with the lock:                              *)
(*         "load", "cas"     about to load, to compare and swap            *)
(*   ct_refcount_dec_and_mutex_lock:                                       *)
(*         "dropload", "dropcas"                                           *)
(*         "last"            has seen the count 1, about to lock           *)
(*         "locked"          has the lock, about to decrement              *)
(*   all:  "poison"          about to call refcount_saturate               *)
(*         "poisonget", "poisondrop"  the same, then to return with, or    *)
(*                           without, the reference                        *)
(*         "release"         a put has returned true                       *)
(***************************************************************************)
Owned(t) == {r \in held : r[1] = t}
Free(t) == {r \in Refs : r[1] = t} \ held

\* ct_refcount_init, and the publication of the object.
Init ==
  /\ value = 1
  /\ \E r \in Refs : held = {r}
  /\ poisoned = FALSE /\ releases = 0
  /\ lock = NoThread /\ linked = TRUE
  /\ pc = [t \in Threads |-> "idle"]
  /\ old = [t \in Threads |-> 0]

\* The valid states of a live counter, and those that nobody has poisoned yet.
Live(v) == v \in 1..RefMax

Broken(v) == v > RefMax /\ v < Saturated

-----------------------------------------------------------------------------
(* ct_refcount_inc *)

\* The addition, and where it leaves t.
Increment(t) ==
  /\ value' = (value + 1) % Modulus
  /\ pc' = [pc EXCEPT ![t] = IF value = 0 \/ value >= RefMax THEN "poison" ELSE "idle"]

Get(t) ==
  /\ pc[t] = "idle" /\ Owned(t) # {}
  /\ Increment(t)
  /\ \E r \in Free(t) : held' = held \union {r}
  /\ UNCHANGED <<poisoned, lock, linked, releases, old>>

-----------------------------------------------------------------------------
(* ct_refcount_inc_not_zero *)

\* Take the lock and find the object.
Lookup(t) ==
  /\ pc[t] = "idle" /\ Free(t) # {}
  /\ lock = NoThread /\ linked
  /\ lock' = t
  /\ pc' = [pc EXCEPT ![t] = "load"]
  /\ UNCHANGED <<value, poisoned, linked, releases, held, old>>

\* The head of the loop, with v in old: return false, return true without an
\* increment, poison, or try the swap.
InspectGet(t, v) ==
  \/ /\ v = 0
     /\ pc' = [pc EXCEPT ![t] = "idle"] /\ lock' = NoThread
     /\ UNCHANGED <<held, old>>
  \/ /\ v >= Saturated
     /\ pc' = [pc EXCEPT ![t] = "idle"] /\ lock' = NoThread
     /\ \E r \in Free(t) : held' = held \union {r}
     /\ UNCHANGED old
  \/ /\ Broken(v)
     /\ pc' = [pc EXCEPT ![t] = "poisonget"]
     /\ UNCHANGED <<held, old, lock>>
  \/ /\ Live(v)
     /\ pc' = [pc EXCEPT ![t] = "cas"]
     /\ old' = [old EXCEPT ![t] = v]
     /\ UNCHANGED <<held, lock>>

Load(t) ==
  /\ pc[t] = "load"
  /\ InspectGet(t, value)
  /\ UNCHANGED <<value, poisoned, linked, releases>>

CasGet_Blind(t) ==
  /\ pc[t] = "cas"
  /\ value' = old[t] + 1
  /\ \E r \in Free(t) : held' = held \union {r}
  /\ pc' = [pc EXCEPT ![t] = IF old[t] >= RefMax THEN "poison" ELSE "idle"]
  /\ lock' = IF old[t] >= RefMax THEN lock ELSE NoThread
  /\ UNCHANGED <<poisoned, linked, releases, old>>

CasGet(t) ==
  /\ pc[t] = "cas" /\ value = old[t]
  /\ value' = old[t] + 1
  /\ \E r \in Free(t) : held' = held \union {r}
  /\ pc' = [pc EXCEPT ![t] = IF old[t] >= RefMax THEN "poison" ELSE "idle"]
  /\ lock' = IF old[t] >= RefMax THEN lock ELSE NoThread
  /\ UNCHANGED <<poisoned, linked, releases, old>>

\* The value has changed, or the weak compare-and-swap fails for no reason.
CasGetFails(t) ==
  /\ pc[t] = "cas"
  /\ InspectGet(t, value)
  /\ UNCHANGED <<value, poisoned, linked, releases>>

-----------------------------------------------------------------------------
(* ct_refcount_dec_and_test *)

DecrementTo_NoLast == IF Live(value) THEN "idle" ELSE "poison"

\* Where the subtraction leaves t.
DecrementTo == IF value = 1 THEN "release" ELSE IF Live(value) THEN "idle" ELSE "poison"

Decrement(t) ==
  /\ value' = (value - 1) % Modulus
  /\ pc' = [pc EXCEPT ![t] = DecrementTo]

Put(t) ==
  /\ pc[t] = "idle"
  /\ Decrement(t)
  /\ \E r \in Owned(t) : held' = held \ {r}
  /\ UNCHANGED <<poisoned, lock, linked, releases, old>>

-----------------------------------------------------------------------------
(* ct_refcount_dec_and_mutex_lock *)

PutLocked(t) ==
  /\ pc[t] = "idle" /\ Owned(t) # {}
  /\ pc' = [pc EXCEPT ![t] = "dropload"]
  /\ UNCHANGED <<value, poisoned, lock, linked, releases, held, old>>

\* The head of the loop, with v in value: give up a poisoned counter, lock for the last
\* reference, poison, or try the swap.
InspectDrop(t, v) ==
  \/ /\ v >= Saturated
     /\ pc' = [pc EXCEPT ![t] = "idle"]
     /\ \E r \in Owned(t) : held' = held \ {r}
     /\ UNCHANGED old
  \/ /\ v = 1
     /\ pc' = [pc EXCEPT ![t] = "last"]
     /\ UNCHANGED <<held, old>>
  \/ /\ v = 0 \/ Broken(v)
     /\ pc' = [pc EXCEPT ![t] = "poisondrop"]
     /\ UNCHANGED <<held, old>>
  \/ /\ Live(v) /\ v # 1
     /\ pc' = [pc EXCEPT ![t] = "dropcas"]
     /\ old' = [old EXCEPT ![t] = v]
     /\ UNCHANGED held

DropLoad(t) ==
  /\ pc[t] = "dropload"
  /\ InspectDrop(t, value)
  /\ UNCHANGED <<value, poisoned, lock, linked, releases>>

DropCas_Blind(t) ==
  /\ pc[t] = "dropcas"
  /\ value' = old[t] - 1
  /\ \E r \in Owned(t) : held' = held \ {r}
  /\ pc' = [pc EXCEPT ![t] = "idle"]
  /\ UNCHANGED <<poisoned, lock, linked, releases, old>>

DropCas(t) ==
  /\ pc[t] = "dropcas" /\ value = old[t]
  /\ value' = old[t] - 1
  /\ \E r \in Owned(t) : held' = held \ {r}
  /\ pc' = [pc EXCEPT ![t] = "idle"]
  /\ UNCHANGED <<poisoned, lock, linked, releases, old>>

DropCasFails(t) ==
  /\ pc[t] = "dropcas"
  /\ InspectDrop(t, value)
  /\ UNCHANGED <<value, poisoned, lock, linked, releases>>

DropLock(t) ==
  /\ pc[t] = "last" /\ lock = NoThread
  /\ lock' = t
  /\ pc' = [pc EXCEPT ![t] = "locked"]
  /\ UNCHANGED <<value, poisoned, linked, releases, held, old>>

\* The count may have grown since it was 1: decrement and test again, with the lock.
DropLast(t) ==
  /\ pc[t] = "locked"
  /\ Decrement(t)
  /\ lock' = IF DecrementTo = "idle" THEN NoThread ELSE lock
  /\ \E r \in Owned(t) : held' = held \ {r}
  /\ UNCHANGED <<poisoned, linked, releases, old>>

-----------------------------------------------------------------------------
(* refcount_saturate.  The value stored is Saturated plus the number of one *)
(* of four reasons, "a hint, not a history": any of them here.              *)

Poisons_AtMax == {RefMax}
Poisons == Saturated..Saturated + 3

Poison(t) ==
  /\ value' \in Poisons
  /\ poisoned' = TRUE
  /\ \/ pc[t] = "poison" /\ UNCHANGED held
     \/ pc[t] = "poisonget" /\ \E r \in Free(t) : held' = held \union {r}
     \/ pc[t] = "poisondrop" /\ \E r \in Owned(t) : held' = held \ {r}
  /\ pc' = [pc EXCEPT ![t] = "idle"]
  /\ lock' = IF lock = t THEN NoThread ELSE lock
  /\ UNCHANGED <<linked, releases, old>>

\* Take the object off the table, under the lock, and destroy it: what the release
\* function of ct_ref_put_mutex does, and the caller of the other put.
Release(t) ==
  /\ pc[t] = "release" /\ lock \in {NoThread, t}
  /\ linked' = FALSE
  /\ lock' = NoThread
  /\ releases' = releases + 1
  /\ pc' = [pc EXCEPT ![t] = "idle"]
  /\ UNCHANGED <<value, poisoned, held, old>>

ThreadStep(t) ==
  \/ Get(t) \/ Lookup(t) \/ Load(t) \/ CasGet(t) \/ CasGetFails(t)
  \/ Put(t) \/ PutLocked(t) \/ DropLoad(t) \/ DropCas(t) \/ DropCasFails(t)
  \/ DropLock(t) \/ DropLast(t)
  \/ Poison(t) \/ Release(t)

\* The object is gone, or nobody has a reference to a counter that stays poisoned.
Stopped == held = {} /\ (\A t \in Threads : pc[t] = "idle") /\ UNCHANGED vars

Next == (\E t \in Threads : ThreadStep(t)) \/ Stopped

Spec == Init /\ [][Next]_vars

-----------------------------------------------------------------------------
(* Misuse: references that nobody owns are added and dropped. *)

WildGet(t) ==
  /\ pc[t] = "idle"
  /\ Increment(t)
  /\ UNCHANGED <<poisoned, lock, linked, releases, held, old>>

WildPut(t) ==
  /\ pc[t] = "idle"
  /\ Decrement(t)
  /\ UNCHANGED <<poisoned, lock, linked, releases, held, old>>

MisuseSpec ==
  Init /\ [][Next \/ \E t \in Threads : WildGet(t) \/ WildPut(t)]_vars

-----------------------------------------------------------------------------
(* Safety. *)

PoisonPCs == {"poison", "poisonget", "poisondrop"}

TypeOK ==
  /\ value \in 0..Modulus - 1
  /\ poisoned \in BOOLEAN /\ linked \in BOOLEAN
  /\ releases \in Nat
  /\ lock \in Threads \union {NoThread}
  /\ held \subseteq Refs
  /\ pc \in [Threads -> PoisonPCs \union
               {"idle", "load", "cas", "dropload", "dropcas", "last", "locked", "release"}]
  /\ old \in [Threads -> 0..RefMax]

\* Until the counter is damaged it is the number of references, whichever mix of
\* additions, swaps and retries produced it; and it can exceed RefMax by no more than
\* the operations that are about to poison it.
CountExact ==
  ~poisoned =>
    /\ value = Cardinality(held)
    /\ value <= RefMax + Cardinality({t \in Threads : pc[t] \in PoisonPCs})

\* "Once saturated, the counter never becomes releasable again": operations that are
\* about to repair it move it by less than the gap, and nobody releases the object.
PoisonSticks ==
  poisoned =>
    /\ value > RefMax
    /\ releases = 0
    /\ \A t \in Threads : pc[t] # "release"

\* The object is released once, by one thread, when no reference is left and no other
\* thread is inside an operation on the counter.
ReleasedUnowned ==
  /\ releases <= 1
  /\ (releases = 1 \/ \E t \in Threads : pc[t] = "release" /\ lock = t) =>
       held = {} /\ Cardinality({t \in Threads : pc[t] # "idle"}) <= 1

\* The last put is never missed: when all references are gone and all calls have
\* returned, the object has been released, unless it leaks because it is poisoned.
LastPutReleases ==
  held = {} /\ (\A t \in Threads : pc[t] = "idle") => releases = 1 \/ poisoned

\* A dead object is not released again.
ReleasedOnce == releases <= 1
=============================================================================
