----------------------------- MODULE SyncProofs -----------------------------
(***************************************************************************)
(* Proofs about the read-write lock, the bus over it, the event, the wait  *)
(* group and the semaphore, for any number of threads and calls.           *)
(***************************************************************************)
EXTENDS PubSub, SyncWaits, FiniteSetTheorems, TLAPS

-----------------------------------------------------------------------------
(* Facts about wait sets. *)

\* A signal moves one sleeper, if there is one, and nobody else.
LEMMA Signalled ==
  ASSUME NEW f, NEW s, NEW w, NEW g \in SignalOne(f, s, w)
  PROVE  \/ In(f, s) = {} /\ g = f
         \/ \E t \in In(f, s) : g = [f EXCEPT ![t] = w]
BY DEF SignalOne

\* A new element raises the cardinality of a finite set by one.
LEMMA FiniteAdd ==
  ASSUME NEW S, IsFiniteSet(S), NEW x, x \notin S
  PROVE  IsFiniteSet(S \union {x}) /\ Cardinality(S \union {x}) = Cardinality(S) + 1
BY FS_AddElement

\* A removed element lowers it by one.
LEMMA FiniteRemove ==
  ASSUME NEW S, IsFiniteSet(S), NEW x \in S
  PROVE  IsFiniteSet(S \ {x}) /\ Cardinality(S \ {x}) = Cardinality(S) - 1
BY FS_RemoveElement

-----------------------------------------------------------------------------
(* The event, the wait group and the semaphore. *)

EvInv ==
  /\ count \in {0, 1}
  /\ ev \in [EvThreads -> EvPlaces]
  /\ EvSleepersJustified

\* No signal of the event is lost on sleepers (event.c:78-92): while the flag is
\* up, a waiter that was woken has still to look at it, or nobody sleeps.
THEOREM EventSignalKept == EvSpec => []EvSleepersJustified
<1>1. EvInit => EvInv
  BY DEF EvInit, EvInv, EvPlaces, EvSleepersJustified, In
<1>2. EvInv /\ [EvNext]_evVars => EvInv'
  <2> SUFFICES ASSUME EvInv, [EvNext]_evVars PROVE EvInv'
    OBVIOUS
  <2> USE DEF EvInv, EvPlaces, EvSleepersJustified, In
  <2>1. CASE EvSignal
    <3>1. ev' \in SignalOne(ev, "asleep", "woken") /\ count' = 1
      BY <2>1 DEF EvSignal
    <3>2. CASE In(ev, "asleep") = {} /\ ev' = ev
      BY <3>1, <3>2
    <3>3. CASE \E t \in In(ev, "asleep") : ev' = [ev EXCEPT ![t] = "woken"]
      <4>1. PICK t \in EvThreads : ev' = [ev EXCEPT ![t] = "woken"]
        BY <3>3
      <4>2. ev'[t] = "woken"
        BY <4>1
      <4> QED BY <3>1, <4>1, <4>2
    <3> QED BY <3>1, <3>2, <3>3, Signalled
  <2>2. CASE EvReset
    BY <2>2 DEF EvReset
  <2>3. ASSUME NEW t \in EvThreads, EvWait(t) \/ EvResume(t) PROVE EvInv'
    BY <2>3 DEF EvWait, EvResume, EvLook
  <2>4. ASSUME NEW t \in EvThreads, EvGiveUp(t) PROVE EvInv'
    BY <2>4 DEF EvGiveUp
  <2>5. ASSUME NEW t \in EvThreads, EvWaitEnds(t) PROVE EvInv'
    BY <2>5 DEF EvWaitEnds
  <2>6. CASE UNCHANGED evVars
    BY <2>6 DEF evVars
  <2> QED BY <2>1, <2>2, <2>3, <2>4, <2>5, <2>6 DEF EvNext
<1>3. EvInv => EvSleepersJustified
  BY DEF EvInv
<1> QED BY <1>1, <1>2, <1>3, PTL DEF EvSpec

WgInv ==
  /\ counter \in Nat
  /\ wg \in [WgThreads -> {"out", "asleep", "woken"}]
  /\ WgSleepersJustified

\* Reaching zero leaves nobody asleep in the wait group (waitgroup.c:36).
THEOREM GroupReleasesAll == WgSpec => []WgSleepersJustified
<1>1. WgInit => WgInv
  BY DEF WgInit, WgInv, WgSleepersJustified, In
<1>2. WgInv /\ [WgNext]_wgVars => WgInv'
  <2> SUFFICES ASSUME WgInv, [WgNext]_wgVars PROVE WgInv'
    OBVIOUS
  <2> USE DEF WgInv, WgSleepersJustified, In
  <2>1. ASSUME NEW delta \in -2 .. 2, WgAdd(delta) PROVE WgInv'
    <3>1. CASE UNCHANGED <<counter, wg>>
      BY <3>1
    <3>2. CASE /\ counter' = counter + delta /\ counter' >= 0
               /\ wg' = IF counter' = 0 THEN WakeAll(wg, "asleep", "woken") ELSE wg
      BY <3>2 DEF WakeAll
    <3> QED BY <2>1, <3>1, <3>2 DEF WgAdd
  <2>2. ASSUME NEW t \in WgThreads, WgWait(t) \/ WgResume(t) PROVE WgInv'
    BY <2>2 DEF WgWait, WgResume, WgLook
  <2>3. ASSUME NEW t \in WgThreads, WgGiveUp(t) \/ WgWaitEnds(t) PROVE WgInv'
    BY <2>3 DEF WgGiveUp, WgWaitEnds
  <2>4. CASE UNCHANGED wgVars
    BY <2>4 DEF wgVars
  <2> QED BY <2>1, <2>2, <2>3, <2>4 DEF WgNext
<1>3. WgInv => WgSleepersJustified
  BY DEF WgInv
<1> QED BY <1>1, <1>2, <1>3, PTL DEF WgSpec

SemInv ==
  /\ permits \in Nat
  /\ sem \in [SemThreads -> {"out", "asleep", "woken"}]
  /\ SemSleepersJustified

\* While a thread sleeps on the semaphore, every permit has a thread on its way
\* to it, however many posts come before the first of them runs (sem.c:122-124).
THEOREM PermitsReachWaiters == SemSpec => []SemSleepersJustified
<1>0. ASSUME NEW f \in [SemThreads -> {"out", "asleep", "woken"}]
      PROVE  IsFiniteSet(In(f, "woken")) /\ Cardinality(In(f, "woken")) \in Nat
  <2>1. In(f, "woken") \in SUBSET SemThreads
    BY DEF In
  <2> QED BY <2>1, SemAssumption, FS_Subset, FS_CardinalityType
<1>1. SemInit => SemInv
  BY SemAssumption DEF SemInit, SemInv, SemSleepersJustified, In
<1>2. SemInv /\ [SemNext]_semVars => SemInv'
  <2> SUFFICES ASSUME SemInv, [SemNext]_semVars PROVE SemInv'
    OBVIOUS
  <2> USE DEF SemInv
  <2>0. IsFiniteSet(In(sem, "woken")) /\ Cardinality(In(sem, "woken")) \in Nat
    BY <1>0
  <2>1. ASSUME NEW t \in SemThreads, sem[t] = "asleep", sem' = [sem EXCEPT ![t] = "woken"],
               permits' \in {permits, permits + 1}
        PROVE  SemInv'
    <3>1. In(sem', "woken") = In(sem, "woken") \union {t} /\ t \notin In(sem, "woken")
      BY <2>1 DEF In
    <3>2. Cardinality(In(sem', "woken")) = Cardinality(In(sem, "woken")) + 1
      BY <2>0, <3>1, FiniteAdd
    <3>3. permits <= Cardinality(In(sem, "woken"))
      BY <2>1 DEF SemSleepersJustified, In
    <3> QED BY <2>0, <2>1, <3>2, <3>3 DEF SemSleepersJustified
  <2>2. ASSUME SemPost PROVE SemInv'
    <3>1. sem' \in SignalOne(sem, "asleep", "woken") /\ permits' = permits + 1
      BY <2>2 DEF SemPost
    <3>2. CASE In(sem, "asleep") = {} /\ sem' = sem
      BY <3>1, <3>2 DEF SemSleepersJustified
    <3>3. CASE \E t \in In(sem, "asleep") : sem' = [sem EXCEPT ![t] = "woken"]
      BY <2>1, <3>1, <3>3 DEF In
    <3> QED BY <3>1, <3>2, <3>3, Signalled
  <2>3. ASSUME NEW t \in SemThreads, SemWait(t) PROVE SemInv'
    <3>1. In(sem', "woken") = In(sem, "woken")
      BY <2>3 DEF SemWait, SemLook, In
    <3>2. CASE permits = 0
      BY <2>0, <2>3, <3>1, <3>2 DEF SemWait, SemLook, SemSleepersJustified
    <3>3. CASE permits # 0
      BY <2>0, <2>3, <3>1, <3>3 DEF SemWait, SemLook, SemSleepersJustified, In
    <3> QED BY <3>2, <3>3
  <2>4. ASSUME NEW t \in SemThreads, SemResume(t) PROVE SemInv'
    <3>1. t \in In(sem, "woken") /\ In(sem', "woken") = In(sem, "woken") \ {t}
      BY <2>4 DEF SemResume, SemLook, In
    <3>2. Cardinality(In(sem', "woken")) = Cardinality(In(sem, "woken")) - 1
      BY <2>0, <3>1, FiniteRemove
    <3>3. Cardinality(In(sem', "woken")) \in Nat
      <4>1. sem' \in [SemThreads -> {"out", "asleep", "woken"}]
        BY <2>4 DEF SemResume, SemLook
      <4> QED BY <1>0, <4>1
    <3>4. CASE permits = 0
      BY <2>4, <3>3, <3>4 DEF SemResume, SemLook, SemSleepersJustified
    <3>5. CASE permits # 0
      <4>1. In(sem', "asleep") = In(sem, "asleep") /\ permits' = permits - 1
        BY <2>4, <3>5 DEF SemResume, SemLook, In
      <4>2. permits' \in Nat /\ sem' \in [SemThreads -> {"out", "asleep", "woken"}]
        BY <2>4, <3>5 DEF SemResume, SemLook
      <4> QED BY <2>0, <3>2, <4>1, <4>2 DEF SemSleepersJustified
    <3> QED BY <3>4, <3>5
  <2>5. ASSUME NEW t \in SemThreads, SemTryWait(t) PROVE SemInv'
    BY <2>0, <2>5 DEF SemTryWait, SemSleepersJustified
  <2>6. ASSUME NEW t \in SemThreads, SemWaitEnds(t) PROVE SemInv'
    <3>1. CASE sem[t] = "asleep" /\ sem' = [sem EXCEPT ![t] = "woken"] /\ permits' = permits
      BY <2>1, <3>1
    <3>2. CASE sem[t] = "asleep" /\ sem' = [sem EXCEPT ![t] = "out"] /\ permits' = permits
      <4>1. In(sem', "woken") = In(sem, "woken") /\ In(sem, "asleep") # {}
        BY <3>2 DEF In
      <4> QED BY <3>2, <4>1 DEF SemSleepersJustified
    <3> QED BY <2>6, <3>1, <3>2 DEF SemWaitEnds
  <2>7. CASE UNCHANGED semVars
    BY <2>7 DEF semVars, SemSleepersJustified
  <2> QED BY <2>2, <2>3, <2>4, <2>5, <2>6, <2>7 DEF SemNext
<1>3. SemInv => SemSleepersJustified
  BY DEF SemInv
<1> QED BY <1>1, <1>2, <1>3, PTL DEF SemSpec

-----------------------------------------------------------------------------
(* The read-write lock. *)

LinePlaces == {"write", "writeWoken", "writeFailed"}

\* The writers that waiting_writers_ counts.
Line(f) == {c \in Calls : f[c] \in LinePlaces}

LineCounted == waiting_writers = Cardinality(Line(rw))

\* state_ is -1 for one writer alone, or the number of readers.
StateCounted ==
  \/ state = -1 /\ In(rw, "reading") = {} /\ \E c \in Calls : In(rw, "writing") = {c}
  \/ state \in Nat /\ In(rw, "writing") = {} /\ state = Cardinality(In(rw, "reading"))

RwInv == RwTypeOK /\ LineCounted /\ StateCounted /\ RwSleepersJustified

\* With finitely many calls every wait set, and the line of writers, is finite.
LEMMA PlacesFinite ==
  ASSUME NEW f \in [Calls -> RwPlaces]
  PROVE  /\ \A s : IsFiniteSet(In(f, s)) /\ Cardinality(In(f, s)) \in Nat
         /\ IsFiniteSet(Line(f)) /\ Cardinality(Line(f)) \in Nat
<1>1. \A s : In(f, s) \in SUBSET Calls
  BY DEF In
<1>2. Line(f) \in SUBSET Calls
  BY DEF Line
<1> QED BY <1>1, <1>2, RwAssumption, FS_Subset, FS_CardinalityType

\* One call changes its place in or out of the line.
LEMMA LineMoved ==
  ASSUME NEW f \in [Calls -> RwPlaces], NEW c \in Calls, NEW p \in RwPlaces
  PROVE  LET g == [f EXCEPT ![c] = p] IN
           /\ f[c] \in LinePlaces /\ p \in LinePlaces => Line(g) = Line(f)
           /\ f[c] \notin LinePlaces /\ p \notin LinePlaces => Line(g) = Line(f)
           /\ f[c] \notin LinePlaces /\ p \in LinePlaces =>
                Cardinality(Line(g)) = Cardinality(Line(f)) + 1
           /\ f[c] \in LinePlaces /\ p \notin LinePlaces =>
                Cardinality(Line(g)) = Cardinality(Line(f)) - 1 /\ Cardinality(Line(f)) # 0
<1> DEFINE g == [f EXCEPT ![c] = p]
<1>1. f[c] \in LinePlaces /\ p \in LinePlaces => Line(g) = Line(f)
  BY DEF Line
<1>2. f[c] \notin LinePlaces /\ p \notin LinePlaces => Line(g) = Line(f)
  BY DEF Line
<1>3. f[c] \notin LinePlaces /\ p \in LinePlaces =>
        c \notin Line(f) /\ Line(g) = Line(f) \union {c}
  BY DEF Line
<1>4. f[c] \in LinePlaces /\ p \notin LinePlaces => c \in Line(f) /\ Line(g) = Line(f) \ {c}
  BY DEF Line
<1>5. Cardinality(Line(f)) = 0 => Line(f) = {}
  BY PlacesFinite, FS_EmptySet
<1> QED BY <1>1, <1>2, <1>3, <1>4, <1>5, PlacesFinite, FiniteAdd, FiniteRemove

\* A woken or failed sleeper, readers or writer, leaves line and holders alone.
LEMMA WakesKeep ==
  ASSUME NEW f \in [Calls -> RwPlaces], NEW g \in [Calls -> RwPlaces],
         \/ \E c \in Calls : /\ f[c] = "write" /\ g = [f EXCEPT ![c] = "writeWoken"]
         \/ \E c \in Calls : /\ f[c] = "write" /\ g = [f EXCEPT ![c] = "writeFailed"]
         \/ \E c \in Calls : /\ f[c] = "read" /\ g = [f EXCEPT ![c] = "readWoken"]
         \/ \E c \in Calls : /\ f[c] = "read" /\ g = [f EXCEPT ![c] = "readFailed"]
         \/ g = WakeAll(f, "read", "readWoken")
         \/ g = f
  PROVE  /\ Line(g) = Line(f)
         /\ In(g, "reading") = In(f, "reading") /\ In(g, "writing") = In(f, "writing")
<1>1. CASE g = WakeAll(f, "read", "readWoken")
  BY <1>1 DEF WakeAll, Line, LinePlaces, In
<1>2. CASE g # WakeAll(f, "read", "readWoken")
  BY <1>2 DEF Line, LinePlaces, In
<1> QED BY <1>1, <1>2

\* The invariant of the lock holds at the start.
LEMMA RwInitInv == RwInit => RwInv
<1> SUFFICES ASSUME RwInit PROVE RwInv
  OBVIOUS
<1>1. Line(rw) = {} /\ \A s \in {"read", "write", "reading", "writing"} : In(rw, s) = {}
  BY DEF RwInit, Line, LinePlaces, In
<1>2. RwTypeOK
  BY RwAssumption DEF RwInit, RwTypeOK, RwPlaces
<1> QED
  BY <1>1, <1>2, FS_EmptySet DEF RwInit, RwInv, LineCounted, StateCounted, RwSleepersJustified

\* A reader goes to sleep, or comes in, or is turned away.
LEMMA RdLockStep ==
  ASSUME RwInv, NEW c \in Calls, RdLock(c) \/ TryRdLock(c) PROVE RwInv'
<1> USE DEF RwInv
<1>0. /\ rw \in [Calls -> RwPlaces] /\ rw[c] \in {"out", "readWoken"}
      /\ waiting_writers' = waiting_writers
      /\ state \in Int /\ waiting_writers \in Nat /\ IntMax \in Nat \ {0}
  BY RwAssumption DEF RwTypeOK, RdLock, TryRdLock, Go, Admit
<1>1. CASE ReadersWait /\ state' = state /\ rw' = [rw EXCEPT ![c] = "read"]
  <2>1. Line(rw') = Line(rw)
    BY <1>0, <1>1, LineMoved DEF RwPlaces, LinePlaces
  <2>2. In(rw', "reading") = In(rw, "reading") /\ In(rw', "writing") = In(rw, "writing")
    BY <1>0, <1>1 DEF In
  <2>3. RwSleepersJustified'
    BY <1>0, <1>1 DEF RwSleepersJustified, In, ReadersWait
  <2> QED BY <1>0, <1>1, <2>1, <2>2, <2>3 DEF RwTypeOK, RwPlaces, LineCounted, StateCounted
<1>2. CASE ~ReadersWait /\ state = IntMax /\ state' = state /\ rw' = [rw EXCEPT ![c] = "out"]
  <2>1. Line(rw') = Line(rw)
    BY <1>0, <1>2, LineMoved DEF RwPlaces, LinePlaces
  <2>2. In(rw', "reading") = In(rw, "reading") /\ In(rw', "writing") = In(rw, "writing")
    BY <1>0, <1>2 DEF In
  <2>3. RwSleepersJustified'
    BY <1>0, <1>2 DEF RwSleepersJustified, In, ReadersWait
  <2> QED BY <1>0, <1>2, <2>1, <2>2, <2>3 DEF RwTypeOK, RwPlaces, LineCounted, StateCounted
<1>3. CASE ~ReadersWait /\ state # IntMax /\ state' = state + 1 /\ rw' = [rw EXCEPT ![c] = "reading"]
  <2>1. Line(rw') = Line(rw)
    BY <1>0, <1>3, LineMoved DEF RwPlaces, LinePlaces
  <2>2. /\ In(rw', "reading") = In(rw, "reading") \union {c} /\ c \notin In(rw, "reading")
        /\ In(rw', "writing") = In(rw, "writing")
    BY <1>0, <1>3 DEF In
  <2>3. Cardinality(In(rw', "reading")) = Cardinality(In(rw, "reading")) + 1
    BY <1>0, <2>2, PlacesFinite, FiniteAdd
  <2>4. state' \in Nat /\ state' # 0 /\ state' <= IntMax
    BY <1>0, <1>3 DEF ReadersWait, RwTypeOK
  <2>5. RwSleepersJustified'
    BY <1>0, <1>3, <2>4 DEF RwSleepersJustified, In, ReadersWait
  <2>6. StateCounted'
    <3>1. In(rw, "writing") = {} /\ state = Cardinality(In(rw, "reading"))
      BY <1>0, <1>3 DEF StateCounted, ReadersWait
    <3> QED BY <1>3, <2>2, <2>3, <2>4, <3>1 DEF StateCounted
  <2> QED BY <1>0, <1>3, <2>1, <2>4, <2>5, <2>6 DEF RwTypeOK, RwPlaces, LineCounted
<1> QED BY <1>1, <1>2, <1>3 DEF RdLock, TryRdLock, Admit, Go

\* A writer joins the line, goes back to sleep in it, or has the lock.
LEMMA WrLockStep ==
  ASSUME RwInv, NEW c \in Calls, WrLock(c) \/ TryWrLock(c) PROVE RwInv'
<1> USE DEF RwInv
<1>0. /\ rw \in [Calls -> RwPlaces] /\ rw[c] \in {"out", "writeWoken"}
      /\ state \in Int /\ waiting_writers \in Nat /\ IntMax \in Nat
  BY RwAssumption DEF RwTypeOK, WrLock, TryWrLock
<1>1. CASE state # 0 /\ state' = state /\ rw' = [rw EXCEPT ![c] = "write"]
           /\ waiting_writers' = waiting_writers + IF rw[c] = "out" THEN 1 ELSE 0
  <2>1. waiting_writers' = Cardinality(Line(rw')) /\ waiting_writers' \in Nat
    <3>1. /\ rw[c] = "out" => rw[c] \notin LinePlaces
          /\ rw[c] = "writeWoken" => rw[c] \in LinePlaces
          /\ "write" \in LinePlaces /\ "writing" \notin LinePlaces
      BY DEF LinePlaces
    <3>2. rw' \in [Calls -> RwPlaces] /\ "write" \in RwPlaces
      BY <1>0, <1>1 DEF RwPlaces
    <3>3. Cardinality(Line(rw')) = Cardinality(Line(rw)) + (waiting_writers' - waiting_writers)
      <4>1. CASE rw[c] = "out"
        <5>1. Cardinality(Line(rw')) = Cardinality(Line(rw)) + 1
          BY <1>0, <1>1, <3>1, <3>2, <4>1, LineMoved
        <5>2. waiting_writers' - waiting_writers = 1
          BY <1>0, <1>1, <4>1
        <5> QED BY <1>0, <5>1, <5>2, PlacesFinite
      <4>2. CASE rw[c] = "writeWoken"
        <5>1. Line(rw') = Line(rw)
          BY <1>0, <1>1, <3>1, <3>2, <4>2, LineMoved
        <5>2. waiting_writers' - waiting_writers = 0
          BY <1>0, <1>1, <4>2
        <5> QED BY <1>0, <5>1, <5>2, PlacesFinite
      <4> QED BY <1>0, <4>1, <4>2
    <3>4. Cardinality(Line(rw')) \in Nat
      BY <3>2, PlacesFinite
    <3> QED BY <1>0, <1>1, <3>3, <3>4 DEF LineCounted
  <2>2. In(rw', "reading") = In(rw, "reading") /\ In(rw', "writing") = In(rw, "writing")
    BY <1>0, <1>1 DEF In
  <2>3. RwSleepersJustified'
    BY <1>0, <1>1, <2>1 DEF RwSleepersJustified, In, ReadersWait
  <2> QED BY <1>0, <1>1, <2>1, <2>2, <2>3 DEF RwTypeOK, RwPlaces, LineCounted, StateCounted
<1>2. CASE state = 0 /\ state' = -1 /\ rw' = [rw EXCEPT ![c] = "writing"]
           /\ waiting_writers' = waiting_writers - IF rw[c] = "out" THEN 0 ELSE 1
  <2>1. waiting_writers' = Cardinality(Line(rw')) /\ waiting_writers' \in Nat
    <3>1. /\ rw[c] = "out" => rw[c] \notin LinePlaces
          /\ rw[c] = "writeWoken" => rw[c] \in LinePlaces
          /\ "write" \in LinePlaces /\ "writing" \notin LinePlaces
      BY DEF LinePlaces
    <3>2. rw' \in [Calls -> RwPlaces] /\ "writing" \in RwPlaces
      BY <1>0, <1>2 DEF RwPlaces
    <3>3. Cardinality(Line(rw')) = Cardinality(Line(rw)) + (waiting_writers' - waiting_writers)
      <4>1. CASE rw[c] = "out"
        <5>1. Line(rw') = Line(rw)
          BY <1>0, <1>2, <3>1, <3>2, <4>1, LineMoved
        <5>2. waiting_writers' - waiting_writers = 0
          BY <1>0, <1>2, <4>1
        <5> QED BY <1>0, <5>1, <5>2, PlacesFinite
      <4>2. CASE rw[c] = "writeWoken"
        <5>1. Cardinality(Line(rw')) = Cardinality(Line(rw)) - 1
          BY <1>0, <1>2, <3>1, <3>2, <4>2, LineMoved
        <5>2. waiting_writers' - waiting_writers = -1
          BY <1>0, <1>2, <4>2
        <5> QED BY <1>0, <5>1, <5>2, PlacesFinite
      <4> QED BY <1>0, <4>1, <4>2
    <3>4. Cardinality(Line(rw')) \in Nat
      BY <3>2, PlacesFinite
    <3> QED BY <1>0, <1>2, <3>3, <3>4 DEF LineCounted
  <2>2. In(rw, "reading") = {}
    <3>1. Cardinality(In(rw, "reading")) = 0
      BY <1>2 DEF StateCounted
    <3> QED BY <1>0, <3>1, PlacesFinite, FS_EmptySet
  <2>3. In(rw, "writing") = {}
    BY <1>2 DEF StateCounted
  <2>4. In(rw', "reading") = {} /\ In(rw', "writing") = {c}
    BY <1>0, <1>2, <2>2, <2>3 DEF In
  <2>5. RwSleepersJustified'
    BY <1>0, <1>2 DEF RwSleepersJustified, In, ReadersWait
  <2>6. RwTypeOK'
    BY <1>0, <1>2, <2>1 DEF RwTypeOK, RwPlaces
  <2>7. StateCounted'
    BY <1>2, <2>4 DEF StateCounted
  <2> QED BY <2>1, <2>5, <2>6, <2>7 DEF LineCounted
<1> QED BY <1>0, <1>1, <1>2 DEF WrLock, TryWrLock, Go

\* The last reader that leaves wakes a writer if one is counted.
LEMMA RdUnlockStep ==
  ASSUME RwInv, NEW c \in Calls, RdUnlock(c) PROVE RwInv'
<1> USE DEF RwInv
<1> DEFINE out == [rw EXCEPT ![c] = "out"]
<1>0. /\ rw \in [Calls -> RwPlaces] /\ rw[c] = "reading"
      /\ state \in Nat \ {0} /\ state' = state - 1
      /\ waiting_writers \in Nat /\ waiting_writers' = waiting_writers
      /\ IntMax \in Nat
  BY RwAssumption DEF RwTypeOK, RdUnlock
<1>1. out \in [Calls -> RwPlaces] /\ \A d \in Calls : out[d] = IF d = c THEN "out" ELSE rw[d]
  BY <1>0 DEF RwPlaces
<1>2. \/ rw' = out /\ ~(state = 1 /\ waiting_writers # 0)
      \/ rw' = out /\ In(out, "write") = {}
      \/ \E t \in Calls : out[t] = "write" /\ rw' = [out EXCEPT ![t] = "writeWoken"]
  <2>1. CASE state = 1 /\ waiting_writers # 0
    <3>1. rw' \in SignalOne(out, "write", "writeWoken")
      BY <2>1 DEF RdUnlock
    <3>2. \A t \in In(out, "write") : t \in Calls /\ out[t] = "write"
      BY <1>1 DEF In
    <3> HIDE DEF out
    <3> QED BY <3>1, <3>2, Signalled
  <2>2. CASE ~(state = 1 /\ waiting_writers # 0)
    BY <2>2 DEF RdUnlock
  <2> QED BY <2>1, <2>2
<1>3. rw' \in [Calls -> RwPlaces]
  <2> HIDE DEF out
  <2> QED BY <1>1, <1>2 DEF RwPlaces
<1>4. /\ Line(rw') = Line(out) /\ In(rw', "reading") = In(out, "reading")
      /\ In(rw', "writing") = In(out, "writing")
  <2> HIDE DEF out
  <2> QED BY <1>1, <1>2, <1>3, WakesKeep
<1>5. Line(out) = Line(rw)
  BY <1>0, LineMoved DEF RwPlaces, LinePlaces
<1>6. /\ In(out, "reading") = In(rw, "reading") \ {c} /\ c \in In(rw, "reading")
      /\ In(out, "writing") = In(rw, "writing")
  BY <1>0 DEF In
<1>7. Cardinality(In(rw', "reading")) = Cardinality(In(rw, "reading")) - 1
  BY <1>0, <1>4, <1>6, PlacesFinite, FiniteRemove, ZenonT(60)
<1>8. StateCounted'
  <2>1. In(rw, "writing") = {} /\ state = Cardinality(In(rw, "reading"))
    BY <1>0 DEF StateCounted
  <2> QED BY <1>0, <1>4, <1>6, <1>7, <2>1 DEF StateCounted
<1>9. RwSleepersJustified'
  <2>1. \A d \in Calls : rw'[d] = "read" => ReadersWait'
    <3>1. \A d \in Calls : rw'[d] = "read" => rw[d] = "read"
      <4> HIDE DEF out
      <4> QED BY <1>0, <1>1, <1>2
    <3> QED BY <1>0, <3>1 DEF RwSleepersJustified, ReadersWait, In
  <2>2. \A d \in Calls : rw'[d] = "write" /\ state' = 0 => \E e \in Calls : rw'[e] = "writeWoken"
    <3>1. ASSUME NEW d \in Calls, rw'[d] = "write", state' = 0
          PROVE  \E e \in Calls : rw'[e] = "writeWoken"
      <4>1. d \in Line(rw)
        BY <1>4, <1>5, <3>1 DEF Line, LinePlaces
      <4>2. waiting_writers # 0
        BY <1>0, <4>1, PlacesFinite, FS_EmptySet DEF LineCounted
      <4>3. state = 1
        BY <1>0, <3>1
      <4>4. \/ rw' = out /\ In(out, "write") = {}
            \/ \E t \in Calls : out[t] = "write" /\ rw' = [out EXCEPT ![t] = "writeWoken"]
        BY <1>2, <4>2, <4>3
      <4> HIDE DEF out
      <4>5. ~(rw' = out /\ In(out, "write") = {})
        BY <1>1, <3>1 DEF In
      <4>6. PICK t \in Calls : rw' = [out EXCEPT ![t] = "writeWoken"]
        BY <4>4, <4>5
      <4> QED BY <1>1, <4>6
    <3> QED BY <3>1
  <2> QED BY <1>3, <2>1, <2>2 DEF RwSleepersJustified, In, ReadersWait
<1>10. RwTypeOK'
  BY <1>0, <1>3 DEF RwTypeOK
<1> QED BY <1>0, <1>4, <1>5, <1>8, <1>9, <1>10 DEF LineCounted

\* The writer that leaves wakes a writer if one is counted, or all the readers.
LEMMA WrUnlockStep ==
  ASSUME RwInv, NEW c \in Calls, WrUnlock(c) PROVE RwInv'
<1> USE DEF RwInv
<1> DEFINE out == [rw EXCEPT ![c] = "out"]
<1>0. /\ rw \in [Calls -> RwPlaces] /\ rw[c] = "writing"
      /\ state = -1 /\ state' = 0
      /\ waiting_writers \in Nat /\ waiting_writers' = waiting_writers
      /\ IntMax \in Nat
  BY RwAssumption DEF RwTypeOK, WrUnlock
<1>1. out \in [Calls -> RwPlaces] /\ \A d \in Calls : out[d] = IF d = c THEN "out" ELSE rw[d]
  BY <1>0 DEF RwPlaces
<1>2. \/ waiting_writers = 0 /\ rw' = WakeAll(out, "read", "readWoken")
      \/ waiting_writers # 0 /\ rw' = out /\ In(out, "write") = {}
      \/ /\ waiting_writers # 0
         /\ \E t \in Calls : out[t] = "write" /\ rw' = [out EXCEPT ![t] = "writeWoken"]
  <2>1. CASE waiting_writers # 0
    <3>1. rw' \in SignalOne(out, "write", "writeWoken")
      BY <2>1 DEF WrUnlock
    <3>2. \A t \in In(out, "write") : t \in Calls /\ out[t] = "write"
      BY <1>1 DEF In
    <3> HIDE DEF out
    <3> QED BY <2>1, <3>1, <3>2, Signalled
  <2>2. CASE waiting_writers = 0
    BY <2>2 DEF WrUnlock
  <2> QED BY <2>1, <2>2
<1>3. rw' \in [Calls -> RwPlaces]
  <2> HIDE DEF out
  <2> QED BY <1>1, <1>2 DEF RwPlaces, WakeAll
<1>4. /\ Line(rw') = Line(out) /\ In(rw', "reading") = In(out, "reading")
      /\ In(rw', "writing") = In(out, "writing")
  <2> HIDE DEF out
  <2> QED BY <1>1, <1>2, <1>3, WakesKeep
<1>5. Line(out) = Line(rw)
  BY <1>0, LineMoved DEF RwPlaces, LinePlaces
<1>6. In(out, "reading") = In(rw, "reading") /\ In(out, "writing") = In(rw, "writing") \ {c}
  BY <1>0 DEF In
<1>7. StateCounted'
  <2>1. In(rw, "reading") = {} /\ In(rw, "writing") = {c}
    BY <1>0 DEF StateCounted, In
  <2> QED BY <1>0, <1>4, <1>6, <2>1, FS_EmptySet DEF StateCounted
<1>8. RwSleepersJustified'
  <2>1. \A d \in Calls : rw'[d] = "read" => waiting_writers # 0
    <3> HIDE DEF out
    <3> QED BY <1>1, <1>2 DEF WakeAll
  <2>2. ASSUME NEW d \in Calls, rw'[d] = "write" PROVE \E e \in Calls : rw'[e] = "writeWoken"
    <3>1. d \in Line(rw)
      BY <1>4, <1>5, <2>2 DEF Line, LinePlaces
    <3>2. waiting_writers # 0
      BY <1>0, <3>1, PlacesFinite, FS_EmptySet DEF LineCounted
    <3> HIDE DEF out
    <3>3. ~(rw' = out /\ In(out, "write") = {})
      BY <1>1, <2>2 DEF In
    <3>4. PICK t \in Calls : rw' = [out EXCEPT ![t] = "writeWoken"]
      BY <1>2, <3>2, <3>3
    <3> QED BY <1>1, <3>4
  <2> QED BY <1>0, <1>3, <2>1, <2>2 DEF RwSleepersJustified, In, ReadersWait
<1>9. RwTypeOK'
  BY <1>0, <1>3 DEF RwTypeOK
<1> QED BY <1>0, <1>4, <1>5, <1>7, <1>8, <1>9 DEF LineCounted

\* The failing writer lets the readers go when it was the last in the line.
LEMMA WrWaitFailsStep ==
  ASSUME RwInv, NEW c \in Calls, WrWaitFails(c) PROVE RwInv'
<1> USE DEF RwInv
<1> DEFINE out == [rw EXCEPT ![c] = "out"]
<1>0. /\ rw \in [Calls -> RwPlaces] /\ rw[c] = "writeFailed"
      /\ state \in Int /\ state' = state
      /\ waiting_writers \in Nat /\ waiting_writers' = waiting_writers - 1
  BY RwAssumption DEF RwTypeOK, WrWaitFails
<1>1. out \in [Calls -> RwPlaces] /\ \A d \in Calls : out[d] = IF d = c THEN "out" ELSE rw[d]
  BY <1>0 DEF RwPlaces
<1>2. rw' = IF waiting_writers = 1 /\ state >= 0 THEN WakeAll(out, "read", "readWoken") ELSE out
  BY DEF WrWaitFails
<1>3. rw' \in [Calls -> RwPlaces]
  <2> HIDE DEF out
  <2> QED BY <1>1, <1>2 DEF RwPlaces, WakeAll
<1>4. /\ Line(rw') = Line(out) /\ In(rw', "reading") = In(out, "reading")
      /\ In(rw', "writing") = In(out, "writing")
  <2> HIDE DEF out
  <2> QED BY <1>1, <1>2, <1>3, WakesKeep
<1>5. Cardinality(Line(out)) = Cardinality(Line(rw)) - 1 /\ Cardinality(Line(rw)) # 0
  BY <1>0, LineMoved DEF RwPlaces, LinePlaces
<1>6. In(out, "reading") = In(rw, "reading") /\ In(out, "writing") = In(rw, "writing")
  BY <1>0 DEF In
<1>7. waiting_writers' = Cardinality(Line(rw')) /\ waiting_writers' \in Nat
  BY <1>0, <1>4, <1>5 DEF LineCounted
<1>8. RwSleepersJustified'
  <2>1. \A d \in Calls : rw'[d] = "read" => state' < 0 \/ waiting_writers' # 0
    <3>1. ASSUME NEW d \in Calls, rw'[d] = "read", state >= 0 PROVE waiting_writers # 1
      <4> HIDE DEF out
      <4> QED BY <1>1, <1>2, <3>1 DEF WakeAll
    <3> QED BY <1>0, <3>1
  <2>2. \A d \in Calls : /\ rw'[d] = "write" <=> rw[d] = "write"
                         /\ rw[d] = "writeWoken" => rw'[d] = "writeWoken"
    <3> HIDE DEF out
    <3> QED BY <1>0, <1>1, <1>2 DEF WakeAll
  <2> QED BY <1>0, <1>3, <2>1, <2>2 DEF RwSleepersJustified, In, ReadersWait
<1>9. RwTypeOK' /\ StateCounted'
  BY <1>0, <1>3, <1>4, <1>6, <1>7 DEF RwTypeOK, StateCounted
<1> QED BY <1>7, <1>8, <1>9 DEF LineCounted

\* A wait ends by itself, or with an error, or its caller gives up.
LEMMA WaitEndsStep ==
  ASSUME RwInv, NEW c \in Calls, RwSpurious(c) \/ RwWaitErrs(c) \/ RdWaitFails(c) PROVE RwInv'
<1> USE DEF RwInv
<1>0. /\ rw \in [Calls -> RwPlaces] /\ state' = state /\ waiting_writers' = waiting_writers
  BY DEF RwTypeOK, RwSpurious, RwWaitErrs, RdWaitFails
<1>1. \/ rw[c] = "read" /\ rw' = [rw EXCEPT ![c] = "readWoken"]
      \/ rw[c] = "read" /\ rw' = [rw EXCEPT ![c] = "readFailed"]
      \/ rw[c] = "write" /\ rw' = [rw EXCEPT ![c] = "writeWoken"]
      \/ rw[c] = "write" /\ rw' = [rw EXCEPT ![c] = "writeFailed"]
      \/ rw[c] = "readFailed" /\ rw' = [rw EXCEPT ![c] = "out"]
  BY DEF RwSpurious, RwWaitErrs, RdWaitFails, Go
<1>2. rw' \in [Calls -> RwPlaces]
  BY <1>0, <1>1 DEF RwPlaces
<1>3. /\ Line(rw') = Line(rw)
      /\ In(rw', "reading") = In(rw, "reading") /\ In(rw', "writing") = In(rw, "writing")
  BY <1>0, <1>1 DEF Line, LinePlaces, In
<1>4. \A d \in Calls : /\ rw'[d] = "write" => rw[d] = "write"
                       /\ rw'[d] = "read" => rw[d] = "read"
                       /\ rw[d] = "writeWoken" => rw'[d] = "writeWoken"
  BY <1>0, <1>1
<1>5. RwSleepersJustified'
  BY <1>0, <1>2, <1>4 DEF RwSleepersJustified, In, ReadersWait
<1> QED BY <1>0, <1>2, <1>3, <1>5 DEF RwTypeOK, LineCounted, StateCounted

\* Every step of the lock keeps its invariant.
LEMMA RwNextInv == RwInv /\ [RwNext]_rwVars => RwInv'
<1> SUFFICES ASSUME RwInv, [RwNext]_rwVars PROVE RwInv'
  OBVIOUS
<1>1. CASE UNCHANGED rwVars
  BY <1>1 DEF RwInv, RwTypeOK, LineCounted, StateCounted, RwSleepersJustified, ReadersWait,
     rwVars, Line, In
<1>2. CASE RwNext
  BY <1>2, RdLockStep, WrLockStep, RdUnlockStep, WrUnlockStep, WrWaitFailsStep, WaitEndsStep
     DEF RwNext, RwResume
<1> QED BY <1>1, <1>2

\* So it holds always.
LEMMA RwInvariant == RwSpec => []RwInv
BY RwInitInv, RwNextInv, PTL DEF RwSpec

\* A writer has the lock alone (rwlock.c, the tests of state_).
THEOREM LockExcludes == RwSpec => []RwExclusion
<1>1. RwInv => RwExclusion
  BY DEF RwInv, RwTypeOK, StateCounted, RwExclusion, In
<1> QED BY <1>1, RwInvariant, PTL

\* Nobody sleeps at a lock that is free for him, failing waits included: the
\* choice of whom to wake from the counts is right.
THEOREM LockSleepersJustified == RwSpec => []RwSleepersJustified
<1>1. RwInv => RwSleepersJustified
  BY DEF RwInv
<1> QED BY <1>1, RwInvariant, PTL

\* The four primitives side by side: nobody sleeps without a cause in any of them,
\* for any number of threads and with timeouts, failing waits and spurious wakeups.
THEOREM NobodySleepsInVain == RwSpec /\ EvSpec /\ WgSpec /\ SemSpec => []WaitersJustified
<1>1. RwSleepersJustified /\ EvSleepersJustified /\ WgSleepersJustified /\ SemSleepersJustified
        => WaitersJustified
  BY DEF WaitersJustified
<1> QED
  BY <1>1, LockSleepersJustified, EventSignalKept, GroupReleasesAll, PermitsReachWaiters, PTL

-----------------------------------------------------------------------------
(* The bus over the lock. *)

\* A step of the bus is a step of its lock, or leaves the lock alone.
LEMMA BusStep == [PsNext]_psVars => [RwNext]_rwVars
<1> SUFFICES ASSUME [PsNext]_psVars PROVE [RwNext]_rwVars
  OBVIOUS
<1>1. ASSUME NEW c \in Calls, NEW r, PsCall(c, r) PROVE RwNext
  BY <1>1 DEF PsCall, RwNext
<1>2. ASSUME NEW c \in Calls, PsResume(c) PROVE RwNext
  BY <1>2 DEF PsResume, RwNext
<1>3. ASSUME NEW c \in Calls, PublishReturns(c) \/ ChangeReturns(c) PROVE RwNext
  BY <1>3 DEF PublishReturns, ChangeReturns, RwNext
<1>4. ASSUME NEW c \in Calls, Deliver(c) \/ Subscribe(c) \/ Unsubscribe(c) PROVE UNCHANGED rwVars
  BY <1>4 DEF Deliver, Subscribe, Unsubscribe
<1>5. CASE UNCHANGED psVars
  BY <1>5 DEF psVars
<1> QED BY <1>1, <1>2, <1>3, <1>4, <1>5 DEF PsNext

\* Whatever is called on the bus, by threads and by subscribers from within, its
\* lock is used as the lock is specified.
THEOREM BusUsesLock == PsSpec => RwSpec
<1>1. PsInit => RwInit
  BY DEF PsInit
<1> QED BY <1>1, BusStep, PTL DEF PsSpec, RwSpec

PublishRecord(t, n, s, l) == [op |-> "publish", type |-> t, next |-> n, seen |-> s, list |-> l]

\* Each call has its record; that of a publisher has its five fields.
PsShape ==
  /\ DOMAIN ps = Calls /\ ps = [c \in Calls |-> ps[c]]
  /\ \A c \in Calls : ps[c].op = "publish" =>
       \E t, n, s, l : ps[c] = PublishRecord(t, n, s, l)

BusInv == PsShape /\ ListHeld

\* A publisher that has just got the lock starts on the list there is.
LEMMA HeldByCall ==
  ASSUME RwInv, BusInv, NEW c \in Calls,
         UNCHANGED sub_list,
         NEW p, rw' = [rw EXCEPT ![c] = p],
         NEW r, ps' = [ps EXCEPT ![c] = r],
         r.op = "publish" => \E t, n, s : r = PublishRecord(t, n, s, sub_list)
  PROVE  BusInv'
<1> USE DEF BusInv
<1>1. ps'[c] = r /\ \A d \in Calls : d # c => ps'[d] = ps[d] /\ rw'[d] = rw[d]
  BY DEF PsShape, RwInv, RwTypeOK
<1>2. PsShape'
  BY <1>1 DEF PsShape
<1>3. ps'[c].op = "publish" => sub_list = ps'[c].list
  BY <1>1 DEF PublishRecord
<1> QED BY <1>1, <1>2, <1>3 DEF ListHeld

\* The records and the held list are invariant.
LEMMA BusInvariant == PsSpec => []BusInv
<1>1. PsInit => BusInv
  BY DEF PsInit, RwInit, BusInv, PsShape, ListHeld, Idle
<1>2. RwInv /\ BusInv /\ [PsNext]_psVars => BusInv'
  <2> SUFFICES ASSUME RwInv, BusInv, [PsNext]_psVars PROVE BusInv'
    OBVIOUS
  <2> USE DEF BusInv
  <2>0. rw \in [Calls -> RwPlaces]
    BY DEF RwInv, RwTypeOK
  <2>1. ASSUME NEW c \in Calls, NEW r \in Requests, PsCall(c, r) PROVE BusInv'
    <3>1. PICK p : rw' = [rw EXCEPT ![c] = p]
      BY <2>1 DEF PsCall, RdLock, WrLock, Admit, Go
    <3>2. CASE r.op = "publish"
      <4>1. r \in [op : {"publish"}, type : Types, next : {1}, seen : {<<>>}, list : {<<>>}]
        BY <3>2 DEF Requests
      <4>2. [r EXCEPT !.list = sub_list] = PublishRecord(r.type, r.next, r.seen, sub_list)
        BY <4>1 DEF PublishRecord
      <4>3. ps' = [ps EXCEPT ![c] = PublishRecord(r.type, r.next, r.seen, sub_list)]
        BY <2>1, <3>2, <4>2 DEF PsCall
      <4> QED BY <2>1, <3>1, <4>3, HeldByCall DEF PsCall
    <3>3. CASE r.op # "publish"
      BY <2>1, <3>1, <3>3, HeldByCall DEF PsCall
    <3> QED BY <3>2, <3>3
  <2>2. ASSUME NEW c \in Calls, PsResume(c) PROVE BusInv'
    <3>1. PICK p : rw' = [rw EXCEPT ![c] = p]
      BY <2>2 DEF PsResume, RwResume, RwSpurious, RdLock, WrLock, Admit, Go
    <3>2. CASE ps[c].op = "publish"
      <4>1. PICK t, n, s, l : ps[c] = PublishRecord(t, n, s, l)
        BY <3>2 DEF PsShape
      <4>2. [ps[c] EXCEPT !.list = sub_list] = PublishRecord(t, n, s, sub_list)
        BY <4>1 DEF PublishRecord
      <4>3. ps' = [ps EXCEPT ![c] = PublishRecord(t, n, s, sub_list)]
        BY <2>2, <3>2, <4>2 DEF PsResume
      <4> QED BY <2>2, <3>1, <4>3, HeldByCall DEF PsResume
    <3>3. CASE ps[c].op # "publish"
      <4>1. ps' = [ps EXCEPT ![c] = ps[c]]
        BY <2>2, <3>3 DEF PsResume, PsShape
      <4> QED BY <2>2, <3>1, <3>3, <4>1, HeldByCall DEF PsResume
    <3> QED BY <3>2, <3>3
  <2>3. ASSUME NEW c \in Calls, Deliver(c) PROVE BusInv'
    <3>1. PICK t, n, s, l : ps[c] = PublishRecord(t, n, s, l)
      BY <2>3 DEF Deliver, PsShape
    <3>2. PICK m, q : ps' = [ps EXCEPT ![c] = PublishRecord(t, m, q, l)]
      <4>1. PICK m, q : ps' = [ps EXCEPT ![c] = [[ps[c] EXCEPT !.next = m] EXCEPT !.seen = q]]
        BY <2>3 DEF Deliver
      <4>2. [[ps[c] EXCEPT !.next = m] EXCEPT !.seen = q] = PublishRecord(t, m, q, l)
        <5>1. [ps[c] EXCEPT !.next = m] = PublishRecord(t, m, s, l)
          BY <3>1 DEF PublishRecord
        <5>2. [PublishRecord(t, m, s, l) EXCEPT !.seen = q] = PublishRecord(t, m, q, l)
          BY DEF PublishRecord
        <5> QED BY <5>1, <5>2
      <4> QED BY <4>1, <4>2
    <3>3. ps'[c].list = ps[c].list /\ \A d \in Calls : d # c => ps'[d] = ps[d]
      BY <3>1, <3>2 DEF PsShape, PublishRecord
    <3>4. PsShape'
      BY <3>2 DEF PsShape
    <3>5. rw' = rw /\ sub_list' = sub_list /\ ps[c].op = "publish"
      BY <2>3 DEF Deliver, rwVars
    <3> QED BY <3>3, <3>4, <3>5 DEF ListHeld
  <2>4. ASSUME NEW c \in Calls, PublishReturns(c) \/ ChangeReturns(c) PROVE BusInv'
    <3>1. \A d \in Calls : rw'[d] = "reading" => rw[d] = "reading"
      <4>1. ASSUME NEW f \in [Calls -> RwPlaces], NEW g \in SignalOne(f, "write", "writeWoken"),
                   NEW d \in Calls, g[d] = "reading"
            PROVE  f[d] = "reading"
        BY <4>1, Signalled DEF In
      <4>2. /\ [rw EXCEPT ![c] = "out"] \in [Calls -> RwPlaces]
            /\ \A d \in Calls : [rw EXCEPT ![c] = "out"][d] = "reading" => rw[d] = "reading"
        BY <2>0 DEF RwPlaces
      <4> QED BY <2>0, <2>4, <4>1, <4>2 DEF PublishReturns, ChangeReturns, RdUnlock, WrUnlock, WakeAll
    <3>2. ps' = [ps EXCEPT ![c] = Idle] /\ sub_list' = sub_list /\ Idle.op # "publish"
      BY <2>4 DEF PublishReturns, ChangeReturns, Idle
    <3> QED BY <3>1, <3>2 DEF PsShape, ListHeld
  <2>5. ASSUME NEW c \in Calls, Subscribe(c) \/ Unsubscribe(c) PROVE BusInv'
    <3>1. rw[c] = "writing" /\ rw' = rw
      BY <2>5 DEF Subscribe, Unsubscribe, rwVars
    <3>2. \A d \in Calls : rw[d] # "reading"
      <4>1. In(rw, "writing") # {}
        BY <2>0, <3>1 DEF In
      <4>2. In(rw, "reading") = {}
        BY <4>1 DEF RwInv, StateCounted
      <4> QED BY <2>0, <4>2 DEF In
    <3>3. ps' = [ps EXCEPT ![c] = [op |-> "unlock"]]
      BY <2>5 DEF Subscribe, Unsubscribe
    <3>4. PsShape'
      BY <3>3 DEF PsShape
    <3> QED BY <3>1, <3>2, <3>4 DEF ListHeld
  <2>6. CASE UNCHANGED psVars
    BY <2>6 DEF psVars, rwVars, PsShape, ListHeld
  <2> QED BY <2>1, <2>2, <2>3, <2>4, <2>5, <2>6 DEF PsNext
<1>3. PsSpec => []RwInv
  BY BusUsesLock, RwInvariant
<1> QED BY <1>1, <1>2, <1>3, PTL DEF PsSpec

\* The list of subscriptions stays as it is while a publisher walks it
\* (pubsub.c:58-68), for any threads, event types and subscribers.
THEOREM ListHeldWhileWalked == PsSpec => []ListHeld
<1>1. BusInv => ListHeld
  BY DEF BusInv
<1> QED BY <1>1, BusInvariant, PTL

\* What a publisher has called so far, and that a call starts afresh with the lock.
SeenBy(p) == p.next \in Nat \ {0} /\ (\E S : p.seen \in Seq(S)) /\ Delivered(p)

Fresh(p) == p.next = 1 /\ p.seen = <<>>

SeenInv ==
  \A c \in Calls : ps[c].op = "publish" =>
    /\ SeenBy(ps[c])
    /\ rw[c] # "reading" => Fresh(ps[c])

\* A publisher that has passed nothing has called nobody.
LEMMA SeenAfresh ==
  ASSUME NEW t, NEW l
  PROVE  SeenBy(PublishRecord(t, 1, <<>>, l)) /\ Fresh(PublishRecord(t, 1, <<>>, l))
<1> DEFINE p == PublishRecord(t, 1, <<>>, l)
<1>1. p.next = 1 /\ p.seen = <<>> /\ p.type = t /\ p.list = l
  BY DEF PublishRecord
<1> HIDE DEF p
<1>2. Matching(p.list, p.type, p.next - 1) = {}
  BY <1>1 DEF Matching
<1>3. Cardinality({}) = 0
  BY FS_EmptySet
<1>4. Len(<<>>) = 0 /\ <<>> \in Seq({})
  OBVIOUS
<1>5. Delivered(p)
  BY <1>1, <1>2, <1>3, <1>4 DEF Delivered
<1>6. \E S : p.seen \in Seq(S)
  BY <1>1, <1>4
<1>7. SeenBy(p) /\ Fresh(p)
  BY <1>1, <1>5, <1>6 DEF SeenBy, Fresh
<1> QED BY <1>7 DEF p

\* One turn of the loop of ct_pubsub_publish.
LEMMA SeenOneMore ==
  ASSUME NEW t, NEW n, NEW s, NEW l, SeenBy(PublishRecord(t, n, s, l)), NEW q,
         q = IF l[n].type = t THEN Append(s, l[n]) ELSE s
  PROVE  SeenBy(PublishRecord(t, n + 1, q, l))
<1> DEFINE m  == Matching(l, t, n - 1)
           m1 == Matching(l, t, n)
           Rank(k) == Cardinality({j \in m : j <= k})
           Rank1(k) == Cardinality({j \in m1 : j <= k})
<1>1. /\ n \in Nat \ {0} /\ Len(s) = Cardinality(m)
      /\ \A k \in m : s[Rank(k)] = l[k]
  BY DEF SeenBy, Delivered, PublishRecord
<1>2. PICK S : s \in Seq(S)
  BY DEF SeenBy, PublishRecord
<1>3. IsFiniteSet(m) /\ m \subseteq 1..(n - 1) /\ Cardinality(m) \in Nat
  <2>1. m \in SUBSET (1..(n - 1)) /\ IsFiniteSet(1..(n - 1))
    BY <1>1, FS_Interval DEF Matching
  <2> QED BY <2>1, FS_Subset, FS_CardinalityType
<1>4. SUFFICES /\ \E T : q \in Seq(T)
               /\ Len(q) = Cardinality(m1)
               /\ \A k \in m1 : q[Rank1(k)] = l[k]
  <2>1. (n + 1) - 1 = n /\ n + 1 \in Nat \ {0}
    BY <1>1
  <2> QED BY <2>1, ZenonT(120) DEF SeenBy, Delivered, PublishRecord
<1>5. ASSUME NEW k \in m PROVE {j \in m1 : j <= k} = {j \in m : j <= k}
  BY <1>1, <1>3 DEF Matching
<1>6. CASE l[n].type # t
  <2>1. m1 = m /\ q = s
    BY <1>1, <1>6 DEF Matching
  <2> QED BY <1>1, <1>2, <2>1
<1>7. CASE l[n].type = t
  <2>1. m1 = m \union {n} /\ n \notin m
    BY <1>1, <1>7 DEF Matching
  <2>2. Cardinality(m1) = Cardinality(m) + 1
    <3> HIDE DEF m, m1
    <3> QED BY <1>3, <2>1, FS_AddElement
  <2>3. q = Append(s, l[n]) /\ s \in Seq(S \union {l[n]})
    <3>1. q = Append(s, l[n])
      BY <1>7
    <3>2. \A i \in 1..Len(s) : s[i] \in S \union {l[n]}
      BY <1>2
    <3>3. Len(s) \in Nat /\ s = [i \in 1..Len(s) |-> s[i]]
      BY <1>2
    <3> QED BY <3>1, <3>2, <3>3
  <2>4. /\ q \in Seq(S \union {l[n]}) /\ Len(q) = Len(s) + 1 /\ Len(s) \in Nat
        /\ \A i \in 1..Len(s) : q[i] = s[i]
        /\ q[Len(s) + 1] = l[n]
    BY <2>3
  <2>5. ASSUME NEW k \in m PROVE q[Rank1(k)] = l[k]
    <3>1. Rank1(k) = Rank(k)
      BY <1>5
    <3>2. Rank(k) \in 1..Len(s)
      <4> DEFINE lo == {j \in m : j <= k}
      <4>1. lo \in SUBSET m /\ k \in lo
        BY <1>3
      <4>2. IsFiniteSet(lo) /\ Cardinality(lo) <= Cardinality(m) /\ Cardinality(lo) \in Nat
        BY <1>3, <4>1, FS_Subset, FS_CardinalityType
      <4>3. Cardinality(lo) # 0
        BY <4>1, <4>2, FS_EmptySet
      <4> HIDE DEF m
      <4> QED BY <1>1, <1>3, <4>2, <4>3
    <3> QED BY <1>1, <2>4, <3>1, <3>2
  <2>6. q[Rank1(n)] = l[n]
    <3>1. {j \in m1 : j <= n} = m1
      BY <1>1 DEF Matching
    <3>2. Rank1(n) = Len(s) + 1
      BY <1>1, <2>2, <3>1
    <3> QED BY <2>4, <3>2
  <2> HIDE DEF m, m1, Rank1
  <2>7. \A k \in m1 : q[Rank1(k)] = l[k]
    BY <2>1, <2>5, <2>6
  <2>8. Len(q) = Cardinality(m1)
    BY <1>1, <2>2, <2>4
  <2> QED BY <2>4, <2>7, <2>8
<1> QED BY <1>6, <1>7

\* A publisher that takes the lock, or falls asleep on it, starts on the list it finds.
LEMMA SeenByCall ==
  ASSUME RwInv, BusInv, SeenInv, NEW c \in Calls,
         NEW p, rw' = [rw EXCEPT ![c] = p],
         NEW r, ps' = [ps EXCEPT ![c] = r],
         r.op = "publish" => SeenBy(r) /\ Fresh(r)
  PROVE  SeenInv'
<1>1. ps'[c] = r /\ \A d \in Calls : d # c => ps'[d] = ps[d] /\ rw'[d] = rw[d]
  BY DEF BusInv, PsShape, RwInv, RwTypeOK
<1> QED BY <1>1 DEF SeenInv

LEMMA SeenStep == RwInv /\ BusInv /\ SeenInv /\ [PsNext]_psVars => SeenInv'
<1> SUFFICES ASSUME RwInv, BusInv, SeenInv, [PsNext]_psVars PROVE SeenInv'
  OBVIOUS
<1>0. /\ rw \in [Calls -> RwPlaces] /\ DOMAIN ps = Calls
      /\ \A c \in Calls : ps[c].op = "publish" => \E t, n, s, l : ps[c] = PublishRecord(t, n, s, l)
  BY DEF RwInv, RwTypeOK, BusInv, PsShape
<1>1. ASSUME NEW c \in Calls, NEW r \in Requests, PsCall(c, r) PROVE SeenInv'
  <2>1. PICK p : rw' = [rw EXCEPT ![c] = p]
    BY <1>1 DEF PsCall, RdLock, WrLock, Admit, Go
  <2>2. CASE r.op = "publish"
    <3>1. r \in [op : {"publish"}, type : Types, next : {1}, seen : {<<>>}, list : {<<>>}]
      BY <2>2 DEF Requests
    <3>2. [r EXCEPT !.list = sub_list] = PublishRecord(r.type, 1, <<>>, sub_list)
      BY <3>1 DEF PublishRecord
    <3>3. ps' = [ps EXCEPT ![c] = PublishRecord(r.type, 1, <<>>, sub_list)]
      BY <1>1, <2>2, <3>2 DEF PsCall
    <3> QED BY <2>1, <3>3, SeenAfresh, SeenByCall
  <2>3. CASE r.op # "publish"
    BY <1>1, <2>1, <2>3, SeenByCall DEF PsCall
  <2> QED BY <2>2, <2>3
<1>2. ASSUME NEW c \in Calls, PsResume(c) PROVE SeenInv'
  <2>1. PICK p : rw' = [rw EXCEPT ![c] = p]
    BY <1>2 DEF PsResume, RwResume, RwSpurious, RdLock, WrLock, Admit, Go
  <2>2. CASE ps[c].op = "publish"
    <3>1. PICK t, n, s, l : ps[c] = PublishRecord(t, n, s, l)
      BY <1>0, <2>2
    <3>2. rw[c] # "reading"
      BY <1>2 DEF PsResume, RwResume, RwSpurious, RdLock, WrLock
    <3>3. n = 1 /\ s = <<>>
      BY <2>2, <3>1, <3>2 DEF SeenInv, Fresh, PublishRecord
    <3>4. [ps[c] EXCEPT !.list = sub_list] = PublishRecord(t, 1, <<>>, sub_list)
      BY <3>1, <3>3 DEF PublishRecord
    <3>5. ps' = [ps EXCEPT ![c] = PublishRecord(t, 1, <<>>, sub_list)]
      BY <1>2, <2>2, <3>4 DEF PsResume
    <3> QED BY <2>1, <3>5, SeenAfresh, SeenByCall
  <2>3. CASE ps[c].op # "publish"
    <3>1. ps' = [ps EXCEPT ![c] = ps[c]]
      BY <1>2, <2>3 DEF PsResume, BusInv, PsShape
    <3> QED BY <2>1, <2>3, <3>1, SeenByCall
  <2> QED BY <2>2, <2>3
<1>3. ASSUME NEW c \in Calls, Deliver(c) PROVE SeenInv'
  <2>1. PICK t, n, s, l : ps[c] = PublishRecord(t, n, s, l)
    BY <1>0, <1>3 DEF Deliver
  <2>2. /\ ps[c].op = "publish" /\ ps[c].type = t /\ ps[c].next = n /\ ps[c].seen = s
        /\ ps[c].list = l
    BY <2>1 DEF PublishRecord
  <2>3. sub_list = l
    BY <1>3, <2>2 DEF Deliver, BusInv, ListHeld
  <2> DEFINE q == IF l[n].type = t THEN Append(s, l[n]) ELSE s
  <2>4. ps' = [ps EXCEPT ![c] = PublishRecord(t, n + 1, q, l)]
    <3>1. ps' = [ps EXCEPT ![c] = [[ps[c] EXCEPT !.next = n + 1] EXCEPT !.seen = q]]
      BY <1>0, <1>3, <2>2, <2>3 DEF Deliver
    <3>2. [[ps[c] EXCEPT !.next = n + 1] EXCEPT !.seen = q] = PublishRecord(t, n + 1, q, l)
      <4> HIDE DEF q
      <4>1. [ps[c] EXCEPT !.next = n + 1] = PublishRecord(t, n + 1, s, l)
        BY <2>1 DEF PublishRecord
      <4>2. [PublishRecord(t, n + 1, s, l) EXCEPT !.seen = q] = PublishRecord(t, n + 1, q, l)
        BY DEF PublishRecord
      <4> QED BY <4>1, <4>2
    <3> QED BY <3>1, <3>2
  <2>5. SeenBy(PublishRecord(t, n + 1, q, l))
    <3>1. SeenBy(PublishRecord(t, n, s, l))
      BY <2>1, <2>2 DEF SeenInv
    <3> QED BY <3>1, SeenOneMore
  <2> HIDE DEF q
  <2>6. ps'[c] = PublishRecord(t, n + 1, q, l) /\ \A d \in Calls : d # c => ps'[d] = ps[d]
    BY <1>0, <2>4
  <2>7. rw' = rw /\ rw[c] = "reading"
    BY <1>3 DEF Deliver, rwVars
  <2> QED BY <2>5, <2>6, <2>7 DEF SeenInv
<1>4. ASSUME NEW c \in Calls, PublishReturns(c) \/ ChangeReturns(c) PROVE SeenInv'
  <2>1. \A d \in Calls : d # c => (rw[d] = "reading" => rw'[d] = "reading")
    <3>1. ASSUME NEW f \in [Calls -> RwPlaces], NEW g \in SignalOne(f, "write", "writeWoken"),
                 NEW d \in Calls, f[d] = "reading"
          PROVE  g[d] = "reading"
      BY <3>1, Signalled DEF In
    <3>2. /\ [rw EXCEPT ![c] = "out"] \in [Calls -> RwPlaces]
          /\ \A d \in Calls : d # c => [rw EXCEPT ![c] = "out"][d] = rw[d]
      BY <1>0 DEF RwPlaces
    <3> DEFINE out == [rw EXCEPT ![c] = "out"]
    <3>3. \/ rw' \in SignalOne(out, "write", "writeWoken")
          \/ rw' = out
          \/ rw' = WakeAll(out, "read", "readWoken")
      BY <1>4 DEF PublishReturns, ChangeReturns, RdUnlock, WrUnlock
    <3>4. \A d \in Calls : out[d] = "reading" => WakeAll(out, "read", "readWoken")[d] = "reading"
      BY <3>2 DEF WakeAll
    <3> HIDE DEF out
    <3> QED BY <3>1, <3>2, <3>3, <3>4, ZenonT(60) DEF out
  <2>2. ps' = [ps EXCEPT ![c] = Idle] /\ Idle.op # "publish"
    BY <1>4 DEF PublishReturns, ChangeReturns, Idle
  <2>3. ps'[c].op # "publish" /\ \A d \in Calls : d # c => ps'[d] = ps[d]
    BY <1>0, <2>2
  <2> QED BY <2>1, <2>3 DEF SeenInv
<1>5. ASSUME NEW c \in Calls, Subscribe(c) \/ Unsubscribe(c) PROVE SeenInv'
  <2>1. rw' = rw /\ ps' = [ps EXCEPT ![c] = [op |-> "unlock"]]
    BY <1>5 DEF Subscribe, Unsubscribe, rwVars
  <2>2. ps'[c].op # "publish" /\ \A d \in Calls : d # c => ps'[d] = ps[d]
    BY <1>0, <2>1
  <2> QED BY <2>1, <2>2 DEF SeenInv
<1>6. CASE UNCHANGED psVars
  BY <1>6 DEF psVars, rwVars, SeenInv
<1> QED BY <1>1, <1>2, <1>3, <1>4, <1>5, <1>6 DEF PsNext

\* A publisher calls the subscribers of its type, each once and in order, and nobody
\* else (pubsub.c:58-68), for any threads, types, subscribers and reentrant calls.
THEOREM PublisherDelivers == PsSpec => []DeliveredToSubscribers
<1>1. PsInit => SeenInv
  BY DEF PsInit, SeenInv, Idle
<1>2. BusInv /\ SeenInv => DeliveredToSubscribers
  BY DEF BusInv, SeenInv, SeenBy, DeliveredToSubscribers
<1>3. PsSpec => []RwInv
  BY BusUsesLock, RwInvariant
<1> QED BY <1>1, <1>2, <1>3, BusInvariant, SeenStep, PTL DEF PsSpec

\* A call not made is outside the lock, and a call made by a subscriber has the
\* publisher that called the subscriber in the lock around it.
CallsPlaced ==
  \A c \in Calls : /\ ps[c] = Idle => rw[c] = "out"
                   /\ InCallback(c) => rw[c] = "reading"

\* A call begins or comes back from its wait.
LEMMA PlacedByCall ==
  ASSUME RwInv, PsShape, CallsPlaced, NEW c \in Calls, rw[c] # "reading",
         NEW p, rw' = [rw EXCEPT ![c] = p],
         NEW r, r # Idle, ps' = [ps EXCEPT ![c] = r],
         c[2] = 2 => rw[<<c[1], 1>>] = "reading"
  PROVE  CallsPlaced'
<1>1. ps'[c] = r /\ \A d \in Calls : d # c => ps'[d] = ps[d] /\ rw'[d] = rw[d]
  BY DEF PsShape, RwInv, RwTypeOK
<1>2. ASSUME NEW d \in Calls, InCallback(d)' PROVE rw'[d] = "reading"
  <2>1. d[2] = 1 /\ d = <<d[1], 1>> /\ <<d[1], 2>> \in Calls
    BY <1>2, PsAssumption DEF InCallback
  <2>2. CASE c = <<d[1], 2>>
    <3>1. c[2] = 2 /\ c[1] = d[1] /\ d # c
      BY <2>1, <2>2
    <3> QED BY <1>1, <2>1, <3>1
  <2>3. CASE c # <<d[1], 2>>
    <3>1. InCallback(d)
      BY <1>1, <1>2, <2>1, <2>3 DEF InCallback, Inner
    <3> QED BY <1>1, <3>1 DEF CallsPlaced
  <2> QED BY <2>2, <2>3
<1> QED BY <1>1, <1>2 DEF CallsPlaced

\* Who gives up the lock is out of it, and moves only sleepers.
LEMMA UnlockPlaces ==
  ASSUME rw \in [Calls -> RwPlaces], NEW c \in Calls, RdUnlock(c) \/ WrUnlock(c)
  PROVE  /\ rw'[c] = "out"
         /\ \A d \in Calls : d # c => /\ rw[d] = "out" => rw'[d] = "out"
                                      /\ rw[d] = "reading" => rw'[d] = "reading"
<1> DEFINE out == [rw EXCEPT ![c] = "out"]
<1>1. out \in [Calls -> RwPlaces] /\ out[c] = "out" /\ \A d \in Calls : d # c => out[d] = rw[d]
  BY DEF RwPlaces
<1>2. CASE rw' = out
  BY <1>1, <1>2
<1>3. CASE rw' \in SignalOne(out, "write", "writeWoken")
  <2> HIDE DEF out
  <2>1. CASE rw' = out
    BY <1>1, <2>1
  <2>2. ASSUME NEW t \in In(out, "write"), rw' = [out EXCEPT ![t] = "writeWoken"]
        PROVE  \A d \in Calls : d # t => rw'[d] = out[d]
    BY <1>1, <2>2
  <2>3. \A t \in In(out, "write") : out[t] = "write"
    BY DEF In
  <2> QED BY <1>1, <1>3, <2>1, <2>2, <2>3, Signalled
<1>4. CASE rw' = WakeAll(out, "read", "readWoken")
  <2> HIDE DEF out
  <2>1. \A d \in Calls : rw'[d] = IF out[d] = "read" THEN "readWoken" ELSE out[d]
    BY <1>1, <1>4 DEF WakeAll
  <2> QED BY <1>1, <2>1
<1> QED BY <1>2, <1>3, <1>4 DEF RdUnlock, WrUnlock

\* A call ends, and may wake others.
LEMMA PlacedByReturn ==
  ASSUME RwInv, PsShape, CallsPlaced, NEW c \in Calls, ~InCallback(c),
         rw'[c] = "out", ps' = [ps EXCEPT ![c] = Idle],
         \A d \in Calls : d # c => /\ rw[d] = "out" => rw'[d] = "out"
                                   /\ rw[d] = "reading" => rw'[d] = "reading"
  PROVE  CallsPlaced'
<1>1. ps'[c] = Idle /\ \A d \in Calls : d # c => ps'[d] = ps[d]
  BY DEF PsShape
<1>2. ASSUME NEW d \in Calls, InCallback(d)' PROVE rw'[d] = "reading"
  <2>1. <<d[1], 2>> \in Calls
    BY PsAssumption
  <2>2. InCallback(d)
    BY <1>1, <1>2, <2>1 DEF InCallback, Inner
  <2> QED BY <2>2 DEF CallsPlaced
<1> QED BY <1>1, <1>2 DEF CallsPlaced

\* The last step of the argument: when everybody who is not inside a subscriber
\* sleeps or is out, then either somebody sleeps beneath a publisher of his own,
\* or a lock that nobody holds has only sleepers, which its invariant excludes.
LEMMA StuckByReentry ==
  ASSUME RwInv, CallsPlaced PROVE StuckOnlyByReentry
<1> SUFFICES ASSUME Halted
             PROVE  \E t \in Threads : rw[<<t, 1>>] = "reading" /\ rw[<<t, 2>>] \in {"read", "write"}
  BY DEF StuckOnlyByReentry
<1>0. rw \in [Calls -> RwPlaces] /\ waiting_writers \in Nat
  BY DEF RwInv, RwTypeOK
<1>1. CASE \E c \in Calls : InCallback(c)
  <2>1. PICK c \in Calls : InCallback(c)
    BY <1>1
  <2>2. PICK t \in Threads : c = <<t, 1>> /\ <<t, 2>> \in Calls /\ ps[<<t, 2>>] # Idle
    BY <2>1, PsAssumption DEF InCallback, Inner
  <2>3. ~InCallback(<<t, 2>>)
    BY DEF InCallback
  <2>4. rw[<<t, 2>>] \in {"read", "write"}
    BY <2>2, <2>3 DEF Halted
  <2> QED BY <2>1, <2>2, <2>4 DEF CallsPlaced
<1>2. CASE \A c \in Calls : ~InCallback(c)
  <2>1. \A c \in Calls : rw[c] \in {"out", "read", "write"}
    BY <1>2 DEF Halted, CallsPlaced
  <2>2. In(rw, "reading") = {} /\ In(rw, "writing") = {} /\ In(rw, "writeWoken") = {}
    BY <1>0, <2>1 DEF In
  <2>3. state = 0
    BY <2>2, FS_EmptySet DEF RwInv, StateCounted
  <2>4. In(rw, "write") = {}
    BY <2>2, <2>3 DEF RwInv, RwSleepersJustified
  <2>5. Line(rw) = {}
    BY <1>0, <2>1, <2>4 DEF Line, LinePlaces, In
  <2>6. waiting_writers = 0
    BY <2>5, FS_EmptySet DEF RwInv, LineCounted
  <2>7. In(rw, "read") = {}
    BY <2>3, <2>6 DEF RwInv, RwSleepersJustified, ReadersWait
  <2>8. \A c \in Calls : rw[c] = "out"
    BY <1>0, <2>1, <2>4, <2>7 DEF In
  <2> QED BY <1>2, <2>8 DEF Halted
<1> QED BY <1>1, <1>2

\* The bus blocks for good only in a thread whose subscriber has called it again
\* (pubsub.c:64), for any threads, event types and subscribers.
THEOREM BusStopsOnlyByReentry == PsSpec => []StuckOnlyByReentry
<1>1. PsInit => CallsPlaced
  BY PsAssumption DEF PsInit, RwInit, CallsPlaced, InCallback, Inner
<1>2. RwInv /\ BusInv /\ CallsPlaced /\ [PsNext]_psVars => CallsPlaced'
  <2> SUFFICES ASSUME RwInv, BusInv, CallsPlaced, [PsNext]_psVars PROVE CallsPlaced'
    OBVIOUS
  <2>0. rw \in [Calls -> RwPlaces] /\ PsShape
    BY DEF RwInv, RwTypeOK, BusInv
  <2>1. ASSUME NEW c \in Calls, NEW r \in Requests, PsCall(c, r) PROVE CallsPlaced'
    <3>1. PICK p : rw' = [rw EXCEPT ![c] = p]
      BY <2>1 DEF PsCall, RdLock, WrLock, Admit, Go
    <3>2. rw[c] = "out" /\ (c[2] = 2 => rw[<<c[1], 1>>] = "reading")
      BY <2>1 DEF PsCall, MayCall
    <3>3. PICK q : q.op = r.op /\ ps' = [ps EXCEPT ![c] = q]
      <4>1. CASE r.op = "publish"
        <5>1. r \in [op : {"publish"}, type : Types, next : {1}, seen : {<<>>}, list : {<<>>}]
          BY <4>1 DEF Requests
        <5>2. [r EXCEPT !.list = sub_list].op = "publish"
          BY <5>1
        <5> QED BY <2>1, <4>1, <5>2 DEF PsCall
      <4>2. CASE r.op # "publish"
        BY <2>1, <4>2 DEF PsCall
      <4> QED BY <4>1, <4>2
    <3>4. q # Idle
      BY <3>3 DEF Requests, Idle
    <3> QED BY <2>0, <3>1, <3>2, <3>3, <3>4, PlacedByCall
  <2>2. ASSUME NEW c \in Calls, PsResume(c) PROVE CallsPlaced'
    <3>1. PICK p : rw' = [rw EXCEPT ![c] = p]
      BY <2>2 DEF PsResume, RwResume, RwSpurious, RdLock, WrLock, Admit, Go
    <3>2. rw[c] # "reading"
      BY <2>2 DEF PsResume, RwResume, RwSpurious
    <3>3. c[2] = 2 => rw[<<c[1], 1>>] = "reading"
      <4> SUFFICES ASSUME c[2] = 2 PROVE rw[<<c[1], 1>>] = "reading"
        OBVIOUS
      <4>1. c = <<c[1], 2>> /\ <<c[1], 1>> \in Calls
        BY PsAssumption
      <4>2. InCallback(<<c[1], 1>>)
        BY <2>2, <4>1 DEF PsResume, InCallback, Inner
      <4> QED BY <4>1, <4>2 DEF CallsPlaced
    <3>4. PICK q : q # Idle /\ ps' = [ps EXCEPT ![c] = q]
      <4>1. CASE ps[c].op = "publish"
        <5>1. PICK t, n, s, l : ps[c] = PublishRecord(t, n, s, l)
          BY <2>0, <4>1 DEF PsShape
        <5>2. [ps[c] EXCEPT !.list = sub_list] = PublishRecord(t, n, s, sub_list)
          BY <5>1 DEF PublishRecord
        <5>3. PublishRecord(t, n, s, sub_list).op # Idle.op
          BY DEF PublishRecord, Idle
        <5> QED BY <2>2, <4>1, <5>2, <5>3 DEF PsResume
      <4>2. CASE ps[c].op # "publish"
        <5>1. ps' = [ps EXCEPT ![c] = ps[c]]
          BY <2>0, <2>2, <4>2 DEF PsResume, PsShape
        <5> QED BY <2>2, <5>1 DEF PsResume
      <4> QED BY <4>1, <4>2
    <3> QED BY <2>0, <3>1, <3>2, <3>3, <3>4, PlacedByCall
  <2>3. ASSUME NEW c \in Calls, NEW q, q # Idle, ps[c] # Idle, rw' = rw, ps' = [ps EXCEPT ![c] = q]
        PROVE  CallsPlaced'
    <3>1. \A d \in Calls : ps'[d] = Idle <=> ps[d] = Idle
      BY <2>0, <2>3 DEF PsShape
    <3>2. \A d \in Calls : Inner(d) \in Calls
      BY PsAssumption DEF Inner
    <3> QED BY <2>3, <3>1, <3>2 DEF CallsPlaced, InCallback, Inner
  <2>4. ASSUME NEW c \in Calls, Deliver(c) \/ Subscribe(c) \/ Unsubscribe(c) PROVE CallsPlaced'
    <3>1. rw' = rw /\ ps[c] # Idle
      BY <2>4 DEF Deliver, Subscribe, Unsubscribe, rwVars, Idle
    <3>2. CASE Deliver(c)
      <4>1. PICK t, n, s, l : ps[c] = PublishRecord(t, n, s, l)
        BY <2>0, <3>2 DEF Deliver, PsShape
      <4>2. PICK m, q : ps' = [ps EXCEPT ![c] = [[ps[c] EXCEPT !.next = m] EXCEPT !.seen = q]]
        BY <3>2 DEF Deliver
      <4>3. [[ps[c] EXCEPT !.next = m] EXCEPT !.seen = q].op # Idle.op
        BY <4>1 DEF PublishRecord, Idle
      <4> QED BY <2>3, <3>1, <4>2, <4>3
    <3>3. CASE Subscribe(c) \/ Unsubscribe(c)
      <4>1. [op |-> "unlock"] # Idle
        BY DEF Idle
      <4> QED BY <2>3, <3>1, <3>3, <4>1 DEF Subscribe, Unsubscribe
    <3> QED BY <2>4, <3>2, <3>3
  <2>5. ASSUME NEW c \in Calls, PublishReturns(c) PROVE CallsPlaced'
    <3>1. ps' = [ps EXCEPT ![c] = Idle] /\ ~InCallback(c) /\ RdUnlock(c)
      BY <2>5 DEF PublishReturns
    <3> QED BY <2>0, <3>1, UnlockPlaces, PlacedByReturn
  <2>6. ASSUME NEW c \in Calls, ChangeReturns(c) PROVE CallsPlaced'
    <3>1. ps' = [ps EXCEPT ![c] = Idle] /\ WrUnlock(c) /\ rw[c] = "writing"
      BY <2>6 DEF ChangeReturns, WrUnlock
    <3>2. ~InCallback(c)
      BY <3>1 DEF CallsPlaced
    <3> QED BY <2>0, <3>1, <3>2, UnlockPlaces, PlacedByReturn
  <2>7. CASE UNCHANGED psVars
    BY <2>7 DEF psVars, rwVars, CallsPlaced, InCallback
  <2> QED BY <2>1, <2>2, <2>4, <2>5, <2>6, <2>7 DEF PsNext
<1>3. RwInv /\ CallsPlaced => StuckOnlyByReentry
  BY StuckByReentry
<1>4. PsSpec => []RwInv
  BY BusUsesLock, RwInvariant
<1>5. PsSpec => []BusInv
  BY BusInvariant
<1> QED BY <1>1, <1>2, <1>3, <1>4, <1>5, PTL DEF PsSpec
=============================================================================
