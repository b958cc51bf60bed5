--------------------------- MODULE RefCountProofs ---------------------------
(***************************************************************************)
(* Proofs about RefCount: for any number of threads and references and any *)
(* width with the gap of ref.h, correct use keeps the counter exact,       *)
(* releases the object once, and a poisoned counter is never released.     *)
(***************************************************************************)
EXTENDS RefCount, FiniteSetTheorems, TLAPS

-----------------------------------------------------------------------------
(* The inductive invariant. *)

\* The threads that have changed the counter, or seen it, out of range.
Poisoning == {t \in Threads : pc[t] \in PoisonPCs}

\* A swap is only tried from a value that allows it.
LoadedInRange ==
  \A t \in Threads : /\ pc[t] = "cas" => old[t] >= 1
                     /\ pc[t] = "dropcas" => old[t] >= 2

\* Who looks the object up has the lock, and sees it linked.
LookupLocked ==
  \A t \in Threads : /\ pc[t] \in {"load", "cas", "poisonget", "locked"} => lock = t
                     /\ pc[t] \in {"load", "cas", "poisonget"} => linked

\* Inside ct_refcount_dec_and_mutex_lock the reference still exists.
DroppersOwn ==
  \A t \in Threads :
    pc[t] \in {"dropload", "dropcas", "last", "locked", "poisondrop"} => Owned(t) # {}

LocalInv == TypeOK /\ LoadedInRange /\ LookupLocked /\ DroppersOwn

\* Whoever is about to poison has moved the counter by at most one.
PoisonedApart ==
  poisoned => /\ Saturated - Cardinality(Poisoning) <= value
              /\ value <= Saturated + 3 + Cardinality(Poisoning)

\* The first one to leave the range is a get, and its thread keeps a reference until
\* it has poisoned the counter.
FirstPoisonerOwns ==
  ~poisoned /\ Poisoning # {} => \E t \in Threads : pc[t] = "poison" /\ Owned(t) # {}

CountInv == LocalInv /\ CountExact /\ PoisonedApart /\ FirstPoisonerOwns

Releasing == {t \in Threads : pc[t] = "release"}

ReleaseFinal ==
  /\ releases \in {0, 1} /\ (linked <=> releases = 0)
  /\ Releasing # {} => releases = 0
  /\ Releasing # {} \/ releases = 1 => ~poisoned /\ held = {}
  /\ \A t, u \in Releasing : t = u

LastReleases == ~poisoned /\ held = {} => releases = 1 \/ Releasing # {}

IInv == CountInv /\ ReleaseFinal /\ LastReleases

-----------------------------------------------------------------------------
(* Facts about numbers and sizes. *)

LEMMA ThreadCount == Cardinality(Threads) \in Nat
BY ThreadsAssumption, FS_CardinalityType

LEMMA ModRange ==
  ASSUME NEW a \in Int
  PROVE  a % Modulus \in 0..Modulus - 1
<1>1. Modulus \in Nat \ {0}
  BY WidthAssumption, ThreadCount
<1> QED BY <1>1

LEMMA ModSmall ==
  ASSUME NEW a \in 0..Modulus - 1
  PROVE  a % Modulus = a
BY WidthAssumption

LEMMA PoisoningCount ==
  ASSUME NEW t \in Threads
  PROVE  /\ IsFiniteSet(Poisoning) /\ Cardinality(Poisoning) \in 0..Cardinality(Threads)
         /\ pc[t] \notin PoisonPCs => Cardinality(Poisoning) < Cardinality(Threads)
<1>1. Poisoning \subseteq Threads
  BY DEF Poisoning
<1>2. IsFiniteSet(Poisoning) /\ Cardinality(Poisoning) \in 0..Cardinality(Threads)
  BY <1>1, ThreadsAssumption, ThreadCount, FS_Subset, FS_CardinalityType
<1>3. ASSUME pc[t] \notin PoisonPCs PROVE Cardinality(Poisoning) < Cardinality(Threads)
  <2>1. Poisoning \subseteq Threads \ {t}
    BY <1>3 DEF Poisoning
  <2>2. IsFiniteSet(Threads \ {t}) /\ Cardinality(Threads \ {t}) = Cardinality(Threads) - 1
    BY ThreadsAssumption, FS_RemoveElement
  <2>3. Cardinality(Poisoning) <= Cardinality(Threads \ {t})
    BY <2>1, <2>2, FS_Subset
  <2> QED BY <1>2, <2>2, <2>3, ThreadCount
<1> QED BY <1>2, <1>3

\* What one thread does to the number of threads that are about to poison.
LEMMA PoisoningChange ==
  ASSUME NEW t \in Threads, \A u \in Threads \ {t} : pc'[u] = pc[u]
  PROVE  /\ pc[t] \notin PoisonPCs /\ pc'[t] \in PoisonPCs =>
              Cardinality(Poisoning') = Cardinality(Poisoning) + 1
         /\ pc[t] \in PoisonPCs /\ pc'[t] \notin PoisonPCs =>
              Cardinality(Poisoning') = Cardinality(Poisoning) - 1
         /\ pc[t] \notin PoisonPCs /\ pc'[t] \notin PoisonPCs => Poisoning' = Poisoning
<1>1. ASSUME pc[t] \notin PoisonPCs, pc'[t] \in PoisonPCs
      PROVE  Cardinality(Poisoning') = Cardinality(Poisoning) + 1
  <2>1. t \notin Poisoning /\ Poisoning' = Poisoning \union {t}
    BY <1>1 DEF Poisoning
  <2> QED BY <2>1, PoisoningCount, FS_AddElement
<1>2. ASSUME pc[t] \in PoisonPCs, pc'[t] \notin PoisonPCs
      PROVE  Cardinality(Poisoning') = Cardinality(Poisoning) - 1
  <2>1. t \in Poisoning /\ Poisoning' = Poisoning \ {t}
    BY <1>2 DEF Poisoning
  <2> QED BY <2>1, PoisoningCount, FS_RemoveElement
<1>3. ASSUME pc[t] \notin PoisonPCs, pc'[t] \notin PoisonPCs PROVE Poisoning' = Poisoning
  BY <1>3 DEF Poisoning
<1> QED BY <1>1, <1>2, <1>3

LEMMA HeldFinite ==
  ASSUME TypeOK
  PROVE  IsFiniteSet(held) /\ Cardinality(held) \in Nat /\ (Cardinality(held) = 0 <=> held = {})
<1>1. IsFiniteSet(Refs)
  BY ThreadsAssumption, FS_Product DEF Refs
<1>2. IsFiniteSet(held)
  BY <1>1, FS_Subset DEF TypeOK
<1> QED BY <1>2, FS_CardinalityType, FS_EmptySet

LEMMA HeldGrows ==
  ASSUME TypeOK, NEW t, NEW r \in Free(t), held' = held \union {r}
  PROVE  Cardinality(held') = Cardinality(held) + 1 /\ Owned(t)' # {} /\ held' # {}
<1>1. Cardinality(held') = Cardinality(held) + 1
  BY HeldFinite, FS_AddElement DEF Free
<1>2. r \in Owned(t)'
  BY DEF Owned, Free
<1> QED BY <1>1, <1>2

LEMMA HeldShrinks ==
  ASSUME TypeOK, NEW t, NEW r \in Owned(t), held' = held \ {r}
  PROVE  Cardinality(held') = Cardinality(held) - 1 /\ Cardinality(held) >= 1
<1>1. r \in held
  BY DEF Owned
<1>2. Cardinality(held') = Cardinality(held) - 1
  BY <1>1, HeldFinite, FS_RemoveElement
<1>3. Cardinality(held) >= 1
  BY <1>1, HeldFinite
<1> QED BY <1>2, <1>3

-----------------------------------------------------------------------------
(* Steps. *)

\* A thread changes its own program counter and its own references only.
LEMMA OthersUntouched ==
  ASSUME TypeOK, NEW t \in Threads, ThreadStep(t), NEW u \in Threads, u # t
  PROVE  pc'[u] = pc[u] /\ old'[u] = old[u] /\ Owned(u)' = Owned(u)
<1>1. \/ held' = held
      \/ \E r \in Free(t) : held' = held \union {r}
      \/ \E r \in Owned(t) : held' = held \ {r}
  BY DEF ThreadStep, Get, Lookup, Load, CasGet, CasGetFails, Put, PutLocked, DropLoad,
         DropCas, DropCasFails, DropLock, DropLast, Poison, Release, InspectGet, InspectDrop
<1>2. Owned(u)' = Owned(u)
  BY <1>1 DEF Owned, Free
<1>3. pc'[u] = pc[u] /\ old'[u] = old[u]
  BY DEF TypeOK, ThreadStep, Get, Lookup, Load, CasGet, CasGetFails, Put, PutLocked, DropLoad,
         DropCas, DropCasFails, DropLock, DropLast, Poison, Release, InspectGet, InspectDrop,
         Increment, Decrement
<1> QED BY <1>2, <1>3

LEMMA LocalInit == Init => LocalInv
<1> SUFFICES ASSUME Init PROVE LocalInv
  OBVIOUS
<1>1. TypeOK
  <2>1. 1 \in 0..Modulus - 1 /\ 0 \in 0..RefMax
    BY WidthAssumption, ThreadCount
  <2>2. pc \in [Threads -> PoisonPCs \union
                  {"idle", "load", "cas", "dropload", "dropcas", "last", "locked", "release"}]
    BY DEF Init
  <2> QED BY <2>1, <2>2 DEF Init, TypeOK
<1>2. \A t \in Threads : pc[t] = "idle"
  BY DEF Init
<1> QED BY <1>1, <1>2 DEF LocalInv, LoadedInRange, LookupLocked, DroppersOwn

LEMMA TypeStep ==
  ASSUME LocalInv, NEW t \in Threads, ThreadStep(t)
  PROVE  TypeOK'
<1> USE DEF LocalInv
<1>1. (value + 1) % Modulus \in 0..Modulus - 1 /\ (value - 1) % Modulus \in 0..Modulus - 1
  <2>1. value + 1 \in Int /\ value - 1 \in Int
    BY WidthAssumption DEF TypeOK
  <2> QED BY <2>1, ModRange
<1>2. value' \in 0..Modulus - 1
  <2>1. CASE CasGet(t)
    BY <2>1, WidthAssumption, ThreadCount DEF CasGet, TypeOK
  <2>2. CASE DropCas(t)
    BY <2>2, WidthAssumption, ThreadCount DEF DropCas, TypeOK, LoadedInRange
  <2>3. CASE Poison(t)
    BY <2>3, WidthAssumption, ThreadCount DEF Poison, Poisons
  <2> QED
    BY <1>1, <2>1, <2>2, <2>3
    DEF TypeOK, ThreadStep, Get, Lookup, Load, CasGetFails, Put, PutLocked, DropLoad,
        DropCasFails, DropLock, DropLast, Release, Increment, Decrement
<1>3. held' \subseteq Refs
  BY DEF TypeOK, ThreadStep, Get, Lookup, Load, CasGet, CasGetFails, Put, PutLocked, DropLoad,
         DropCas, DropCasFails, DropLock, DropLast, Poison, Release, InspectGet, InspectDrop, Free
<1>4. old' \in [Threads -> 0..RefMax]
  BY DEF TypeOK, ThreadStep, Get, Lookup, Load, CasGet, CasGetFails, Put, PutLocked, DropLoad,
         DropCas, DropCasFails, DropLock, DropLast, Poison, Release, InspectGet, InspectDrop, Live
<1>5. /\ poisoned' \in BOOLEAN /\ linked' \in BOOLEAN
      /\ releases' \in Nat /\ lock' \in Threads \union {NoThread}
  <2>1. poisoned' = poisoned \/ poisoned' = TRUE
    BY DEF ThreadStep, Get, Lookup, Load, CasGet, CasGetFails, Put, PutLocked, DropLoad,
           DropCas, DropCasFails, DropLock, DropLast, Poison, Release, InspectGet, InspectDrop
  <2>2. linked' = linked \/ linked' = FALSE
    BY DEF ThreadStep, Get, Lookup, Load, CasGet, CasGetFails, Put, PutLocked, DropLoad,
           DropCas, DropCasFails, DropLock, DropLast, Poison, Release, InspectGet, InspectDrop
  <2>3. releases' = releases \/ releases' = releases + 1
    BY DEF ThreadStep, Get, Lookup, Load, CasGet, CasGetFails, Put, PutLocked, DropLoad,
           DropCas, DropCasFails, DropLock, DropLast, Poison, Release, InspectGet, InspectDrop
  <2>4. lock' \in {lock, t, NoThread}
    BY DEF ThreadStep, Get, Lookup, Load, CasGet, CasGetFails, Put, PutLocked, DropLoad,
           DropCas, DropCasFails, DropLock, DropLast, Poison, Release, InspectGet, InspectDrop
  <2>5. poisoned' \in BOOLEAN /\ linked' \in BOOLEAN
    BY <2>1, <2>2, Zenon DEF TypeOK
  <2> QED BY <2>3, <2>4, <2>5 DEF TypeOK
<1>6. pc' \in [Threads -> PoisonPCs \union
                 {"idle", "load", "cas", "dropload", "dropcas", "last", "locked", "release"}]
  BY DEF TypeOK, PoisonPCs, ThreadStep, Get, Lookup, Load, CasGet, CasGetFails, Put, PutLocked,
         DropLoad, DropCas, DropCasFails, DropLock, DropLast, Poison, Release, InspectGet,
         InspectDrop, Increment, Decrement, DecrementTo
<1> QED BY <1>2, <1>3, <1>4, <1>5, <1>6 DEF TypeOK

LEMMA LoadedStep ==
  ASSUME LocalInv, NEW t \in Threads, ThreadStep(t)
  PROVE  LoadedInRange'
<1> USE DEF LocalInv
<1>1. ASSUME NEW u \in Threads, u # t
      PROVE  (pc'[u] = "cas" => old'[u] >= 1) /\ (pc'[u] = "dropcas" => old'[u] >= 2)
  BY <1>1, OthersUntouched DEF LoadedInRange
<1>2. (pc'[t] = "cas" => old'[t] >= 1) /\ (pc'[t] = "dropcas" => old'[t] >= 2)
  BY DEF TypeOK, ThreadStep, Get, Lookup, Load, CasGet, CasGetFails, Put, PutLocked,
         DropLoad, DropCas, DropCasFails, DropLock, DropLast, Poison, Release, InspectGet,
         InspectDrop, Increment, Decrement, DecrementTo, Live
<1> QED BY <1>1, <1>2 DEF LoadedInRange

LEMMA LockStep ==
  ASSUME LocalInv, NEW t \in Threads, ThreadStep(t)
  PROVE  LookupLocked'
<1> USE DEF LocalInv
<1>1. ASSUME NEW u \in Threads, u # t, pc[u] \in {"load", "cas", "poisonget", "locked"}
      PROVE  lock' = u /\ linked' = linked
  <2>1. lock = u /\ lock # t /\ lock # NoThread
    BY <1>1, ThreadsAssumption DEF LookupLocked
  <2> QED
    BY <2>1
    DEF LookupLocked, TypeOK, ThreadStep, Get, Lookup, Load, CasGet, CasGetFails, Put, PutLocked,
        DropLoad, DropCas, DropCasFails, DropLock, DropLast, Poison, Release, InspectGet,
        InspectDrop
<1>2. /\ pc'[t] \in {"load", "cas", "poisonget", "locked"} => lock' = t
      /\ pc'[t] \in {"load", "cas", "poisonget"} => linked'
  BY DEF LookupLocked, TypeOK, ThreadStep, Get, Lookup, Load, CasGet, CasGetFails, Put, PutLocked,
         DropLoad, DropCas, DropCasFails, DropLock, DropLast, Poison, Release, InspectGet,
         InspectDrop, Increment, Decrement, DecrementTo
<1>3. \A u \in Threads \ {t} : pc'[u] = pc[u]
  BY OthersUntouched
<1> QED BY <1>1, <1>2, <1>3 DEF LookupLocked

LEMMA OwnStep ==
  ASSUME LocalInv, NEW t \in Threads, ThreadStep(t)
  PROVE  DroppersOwn'
<1> USE DEF LocalInv
<1>1. \A u \in Threads \ {t} : pc'[u] = pc[u] /\ Owned(u)' = Owned(u)
  BY OthersUntouched
<1>2. pc'[t] \in {"dropload", "dropcas", "last", "locked", "poisondrop"} => Owned(t)' # {}
  <2>1. ASSUME pc'[t] \in {"dropload", "dropcas", "last", "locked", "poisondrop"}
        PROVE  PutLocked(t) \/ DropLoad(t) \/ DropCasFails(t) \/ DropLock(t)
    BY <2>1
    DEF TypeOK, ThreadStep, Get, Lookup, Load, CasGet, CasGetFails, Put, DropCas, DropLast,
        Poison, Release, InspectGet, Increment, Decrement, DecrementTo
  <2>2. ASSUME pc'[t] \in {"dropload", "dropcas", "last", "locked", "poisondrop"}
        PROVE  held' = held /\ Owned(t) # {}
    BY <2>1, <2>2 DEF TypeOK, DroppersOwn, PutLocked, DropLoad, DropCasFails, DropLock, InspectDrop
  <2> QED BY <2>2 DEF Owned
<1> QED BY <1>1, <1>2 DEF DroppersOwn

LEMMA LocalStep ==
  ASSUME LocalInv, NEW t \in Threads, ThreadStep(t)
  PROVE  LocalInv'
BY TypeStep, LoadedStep, LockStep, OwnStep DEF LocalInv

-----------------------------------------------------------------------------
(* The counter. *)

LEMMA ValueBounds ==
  ASSUME CountInv, NEW t \in Threads
  PROVE  /\ poisoned => RefMax < value
         /\ ~poisoned => value < Saturated
         /\ held # {} => 1 <= value
         /\ pc[t] \notin PoisonPCs => value + 1 < Modulus
<1>1. TypeOK /\ value \in Nat
  BY WidthAssumption, ThreadCount DEF CountInv, LocalInv, TypeOK
<1>2. /\ Cardinality(Poisoning) \in 0..Cardinality(Threads)
      /\ pc[t] \notin PoisonPCs => Cardinality(Poisoning) < Cardinality(Threads)
  BY PoisoningCount
<1>3. poisoned => /\ Saturated - Cardinality(Poisoning) <= value
                  /\ value <= Saturated + 3 + Cardinality(Poisoning)
  BY DEF CountInv, PoisonedApart
<1>4. ~poisoned => value = Cardinality(held) /\ value <= RefMax + Cardinality(Poisoning)
  BY DEF CountInv, CountExact, Poisoning
<1>5. held # {} /\ ~poisoned => 1 <= value
  BY <1>1, <1>4, HeldFinite
<1> QED BY <1>1, <1>2, <1>3, <1>4, <1>5, WidthAssumption, ThreadCount

(* The steps of a thread, by what they do to the counter and to the references. *)

Gains(t) ==
  /\ pc[t] \notin PoisonPCs /\ UNCHANGED poisoned
  /\ value' = value + 1
  /\ \E r \in Free(t) : held' = held \union {r}
  /\ value < RefMax => pc'[t] \notin PoisonPCs
  /\ value >= RefMax => pc'[t] = "poison"

Loses(t) ==
  /\ pc[t] \notin PoisonPCs /\ UNCHANGED poisoned
  /\ value' = value - 1
  /\ \E r \in Owned(t) : held' = held \ {r}
  /\ pc'[t] \in PoisonPCs <=> value > RefMax
  /\ value = 1 => pc'[t] = "release"

Looks(t) ==
  /\ pc[t] \notin PoisonPCs /\ UNCHANGED <<poisoned, value>>
  /\ poisoned \/ UNCHANGED held
  /\ pc'[t] \in PoisonPCs => value > RefMax

Repairs(t) ==
  /\ pc[t] \in PoisonPCs /\ pc'[t] = "idle"
  /\ poisoned' = TRUE /\ value' \in Poisons

LEMMA StepKinds ==
  ASSUME CountInv, NEW t \in Threads, ThreadStep(t)
  PROVE  Gains(t) \/ Loses(t) \/ Looks(t) \/ Repairs(t)
<1>1. /\ TypeOK /\ value \in Nat
      /\ RefMax \in Nat \ {0} /\ Modulus \in Nat /\ Saturated \in Nat /\ RefMax < Saturated
  BY WidthAssumption, ThreadCount DEF CountInv, LocalInv, TypeOK
<1>2. /\ poisoned => RefMax < value
      /\ ~poisoned => value < Saturated
      /\ held # {} => 1 <= value
      /\ pc[t] \notin PoisonPCs => value + 1 < Modulus
  BY ValueBounds
<1>3. Owned(t) \subseteq held
  BY DEF Owned
<1>4. pc[t] \notin PoisonPCs => (value + 1) % Modulus = value + 1
  BY <1>1, <1>2, ModSmall
<1>5. pc[t] \notin PoisonPCs /\ 1 <= value => (value - 1) % Modulus = value - 1
  <2> SUFFICES ASSUME pc[t] \notin PoisonPCs, 1 <= value PROVE value - 1 \in 0..Modulus - 1
    BY ModSmall
  <2> QED BY <1>1, <1>2
<1>6. CASE Get(t)
  BY <1>1, <1>2, <1>3, <1>4, <1>6 DEF Get, Increment, Gains, PoisonPCs, TypeOK
<1>7. CASE Lookup(t) \/ PutLocked(t) \/ DropLock(t) \/ Release(t)
  <2>1. pc[t] \in {"idle", "last", "release"} /\ pc'[t] \in {"load", "dropload", "locked", "idle"}
    BY <1>1, <1>7 DEF Lookup, PutLocked, DropLock, Release, TypeOK
  <2>2. UNCHANGED <<poisoned, value, held>>
    BY <1>7 DEF Lookup, PutLocked, DropLock, Release
  <2> QED BY <2>1, <2>2 DEF Looks, PoisonPCs
<1>8. CASE Load(t) \/ CasGetFails(t)
  BY <1>1, <1>2, <1>8 DEF Load, CasGetFails, InspectGet, Looks, PoisonPCs, TypeOK, Broken
<1>9. CASE CasGet(t)
  BY <1>1, <1>2, <1>9 DEF CasGet, Gains, PoisonPCs, TypeOK
<1>10. CASE Put(t)
  BY <1>1, <1>2, <1>3, <1>5, <1>10
  DEF Put, Decrement, DecrementTo, Loses, Live, PoisonPCs, TypeOK
<1>11. CASE DropLoad(t) \/ DropCasFails(t)
  <2>1. 1 <= value
    BY <1>2, <1>3, <1>11 DEF DropLoad, DropCasFails, CountInv, LocalInv, DroppersOwn
  <2> QED BY <1>1, <1>2, <1>11, <2>1
          DEF DropLoad, DropCasFails, InspectDrop, Looks, PoisonPCs, TypeOK, Broken
<1>12. CASE DropCas(t)
  BY <1>1, <1>2, <1>12
  DEF DropCas, Loses, PoisonPCs, TypeOK, CountInv, LocalInv, LoadedInRange
<1>13. CASE DropLast(t)
  BY <1>1, <1>2, <1>3, <1>5, <1>13
  DEF DropLast, Decrement, DecrementTo, Loses, Live, PoisonPCs, TypeOK
<1>14. CASE Poison(t)
  <2>1. pc[t] \in PoisonPCs /\ pc'[t] = "idle"
    BY <1>1, <1>14 DEF Poison, PoisonPCs, TypeOK
  <2> QED BY <1>14, <2>1 DEF Poison, Repairs
<1> QED
  BY <1>6, <1>7, <1>8, <1>9, <1>10, <1>11, <1>12, <1>13, <1>14 DEF ThreadStep

LEMMA CountStep ==
  ASSUME CountInv, NEW t \in Threads, ThreadStep(t)
  PROVE  CountInv'
<1> DEFINE n == Cardinality(Poisoning)
<1>1. TypeOK /\ LocalInv'
  BY LocalStep DEF CountInv, LocalInv
<1>2. \A u \in Threads \ {t} : pc'[u] = pc[u] /\ Owned(u)' = Owned(u)
  BY <1>1, OthersUntouched
<1>3. /\ RefMax \in Nat \ {0} /\ Saturated \in Nat /\ RefMax < Saturated
      /\ value \in Nat /\ n \in Nat /\ n' \in Nat
  <2>1. Poisoning' \subseteq Threads
    BY DEF Poisoning
  <2>2. n' \in Nat
    BY <2>1, ThreadsAssumption, FS_Subset, FS_CardinalityType
  <2>3. n \in Nat
    BY PoisoningCount, ThreadCount
  <2> QED BY <1>1, <2>2, <2>3, WidthAssumption, ThreadCount DEF TypeOK
<1>4. /\ pc[t] \notin PoisonPCs /\ pc'[t] \in PoisonPCs => n' = n + 1
      /\ pc[t] \notin PoisonPCs /\ pc'[t] \notin PoisonPCs => Poisoning' = Poisoning /\ n' = n
  BY <1>2, PoisoningChange
<1>5. /\ poisoned => RefMax < value
      /\ ~poisoned => value < Saturated
      /\ held # {} => 1 <= value
  BY ValueBounds
<1>6. /\ ~poisoned => value = Cardinality(held) /\ value <= RefMax + n
      /\ poisoned => Saturated - n <= value /\ value <= Saturated + 3 + n
  BY DEF CountInv, CountExact, PoisonedApart, Poisoning
<1> SUFFICES /\ ~poisoned' => value' = Cardinality(held') /\ value' <= RefMax + n'
             /\ poisoned' => Saturated - n' <= value' /\ value' <= Saturated + 3 + n'
             /\ FirstPoisonerOwns'
  BY <1>1 DEF CountInv, CountExact, PoisonedApart, Poisoning
<1> HIDE DEF n
\* Without a thread that poisons, the counter is in range; with one, there is an owner
\* among them, and it stays.
<1>7. ~poisoned /\ Poisoning # {} => \E u \in Threads : pc[u] = "poison" /\ Owned(u) # {}
  BY DEF CountInv, FirstPoisonerOwns
<1>8. ~poisoned /\ value > RefMax => Poisoning # {}
  <2> SUFFICES ASSUME ~poisoned, Poisoning = {} PROVE value <= RefMax
    BY <1>3
  <2>1. n = 0
    BY FS_EmptySet DEF n
  <2> QED BY <1>3, <1>6, <2>1
<1>9. ASSUME pc[t] \notin PoisonPCs, UNCHANGED poisoned,
             \/ pc'[t] \notin PoisonPCs
             \/ value > RefMax
             \/ pc'[t] = "poison" /\ Owned(t)' # {}
      PROVE  FirstPoisonerOwns'
  <2> SUFFICES ASSUME ~poisoned, Poisoning' # {}
               PROVE  \E u \in Threads : pc'[u] = "poison" /\ Owned(u)' # {}
    BY <1>9 DEF FirstPoisonerOwns
  <2>1. Poisoning # {} => \E u \in Threads \ {t} : pc[u] = "poison" /\ Owned(u) # {}
    BY <1>7, <1>9 DEF PoisonPCs
  <2>2. Poisoning # {} \/ (pc'[t] = "poison" /\ Owned(t)' # {})
    BY <1>4, <1>8, <1>9
  <2> QED BY <1>2, <2>1, <2>2
<1>10. CASE Gains(t)
  <2> PICK r \in Free(t) : held' = held \union {r}
    BY <1>10 DEF Gains
  <2>1. Cardinality(held') = Cardinality(held) + 1 /\ Owned(t)' # {}
    BY <1>1, HeldGrows
  <2>2. FirstPoisonerOwns'
    BY <1>3, <1>9, <1>10, <2>1 DEF Gains
  <2>3. /\ value < RefMax => n' = n
        /\ value >= RefMax => n' = n + 1
        /\ value' = value + 1 /\ poisoned' = poisoned
    BY <1>3, <1>4, <1>10 DEF Gains, PoisonPCs
  <2>4. CASE poisoned
    <3>1. value >= RefMax /\ Saturated - n <= value /\ value <= Saturated + 3 + n
      BY <1>3, <1>5, <1>6, <2>4
    <3>2. n' = n + 1 /\ value' = value + 1 /\ poisoned'
      BY <2>3, <2>4, <3>1
    <3> QED BY <1>3, <2>2, <3>1, <3>2
  <2>5. CASE ~poisoned
    BY <1>3, <1>6, <2>1, <2>2, <2>3, <2>5
  <2> QED BY <2>4, <2>5
<1>11. CASE Loses(t)
  <2> PICK r \in Owned(t) : held' = held \ {r}
    BY <1>11 DEF Loses
  <2>1. Cardinality(held') = Cardinality(held) - 1
    BY <1>1, HeldShrinks
  <2>2. FirstPoisonerOwns'
    BY <1>9, <1>11 DEF Loses
  <2>3. /\ value > RefMax => n' = n + 1
        /\ value <= RefMax => n' = n
        /\ value' = value - 1 /\ poisoned' = poisoned
    BY <1>3, <1>4, <1>11 DEF Loses
  <2>4. CASE poisoned
    BY <1>3, <1>5, <1>6, <2>2, <2>3, <2>4
  <2>5. CASE ~poisoned
    BY <1>3, <1>6, <2>1, <2>2, <2>3, <2>5
  <2> QED BY <2>4, <2>5
<1>12. CASE Looks(t)
  <2>1. FirstPoisonerOwns'
    BY <1>9, <1>12 DEF Looks
  <2>2. n' = n \/ n' = n + 1
    BY <1>4, <1>12 DEF Looks
  <2> QED BY <1>3, <1>6, <1>12, <2>1, <2>2 DEF Looks
<1>13. CASE Repairs(t)
  <2>1. FirstPoisonerOwns'
    BY <1>13 DEF Repairs, FirstPoisonerOwns
  <2> QED BY <1>3, <1>13, <2>1 DEF Repairs, Poisons
<1> QED BY <1>10, <1>11, <1>12, <1>13, StepKinds

-----------------------------------------------------------------------------
(* The release. *)

LEMMA ReleaseKinds ==
  ASSUME CountInv, NEW t \in Threads, ThreadStep(t)
  PROVE  /\ pc'[t] = "release" => Loses(t) /\ value = 1
         /\ \/ Release(t)
            \/ pc[t] # "release" /\ UNCHANGED <<releases, linked>>
         /\ held = {} /\ ~poisoned => ~Gains(t) /\ ~Loses(t)
<1>1. TypeOK
  BY DEF CountInv, LocalInv
<1>2. ASSUME pc'[t] = "release" PROVE value = 1 /\ (Put(t) \/ DropLast(t))
  BY <1>1, <1>2
  DEF TypeOK, ThreadStep, Get, Lookup, Load, CasGet, CasGetFails, Put, PutLocked, DropLoad,
      DropCas, DropCasFails, DropLock, DropLast, Poison, Release, InspectGet, InspectDrop,
      Increment, Decrement, DecrementTo
<1>3. ASSUME pc'[t] = "release" PROVE Loses(t)
  <2>1. pc[t] \in {"idle", "locked"} /\ \E r \in Owned(t) : held' = held \ {r}
    BY <1>2, <1>3 DEF Put, DropLast
  <2>2. \A r \in Owned(t) : held' = held \ {r} => held' # held
    BY DEF Owned
  <2>3. ~Repairs(t) /\ ~Gains(t)
    BY <1>3, <2>1 DEF Repairs, Gains, PoisonPCs, Free, Owned
  <2>4. value = 1 /\ RefMax >= 1 /\ (poisoned => RefMax < value)
    BY <1>2, <1>3, ValueBounds, WidthAssumption
  <2>5. ~Looks(t)
    BY <2>1, <2>2, <2>4, WidthAssumption DEF Looks
  <2> QED BY <2>3, <2>5, StepKinds
<1>4. Release(t) \/ (pc[t] # "release" /\ UNCHANGED <<releases, linked>>)
  BY DEF ThreadStep, Get, Lookup, Load, CasGet, CasGetFails, Put, PutLocked, DropLoad,
         DropCas, DropCasFails, DropLock, DropLast, Poison, PoisonPCs
<1>5. ASSUME held = {}, ~poisoned PROVE ~Gains(t) /\ ~Loses(t)
  <2>1. value = 0 /\ Owned(t) = {}
    BY <1>5, FS_EmptySet DEF CountInv, CountExact, Owned
  <2>2. ~Loses(t)
    BY <2>1 DEF Loses
  <2>3. ~Get(t) /\ ~CasGet(t)
    BY <1>1, <2>1 DEF Get, CasGet, CountInv, LocalInv, LoadedInRange
  <2>4. value' = 1 => ~Gains(t) \/ Get(t) \/ CasGet(t)
    BY <1>1, <1>5, <2>1
    DEF TypeOK, ThreadStep, Lookup, Load, CasGetFails, Put, PutLocked, DropLoad,
        DropCas, DropCasFails, DropLock, DropLast, Poison, Release, InspectGet, Gains, PoisonPCs
  <2> QED BY <2>1, <2>2, <2>3, <2>4 DEF Gains
<1> QED BY <1>2, <1>3, <1>4, <1>5

LEMMA ReleaseStep ==
  ASSUME IInv, NEW t \in Threads, ThreadStep(t)
  PROVE  ReleaseFinal' /\ LastReleases'
<1>1. CountInv /\ TypeOK /\ ReleaseFinal /\ LastReleases
  BY DEF IInv, CountInv, LocalInv
<1>2. \A u \in Threads \ {t} : pc'[u] = pc[u]
  BY <1>1, OthersUntouched
<1>3. /\ pc'[t] = "release" => Loses(t) /\ value = 1
      /\ Release(t) \/ (pc[t] # "release" /\ UNCHANGED <<releases, linked>>)
      /\ held = {} /\ ~poisoned => ~Gains(t) /\ ~Loses(t)
  BY <1>1, ReleaseKinds
<1>4. Gains(t) \/ Loses(t) \/ Looks(t) \/ Repairs(t)
  BY <1>1, StepKinds
<1>5. CASE Releasing # {} \/ releases = 1
  <2>1. ~poisoned /\ held = {}
    BY <1>1, <1>5 DEF ReleaseFinal
  <2>2. Poisoning = {}
    BY <1>1, <2>1 DEF CountInv, FirstPoisonerOwns, Owned
  <2>3. ~Repairs(t)
    BY <2>2 DEF Repairs, Poisoning
  <2>4. Looks(t) /\ pc'[t] # "release"
    BY <1>3, <1>4, <2>1, <2>3
  <2>5. ~poisoned' /\ held' = {}
    BY <2>1, <2>4 DEF Looks
  <2>6. CASE Release(t)
    <3>1. pc[t] = "release" /\ releases' = releases + 1 /\ ~linked'
      BY <2>6 DEF Release
    <3>2. Releasing = {t} /\ releases = 0
      BY <1>1, <3>1 DEF Releasing, ReleaseFinal
    <3>3. Releasing' = {}
      BY <1>2, <2>4, <3>2 DEF Releasing
    <3> QED BY <2>5, <3>1, <3>2, <3>3 DEF ReleaseFinal, LastReleases
  <2>7. CASE pc[t] # "release" /\ UNCHANGED <<releases, linked>>
    <3>1. Releasing' = Releasing
      BY <1>2, <2>4, <2>7 DEF Releasing
    <3> QED BY <1>1, <1>5, <2>5, <2>7, <3>1 DEF ReleaseFinal, LastReleases
  <2> QED BY <1>3, <2>6, <2>7
<1>6. CASE Releasing = {} /\ releases = 0
  <2>1. UNCHANGED <<releases, linked>> /\ pc[t] # "release"
    BY <1>3, <1>6 DEF Release, Releasing
  <2>2. Releasing' \subseteq {t}
    BY <1>2, <1>6 DEF Releasing
  <2>3. ASSUME Loses(t), value = 1
        PROVE  ~poisoned' /\ held' = {} /\ Releasing' = {t} 
    <3>1. ~poisoned
      BY <1>1, <2>3, ValueBounds, WidthAssumption
    <3>2. PICK r \in Owned(t) : held' = held \ {r}
      BY <2>3 DEF Loses
    <3>3. Cardinality(held') = 0
      BY <1>1, <2>3, <3>1, <3>2, HeldShrinks DEF CountInv, CountExact
    <3>4. IsFiniteSet(held')
      BY <1>1, <3>2, HeldFinite, FS_Subset
    <3>5. held' = {}
      BY <3>3, <3>4, FS_EmptySet
    <3> QED BY <2>2, <2>3, <3>1, <3>5 DEF Loses, Releasing
  <2>4. ReleaseFinal'
    <3>1. CASE Releasing' = {}
      BY <1>1, <1>6, <2>1, <3>1 DEF ReleaseFinal
    <3>2. CASE Releasing' # {}
      <4>1. pc'[t] = "release"
        BY <2>2, <3>2 DEF Releasing
      <4>2. ~poisoned' /\ held' = {} /\ Releasing' = {t}
        BY <1>3, <2>3, <4>1
      <4> QED BY <1>1, <1>6, <2>1, <4>2 DEF ReleaseFinal
    <3> QED BY <3>1, <3>2
  <2>5. LastReleases'
    <3> SUFFICES ASSUME ~poisoned', held' = {} PROVE Releasing' # {}
      BY DEF LastReleases
    <3>1. ~poisoned /\ ~Repairs(t)
      BY <1>4 DEF Repairs, Gains, Loses, Looks
    <3>2. held # {}
      BY <1>1, <1>6, <3>1 DEF LastReleases
    <3>3. Loses(t)
      BY <1>4, <3>1, <3>2 DEF Gains, Looks
    <3>4. PICK r \in Owned(t) : held' = held \ {r}
      BY <3>3 DEF Loses
    <3>5. held = {r}
      BY <3>4 DEF Owned
    <3>6. value = 1
      BY <1>1, <3>1, <3>5, FS_Singleton DEF CountInv, CountExact
    <3> QED BY <2>3, <3>3, <3>6
  <2> QED BY <2>4, <2>5
<1> QED BY <1>1, <1>5, <1>6 DEF ReleaseFinal

-----------------------------------------------------------------------------
(* The invariant, and what it implies. *)

LEMMA IInvInit == Init => IInv
<1> SUFFICES ASSUME Init PROVE IInv
  OBVIOUS
<1>1. LocalInv
  BY LocalInit
<1>2. PICK r \in Refs : held = {r}
  BY DEF Init
<1>3. Poisoning = {} /\ Releasing = {}
  BY DEF Init, Poisoning, PoisonPCs, Releasing
<1>4. CountExact
  <2>1. value = 1 /\ Cardinality(held) = 1 /\ Cardinality(Poisoning) = 0
    BY <1>2, <1>3, FS_Singleton, FS_EmptySet DEF Init
  <2> QED BY <2>1, WidthAssumption DEF CountExact, Poisoning
<1>5. PoisonedApart /\ FirstPoisonerOwns
  BY <1>3 DEF Init, PoisonedApart, FirstPoisonerOwns
<1>6. ReleaseFinal /\ LastReleases
  BY <1>2, <1>3 DEF Init, ReleaseFinal, LastReleases
<1> QED BY <1>1, <1>4, <1>5, <1>6 DEF IInv, CountInv

LEMMA IInvStep == IInv /\ [Next]_vars => IInv'
<1> SUFFICES ASSUME IInv, [Next]_vars PROVE IInv'
  OBVIOUS
<1>1. CASE UNCHANGED vars
  BY <1>1
  DEF vars, IInv, CountInv, LocalInv, TypeOK, LoadedInRange, LookupLocked, DroppersOwn, Owned,
      CountExact, PoisonedApart, FirstPoisonerOwns, Poisoning, ReleaseFinal, LastReleases, Releasing
<1>2. ASSUME NEW t \in Threads, ThreadStep(t) PROVE IInv'
  BY <1>2, CountStep, ReleaseStep DEF IInv
<1> QED BY <1>1, <1>2 DEF Next, Stopped

THEOREM InvariantHolds == Spec => []IInv
BY IInvInit, IInvStep, PTL DEF Spec

\* The state of the counter and of its users keeps its types: no step leaves the word.
THEOREM TypeCorrect == Spec => []TypeOK
<1>1. IInv => TypeOK
  BY DEF IInv, CountInv, LocalInv
<1> QED BY <1>1, InvariantHolds, PTL

\* Until it is poisoned, the counter is the number of references (ct_refcount_inc,
\* inc_not_zero, and the two puts of ref.c, in any interleaving).
THEOREM CounterExact == Spec => []CountExact
<1>1. IInv => CountExact
  BY DEF IInv, CountInv
<1> QED BY <1>1, InvariantHolds, PTL

\* A poisoned counter stays out of the range of live counts, and is never released:
\* the claim of ref.h:34, for correct use.
THEOREM PoisonIsFinal == Spec => []PoisonSticks
<1>1. IInv => PoisonSticks
  <2> SUFFICES ASSUME IInv, poisoned
               PROVE  value > RefMax /\ releases = 0 /\ \A t \in Threads : pc[t] # "release"
    BY DEF PoisonSticks
  <2>1. Releasing = {} /\ releases = 0
    BY DEF IInv, ReleaseFinal
  <2>2. value > RefMax
    <3>1. Poisoning \subseteq Threads
      BY DEF Poisoning
    <3>2. Cardinality(Poisoning) \in Nat /\ Cardinality(Poisoning) <= Cardinality(Threads)
      BY <3>1, ThreadsAssumption, FS_Subset, FS_CardinalityType
    <3>3. Saturated - Cardinality(Poisoning) <= value /\ value \in Int
      BY WidthAssumption DEF IInv, CountInv, PoisonedApart, LocalInv, TypeOK
    <3> QED BY <3>2, <3>3, ThreadCount, WidthAssumption
  <2> QED BY <2>1, <2>2 DEF Releasing
<1> QED BY <1>1, InvariantHolds, PTL

\* The object is released once, when no reference is left and no other thread is
\* inside an operation (ct_refcount_dec_and_mutex_lock against inc_not_zero).
THEOREM ReleasedOnlyUnowned == Spec => []ReleasedUnowned
<1>1. IInv => ReleasedUnowned
  <2> SUFFICES ASSUME IInv PROVE ReleasedUnowned
    OBVIOUS
  <2>1. releases <= 1
    BY DEF IInv, ReleaseFinal
  <2>2. ASSUME releases = 1 \/ \E t \in Threads : pc[t] = "release" /\ lock = t
        PROVE  held = {} /\ Cardinality({t \in Threads : pc[t] # "idle"}) <= 1
    <3>1. held = {} /\ ~poisoned
      BY <2>2 DEF IInv, ReleaseFinal, Releasing
    <3>2. Poisoning = {}
      BY <3>1 DEF IInv, CountInv, FirstPoisonerOwns, Owned
    <3>3. \A t \in Threads : pc[t] \in {"idle", "load", "cas", "release"}
      BY <3>1, <3>2
      DEF IInv, CountInv, LocalInv, TypeOK, DroppersOwn, Owned, Poisoning, PoisonPCs
    <3>4. CASE releases = 1
      <4>1. \A t \in Threads : pc[t] = "idle"
        BY <3>3, <3>4 DEF IInv, CountInv, LocalInv, LookupLocked, ReleaseFinal, Releasing
      <4>2. {t \in Threads : pc[t] # "idle"} = {}
        BY <4>1
      <4> QED BY <3>1, <4>2, FS_EmptySet
    <3>5. CASE \E t \in Threads : pc[t] = "release" /\ lock = t
      <4> PICK t \in Threads : pc[t] = "release" /\ lock = t
        BY <3>5
      <4>1. \A u \in Threads \ {t} : pc[u] = "idle"
        BY <3>3 DEF IInv, CountInv, LocalInv, LookupLocked, ReleaseFinal, Releasing
      <4>2. {u \in Threads : pc[u] # "idle"} = {t}
        BY <4>1
      <4> QED BY <3>1, <4>2, FS_Singleton
    <3> QED BY <2>2, <3>4, <3>5
  <2> QED BY <2>1, <2>2 DEF ReleasedUnowned
<1> QED BY <1>1, InvariantHolds, PTL

\* When all references are gone and all calls have returned, some put has returned true,
\* unless the counter was poisoned.
THEOREM LastPutNeverMissed == Spec => []LastPutReleases
<1>1. IInv => LastPutReleases
  BY DEF IInv, LastReleases, Releasing, LastPutReleases
<1> QED BY <1>1, InvariantHolds, PTL
=============================================================================
