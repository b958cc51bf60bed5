------------------------ MODULE ShutdownTokenProofs ------------------------
(***************************************************************************)
(* Proofs about ShutdownToken: for any number of waiters and cancellers,   *)
(* any timeouts and any clock, no cancellation is missed, a wait tells the *)
(* truth, and whoever cancelled may destroy the token.                     *)
(***************************************************************************)
EXTENDS ShutdownToken, TLAPS

-----------------------------------------------------------------------------
(* The inductive invariant. *)

Types ==
  /\ now \in 0..LastTick /\ deadline \in -1..Horizon
  /\ cancelled \in BOOLEAN /\ destroyed \in BOOLEAN
  /\ lock \in Waiters \union {NoThread}
  /\ wpc \in [Waiters -> {"out", "lock", "test", "remaining", "limit", "wait", "asleep",
                          "woken", "final", "true", "false"}]
  /\ cpc \in [Cancellers -> {"out", "broadcast", "callback", "true", "false"}]
  /\ timed \in [Waiters -> BOOLEAN] /\ limit \in [Waiters -> 0..Horizon]

\* The loop of a waiter runs with the lock, and nothing else of a waiter does.
LoopLocked ==
  \A w \in Waiters :
    wpc[w] \in {"test", "remaining", "limit", "wait", "final"} <=> lock = w

\* From its test on a waiter relies on a broadcast that is still to come.
SleepersExpected ==
  cancelled =>
    \A w \in Waiters :
      wpc[w] \in {"remaining", "limit", "wait", "asleep"} =>
        \E c \in Cancellers : cpc[c] = "broadcast"

\* A loop is left for one of two reasons, and both last.
LeavesForReason ==
  \A w \in Waiters :
    /\ wpc[w] \in {"final", "false"} => Done \/ (timed[w] /\ limit[w] <= now)
    /\ wpc[w] = "false" => timed[w] /\ limit[w] <= now
    /\ wpc[w] = "true" => Done

\* One cancel is the first.
Winner(c) == cpc[c] \in {"broadcast", "callback", "true"}

OneWinner ==
  /\ \A c, d \in Cancellers : Winner(c) /\ Winner(d) => c = d
  /\ \A c \in Cancellers : Winner(c) => cancelled

IInv ==
  /\ Types /\ LoopLocked /\ SleepersExpected /\ LeavesForReason /\ OneWinner
  /\ DestroyedUnused

LEMMA DeadlineInRange ==
  ASSUME Types, NEW timeout \in 0..Horizon
  PROVE  DeadlineAfter(timeout) \in 0..Horizon
BY TimeAssumption DEF Types, DeadlineAfter

LEMMA InitCorrect == Init => IInv
<1> SUFFICES ASSUME Init PROVE IInv
  OBVIOUS
<1>1. PICK timeout \in Timeouts : deadline = IF timeout < 0 THEN -1 ELSE DeadlineAfter(timeout)
  BY DEF Init
<1>2. timeout \in -1..Horizon /\ now = 0
  BY TimeAssumption DEF Init
<1>3. deadline \in -1..Horizon
  BY <1>1, <1>2, TimeAssumption DEF DeadlineAfter
<1>4. Types
  <2>1. now \in 0..LastTick /\ 0 \in 0..Horizon
    BY <1>2, TimeAssumption
  <2>2. wpc \in [Waiters -> {"out", "lock", "test", "remaining", "limit", "wait", "asleep",
                           "woken", "final", "true", "false"}]
    BY DEF Init
  <2>3. cpc \in [Cancellers -> {"out", "broadcast", "callback", "true", "false"}]
    BY DEF Init
  <2>4. timed \in [Waiters -> BOOLEAN]
    BY DEF Init
  <2> QED BY <1>3, <2>1, <2>2, <2>3, <2>4 DEF Init, Types
<1>5. LoopLocked /\ SleepersExpected /\ LeavesForReason /\ OneWinner /\ DestroyedUnused
  BY ThreadsAssumption
  DEF Init, LoopLocked, SleepersExpected, LeavesForReason, OneWinner, Winner, DestroyedUnused
<1> QED BY <1>4, <1>5 DEF IInv

-----------------------------------------------------------------------------
(* Every step preserves it. *)

\* Steps of one waiter, by where they lead.
LEMMA WaiterPreserves ==
  ASSUME IInv, NEW w \in Waiters,
         CallWait(w) \/ Lock(w) \/ WaiterStep(w) \/ SpuriousWakeup(w)
  PROVE  IInv'
<1> USE DEF IInv
<1>1. UNCHANGED <<now, deadline, cancelled, cpc, destroyed>>
  BY DEF CallWait, Lock, WaiterStep, SpuriousWakeup, Test, LookRemaining, LookLimit, Sleep,
         TimesOut, WakeUp, Final
<1>2. ~destroyed
  BY DEF CallWait, Lock, WaiterStep, SpuriousWakeup, Test, LookRemaining, LookLimit, Sleep,
         TimesOut, WakeUp, Final, DestroyedUnused, Inside
<1>3. OneWinner' /\ DestroyedUnused'
  BY <1>1, <1>2 DEF OneWinner, Winner, DestroyedUnused
<1>4. \A u \in Waiters \ {w} : wpc'[u] = wpc[u] /\ timed'[u] = timed[u] /\ limit'[u] = limit[u]
  BY DEF Types, CallWait, Lock, WaiterStep, SpuriousWakeup, Test, LookRemaining, LookLimit,
         Sleep, TimesOut, WakeUp, Final
<1>5. Done' = Done
  BY <1>1 DEF Done
<1>6. limit' \in [Waiters -> 0..Horizon] /\ timed' \in [Waiters -> BOOLEAN]
  <2>1. CASE CallWait(w)
    <3>1. PICK timeout \in Timeouts :
            /\ timed' = [timed EXCEPT ![w] = timeout >= 0]
            /\ limit' = [limit EXCEPT ![w] = IF timeout >= 0 THEN DeadlineAfter(timeout) ELSE 0]
      BY <2>1 DEF CallWait
    <3>2. timeout \in -1..Horizon /\ 0 \in 0..Horizon
      BY TimeAssumption
    <3>3. timeout >= 0 => DeadlineAfter(timeout) \in 0..Horizon
      BY <3>2, DeadlineInRange, TimeAssumption
    <3>4. limit' \in [Waiters -> 0..Horizon]
      BY <3>1, <3>2, <3>3 DEF Types
    <3>5. timed' \in [Waiters -> BOOLEAN]
      BY <3>1 DEF Types
    <3> QED BY <3>4, <3>5
  <2>2. CASE Lock(w) \/ WaiterStep(w) \/ SpuriousWakeup(w)
    BY <2>2
    DEF Types, Lock, WaiterStep, SpuriousWakeup, Test, LookRemaining, LookLimit, Sleep,
        TimesOut, WakeUp, Final
  <2> QED BY <2>1, <2>2
<1>7. /\ wpc' \in [Waiters -> {"out", "lock", "test", "remaining", "limit", "wait", "asleep",
                              "woken", "final", "true", "false"}]
      /\ lock' \in Waiters \union {NoThread}
  BY DEF Types, CallWait, Lock, WaiterStep, SpuriousWakeup, Test, LookRemaining, LookLimit,
         Sleep, TimesOut, WakeUp, Final
<1>8. Types'
  BY <1>1, <1>6, <1>7 DEF Types
<1>9. LoopLocked'
  <2>1. wpc'[w] \in {"test", "remaining", "limit", "wait", "final"} <=> lock' = w
    BY ThreadsAssumption
    DEF Types, LoopLocked, CallWait, Lock, WaiterStep, SpuriousWakeup, Test, LookRemaining,
        LookLimit, Sleep, TimesOut, WakeUp, Final
  <2>2. ASSUME NEW u \in Waiters \ {w} PROVE lock' = u <=> lock = u
    BY <2>2, ThreadsAssumption
    DEF Types, LoopLocked, CallWait, Lock, WaiterStep, SpuriousWakeup, Test, LookRemaining,
        LookLimit, Sleep, TimesOut, WakeUp, Final
  <2> QED BY <1>4, <2>1, <2>2 DEF LoopLocked
<1>10. SleepersExpected'
  <2>1. wpc'[w] \in {"remaining", "limit", "wait", "asleep"} =>
          \/ ~cancelled
          \/ wpc[w] \in {"remaining", "limit", "wait", "asleep"}
    BY DEF Types, CallWait, Lock, WaiterStep, SpuriousWakeup, Test, Done, LookRemaining,
           LookLimit, Sleep, TimesOut, WakeUp, Final
  <2> QED BY <1>1, <1>4, <2>1 DEF SleepersExpected
<1>11. LeavesForReason'
  <2>1. /\ wpc'[w] \in {"final", "false"} => Done \/ (timed'[w] /\ limit'[w] <= now)
        /\ wpc'[w] = "false" => timed'[w] /\ limit'[w] <= now
        /\ wpc'[w] = "true" => Done
    <3>1. CASE Test(w)
      BY <3>1 DEF Test, Types
    <3>2. CASE LookRemaining(w)
      <4>1. Remaining = 0 => Done
        BY TimeAssumption DEF Remaining, Done, Types
      <4> QED BY <3>2, <4>1 DEF LookRemaining, Types
    <3>3. CASE LookLimit(w)
      <4>1. timed[w] /\ limit[w] - now <= 0 => limit[w] <= now
        BY TimeAssumption DEF Types
      <4> QED BY <3>3, <4>1 DEF LookLimit, Types
    <3>4. CASE Final(w)
      BY <3>4 DEF Final, Types, LeavesForReason
    <3>5. CASE CallWait(w) \/ Lock(w) \/ Sleep(w) \/ TimesOut(w) \/ SpuriousWakeup(w)
      BY <3>5 DEF CallWait, Lock, Sleep, TimesOut, SpuriousWakeup, WakeUp, Types
    <3> QED BY <3>1, <3>2, <3>3, <3>4, <3>5 DEF WaiterStep
  <2> QED BY <1>1, <1>4, <1>5, <2>1 DEF LeavesForReason
<1> QED BY <1>3, <1>8, <1>9, <1>10, <1>11

LEMMA CancelPreserves ==
  ASSUME IInv, NEW c \in Cancellers, Cancel(c)
  PROVE  IInv'
<1> USE DEF IInv
<1>1. UNCHANGED <<now, deadline, lock, wpc, timed, limit, destroyed>> /\ cancelled' = TRUE
  BY DEF Cancel
<1>2. \A d \in Cancellers \ {c} : cpc'[d] = cpc[d]
  BY DEF Cancel, Types
<1>3. cpc[c] = "out" /\ cpc'[c] = IF cancelled THEN "false" ELSE "broadcast"
  BY DEF Cancel, Types
<1>4. Types'
  BY <1>1 DEF Types, Cancel
<1>5. LoopLocked'
  BY <1>1 DEF LoopLocked
<1>6. SleepersExpected'
  <2>1. CASE cancelled
    BY <1>1, <1>2, <1>3, <2>1 DEF SleepersExpected
  <2>2. CASE ~cancelled
    BY <1>3, <2>2 DEF SleepersExpected
  <2> QED BY <2>1, <2>2
<1>7. LeavesForReason'
  BY <1>1 DEF LeavesForReason, Done
<1>8. OneWinner'
  <2>1. CASE cancelled
    BY <1>1, <1>2, <1>3, <2>1 DEF OneWinner, Winner
  <2>2. CASE ~cancelled
    <3>1. \A d \in Cancellers : ~Winner(d)
      BY <2>2 DEF OneWinner
    <3> QED BY <1>1, <1>2, <3>1 DEF OneWinner, Winner
  <2> QED BY <2>1, <2>2
<1>9. DestroyedUnused'
  BY <1>1 DEF DestroyedUnused, Cancel
<1> QED BY <1>4, <1>5, <1>6, <1>7, <1>8, <1>9

LEMMA BroadcastPreserves ==
  ASSUME IInv, NEW c \in Cancellers, Broadcast(c)
  PROVE  IInv'
<1> USE DEF IInv
<1>1. /\ UNCHANGED <<now, deadline, cancelled, lock, timed, limit, destroyed>>
      /\ lock = NoThread /\ cpc[c] = "broadcast" /\ cpc' = [cpc EXCEPT ![c] = "callback"]
  BY DEF Broadcast
<1>2. \A w \in Waiters : wpc'[w] = IF wpc[w] = "asleep" THEN "woken" ELSE wpc[w]
  BY DEF Broadcast
<1>3. wpc' \in [Waiters -> {"out", "lock", "test", "remaining", "limit", "wait", "asleep",
                            "woken", "final", "true", "false"}]
  BY DEF Broadcast, Types
<1>4. Types'
  BY <1>1, <1>3 DEF Types
<1>5. LoopLocked'
  BY <1>1, <1>2 DEF LoopLocked
<1>6. SleepersExpected'
  BY <1>1, <1>2, ThreadsAssumption DEF SleepersExpected, LoopLocked
<1>7. LeavesForReason'
  BY <1>1, <1>2 DEF LeavesForReason, Done
<1>8. OneWinner'
  BY <1>1 DEF OneWinner, Winner, Types
<1>9. DestroyedUnused'
  BY <1>1 DEF DestroyedUnused
<1> QED BY <1>4, <1>5, <1>6, <1>7, <1>8, <1>9

LEMMA OthersPreserve ==
  ASSUME IInv, Tick \/ (\E c \in Cancellers : CallbackReturns(c) \/ Destroy(c)) \/ UNCHANGED vars
  PROVE  IInv'
<1> USE DEF IInv
<1>1. CASE Tick
  <2>1. now' = now + 1 /\ now' \in 0..LastTick
    BY <1>1, TimeAssumption DEF Tick, Types
  <2>2. UNCHANGED <<deadline, cancelled, lock, wpc, cpc, timed, limit, destroyed>>
    BY <1>1 DEF Tick
  <2>3. now \in Int /\ deadline \in Int /\ \A w \in Waiters : limit[w] \in Int
    BY TimeAssumption DEF Types
  <2>4. (Done => Done') /\ \A w \in Waiters : limit[w] <= now => limit'[w] <= now'
    BY <2>1, <2>2, <2>3 DEF Done
  <2>5. Types'
    BY <2>1, <2>2 DEF Types
  <2>6. LeavesForReason'
    BY <2>2, <2>4 DEF LeavesForReason
  <2>7. LoopLocked' /\ SleepersExpected' /\ OneWinner' /\ DestroyedUnused'
    BY <2>2 DEF LoopLocked, SleepersExpected, OneWinner, Winner, DestroyedUnused, Inside
  <2> QED BY <2>5, <2>6, <2>7
<1>2. ASSUME NEW c \in Cancellers, CallbackReturns(c) PROVE IInv'
  <2>1. /\ UNCHANGED <<now, deadline, cancelled, lock, wpc, timed, limit, destroyed>>
        /\ cpc[c] = "callback" /\ cpc' = [cpc EXCEPT ![c] = "true"]
    BY <1>2 DEF CallbackReturns
  <2>2. \A d \in Cancellers : /\ cpc'[d] = "broadcast" <=> cpc[d] = "broadcast"
                              /\ Winner(d)' <=> Winner(d)
    BY <2>1 DEF Types, Winner
  <2>3. Types'
    BY <2>1 DEF Types
  <2>4. LoopLocked' /\ SleepersExpected' /\ LeavesForReason' /\ OneWinner' /\ DestroyedUnused'
    BY <2>1, <2>2
    DEF LoopLocked, SleepersExpected, LeavesForReason, Done, OneWinner, DestroyedUnused, Inside
  <2> QED BY <2>3, <2>4
<1>3. ASSUME NEW c \in Cancellers, Destroy(c) PROVE IInv'
  <2>1. /\ UNCHANGED <<now, deadline, cancelled, lock, wpc, cpc, timed, limit>>
        /\ destroyed' = TRUE /\ cpc[c] \in {"callback", "true"}
        /\ \A w \in Waiters : ~Inside(w)
    BY <1>3 DEF Destroy
  <2>2. \A d \in Cancellers : cpc[d] # "broadcast"
    BY <2>1 DEF OneWinner, Winner
  <2>3. Types'
    BY <2>1 DEF Types
  <2>4. DestroyedUnused'
    <3>1. lock = NoThread
      BY <2>1 DEF LoopLocked, Inside, Types
    <3> QED BY <2>1, <2>2, <3>1 DEF DestroyedUnused, Inside
  <2>5. LoopLocked' /\ SleepersExpected' /\ LeavesForReason' /\ OneWinner'
    BY <2>1 DEF LoopLocked, SleepersExpected, LeavesForReason, Done, OneWinner, Winner
  <2> QED BY <2>3, <2>4, <2>5
<1>4. CASE UNCHANGED vars
  BY <1>4
  DEF vars, Types, LoopLocked, SleepersExpected, LeavesForReason, Done, OneWinner, Winner,
      DestroyedUnused, Inside
<1> QED BY <1>1, <1>2, <1>3, <1>4

THEOREM InvariantHolds == Spec => []IInv
<1>1. IInv /\ [Next]_vars => IInv'
  BY WaiterPreserves, CancelPreserves, BroadcastPreserves, OthersPreserve DEF Next, Stopped
<1> QED BY InitCorrect, <1>1, PTL DEF Spec

-----------------------------------------------------------------------------
\* A waiter that sleeps although the token is cancelled will still be woken
\* (shutdown_signal.c:71): the broadcast takes the lock, the flag does not.
THEOREM NoCancelMissed == Spec => []CancelReachesSleepers
<1>1. IInv => CancelReachesSleepers
  BY DEF IInv, SleepersExpected, CancelReachesSleepers
<1> QED BY <1>1, InvariantHolds, PTL

\* What ct_shutdown_token_wait returns is true of the token and of the caller's deadline.
THEOREM WaitIsTruthful == Spec => []WaitTellsTruth
<1>1. IInv => WaitTellsTruth
  <2> SUFFICES ASSUME IInv, NEW w \in Waiters
               PROVE  /\ wpc[w] = "true" => Done
                      /\ wpc[w] = "false" => timed[w] /\ limit[w] \in 0..now
    BY DEF WaitTellsTruth
  <2>1. limit[w] \in Nat /\ now \in Nat
    BY TimeAssumption DEF IInv, Types
  <2>2. /\ wpc[w] = "true" => Done
        /\ wpc[w] = "false" => timed[w] /\ limit[w] <= now
    BY DEF IInv, LeavesForReason
  <2> QED BY <2>1, <2>2
<1> QED BY <1>1, InvariantHolds, PTL

\* Whoever has cancelled may destroy the token, in the callback or later, when no wait is
\* left: no other cancel still uses the lock.
THEOREM DestroyIsSafe == Spec => []DestroyedUnused
<1>1. IInv => DestroyedUnused
  BY DEF IInv
<1> QED BY <1>1, InvariantHolds, PTL
=============================================================================
