---------------------------- MODULE ShutdownToken ----------------------------
(***************************************************************************)
(* The shutdown token of sync/src/shutdown_signal.c: a flag and a deadline *)
(* that can be polled without a lock, with a lock and a condition variable *)
(* for those who want to sleep until the token is done.                    *)
(*                                                                         *)
(* The flag is set without the lock, so the loop of a waiter is not one    *)
(* critical section here: every look at the flag or at the clock is a step *)
(* of its own, and the clock and the cancellers move in between.  A look   *)
(* reads the flag first and the clock second; both move one way only, and  *)
(* the outcome is that of reading both at the time of the second.          *)
(***************************************************************************)
EXTENDS Integers

CONSTANTS Waiters, Cancellers, NoThread,
          Timeouts,   \* the timeouts that are used, -1 for none
          Horizon,    \* INT64_MAX
          LastTick,   \* where the model stops its clock
          LastDrift   \* from here on it stands while a waiter computes its wait

ASSUME ThreadsAssumption == NoThread \notin Waiters

ASSUME TimeAssumption ==
  Horizon \in Nat /\ LastTick \in 0..Horizon /\ LastDrift \in Nat /\ Timeouts \subseteq -1..Horizon

VARIABLES now,        \* ct_gettick_ms()
          deadline,   \* deadline_ms_
          cancelled,  \* cancelled_
          lock,       \* holder of mutex_
          wpc, cpc,   \* where the waiters and the cancellers stand
          timed,      \* the wait has a timeout
          limit,      \* user_deadline
          span,       \* remain, and then to_wait
          until,      \* the deadline of ct_cond_wait_for
          destroyed   \* the token has been destroyed (history)

vars == <<now, deadline, cancelled, lock, wpc, cpc, timed, limit, span, until, destroyed>>

(***************************************************************************)
(* wpc[w]: "out"; "lock", about to lock; with the lock "test", "remaining",*)
(*   "limit", "wait", "final", the lines of the loop; "asleep", "woken";   *)
(*   "true" and "false", returned.                                         *)
(* cpc[c]: "out"; "broadcast", about to; "callback"; "true" and "false",   *)
(*   returned.                                                             *)
(***************************************************************************)
Inside(w) == wpc[w] \notin {"out", "true", "false"}

DeadlineAfter_Wraps(timeout) ==
  IF now + timeout > Horizon THEN now + timeout - 2 * (Horizon + 1) ELSE now + timeout

\* Deadlines saturate.
DeadlineAfter(timeout) == IF timeout > Horizon - now THEN Horizon ELSE now + timeout

Done == cancelled \/ (deadline >= 0 /\ now >= deadline)

Remaining ==
  IF Done THEN 0 ELSE IF deadline < 0 THEN -1 ELSE deadline - now

Init ==
  /\ now = 0
  /\ \E timeout \in Timeouts : deadline = IF timeout < 0 THEN -1 ELSE DeadlineAfter(timeout)
  /\ cancelled = FALSE /\ destroyed = FALSE
  /\ lock = NoThread
  /\ wpc = [w \in Waiters |-> "out"]
  /\ cpc = [c \in Cancellers |-> "out"]
  /\ timed = [w \in Waiters |-> FALSE]
  /\ limit = [w \in Waiters |-> 0]
  /\ span = [w \in Waiters |-> 0]
  /\ until = [w \in Waiters |-> 0]

\* A wait ends late by the time that passes between the looks that compute it; the bound
\* LastDrift keeps these ends within the time that is modelled.
Tick ==
  /\ now < LastTick
  /\ now < LastDrift \/ \A w \in Waiters : wpc[w] \notin {"limit", "wait"}
  /\ now' = now + 1
  /\ UNCHANGED <<deadline, cancelled, lock, wpc, cpc, timed, limit, span, until, destroyed>>

-----------------------------------------------------------------------------
(* ct_shutdown_token_wait *)

CallWait(w) ==
  /\ wpc[w] = "out" /\ ~destroyed
  /\ \E timeout \in Timeouts :
       /\ timed' = [timed EXCEPT ![w] = timeout >= 0]
       /\ limit' = [limit EXCEPT ![w] = IF timeout >= 0 THEN DeadlineAfter(timeout) ELSE 0]
  /\ wpc' = [wpc EXCEPT ![w] = "lock"]
  /\ UNCHANGED <<now, deadline, cancelled, lock, cpc, span, until, destroyed>>

\* The lock, at the beginning and when a wait has ended.
Lock(w) ==
  /\ wpc[w] \in {"lock", "woken"} /\ lock = NoThread
  /\ lock' = w
  /\ wpc' = [wpc EXCEPT ![w] = "test"]
  /\ UNCHANGED <<now, deadline, cancelled, cpc, timed, limit, span, until, destroyed>>

Test(w) ==
  /\ wpc[w] = "test"
  /\ wpc' = [wpc EXCEPT ![w] = IF Done THEN "final" ELSE "remaining"]
  /\ UNCHANGED <<now, deadline, cancelled, lock, cpc, timed, limit, span, until, destroyed>>

LookRemaining(w) ==
  /\ wpc[w] = "remaining"
  /\ span' = [span EXCEPT ![w] = Remaining]
  /\ wpc' = [wpc EXCEPT ![w] = IF Remaining = 0 THEN "final" ELSE "limit"]
  /\ UNCHANGED <<now, deadline, cancelled, lock, cpc, timed, limit, until, destroyed>>

ToWait_Later(remain, userRemain) ==
  IF remain > userRemain THEN remain ELSE userRemain

\* The earlier of the two ends, where -1 is none.
ToWait(remain, userRemain) ==
  IF userRemain < 0 \/ (remain > 0 /\ remain < userRemain) THEN remain ELSE userRemain

LookLimit(w) ==
  /\ wpc[w] = "limit"
  /\ LET userRemain == IF timed[w] THEN limit[w] - now ELSE -1
     IN  \/ /\ timed[w] /\ userRemain <= 0
            /\ wpc' = [wpc EXCEPT ![w] = "final"]
            /\ UNCHANGED span
         \/ /\ ~timed[w] \/ userRemain > 0
            /\ wpc' = [wpc EXCEPT ![w] = "wait"]
            /\ span' = [span EXCEPT ![w] = ToWait(span[w], userRemain)]
  /\ UNCHANGED <<now, deadline, cancelled, lock, cpc, timed, limit, until, destroyed>>

Sleep(w) ==
  /\ wpc[w] = "wait"
  /\ until' = [until EXCEPT ![w] = IF span[w] < 0 THEN -1 ELSE DeadlineAfter(span[w])]
  /\ wpc' = [wpc EXCEPT ![w] = "asleep"]
  /\ lock' = NoThread /\ span' = [span EXCEPT ![w] = 0]
  /\ UNCHANGED <<now, deadline, cancelled, cpc, timed, limit, destroyed>>

WakeUp(w) ==
  /\ wpc[w] = "asleep"
  /\ wpc' = [wpc EXCEPT ![w] = "woken"] /\ until' = [until EXCEPT ![w] = 0]
  /\ UNCHANGED <<now, deadline, cancelled, lock, cpc, timed, limit, span, destroyed>>

TimesOut(w) == until[w] >= 0 /\ now >= until[w] /\ WakeUp(w)

SpuriousWakeup(w) == WakeUp(w)

Final(w) ==
  /\ wpc[w] = "final"
  /\ wpc' = [wpc EXCEPT ![w] = IF Done THEN "true" ELSE "false"]
  /\ lock' = NoThread
  /\ UNCHANGED <<now, deadline, cancelled, cpc, timed, limit, span, until, destroyed>>

-----------------------------------------------------------------------------
(* ct_shutdown_token_cancel *)

Cancel_Again(c) ==
  /\ cpc[c] = "out" /\ ~destroyed
  /\ cancelled' = TRUE
  /\ cpc' = [cpc EXCEPT ![c] = "broadcast"]
  /\ UNCHANGED <<now, deadline, lock, wpc, timed, limit, span, until, destroyed>>

Cancel(c) ==
  /\ cpc[c] = "out" /\ ~destroyed
  /\ cancelled' = TRUE
  /\ cpc' = [cpc EXCEPT ![c] = IF cancelled THEN "false" ELSE "broadcast"]
  /\ UNCHANGED <<now, deadline, lock, wpc, timed, limit, span, until, destroyed>>

Broadcast_NoLock(c) ==
  /\ cpc[c] = "broadcast"
  /\ wpc' = [w \in Waiters |-> IF wpc[w] = "asleep" THEN "woken" ELSE wpc[w]]
  /\ until' = [w \in Waiters |-> 0]
  /\ cpc' = [cpc EXCEPT ![c] = "callback"]
  /\ UNCHANGED <<now, deadline, cancelled, lock, timed, limit, span, destroyed>>

\* Lock, broadcast, unlock.
Broadcast(c) ==
  /\ cpc[c] = "broadcast" /\ lock = NoThread
  /\ wpc' = [w \in Waiters |-> IF wpc[w] = "asleep" THEN "woken" ELSE wpc[w]]
  /\ until' = [w \in Waiters |-> 0]
  /\ cpc' = [cpc EXCEPT ![c] = "callback"]
  /\ UNCHANGED <<now, deadline, cancelled, lock, timed, limit, span, destroyed>>

CallbackReturns(c) ==
  /\ cpc[c] = "callback"
  /\ cpc' = [cpc EXCEPT ![c] = "true"]
  /\ UNCHANGED <<now, deadline, cancelled, lock, wpc, timed, limit, span, until, destroyed>>

\* The callback, or the caller whose cancel returned true, destroys the token, when "no
\* thread is waiting".
Destroy(c) ==
  /\ cpc[c] \in {"callback", "true"} /\ ~destroyed
  /\ \A w \in Waiters : ~Inside(w)
  /\ destroyed' = TRUE
  /\ UNCHANGED <<now, deadline, cancelled, lock, wpc, cpc, timed, limit, span, until>>

-----------------------------------------------------------------------------
WaiterStep(w) ==
  Test(w) \/ LookRemaining(w) \/ LookLimit(w) \/ Sleep(w) \/ TimesOut(w) \/ Final(w)

Stopped == destroyed /\ UNCHANGED vars

Next ==
  \/ Tick \/ Stopped
  \/ \E w \in Waiters : CallWait(w) \/ Lock(w) \/ WaiterStep(w) \/ SpuriousWakeup(w)
  \/ \E c \in Cancellers : Cancel(c) \/ Broadcast(c) \/ CallbackReturns(c) \/ Destroy(c)

Spec == Init /\ [][Next]_vars

\* The clock goes on, and who wants the lock gets it some time.
Fairness ==
  /\ SF_vars(Tick)
  /\ \A w \in Waiters : WF_vars(WaiterStep(w)) /\ SF_vars(Lock(w))
  /\ \A c \in Cancellers : SF_vars(Broadcast(c))

LiveSpec == Spec /\ Fairness

-----------------------------------------------------------------------------
(* Properties. *)

\* No cancellation is missed: the flag is set outside the lock, but a waiter that has
\* not seen it, asleep or on its way to sleep, will still be woken.
CancelReachesSleepers ==
  cancelled =>
    \A w \in Waiters :
      wpc[w] = "asleep" => \E c \in Cancellers : cpc[c] = "broadcast"

\* A wait returns true only when the token is done, and false only at its own deadline,
\* whatever happened between its looks at the flag and at the clock.
WaitTellsTruth ==
  \A w \in Waiters :
    /\ wpc[w] = "true" => Done
    /\ wpc[w] = "false" => timed[w] /\ limit[w] \in 0..now

\* The lock and the condition are not used after the destroy by the one who cancelled.
DestroyedUnused ==
  destroyed =>
    /\ lock = NoThread
    /\ \A w \in Waiters : ~Inside(w)
    /\ \A c \in Cancellers : cpc[c] # "broadcast"

\* A wait has to end: the token is cancelled, or one of the two deadlines will come.
Ends(w) ==
  cancelled \/ deadline \in 0..LastTick \/ (timed[w] /\ limit[w] \in 0..LastTick)

\* Every wait returns once the token is cancelled or one of the two deadlines has come.
WaitReturns == \A w \in Waiters : Inside(w) /\ Ends(w) ~> ~Inside(w)
=============================================================================
