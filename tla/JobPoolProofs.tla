---------------------------- MODULE JobPoolProofs ----------------------------
(***************************************************************************)
(* What is proved of the job pool, for any number of jobs and workers and  *)
(* any capacity of the queue: what destroy frees is unused, and the pool   *)
(* implements the service that discards.  The queue takes its steps as in  *)
(* MsgQueue, so its invariant FifoInv holds here too.                      *)
(***************************************************************************)
EXTENDS JobPool, MsgQueueProofs

-----------------------------------------------------------------------------
(* The steps of the queue under the pool. *)

\* Every step of the pool is a step of the queue or leaves it alone.
LEMMA PoolStepsQueue == [Next]_vars => [MqNext]_mqVars
BY DEF Next, vars, OwnerStep, CreateUnit, CreateFails, BeginDestroy, JoinUnit, Free,
   ResumeSubmit, Submit, WorkerStep, TryPop, Pop, ResumePop, FinishJob, WaitEnds, Terminated,
   MqNext, Threads, Modes

\* The queue's invariant holds in the pool.
LEMMA FifoInvariant == Spec => []FifoInv
<1>1. Init => FifoInv
  BY FifoInit DEF Init
<1>2. FifoInv /\ [Next]_vars => FifoInv'
  BY PoolStepsQueue, FifoStep
<1> QED BY <1>1, <1>2, PTL DEF Spec

\* A section of a push or a pop moves an element and returns 0, or moves nothing and, if
\* it returns, returns an error; in both cases nobody else begins or ends a call.
LEMMA QueueCall ==
  ASSUME FifoInv, NEW t \in Threads, (\E mode \in Modes : Call(t, mode)) \/ Proceed(t)
  PROVE  /\ \A s \in Threads : s # t => (pc'[s] # "out" <=> pc[s] # "out")
         /\ is_shut' = is_shut
         /\ \/ /\ ~is_shut /\ ~MustWait(t) /\ Transfer(t)
               /\ pc'[t] = "out" /\ result'[t] = "0"
               /\ t \in Items => result[t] = "none"
            \/ /\ UNCHANGED <<ring, taken>>
               /\ pc'[t] = "out" => result'[t] # "0"
<1>0. pc \in [Threads -> Places] /\ result \in [Threads -> Results]
  BY DEF FifoInv, CallInv
<1>1. ASSUME NEW code \in Results \ {"0"}, Return(t, code)
      PROVE  /\ \A s \in Threads : s # t => pc'[s] = pc[s]
             /\ result'[t] # "0" /\ UNCHANGED <<ring, is_shut, taken>>
  BY <1>0, <1>1 DEF Return
<1>2. ASSUME NEW isTimed, Sleep(t, isTimed)
      PROVE  /\ \A s \in Threads : s # t => pc'[s] = pc[s]
             /\ pc'[t] # "out" /\ UNCHANGED <<ring, is_shut, taken>>
  BY <1>0, <1>2 DEF Sleep
<1>3. ASSUME Transfer(t)
      PROVE  /\ \A s \in Threads : s # t => (pc'[s] # "out" <=> pc[s] # "out")
             /\ pc'[t] = "out" /\ result'[t] = "0" /\ is_shut' = is_shut
  <2> DEFINE f == [pc EXCEPT ![t] = "out"]
  <2>1. /\ pc' \in Signal(f, Peers(t)) /\ result' = [result EXCEPT ![t] = "0"]
        /\ is_shut' = is_shut
    BY <1>3 DEF Transfer
  <2>2. f \in [Threads -> Places] /\ f[t] = "out" /\ \A s \in Threads : s # t => f[s] = pc[s]
    BY <1>0 DEF Places
  <2> HIDE DEF f
  <2>3. \A s \in Threads : pc'[s] # "out" <=> f[s] # "out"
    BY <2>1, <2>2 DEF Signal, Peers, Threads
  <2> QED BY <1>0, <2>1, <2>2, <2>3
<1>4. t \in Items /\ Proceed(t) => result[t] = "none"
  BY DEF Proceed, Recheck, GiveUp, FifoInv, CallInv
<1>5. CASE ~is_shut /\ ~MustWait(t) /\ Transfer(t) /\ (t \in Items => result[t] = "none")
  BY <1>3, <1>5
<1>6. CASE \/ \E code \in Results \ {"0"} : Return(t, code)
           \/ \E isTimed \in BOOLEAN : Sleep(t, isTimed)
  BY <1>1, <1>2, <1>6
<1>7. CASE \E mode \in Modes : Call(t, mode)
  <2>1. PICK mode \in Modes : Call(t, mode)
    BY <1>7
  <2> QED BY <1>5, <1>6, <2>1 DEF Call, Refuse, Results
<1>8. CASE Proceed(t)
  BY <1>4, <1>5, <1>6, <1>8 DEF Proceed, Recheck, GiveUp, Results
<1> QED BY <1>7, <1>8

-----------------------------------------------------------------------------
(* The units and the owner. *)

UnitPCs == {"none", "try", "pop", "running", "exited"}

\* The units of the list are the workers that have a thread.
UnitInv ==
  /\ wpc \in [Consumers -> UnitPCs]
  /\ job \in [Consumers -> Items \union {NoItem}]
  /\ units \in Seq(Consumers)
  /\ \A j, k \in 1..Len(units) : units[j] = units[k] => j = k
  /\ \A w \in Consumers : (\A k \in 1..Len(units) : units[k] # w) => wpc[w] = "none"
  /\ \A k \in 1..Len(units) : wpc[units[k]] # "none"
  /\ owner \in {"creating", "open", "joining", "freed"}
  /\ owner = "freed" => units = <<>>
  /\ owner \in {"joining", "freed"} => is_shut

\* Who is in a call of the queue: a worker in its second pop, the application while the
\* pool is open, a job while it runs.
CallerInv ==
  /\ \A w \in Consumers : pc[w] # "out" => wpc[w] = "pop"
  /\ \A i \in Items : pc[i] # "out" =>
       \/ Parent[i] = NoItem /\ owner = "open"
       \/ \E w \in Consumers : wpc[w] = "running" /\ job[w] = Parent[i]

PoolInv == FifoInv /\ UnitInv /\ CallerInv

PopStep(w) == TryPop(w) \/ Pop(w) \/ ResumePop(w)

\* m_worker_thread goes from one pop to the next, or to a job, or to its end.
LEMMA PopMoves ==
  ASSUME PoolInv, NEW w \in Consumers, PopStep(w)
  PROVE  /\ wpc[w] \in {"try", "pop"}
         /\ UNCHANGED <<owner, units, finished, is_shut>>
         /\ \E place \in UnitPCs \ {"none"} : wpc' = [wpc EXCEPT ![w] = place]
         /\ pc'[w] # "out" => wpc'[w] = "pop"
         /\ \A s \in Threads : s # w => (pc'[s] # "out" <=> pc[s] # "out")
         /\ \/ /\ ~is_shut /\ ~MustWait(w) /\ Transfer(w)
               /\ wpc'[w] = "running" /\ job' = [job EXCEPT ![w] = all[head]]
            \/ /\ UNCHANGED <<ring, taken>>
               /\ wpc'[w] # "running" /\ job' = job
<1>0. /\ w \in Threads /\ w \notin Items /\ wpc \in [Consumers -> UnitPCs]
      /\ pc \in [Threads -> Places]
  BY ThreadsAssumption DEF Threads, PoolInv, UnitInv, FifoInv, CallInv
<1>1. UseResult(w) /\ UNCHANGED <<owner, units, finished>>
  BY DEF PopStep, TryPop, Pop, ResumePop, UseResult
<1>2. wpc[w] \in {"try", "pop"} /\ (pc[w] # "out" => wpc[w] = "pop")
  BY <1>0 DEF PopStep, TryPop, Pop, ResumePop, Proceed, Recheck, GiveUp, PoolInv, CallerInv
<1>3. (\E mode \in Modes : Call(w, mode)) \/ Proceed(w)
  BY DEF PopStep, TryPop, Pop, ResumePop, Modes
<1>4. /\ \A s \in Threads : s # w => (pc'[s] # "out" <=> pc[s] # "out")
      /\ is_shut' = is_shut
      /\ \/ /\ ~is_shut /\ ~MustWait(w) /\ Transfer(w)
            /\ pc'[w] = "out" /\ result'[w] = "0"
         \/ /\ UNCHANGED <<ring, taken>>
            /\ pc'[w] = "out" => result'[w] # "0"
  BY <1>0, <1>3, QueueCall DEF PoolInv
<1>5. wpc[w] = "try" => pc'[w] = "out"
  <2>1. SUFFICES ASSUME wpc[w] = "try" PROVE pc'[w] = "out"
    OBVIOUS
  <2>2. TryPop(w)
    BY <1>2, <2>1 DEF PopStep, Pop, ResumePop, Proceed, Recheck, GiveUp
  <2>3. Transfer(w) \/ \E code \in Results : Return(w, code)
    BY <2>2 DEF TryPop, Call, Refuse, Results
  <2>4. CASE \E code \in Results : Return(w, code)
    BY <1>0, <2>4 DEF Return
  <2>5. CASE Transfer(w)
    BY <1>0, <2>5 DEF Transfer, Signal, Peers
  <2> QED BY <2>3, <2>4, <2>5
<1>6. CASE pc'[w] # "out"
  <2>1. wpc[w] = "pop" /\ wpc' = wpc /\ job' = job
    BY <1>1, <1>2, <1>5, <1>6 DEF UseResult
  <2>2. wpc' = [wpc EXCEPT ![w] = "pop"]
    BY <1>0, <2>1
  <2>3. "pop" \in UnitPCs \ {"none"}
    BY DEF UnitPCs
  <2>4. UNCHANGED <<ring, taken>>
    BY <1>4, <1>6
  <2> QED BY <1>1, <1>2, <1>4, <2>1, <2>2, <2>3, <2>4
<1>7. CASE pc'[w] = "out" /\ result'[w] = "0"
  <2>1. wpc' = [wpc EXCEPT ![w] = "running"] /\ job' = [job EXCEPT ![w] = all[head]]
    BY <1>1, <1>7 DEF UseResult
  <2>2. wpc'[w] = "running" /\ "running" \in UnitPCs \ {"none"}
    BY <1>0, <2>1 DEF UnitPCs
  <2>3. ~is_shut /\ ~MustWait(w) /\ Transfer(w)
    BY <1>4, <1>7
  <2> QED BY <1>1, <1>2, <1>4, <1>7, <2>1, <2>2, <2>3
<1>8. CASE pc'[w] = "out" /\ result'[w] # "0"
  <2>1. PICK place \in {"pop", "exited"} : wpc' = [wpc EXCEPT ![w] = place] /\ job' = job
    BY <1>1, <1>8 DEF UseResult
  <2>2. wpc'[w] # "running" /\ place \in UnitPCs \ {"none"}
    BY <1>0, <2>1 DEF UnitPCs
  <2>3. UNCHANGED <<ring, taken>>
    BY <1>4, <1>8
  <2> QED BY <1>1, <1>2, <1>4, <1>8, <2>1, <2>2, <2>3
<1> QED BY <1>6, <1>7, <1>8

\* The list of units follows the workers through every step.
LEMMA UnitStep == PoolInv /\ [Next]_vars => UnitInv'
<1> SUFFICES ASSUME PoolInv, [Next]_vars PROVE UnitInv'
  OBVIOUS
<1>0. UnitInv
  BY DEF PoolInv
<1>1. ASSUME NEW w \in Consumers, wpc[w] # "none", NEW place \in UnitPCs \ {"none"},
             wpc' = [wpc EXCEPT ![w] = place], job' \in [Consumers -> Items \union {NoItem}],
             UNCHANGED <<owner, units, is_shut>>
      PROVE  UnitInv'
  BY <1>0, <1>1 DEF UnitInv
<1>2. ASSUME UNCHANGED <<wpc, job, units>>, owner' \in {"creating", "open", "joining", "freed"},
             owner' = "freed" => units = <<>>, owner' \in {"joining", "freed"} => is_shut'
      PROVE  UnitInv'
  BY <1>0, <1>2 DEF UnitInv
<1>3. ASSUME NEW w \in Consumers, CreateUnit(w) PROVE UnitInv'
  <2>1. /\ wpc[w] = "none" /\ wpc' = [wpc EXCEPT ![w] = "try"] /\ units' = Append(units, w)
        /\ owner' \in {"open", "creating"} /\ job' = job
    BY <1>3 DEF CreateUnit
  <2>2. /\ units' \in Seq(Consumers) /\ Len(units') = Len(units) + 1 /\ Len(units) \in Nat
        /\ \A k \in 1..Len(units) + 1 : units'[k] = IF k <= Len(units) THEN units[k] ELSE w
    BY <1>0, <2>1 DEF UnitInv
  <2>3. wpc' \in [Consumers -> UnitPCs] /\ \A v \in Consumers : v # w => wpc'[v] = wpc[v]
    BY <1>0, <2>1 DEF UnitInv, UnitPCs
  <2>4. wpc'[w] # "none" /\ \A k \in 1..Len(units) : units[k] # w /\ units[k] \in Consumers
    BY <1>0, <2>1 DEF UnitInv
  <2>5. \A j, k \in 1..Len(units') : units'[j] = units'[k] => j = k
    BY <1>0, <2>2, <2>4 DEF UnitInv
  <2>6. \A k \in 1..Len(units') : wpc'[units'[k]] # "none"
    BY <1>0, <2>2, <2>3, <2>4 DEF UnitInv
  <2>7. ASSUME NEW v \in Consumers, \A k \in 1..Len(units') : units'[k] # v
        PROVE  wpc'[v] = "none"
    <3>1. v # w /\ \A k \in 1..Len(units) : units[k] # v
      BY <2>2, <2>7
    <3> QED BY <1>0, <2>3, <3>1 DEF UnitInv
  <2> QED BY <1>0, <2>1, <2>2, <2>3, <2>5, <2>6, <2>7 DEF UnitInv
<1>4. CASE JoinUnit
  <2> DEFINE u == Head(units)
  <2>1. /\ units # <<>> /\ wpc' = [wpc EXCEPT ![u] = "none"] /\ units' = Tail(units)
        /\ owner = "joining" /\ UNCHANGED <<owner, job, is_shut>>
    BY <1>4 DEF JoinUnit, mqVars
  <2>2. /\ units' \in Seq(Consumers) /\ Len(units') = Len(units) - 1 /\ Len(units) \in Nat
        /\ u = units[1] /\ 1 \in 1..Len(units) /\ u \in Consumers
        /\ \A k \in 1..Len(units') : /\ units'[k] = units[k + 1] /\ k + 1 \in 1..Len(units)
                                     /\ k + 1 # 1
    BY <1>0, <2>1 DEF UnitInv
  <2> HIDE DEF u
  <2>3. /\ wpc' \in [Consumers -> UnitPCs] /\ wpc'[u] = "none"
        /\ \A v \in Consumers : v # u => wpc'[v] = wpc[v]
    BY <1>0, <2>1, <2>2 DEF UnitInv, UnitPCs
  <2>4. \A j, k \in 1..Len(units') : units'[j] = units'[k] => j = k
    BY <1>0, <2>2, SMTT(60) DEF UnitInv
  <2>5. \A k \in 1..Len(units') : wpc'[units'[k]] # "none"
    <3>1. ASSUME NEW k \in 1..Len(units') PROVE units[k + 1] # u /\ units[k + 1] \in Consumers
      BY <1>0, <2>2 DEF UnitInv
    <3> QED BY <1>0, <2>2, <2>3, <3>1, SMTT(60) DEF UnitInv
  <2>6. ASSUME NEW v \in Consumers, \A k \in 1..Len(units') : units'[k] # v
        PROVE  wpc'[v] = "none"
    <3>1. CASE v = u
      BY <2>3, <3>1
    <3>2. CASE v # u
      <4>1. ASSUME NEW k \in 1..Len(units) PROVE units[k] # v
        <5>1. CASE k = 1
          BY <2>2, <3>2, <5>1
        <5>2. CASE k # 1
          <6>1. k - 1 \in 1..Len(units') /\ (k - 1) + 1 = k
            BY <2>2, <5>2
          <6> QED BY <2>2, <2>6, <6>1
        <5> QED BY <5>1, <5>2
      <4> QED BY <1>0, <2>3, <3>2, <4>1 DEF UnitInv
    <3> QED BY <3>1, <3>2
  <2> QED BY <1>0, <2>1, <2>2, <2>3, <2>4, <2>5, <2>6 DEF UnitInv
<1>5. CASE CreateFails \/ BeginDestroy \/ Free
  BY <1>0, <1>2, <1>5 DEF CreateFails, BeginDestroy, Free, CloseQueue, UnitInv
<1>6. ASSUME NEW w \in Consumers, PopStep(w) PROVE UnitInv'
  <2>1. /\ wpc[w] \in {"try", "pop"} /\ UNCHANGED <<owner, units, finished, is_shut>>
        /\ \E place \in UnitPCs \ {"none"} : wpc' = [wpc EXCEPT ![w] = place]
        /\ job' = job \/ job' = [job EXCEPT ![w] = all[head]]
    BY <1>6, PopMoves
  <2>2. all[head] \in Items \union {NoItem}
    BY DEF PoolInv, FifoInv, RingInv
  <2>3. job' \in [Consumers -> Items \union {NoItem}]
    BY <1>0, <2>1, <2>2 DEF UnitInv
  <2> QED BY <1>1, <2>1, <2>3
<1>7. ASSUME NEW w \in Consumers, FinishJob(w) PROVE UnitInv'
  <2>1. /\ wpc[w] = "running" /\ wpc' = [wpc EXCEPT ![w] = "try"]
        /\ job' = [job EXCEPT ![w] = NoItem] /\ UNCHANGED <<owner, units, is_shut>>
    BY <1>7 DEF FinishJob, mqVars
  <2>2. "try" \in UnitPCs \ {"none"} /\ job' \in [Consumers -> Items \union {NoItem}]
    BY <1>0, <2>1 DEF UnitInv, UnitPCs
  <2> QED BY <1>1, <2>1, <2>2
<1>8. CASE UNCHANGED <<owner, units, wpc, job>> /\ is_shut' = is_shut
  BY <1>0, <1>2, <1>8 DEF UnitInv
<1>9. ASSUME NEW i \in Items, ResumeSubmit(i) \/ \E mode \in Modes : Submit(i, mode)
      PROVE  UnitInv'
  <2>1. UNCHANGED <<owner, units, wpc, job>> /\ is_shut' = is_shut
    BY <1>9, QueueCall DEF ResumeSubmit, Submit, poolVars, PoolInv, Threads
  <2> QED BY <1>8, <2>1
<1>10. CASE (\E t \in Threads : WaitEnds(t)) \/ UNCHANGED vars
  BY <1>8, <1>10 DEF WaitEnds, TimesOut, SpuriousWakeup, LeaveWait, vars, poolVars, mqVars
<1> QED BY <1>3, <1>4, <1>5, <1>6, <1>7, <1>9, <1>10
        DEF Next, OwnerStep, WorkerStep, PopStep, Terminated

\* Nobody is left in the queue without a place to be there from.
LEMMA CallerStep == PoolInv /\ [Next]_vars => CallerInv'
<1> SUFFICES ASSUME PoolInv, [Next]_vars PROVE CallerInv'
  OBVIOUS
<1>0. /\ CallerInv /\ wpc \in [Consumers -> UnitPCs] /\ pc \in [Threads -> Places]
      /\ job \in [Consumers -> Items \union {NoItem}]
  BY DEF PoolInv, UnitInv, FifoInv, CallInv
<1>a. Items \subseteq Threads /\ Consumers \subseteq Threads
      /\ \A i \in Items, w \in Consumers : i # w
  BY ThreadsAssumption DEF Threads
\* Nobody begins a call, and the workers and the owner stay where callers need them.
<1>1. ASSUME \A t \in Threads : pc'[t] # "out" => pc[t] # "out",
             \A w \in Consumers : pc[w] # "out" => wpc'[w] = wpc[w],
             \A i \in Items, w \in Consumers :
               pc[i] # "out" /\ wpc[w] = "running" /\ job[w] = Parent[i]
                 => wpc'[w] = "running" /\ job'[w] = job[w],
             \A i \in Items :
               pc[i] # "out" /\ Parent[i] = NoItem /\ owner = "open" => owner' = "open"
      PROVE  CallerInv'
  BY <1>0, <1>1, <1>a DEF CallerInv
<1>2. ASSUME NEW w \in Consumers, CreateUnit(w) PROVE CallerInv'
  <2>1. /\ wpc[w] = "none" /\ pc' = pc /\ job' = job /\ owner = "creating"
        /\ \A v \in Consumers : v # w => wpc'[v] = wpc[v]
    BY <1>0, <1>2 DEF CreateUnit, mqVars
  <2>2. pc[w] = "out"
    BY <1>0, <2>1 DEF CallerInv
  <2> QED BY <1>1, <2>1, <2>2
<1>3. CASE CreateFails \/ BeginDestroy \/ Free
  <2>1. wpc' = wpc /\ job' = job /\ \A t \in Threads : pc'[t] # "out" => pc[t] # "out"
    BY <1>0, <1>3 DEF CreateFails, BeginDestroy, Free, CloseQueue, WakeAll
  <2>2. owner # "open" \/ \A i \in Items : Parent[i] = NoItem => pc[i] = "out"
    BY <1>3 DEF CreateFails, BeginDestroy, Free, Calling
  <2> QED BY <1>1, <2>1, <2>2
<1>4. CASE JoinUnit
  <2> DEFINE u == Head(units)
  <2>1. /\ wpc[u] = "exited" /\ wpc' = [wpc EXCEPT ![u] = "none"] /\ pc' = pc /\ job' = job
        /\ owner' = owner
    BY <1>4 DEF JoinUnit, mqVars
  <2> HIDE DEF u
  <2>2. /\ \A v \in Consumers : v # u => wpc'[v] = wpc[v]
        /\ u \in Consumers => pc[u] = "out"
    BY <1>0, <2>1 DEF CallerInv
  <2> QED BY <1>1, <2>1, <2>2
<1>5. ASSUME NEW w \in Consumers, PopStep(w) PROVE CallerInv'
  <2>1. /\ wpc[w] \in {"try", "pop"} /\ owner' = owner
        /\ \A v \in Consumers : v # w => wpc'[v] = wpc[v]
        /\ \A v \in Consumers : v # w => job'[v] = job[v]
        /\ pc'[w] # "out" => wpc'[w] = "pop"
        /\ \A s \in Threads : s # w => (pc'[s] # "out" <=> pc[s] # "out")
    BY <1>0, <1>5, PopMoves
  <2>2. \A v \in Consumers : pc'[v] # "out" => wpc'[v] = "pop"
    BY <1>0, <1>a, <2>1 DEF CallerInv
  <2>3. \A i \in Items : pc'[i] # "out" => pc[i] # "out"
    BY <1>5, <1>a, <2>1
  <2>4. \A v \in Consumers : wpc[v] = "running" => wpc'[v] = "running" /\ job'[v] = job[v]
    BY <2>1
  <2> QED BY <1>0, <2>1, <2>2, <2>3, <2>4 DEF CallerInv
<1>6. ASSUME NEW w \in Consumers, FinishJob(w) PROVE CallerInv'
  <2>1. /\ wpc[w] = "running" /\ pc' = pc /\ owner' = owner
        /\ \A i \in Items : Parent[i] = job[w] => pc[i] = "out"
        /\ \A v \in Consumers : v # w => wpc'[v] = wpc[v] /\ job'[v] = job[v]
    BY <1>0, <1>6 DEF FinishJob, Calling, mqVars
  <2>2. pc[w] = "out"
    BY <1>0, <2>1 DEF CallerInv
  <2> QED BY <1>1, <2>1, <2>2
<1>7. ASSUME NEW i \in Items, NEW mode \in Modes, Submit(i, mode) PROVE CallerInv'
  <2>1. /\ MayCall(i) /\ wpc' = wpc /\ job' = job /\ owner' = owner
        /\ \A s \in Threads : s # i => (pc'[s] # "out" <=> pc[s] # "out")
    BY <1>7, <1>a, QueueCall DEF Submit, poolVars, PoolInv
  <2>2. \/ Parent[i] = NoItem /\ owner = "open"
        \/ \E w \in Consumers : wpc[w] = "running" /\ job[w] = Parent[i]
    BY <2>1 DEF MayCall
  <2> QED BY <1>0, <1>a, <2>1, <2>2 DEF CallerInv
<1>8. ASSUME NEW i \in Items, ResumeSubmit(i) PROVE CallerInv'
  <2>1. /\ wpc' = wpc /\ job' = job /\ owner' = owner /\ pc[i] # "out"
        /\ \A s \in Threads : s # i => (pc'[s] # "out" <=> pc[s] # "out")
    BY <1>8, <1>a, QueueCall
       DEF ResumeSubmit, poolVars, PoolInv, Proceed, Recheck, GiveUp
  <2>2. \A t \in Threads : pc'[t] # "out" => pc[t] # "out"
    BY <2>1
  <2> QED BY <1>1, <2>1, <2>2
<1>9. ASSUME NEW t \in Threads, WaitEnds(t) PROVE CallerInv'
  <2>1. /\ wpc' = wpc /\ job' = job /\ owner' = owner
        /\ \A s \in Threads : pc'[s] # "out" => pc[s] # "out"
    BY <1>0, <1>9 DEF WaitEnds, TimesOut, SpuriousWakeup, LeaveWait, poolVars
  <2> QED BY <1>1, <2>1
<1>10. CASE UNCHANGED vars
  <2>1. pc' = pc /\ wpc' = wpc /\ job' = job /\ owner' = owner
    BY <1>10 DEF vars, mqVars, poolVars
  <2> QED BY <1>1, <2>1
<1> QED BY <1>2, <1>3, <1>4, <1>5, <1>6, <1>7, <1>8, <1>9, <1>10
        DEF Next, OwnerStep, WorkerStep, PopStep, Terminated

\* The invariant holds when the pool is being created, and ever after.
LEMMA PoolInit == Init => PoolInv
<1> SUFFICES ASSUME Init PROVE PoolInv
  OBVIOUS
<1>1. FifoInv
  BY FifoInit DEF Init
<1>2. UnitInv
  BY DEF Init, UnitInv, UnitPCs
<1>3. CallerInv
  BY DEF Init, MqInit, CallerInv, Threads
<1> QED BY <1>1, <1>2, <1>3 DEF PoolInv

LEMMA PoolInvariant == Spec => []PoolInv
<1>1. PoolInv /\ [Next]_vars => PoolInv'
  BY PoolStepsQueue, FifoStep, UnitStep, CallerStep DEF PoolInv
<1> QED BY PoolInit, <1>1, PTL DEF Spec

\* What ct_jobpool_destroy frees - the queue, its storage, the pool - is not in use: no
\* worker has a thread any more, and no submit is in progress, from the application or
\* from a job (jobpool.c, ct_jobpool_destroy and the error path of ct_jobpool_create).
THEOREM FreedQueueIsUnused == Spec => []FreedQueueUnused
<1>1. PoolInv => FreedQueueUnused
  <2>1. SUFFICES ASSUME PoolInv, owner = "freed"
                 PROVE  /\ \A w \in Consumers : wpc[w] = "none"
                        /\ \A t \in Threads : pc[t] = "out"
    BY DEF FreedQueueUnused, Calling
  <2>2. \A w \in Consumers : wpc[w] = "none"
    <3>1. units = <<>>
      BY <2>1 DEF PoolInv, UnitInv
    <3>2. \A k \in 1..Len(units) : FALSE
      BY <3>1
    <3> QED BY <2>1, <3>2 DEF PoolInv, UnitInv
  <2> QED BY <2>1, <2>2 DEF PoolInv, CallerInv, Threads
<1> QED BY <1>1, PoolInvariant, PTL
-----------------------------------------------------------------------------
(* The refinement. *)

\* The queue holds jobs that were not handed out, each once.
DistinctInv ==
  \A k \in 1..Len(Contents) :
    /\ Contents[k] \in Items /\ Contents[k] \notin taken
    /\ \A j \in 1..Len(Contents) : Contents[j] = Contents[k] => j = k

\* A job that runs was handed out, has not finished, and runs in one worker.
RunInv ==
  /\ finished \subseteq taken
  /\ \A w \in Consumers : wpc[w] = "running" =>
       /\ job[w] \in Items /\ job[w] \in taken /\ job[w] \notin finished
       /\ \A v \in Consumers : wpc[v] = "running" /\ job[v] = job[w] => v = w

\* The order and the freshness of the ring's elements, from the bounded queue.
LEMMA DistinctStep == FifoInv /\ DistinctInv /\ [Next]_vars => DistinctInv'
<1> SUFFICES ASSUME FifoInv, DistinctInv, [Next]_vars PROVE DistinctInv'
  OBVIOUS
<1> DEFINE q == Contents
           r == Contents'
<1>0. Contents \in Seq(Items \union {NoItem}) /\ Len(Contents) \in Nat
  BY ContentsCells DEF FifoInv
<1>1. [Fifo!Next]_(Fifo!vars)
  BY PoolStepsQueue, FifoStep
<1>2. CASE UNCHANGED <<Contents, taken>>
  BY <1>2 DEF DistinctInv
<1>3. ASSUME NEW i \in Items, Fifo!Put(i) PROVE DistinctInv'
  <2>1. /\ i \notin taken /\ \A k \in DOMAIN q : q[k] # i
        /\ r = Append(q, i) /\ taken' = taken
    BY <1>3 DEF Fifo!Put
  <2>2. /\ Len(r) = Len(q) + 1 /\ DOMAIN q = 1..Len(q)
        /\ \A k \in 1..Len(q) + 1 : r[k] = IF k <= Len(q) THEN q[k] ELSE i
    BY <1>0, <2>1
  <2>3. \A k \in 1..Len(q) :
          /\ q[k] \in Items /\ q[k] \notin taken
          /\ \A j \in 1..Len(q) : q[j] = q[k] => j = k
    BY DEF DistinctInv
  <2>4. Len(q) \in Nat
    BY <1>0
  <2> HIDE DEF q, r
  <2>5. \A k \in 1..Len(r) :
          /\ r[k] \in Items /\ r[k] \notin taken'
          /\ \A j \in 1..Len(r) : r[j] = r[k] => j = k
    BY <2>1, <2>2, <2>3, <2>4
  <2> USE DEF r
  <2> QED BY <2>5 DEF DistinctInv
<1>4. CASE Fifo!Get
  <2>1. q # <<>> /\ r = Tail(q) /\ taken' = taken \union {Head(q)}
    BY <1>4 DEF Fifo!Get
  <2>2. /\ Len(r) = Len(q) - 1 /\ Head(q) = q[1] /\ 1 \in 1..Len(q)
        /\ \A k \in 1..Len(r) : r[k] = q[k + 1] /\ k + 1 \in 1..Len(q) /\ k + 1 # 1
    BY <1>0, <2>1
  <2>3. \A k \in 1..Len(q) :
          /\ q[k] \in Items /\ q[k] \notin taken
          /\ \A j \in 1..Len(q) : q[j] = q[k] => j = k
    BY DEF DistinctInv
  <2>4. Len(q) \in Nat
    BY <1>0
  <2> HIDE DEF q, r
  <2>5. \A k \in 1..Len(r) : r[k] \in Items /\ r[k] \notin taken'
    BY <2>1, <2>2, <2>3
  <2>6. ASSUME NEW j \in 1..Len(r), NEW k \in 1..Len(r), r[j] = r[k] PROVE j = k
    <3>1. j + 1 = k + 1
      BY <2>2, <2>3, <2>6
    <3> QED BY <2>2, <2>4, <3>1
  <2>7. \A k \in 1..Len(r) :
          /\ r[k] \in Items /\ r[k] \notin taken'
          /\ \A j \in 1..Len(r) : r[j] = r[k] => j = k
    BY <2>5, <2>6
  <2> USE DEF r
  <2> QED BY <2>7 DEF DistinctInv
<1>5. Fifo!Shut => UNCHANGED <<Contents, taken>>
  BY DEF Fifo!Shut
<1> QED BY <1>1, <1>2, <1>3, <1>4, <1>5 DEF Fifo!Next, Fifo!vars

\* Steps that neither start nor end a job.
SameRuns ==
  \A w \in Consumers :
    /\ (wpc'[w] = "running") <=> (wpc[w] = "running")
    /\ wpc[w] = "running" => job'[w] = job[w]

\* Such a step is invisible to what runs.
LEMMA SameRunsStep ==
  ASSUME RunInv, SameRuns, UNCHANGED <<finished, taken>>
  PROVE  RunInv' /\ Running' = Running
BY DEF RunInv, SameRuns, Running

\* A submit returns 0, or nothing happens to the service.
LEMMA SubmitMaps ==
  ASSUME PoolInv, RunInv, NEW i \in Items, ResumeSubmit(i) \/ \E mode \in Modes : Submit(i, mode)
  PROVE  RunInv' /\ (Service!Accept(i) \/ UNCHANGED Service!vars)
<1>0. i \in Threads
  BY DEF Threads
<1>1. UNCHANGED <<owner, wpc, job, finished>>
  BY DEF ResumeSubmit, Submit, poolVars
<1>2. (\E mode \in Modes : Call(i, mode)) \/ Proceed(i)
  BY DEF ResumeSubmit, Submit
<1>3. /\ is_shut' = is_shut
      /\ \/ ~is_shut /\ ~MustWait(i) /\ Transfer(i) /\ result[i] = "none"
         \/ UNCHANGED <<ring, taken>>
  BY <1>0, <1>2, QueueCall DEF PoolInv
<1>4. CASE UNCHANGED <<ring, taken>>
  <2>1. RunInv' /\ Running' = Running
    BY <1>1, <1>4, SameRunsStep DEF SameRuns
  <2>2. Contents' = Contents
    BY <1>4 DEF Contents, ring
  <2> QED BY <1>1, <1>3, <2>1, <2>2 DEF Service!vars
<1>5. CASE ~is_shut /\ ~MustWait(i) /\ Transfer(i) /\ result[i] = "none"
  <2>1. size # Max /\ Enqueue(i) /\ taken' = taken
    BY <1>5 DEF MustWait, Transfer, Enqueue
  <2>2. RunInv' /\ Running' = Running
    BY <1>1, <2>1, SameRunsStep DEF SameRuns
  <2>3. Contents' = Append(Contents, i)
    BY <2>1, PushAppends DEF PoolInv, FifoInv
  <2>4. i \notin taken /\ \A k \in 1..Len(Contents) : Contents[k] # i
    BY <1>5 DEF PoolInv, FifoInv, FreshInv, Absent
  <2>5. i \notin Running /\ i \notin finished
    BY <2>4 DEF RunInv, Running
  <2>6. DOMAIN Contents = 1..Len(Contents)
    BY ContentsCells DEF PoolInv, FifoInv
  <2>7. i \notin Service!Pending
    BY <1>5, <2>4, <2>6 DEF Service!Pending
  <2> QED BY <1>1, <1>3, <1>5, <2>2, <2>3, <2>5, <2>7 DEF Service!Accept
<1> QED BY <1>3, <1>4, <1>5

\* A pop hands out the oldest job, or nothing happens to the service.
LEMMA PopMaps ==
  ASSUME PoolInv, DistinctInv, RunInv, NEW w \in Consumers, PopStep(w)
  PROVE  RunInv' /\ (Service!Start \/ UNCHANGED Service!vars)
<1>0. wpc \in [Consumers -> UnitPCs] /\ job \in [Consumers -> Items \union {NoItem}]
  BY DEF PoolInv, UnitInv
<1>1. /\ wpc[w] # "running" /\ UNCHANGED <<owner, finished, is_shut>>
      /\ \A v \in Consumers : v # w => wpc'[v] = wpc[v]
  BY <1>0, PopMoves
<1>2. CASE UNCHANGED <<ring, taken>> /\ wpc'[w] # "running" /\ job' = job
  <2>1. RunInv' /\ Running' = Running
    BY <1>1, <1>2, SameRunsStep DEF SameRuns
  <2>2. Contents' = Contents
    BY <1>2 DEF Contents, ring
  <2> QED BY <1>1, <2>1, <2>2 DEF Service!vars
<1>3. CASE /\ ~is_shut /\ ~MustWait(w) /\ Transfer(w)
           /\ wpc'[w] = "running" /\ job' = [job EXCEPT ![w] = all[head]]
  <2> DEFINE i == all[head]
  <2>1. size # 0 /\ Dequeue
    BY <1>3, ThreadsAssumption DEF MustWait, Transfer
  <2>2. /\ Contents # <<>> /\ Contents' = Tail(Contents)
        /\ Head(Contents) = all[Cell(head, 0)] /\ taken' = taken \union {i}
    BY <2>1, PopTakesHead DEF Dequeue, PoolInv, FifoInv
  <2>3. Cell(head, 0) = head
    BY MaxAssumption, IncIsNext DEF PoolInv, FifoInv, RingInv
  <2>4. Head(Contents) = Contents[1] /\ 1 \in 1..Len(Contents)
    BY <2>2, ContentsCells DEF PoolInv, FifoInv
  <2>5. Head(Contents) = i /\ i \in Items /\ i \notin taken
    BY <2>2, <2>3, <2>4 DEF DistinctInv
  <2>6. job'[w] = i /\ \A v \in Consumers : v # w => job'[v] = job[v]
    BY <1>0, <1>3
  <2> HIDE DEF i
  <2>7. RunInv'
    BY <1>1, <1>3, <2>2, <2>5, <2>6 DEF RunInv
  <2>8. Running' = Running \union {i}
    BY <1>1, <1>3, <2>6 DEF Running
  <2> QED BY <1>1, <1>3, <2>2, <2>5, <2>7, <2>8 DEF Service!Start
<1> QED BY <1>2, <1>3, PopMoves

\* A job returns: it leaves what runs and joins what has finished.
LEMMA FinishMaps ==
  ASSUME PoolInv, RunInv, NEW w \in Consumers, FinishJob(w)
  PROVE  RunInv' /\ \E i \in Items : Service!Finish(i)
<1> DEFINE i == job[w]
<1>1. /\ wpc[w] = "running" /\ wpc'[w] = "try" /\ finished' = finished \union {i}
      /\ \A v \in Consumers : v # w => wpc'[v] = wpc[v] /\ job'[v] = job[v]
  BY DEF FinishJob, PoolInv, UnitInv
<1>2. UNCHANGED <<all, head, size, is_shut, taken, owner>>
  BY DEF FinishJob, mqVars
<1>3. /\ i \in Items /\ i \in taken
      /\ \A v \in Consumers : wpc[v] = "running" /\ job[v] = i => v = w
  BY <1>1 DEF RunInv
<1> HIDE DEF i
<1>4. RunInv'
  BY <1>1, <1>2, <1>3 DEF RunInv
<1>5. i \in Running
  BY <1>1 DEF Running, i
<1>6. Running' = Running \ {i}
  BY <1>1, <1>3 DEF Running, i
<1>7. Contents' = Contents
  BY <1>2 DEF Contents
<1>8. Service!Finish(i)
  BY <1>1, <1>2, <1>5, <1>6, <1>7 DEF Service!Finish
<1> QED BY <1>3, <1>4, <1>8

\* Every step of the pool is a step of the service, or none.
LEMMA ServiceStep ==
  ASSUME PoolInv, DistinctInv, RunInv, [Next]_vars
  PROVE  RunInv' /\ [Service!Next]_(Service!vars)
<1>0. UnitInv
  BY DEF PoolInv
<1>1. ASSUME SameRuns, UNCHANGED <<finished, taken, all, head, size, is_shut>>,
             owner' = "freed" <=> owner = "freed"
      PROVE  RunInv' /\ UNCHANGED Service!vars
  <2>1. RunInv' /\ Running' = Running
    BY <1>1, SameRunsStep
  <2>2. Contents' = Contents
    BY <1>1 DEF Contents
  <2> QED BY <1>1, <2>1, <2>2 DEF Service!vars
<1>2. ASSUME NEW w \in Consumers, CreateUnit(w) PROVE RunInv' /\ UNCHANGED Service!vars
  <2>1. SameRuns
    BY <1>0, <1>2 DEF CreateUnit, SameRuns, UnitInv
  <2>2. owner = "creating" /\ owner' \in {"open", "creating"}
    BY <1>2 DEF CreateUnit
  <2> QED BY <1>1, <1>2, <2>1, <2>2 DEF CreateUnit, mqVars
<1>3. ASSUME CloseQueue, UNCHANGED <<wpc, job, finished>>
      PROVE  /\ RunInv' /\ Running' = Running /\ UNCHANGED <<taken, Contents>>
             /\ is_shut' = TRUE
  <2>1. UNCHANGED <<all, head, size, taken>> /\ is_shut' = TRUE
    BY <1>3 DEF CloseQueue, ring
  <2> QED BY <1>3, <2>1, SameRunsStep DEF SameRuns, Contents
<1>4. CASE CreateFails \/ BeginDestroy
  <2>1. /\ CloseQueue /\ UNCHANGED <<wpc, job, finished>>
        /\ owner # "freed" /\ owner' = "joining"
    BY <1>4 DEF CreateFails, BeginDestroy
  <2> QED BY <1>3, <2>1 DEF Service!Close, Service!Next
<1>5. CASE Free
  <2>1. /\ CloseQueue /\ UNCHANGED <<wpc, job, finished>>
        /\ owner = "joining" /\ owner' = "freed" /\ units = <<>>
    BY <1>5 DEF Free
  <2>2. is_shut
    BY <1>0, <2>1 DEF UnitInv
  <2>3. \A k \in 1..Len(units) : FALSE
    BY <2>1
  <2>4. \A w \in Consumers : wpc[w] = "none"
    BY <1>0, <2>3 DEF UnitInv
  <2>5. Running = {}
    BY <2>4 DEF Running
  <2> QED BY <1>3, <2>1, <2>2, <2>5 DEF Service!Release, Service!Next
<1>6. CASE JoinUnit
  <2>1. SameRuns
    <3>1. /\ wpc[Head(units)] = "exited" /\ wpc' = [wpc EXCEPT ![Head(units)] = "none"]
          /\ job' = job
      BY <1>6 DEF JoinUnit
    <3> QED BY <1>0, <3>1 DEF SameRuns, UnitInv
  <2> QED BY <1>1, <1>6, <2>1 DEF JoinUnit, mqVars
<1>7. ASSUME NEW t \in Threads, WaitEnds(t) PROVE RunInv' /\ UNCHANGED Service!vars
  <2>1. UNCHANGED <<finished, taken, all, head, size, is_shut, wpc, job, owner>>
    BY <1>7 DEF WaitEnds, TimesOut, SpuriousWakeup, LeaveWait, poolVars, ring
  <2> QED BY <1>1, <2>1 DEF SameRuns
<1>8. CASE UNCHANGED vars
  <2>1. UNCHANGED <<finished, taken, all, head, size, is_shut, wpc, job, owner>>
    BY <1>8 DEF vars, mqVars, poolVars
  <2> QED BY <1>1, <2>1 DEF SameRuns
<1> QED BY <1>2, <1>4, <1>5, <1>6, <1>7, <1>8, SubmitMaps, PopMaps, FinishMaps
        DEF Next, OwnerStep, WorkerStep, PopStep, Terminated, Service!Next

\* jobpool.h: jobs start once and in order, none after the close, which discards those
\* that have not started, and the pool is freed when the running ones have finished.
THEOREM JobPoolImplementsService == Spec => ImplementsDiscardingService
<1>1. Init => DistinctInv /\ RunInv /\ Service!Init
  <2> SUFFICES ASSUME Init PROVE DistinctInv /\ RunInv /\ Service!Init
    OBVIOUS
  <2>1. Contents = <<>> /\ taken = {} /\ ~is_shut
    BY FifoInit DEF Init, Fifo!Init
  <2>2. \A k \in 1..Len(Contents) : FALSE
    BY <2>1
  <2>3. RunInv /\ Running = {}
    BY DEF Init, RunInv, Running
  <2> QED BY <2>1, <2>2, <2>3 DEF DistinctInv, Init, Service!Init
<1>2. PoolInv /\ DistinctInv /\ RunInv /\ [Next]_vars =>
        DistinctInv' /\ RunInv' /\ [Service!Next]_(Service!vars)
  BY DistinctStep, ServiceStep DEF PoolInv
<1> QED BY <1>1, <1>2, PoolInvariant, PTL DEF ImplementsDiscardingService, Service!Spec, Spec
=============================================================================
