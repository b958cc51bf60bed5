------------------------------- MODULE ThPool -------------------------------
(***************************************************************************)
(* The thread pool of thread/src/thpool.c.                                 *)
(*                                                                         *)
(* Every field of struct ct_thpool is read and written under lock_, so one *)
(* critical section - from ct_mutex_lock, or from the return of a          *)
(* condition wait, to the next unlock or wait - is one action.  A thread   *)
(* that a condition variable wakes does not run at once: it has to take    *)
(* lock_ again, and its next critical section is a later action, with any  *)
(* number of other critical sections in between.  The wait set of a        *)
(* condition variable is the set of threads whose program counter says     *)
(* that they wait on it.                                                   *)
(*                                                                         *)
(* A task stands for the call of ct_thpool_submit that offers it, and for  *)
(* the thread that makes the call: a thread of the application, or the     *)
(* worker that runs Parent[t] when the call is made inside a task.         *)
(*                                                                         *)
(* An operator Name_Fault is a faulty variant of the operator Name: with   *)
(* it in the place of Name, a run finds a property violated.  No other     *)
(* definition uses one.                                                    *)
(***************************************************************************)
EXTENDS Integers, Sequences, FiniteSets

CONSTANTS Tasks,        \* tasks the application may submit, each once
          NoTask,       \* no task
          Parent,       \* the task that submits a task, NoTask: a thread of its own
          Workers,      \* worker_t nodes, allocated and freed
          Capacity,     \* capacity_: greatest number of live workers, 0 = unlimited
          MaxTasks,     \* cfg_.max_tasks_: greatest length of the queue, 0 = unlimited
          NonBlocking,  \* cfg_.non_blocking_
          IdleTimeout   \* cfg_.idle_timeout_ > 0

ASSUME TasksAssumption == NoTask \notin Tasks /\ Parent \in [Tasks -> Tasks \union {NoTask}]
ASSUME ConfigAssumption ==
  /\ Capacity \in Nat /\ MaxTasks \in Nat
  /\ NonBlocking \in BOOLEAN /\ IdleTimeout \in BOOLEAN

VARIABLES queue,          \* queue_head_
          queued_count,   \* queued_count_
          live,           \* workers on live_head_
          live_count,     \* live_count_
          retired,        \* workers on retired_head_
          waiting_count,  \* waiting_count_
          blocked_count,  \* blocked_count_
          closed,         \* closed_
          call,           \* where the submit call of each task stands
          wpc,            \* where each worker thread stands
          job,            \* the task a worker runs
          stale,          \* the retired workers a retiring worker has to join
          destroy,        \* where the call of ct_thpool_destroy stands
          finished,       \* tasks whose routine has returned (history)
          sliced          \* the build cuts long timed waits into slices (cond.c:70)

counts == <<queued_count, live_count, waiting_count, blocked_count>>
lists  == <<queue, live, retired>>
vars   == <<queue, queued_count, live, live_count, retired, waiting_count, blocked_count,
            closed, call, wpc, job, stale, destroy, finished, sliced>>

(***************************************************************************)
(* call[t]:    "new"        the call has not been made                     *)
(*             "blocked"    waits on slot_cond_                            *)
(*             "unblocked"  woken, about to take lock_ again               *)
(*             "accepted", "rejected"  returned 0, returned an error       *)
(* wpc[w]:     "none"       no thread, the node is free                    *)
(*             "ready"      about to take lock_ (started, or task done)    *)
(*             "idle"       waits on task_cond_                            *)
(*             "woken", "timedout"  left the wait, about to take lock_     *)
(*             "running"    executes job[w], without the lock              *)
(*             "joining"    retiring, joins stale[w] without the lock      *)
(*             "retired"    released lock_ for the last time               *)
(*             "exited"     thread ended, not joined                       *)
(* destroy:    "none", "awake" (about to take lock_ and test the drain     *)
(*             condition), "waiting" (on slot_cond_), "joining", "freed"   *)
(***************************************************************************)
Awake == {"ready", "woken", "timedout"}

\* ct_thpool_create.  The build is one of the two kinds, for good; without an idle timeout
\* no wait is timed, and the kind is of no account.
Init ==
  /\ queue = <<>>
  /\ live = {} /\ retired = {}
  /\ queued_count = 0 /\ live_count = 0 /\ waiting_count = 0 /\ blocked_count = 0
  /\ closed = FALSE
  /\ call = [t \in Tasks |-> "new"]
  /\ wpc = [w \in Workers |-> "none"]
  /\ job = [w \in Workers |-> NoTask]
  /\ stale = [w \in Workers |-> {}]
  /\ destroy = "none"
  /\ finished = {}
  /\ sliced \in BOOLEAN /\ (sliced => IdleTimeout)

-----------------------------------------------------------------------------
(* Condition variables. *)

SignalTask_Lost(pcs) == {pcs}

\* ct_cond_signal(&task_cond_): the values wpc may take when it holds pcs.
SignalTask(pcs) ==
  LET idle == {w \in Workers : pcs[w] = "idle"}
  IN  IF idle = {} THEN {pcs} ELSE {[pcs EXCEPT ![w] = "woken"] : w \in idle}

\* ct_cond_broadcast(&task_cond_)
BroadcastTask(pcs) == [w \in Workers |-> IF pcs[w] = "idle" THEN "woken" ELSE pcs[w]]

WakeCalls_Lost(calls) == calls
WakeDestroyer_Lost(d) == d

\* ct_cond_broadcast(&slot_cond_), on which submitters and the destroyer wait.
WakeCalls(calls) == [t \in Tasks |-> IF calls[t] = "blocked" THEN "unblocked" ELSE calls[t]]
WakeDestroyer(d) == IF d = "waiting" THEN "awake" ELSE d

-----------------------------------------------------------------------------
(* ct_thpool_submit: one turn of its loop, entered with blocked_count_ = b  *)
(* and with the waiters of slot_cond_ as calls and d say.                   *)

HasRoom_OffByOne == MaxTasks = 0 \/ queued_count <= MaxTasks
NeedsWorker_NoUnlimited == waiting_count = 0 /\ live_count < Capacity

HasRoom == MaxTasks = 0 \/ queued_count < MaxTasks
NeedsWorker == waiting_count = 0 /\ (Capacity = 0 \/ live_count < Capacity)

RejectClosed(t, b, calls, d) ==
  /\ closed
  /\ call' = [calls EXCEPT ![t] = "rejected"]
  /\ blocked_count' = b /\ destroy' = d
  /\ UNCHANGED <<lists, queued_count, live_count, waiting_count, wpc>>

\* CT_THPOOL_ERROR_OVERLOAD
RejectOverload(t, b, calls, d) ==
  /\ ~closed /\ ~HasRoom /\ NonBlocking
  /\ call' = [calls EXCEPT ![t] = "rejected"]
  /\ blocked_count' = b /\ destroy' = d
  /\ UNCHANGED <<lists, queued_count, live_count, waiting_count, wpc>>

\* ++blocked_count_, ct_cond_wait(&slot_cond_)
Block(t, b, calls, d) ==
  /\ ~closed /\ ~HasRoom /\ ~NonBlocking
  /\ call' = [calls EXCEPT ![t] = "blocked"]
  /\ blocked_count' = b + 1 /\ destroy' = d
  /\ UNCHANGED <<lists, queued_count, live_count, waiting_count, wpc>>

Enqueue_Front(t, pcs) ==
  /\ queue' = <<t>> \o queue
  /\ queued_count' = queued_count + 1
  /\ wpc' \in SignalTask(pcs)

\* Append the task and signal one idle worker; pcs is wpc after a possible spawn.
Enqueue(t, pcs) ==
  /\ queue' = Append(queue, t)
  /\ queued_count' = queued_count + 1
  /\ wpc' \in SignalTask(pcs)

AcceptNoSpawn(t, b, calls, d) ==
  /\ ~closed /\ HasRoom /\ ~NeedsWorker
  /\ Enqueue(t, wpc)
  /\ call' = [calls EXCEPT ![t] = "accepted"]
  /\ blocked_count' = b /\ destroy' = d
  /\ UNCHANGED <<live, live_count, retired, waiting_count>>

\* thpool_worker_create succeeds.
AcceptSpawn(t, b, calls, d) ==
  /\ ~closed /\ HasRoom /\ NeedsWorker
  /\ \E w \in Workers :
       /\ wpc[w] = "none"
       /\ live' = live \union {w}
       /\ Enqueue(t, [wpc EXCEPT ![w] = "ready"])
  /\ live_count' = live_count + 1
  /\ call' = [calls EXCEPT ![t] = "accepted"]
  /\ blocked_count' = b /\ destroy' = d
  /\ UNCHANGED <<retired, waiting_count>>

\* thpool_worker_create cannot allocate the node.
SpawnNoMemory(t, b, calls, d) ==
  /\ ~closed /\ HasRoom /\ NeedsWorker
  /\ call' = [calls EXCEPT ![t] = "rejected"]
  /\ blocked_count' = b /\ destroy' = d
  /\ UNCHANGED <<lists, queued_count, live_count, waiting_count, wpc>>

\* ct_thread_create fails: the reserved live slot is given back with a broadcast.
SpawnNoThread(t, b, calls, d) ==
  /\ ~closed /\ HasRoom /\ NeedsWorker
  /\ call' = [WakeCalls(calls) EXCEPT ![t] = "rejected"]
  /\ blocked_count' = b /\ destroy' = WakeDestroyer(d)
  /\ UNCHANGED <<lists, queued_count, live_count, waiting_count, wpc>>

TrySubmit(t, b, calls, d) ==
  /\ \/ RejectClosed(t, b, calls, d)
     \/ RejectOverload(t, b, calls, d)
     \/ Block(t, b, calls, d)
     \/ AcceptNoSpawn(t, b, calls, d)
     \/ AcceptSpawn(t, b, calls, d)
     \/ SpawnNoMemory(t, b, calls, d)
     \/ SpawnNoThread(t, b, calls, d)
  /\ UNCHANGED <<closed, job, stale, finished, sliced>>

InSubmit(t) == call[t] \in {"blocked", "unblocked"}

\* An application thread may not call a pool that is being destroyed; a task may,
\* while it runs, because the destroyer waits for it.  A task makes its calls one
\* after the other.
MayCall(t) ==
  IF Parent[t] = NoTask
  THEN destroy = "none"
  ELSE /\ \E w \in Workers : wpc[w] = "running" /\ job[w] = Parent[t]
       /\ \A s \in Tasks : Parent[s] = Parent[t] => ~InSubmit(s)

Submit(t) ==
  /\ call[t] = "new"
  /\ MayCall(t)
  /\ TrySubmit(t, blocked_count, call, destroy)

\* Back from the wait on slot_cond_; the last submitter to leave it broadcasts.
Resume(t) ==
  /\ call[t] = "unblocked"
  /\ IF blocked_count = 1
     THEN TrySubmit(t, 0, WakeCalls(call), WakeDestroyer(destroy))
     ELSE TrySubmit(t, blocked_count - 1, call, destroy)

-----------------------------------------------------------------------------
(* ct_thpool_close *)

CloseSection ==
  /\ closed' = TRUE
  /\ wpc' = BroadcastTask(wpc)
  /\ call' = WakeCalls(call)
  /\ UNCHANGED <<lists, counts, job, stale, finished, sliced>>

Close ==
  /\ destroy = "none"
  /\ CloseSection
  /\ UNCHANGED destroy

-----------------------------------------------------------------------------
(* thpool_worker_thread *)

\* waiting_count_ once w, back from a wait, has taken itself off it.
WaitingAfterWake(w) == IF wpc[w] = "ready" THEN waiting_count ELSE waiting_count - 1

TakeTask(w) ==
  /\ wpc[w] \in Awake /\ queue # <<>>
  /\ job' = [job EXCEPT ![w] = Head(queue)]
  /\ queue' = Tail(queue)
  /\ queued_count' = queued_count - 1
  /\ waiting_count' = WaitingAfterWake(w)
  /\ wpc' = [wpc EXCEPT ![w] = "running"]
  /\ IF blocked_count > 0
     THEN call' = WakeCalls(call) /\ destroy' = WakeDestroyer(destroy)
     ELSE UNCHANGED <<call, destroy>>
  /\ UNCHANGED <<live, live_count, retired, blocked_count, closed, stale, finished, sliced>>

\* The queue is empty: wait on task_cond_, unless the idle timeout has passed.
Wait(w) ==
  /\ wpc[w] \in {"ready", "woken"} /\ queue = <<>> /\ ~closed
  /\ waiting_count' = WaitingAfterWake(w) + 1
  /\ wpc' = [wpc EXCEPT ![w] = "idle"]
  /\ UNCHANGED <<lists, queued_count, live_count, blocked_count, closed, call, job, stale,
                 destroy, finished, sliced>>

HasRetired_Never == FALSE

\* !ct_list_is_empty(retired_head_)
HasRetired == retired # {}

Leaves_Backlog(w) == wpc[w] \in Awake /\ (closed \/ wpc[w] = "timedout")

\* The worker leaves its loop.
Leaves(w) ==
  /\ wpc[w] \in Awake /\ queue = <<>>
  /\ closed \/ wpc[w] = "timedout"

RetireSection_Forget(w) ==
  /\ live' = live \ {w}
  /\ retired' = retired
  /\ live_count' = live_count - 1
  /\ wpc' = [wpc EXCEPT ![w] = "retired"]
  /\ call' = WakeCalls(call)
  /\ destroy' = WakeDestroyer(destroy)

\* The last section of thpool_worker_retire.
RetireSection(w) ==
  /\ live' = live \ {w}
  /\ retired' = retired \union {w}
  /\ live_count' = live_count - 1
  /\ wpc' = [wpc EXCEPT ![w] = "retired"]
  /\ call' = WakeCalls(call)
  /\ destroy' = WakeDestroyer(destroy)

\* thpool_worker_retire with nobody to join.
RetireAtOnce(w) ==
  /\ Leaves(w) /\ ~HasRetired
  /\ waiting_count' = WaitingAfterWake(w)
  /\ RetireSection(w)
  /\ UNCHANGED <<queue, queued_count, blocked_count, closed, job, stale, finished, sliced>>

\* thpool_worker_retire takes the retired workers and releases lock_ to join them.
SpliceRetired(w) ==
  /\ Leaves(w) /\ HasRetired
  /\ waiting_count' = WaitingAfterWake(w)
  /\ stale' = [stale EXCEPT ![w] = retired]
  /\ retired' = {}
  /\ wpc' = [wpc EXCEPT ![w] = "joining"]
  /\ UNCHANGED <<queue, queued_count, live, live_count, blocked_count, closed, call, job,
                 destroy, finished, sliced>>

\* thpool_thread_join and free of one stale worker.
JoinStale(w) ==
  /\ wpc[w] = "joining"
  /\ \E v \in stale[w] :
       /\ wpc[v] = "exited"
       /\ wpc' = [wpc EXCEPT ![v] = "none"]
       /\ stale' = [stale EXCEPT ![w] = @ \ {v}]
  /\ UNCHANGED <<lists, counts, closed, call, job, destroy, finished, sliced>>

\* All stale workers are joined: lock_ again, and the last section.
RetireAfterJoin(w) ==
  /\ wpc[w] = "joining" /\ stale[w] = {}
  /\ RetireSection(w)
  /\ UNCHANGED <<queue, queued_count, waiting_count, blocked_count, closed, job, stale,
                 finished, sliced>>

\* The routine returns, once the submit calls it made have returned.
FinishTask(w) ==
  /\ wpc[w] = "running"
  /\ \A t \in Tasks : Parent[t] = job[w] => ~InSubmit(t)
  /\ finished' = finished \union {job[w]}
  /\ job' = [job EXCEPT ![w] = NoTask]
  /\ wpc' = [wpc EXCEPT ![w] = "ready"]
  /\ UNCHANGED <<lists, counts, closed, call, stale, destroy, sliced>>

ExitThread(w) ==
  /\ wpc[w] = "retired"
  /\ wpc' = [wpc EXCEPT ![w] = "exited"]
  /\ UNCHANGED <<lists, counts, closed, call, job, stale, destroy, finished, sliced>>

\* The timed wait of ct_cond_wait_for(&task_cond_) ends: after idle_timeout_, or at the
\* end of a slice.
WaitTimesOut(w) ==
  /\ IdleTimeout
  /\ wpc[w] = "idle"
  /\ wpc' = [wpc EXCEPT ![w] = "timedout"]
  /\ UNCHANGED <<lists, counts, closed, call, job, stale, destroy, finished, sliced>>

\* The slice was not the last: ct_cond_wait_for waits again, and nobody has looked at
\* the queue or at closed_ in between.
NextSlice(w) ==
  /\ sliced
  /\ wpc[w] = "timedout"
  /\ wpc' = [wpc EXCEPT ![w] = "idle"]
  /\ UNCHANGED <<lists, counts, closed, call, job, stale, destroy, finished, sliced>>

WorkerStep(w) ==
  \/ TakeTask(w)
  \/ Wait(w)
  \/ RetireAtOnce(w)
  \/ SpliceRetired(w)
  \/ JoinStale(w)
  \/ RetireAfterJoin(w)
  \/ FinishTask(w)
  \/ ExitThread(w)

-----------------------------------------------------------------------------
(* ct_thpool_destroy *)

BeginDestroy ==
  /\ destroy = "none"
  /\ CloseSection
  /\ destroy' = "awake"

Drained_NoBlocked == live_count = 0
Drained_NoLive == blocked_count = 0

\* The test of the drain loop, with lock_ held.
Drained == live_count = 0 /\ blocked_count = 0

DestroyWait ==
  /\ destroy = "awake" /\ ~Drained
  /\ destroy' = "waiting"
  /\ UNCHANGED <<lists, counts, closed, call, wpc, job, stale, finished, sliced>>

DestroyDrained ==
  /\ destroy = "awake" /\ Drained
  /\ destroy' = "joining"
  /\ UNCHANGED <<lists, counts, closed, call, wpc, job, stale, finished, sliced>>

\* Join and free one retired worker, without the lock.
DestroyJoin ==
  /\ destroy = "joining"
  /\ \E w \in retired :
       /\ wpc[w] = "exited"
       /\ wpc' = [wpc EXCEPT ![w] = "none"]
       /\ retired' = retired \ {w}
  /\ UNCHANGED <<queue, live, counts, closed, call, job, stale, destroy, finished, sliced>>

DestroyFree ==
  /\ destroy = "joining" /\ retired = {}
  /\ destroy' = "freed"
  /\ UNCHANGED <<lists, counts, closed, call, wpc, job, stale, finished, sliced>>

DestroyStep == DestroyWait \/ DestroyDrained \/ DestroyJoin \/ DestroyFree

-----------------------------------------------------------------------------
\* A condition wait may return without a signal.
SpuriousWakeup ==
  /\ \/ /\ \E w \in Workers : wpc[w] = "idle" /\ wpc' = [wpc EXCEPT ![w] = "woken"]
        /\ UNCHANGED <<call, destroy>>
     \/ /\ \E t \in Tasks : call[t] = "blocked" /\ call' = [call EXCEPT ![t] = "unblocked"]
        /\ UNCHANGED <<wpc, destroy>>
     \/ /\ destroy = "waiting" /\ destroy' = "awake"
        /\ UNCHANGED <<wpc, call>>
  /\ UNCHANGED <<lists, counts, closed, job, stale, finished, sliced>>

\* The pool is gone; nothing more happens.
Terminated == destroy = "freed" /\ UNCHANGED vars

Next ==
  \/ \E t \in Tasks : Submit(t) \/ Resume(t)
  \/ \E w \in Workers : WorkerStep(w) \/ WaitTimesOut(w) \/ NextSlice(w)
  \/ Close \/ BeginDestroy \/ DestroyStep
  \/ SpuriousWakeup
  \/ Terminated

Spec == Init /\ [][Next]_vars

\* A wait in slices ends with one after which the deadline has passed: the worker goes
\* on in its loop.
SliceEnds(w) == sliced /\ WaitTimesOut(w)
LastSlice(w) ==
  /\ sliced /\ wpc[w] = "timedout"
  /\ TakeTask(w) \/ RetireAtOnce(w) \/ SpliceRetired(w)

\* A thread that can take lock_, whose task returns, that ends or whose join can
\* return does so, and a wait in slices reaches its deadline; no other wait is
\* required to time out, and none to wake by itself.
Fairness ==
  /\ \A t \in Tasks : WF_vars(Resume(t))
  /\ \A w \in Workers : /\ WF_vars(WorkerStep(w))
                        /\ WF_vars(SliceEnds(w)) /\ SF_vars(LastSlice(w))
  /\ WF_vars(DestroyStep)

FairSpec == Spec /\ Fairness

-----------------------------------------------------------------------------
(* Safety. *)

Submitters == {t \in Tasks : InSubmit(t)}
Waiters == {w \in Workers : wpc[w] \in {"idle", "woken", "timedout"}}
AwakeWorkers == {w \in Workers : wpc[w] \in Awake}
Joiners == {w \in Workers : wpc[w] = "joining"}
Unjoined == {w \in Workers : wpc[w] \in {"retired", "exited"}}

TypeOK ==
  /\ queue \in Seq(Tasks)
  /\ queued_count \in Nat /\ live_count \in Nat
  /\ waiting_count \in Nat /\ blocked_count \in Nat
  /\ live \subseteq Workers /\ retired \subseteq Workers
  /\ closed \in BOOLEAN
  /\ call \in [Tasks -> {"new", "blocked", "unblocked", "accepted", "rejected"}]
  /\ wpc \in [Workers -> Awake \union {"none", "idle", "running", "joining", "retired", "exited"}]
  /\ job \in [Workers -> Tasks \union {NoTask}]
  /\ stale \in [Workers -> SUBSET Workers]
  /\ destroy \in {"none", "awake", "waiting", "joining", "freed"}
  /\ finished \subseteq Tasks
  /\ sliced \in BOOLEAN
  /\ \A w \in Workers : wpc[w] = "running" => job[w] \in Tasks

\* The four counters are adjusted far from the lists and waits that they count, and
\* submit decides from them whether to spawn, block or accept: each equals what it
\* counts whenever lock_ is free, and the pool keeps to its two limits.
CountersAgree ==
  /\ queued_count = Len(queue)
  /\ live = {w \in Workers : wpc[w] \in Awake \union {"idle", "running", "joining"}}
  /\ live_count = Cardinality(live)
  /\ waiting_count = Cardinality(Waiters)
  /\ blocked_count = Cardinality(Submitters)
  /\ Capacity > 0 => live_count <= Capacity
  /\ MaxTasks > 0 => queued_count <= MaxTasks

\* No wakeup of task_cond_ is lost where waits are whole: a worker sleeps only while the
\* awake workers are as many as the queued tasks, and never in a closed pool.  In the other
\* builds a worker between two slices misses a signal.
IdleJustified ==
  ~sliced /\ (\E w \in Workers : wpc[w] = "idle") =>
     /\ ~closed
     /\ Len(queue) <= Cardinality(AwakeWorkers)

\* No wakeup of slot_cond_ is lost: a submitter sleeps only in an open pool whose
\* queue is full.
BlockedJustified ==
  \A t \in Tasks : call[t] = "blocked" =>
     ~closed /\ ~NonBlocking /\ MaxTasks > 0 /\ Len(queue) = MaxTasks

\* The destroyer sleeps only while there is a worker or a submitter left whose
\* departure will wake it.
DestroyerJustified ==
  destroy = "waiting" => live # {} \/ Submitters # {}

\* A thread that has left the pool is joined once: it is on retired_head_ or on the
\* stale list of one retiring worker, never on two lists, and no thread that still
\* uses the pool is on any (the join in thpool_worker_retire would wait for it).
UnjoinedOwnedOnce ==
  /\ Unjoined = retired \union UNION {stale[w] : w \in Workers}
  /\ \A w \in Workers : stale[w] # {} => wpc[w] = "joining" /\ stale[w] \intersect retired = {}
  /\ \A v, w \in Workers : v # w => stale[v] \intersect stale[w] = {}

\* ct_thpool_destroy frees the mutex, the conditions and the pool only when no worker
\* and no submitter will use them again.
FreedUnused ==
  destroy \in {"joining", "freed"} =>
     /\ \A w \in Workers : wpc[w] \in {"none", "retired", "exited"}
     /\ Submitters = {}
     /\ destroy = "freed" => \A w \in Workers : wpc[w] = "none"

\* Retired threads are reclaimed while the pool runs: retired_head_ stays within the
\* capacity, even while retiring workers wait in their joins without the lock.
RetiredBounded ==
  Capacity > 0 =>
    Cardinality(retired) + Cardinality(Joiners) <= Capacity

\* The threads that have left the pool and are not joined yet, the ones on the lists
\* of the retiring workers included, number at most 1 + 2 + ... + Capacity.
UnjoinedBounded ==
  Capacity > 0 => 2 * Cardinality(Unjoined) <= Capacity * (Capacity + 1)

\* The configurations in which no worker retires from an open pool that is at its
\* capacity.  In the others the two properties below fail (MCThPool_lost.cfg).
NoRetireWindow == ~IdleTimeout \/ Capacity = 0

\* The places from which a worker will look at the queue again, whatever else happens.
\* The sleeper counts only where its deadline is sure to come.
ComesBack == Awake \union {"running"} \union (IF sliced THEN {"idle"} ELSE {})

\* While a task is queued, a worker that will come back to the queue exists: a submit
\* that hires nobody relies on one, be it only at the deadline of a wait in slices.
ServerForQueue ==
  queue # <<>> => \E w \in Workers : wpc[w] \in ComesBack

\* thpool.h: "Destroy the pool after all accepted tasks have finished."
DestroyAfterAllTasks ==
  destroy = "freed" => \A t \in Tasks : call[t] = "accepted" => t \in finished

-----------------------------------------------------------------------------
(* The abstract service. *)

Running == {job[w] : w \in {v \in Workers : wpc[v] = "running"}}

Service == INSTANCE TaskService
             WITH Discards <- FALSE, pending <- queue, running <- Running, open <- ~closed,
                  released <- (destroy = "freed")

\* The pool keeps every promise of the service.
ImplementsService == Service!Spec

Order == INSTANCE TaskService
           WITH Discards <- FALSE, pending <- queue, running <- Running, open <- ~closed, released <- FALSE

\* The pool starts each accepted task once, oldest first, and accepts none after a
\* close, whatever destroy does.
ImplementsOrder == Order!Spec

-----------------------------------------------------------------------------
(* Liveness. *)

\* An accepted task runs to its end, before or after a close.
AcceptedTaskFinishes == \A t \in Tasks : (call[t] = "accepted") ~> (t \in finished)

\* A blocked submitter returns.
SubmitReturns == \A t \in Tasks : (call[t] = "blocked") ~> (call[t] \in {"accepted", "rejected"})

\* A call of ct_thpool_destroy returns.
DestroyReturns == (destroy = "awake") ~> (destroy = "freed")
=============================================================================
