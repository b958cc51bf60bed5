---------------------------- MODULE ThPoolProofs ----------------------------
(***************************************************************************)
(* What is proved of the thread pool, for any number of tasks, any number  *)
(* of workers and any configuration, unless a theorem names the ones it is *)
(* about.  First its counters and its tasks while it runs; then its end    *)
(* and the service it gives: the resources that destroy frees are unused;  *)
(* the threads that left the pool are joined once, and a bounded number of *)
(* them waits for it; for the configurations without the window of         *)
(* thpool_worker_retire, every accepted task has finished when the pool is *)
(* freed.  And the pool implements TaskService: it starts each accepted    *)
(* task once, oldest first, and accepts none after a close.                *)
(***************************************************************************)
EXTENDS ThPool, FiniteSetTheorems, SequenceTheorems, TLAPS

-----------------------------------------------------------------------------
(* Types.  The counters are only known to be integers before they are known *)
(* to count something.                                                      *)

Calls == {"new", "blocked", "unblocked", "accepted", "rejected"}
WorkerPCs == Awake \union {"none", "idle", "running", "joining", "retired", "exited"}
DestroyPCs == {"none", "awake", "waiting", "joining", "freed"}

TypeInv ==
  /\ queue \in Seq(Tasks)
  /\ queued_count \in Int /\ live_count \in Int
  /\ waiting_count \in Int /\ blocked_count \in Int
  /\ live \in SUBSET Workers /\ retired \in SUBSET Workers
  /\ closed \in BOOLEAN
  /\ call \in [Tasks -> Calls]
  /\ wpc \in [Workers -> WorkerPCs]
  /\ job \in [Workers -> Tasks \union {NoTask}]
  /\ stale \in [Workers -> SUBSET Workers]
  /\ destroy \in DestroyPCs
  /\ finished \in SUBSET Tasks
  /\ sliced \in BOOLEAN
  /\ \A w \in Workers : wpc[w] = "running" => job[w] \in Tasks

\* ct_cond_signal wakes nobody, or moves one idle worker.
LEMMA SignalMoves ==
  ASSUME NEW pcs \in [Workers -> WorkerPCs], NEW p \in SignalTask(pcs)
  PROVE  /\ p \in [Workers -> WorkerPCs]
         /\ \A w \in Workers : p[w] \in {"running", "idle"} => pcs[w] = p[w]
         /\ \/ p = pcs /\ \A w \in Workers : pcs[w] # "idle"
            \/ \E w \in Workers : pcs[w] = "idle" /\ p = [pcs EXCEPT ![w] = "woken"]
BY DEF SignalTask, WorkerPCs, Awake

\* The broadcasts keep the program counters in their ranges.
LEMMA BroadcastTypes ==
  /\ \A pcs \in [Workers -> WorkerPCs] :
       /\ BroadcastTask(pcs) \in [Workers -> WorkerPCs]
       /\ \A w \in Workers : BroadcastTask(pcs)[w] = "running" => pcs[w] = "running"
  /\ \A calls \in [Tasks -> Calls] : WakeCalls(calls) \in [Tasks -> Calls]
  /\ \A d \in DestroyPCs : WakeDestroyer(d) \in DestroyPCs
BY DEF BroadcastTask, WorkerPCs, Awake, WakeCalls, Calls, WakeDestroyer, DestroyPCs

LEMMA TrySubmitType ==
  ASSUME TypeInv, NEW t \in Tasks, NEW b \in Int,
         NEW calls \in [Tasks -> Calls], NEW d \in DestroyPCs,
         TrySubmit(t, b, calls, d)
  PROVE  TypeInv'
<1>0. /\ job' = job /\ stale' = stale /\ closed' = closed /\ finished' = finished
      /\ sliced' = sliced
      /\ WakeCalls(calls) \in [Tasks -> Calls] /\ WakeDestroyer(d) \in DestroyPCs
  BY BroadcastTypes DEF TrySubmit
<1>1. CASE RejectClosed(t, b, calls, d)
  BY <1>0, <1>1 DEF TypeInv, RejectClosed, lists, Calls
<1>2. CASE RejectOverload(t, b, calls, d)
  BY <1>0, <1>2 DEF TypeInv, RejectOverload, lists, Calls
<1>3. CASE Block(t, b, calls, d)
  BY <1>0, <1>3 DEF TypeInv, Block, lists, Calls
<1>4. CASE AcceptNoSpawn(t, b, calls, d)
  <2>1. /\ wpc' \in [Workers -> WorkerPCs]
        /\ \A w \in Workers : wpc'[w] = "running" => wpc[w] = "running"
    BY <1>4, SignalMoves DEF TypeInv, AcceptNoSpawn, Enqueue
  <2>2. queue' \in Seq(Tasks)
    BY <1>4, AppendProperties DEF TypeInv, AcceptNoSpawn, Enqueue
  <2> QED
    BY <1>0, <1>4, <2>1, <2>2 DEF TypeInv, AcceptNoSpawn, Enqueue, Calls
<1>5. CASE AcceptSpawn(t, b, calls, d)
  <2>1. PICK w \in Workers : /\ wpc[w] = "none"
                             /\ live' = live \union {w}
                             /\ Enqueue(t, [wpc EXCEPT ![w] = "ready"])
    BY <1>5 DEF AcceptSpawn
  <2>2. [wpc EXCEPT ![w] = "ready"] \in [Workers -> WorkerPCs]
    BY DEF TypeInv, WorkerPCs, Awake
  <2>3. /\ wpc' \in [Workers -> WorkerPCs]
        /\ \A v \in Workers : wpc'[v] = "running" => [wpc EXCEPT ![w] = "ready"][v] = "running"
    BY <2>1, <2>2, SignalMoves DEF Enqueue
  <2>5. \A v \in Workers : wpc'[v] = "running" => wpc[v] = "running"
    BY <2>3 DEF TypeInv
  <2>4. queue' \in Seq(Tasks)
    BY <2>1, AppendProperties DEF TypeInv, Enqueue
  <2> QED
    BY <1>0, <1>5, <2>1, <2>3, <2>4, <2>5 DEF TypeInv, AcceptSpawn, Enqueue, Calls
<1>6. CASE SpawnNoMemory(t, b, calls, d)
  BY <1>0, <1>6 DEF TypeInv, SpawnNoMemory, lists, Calls
<1>7. CASE SpawnNoThread(t, b, calls, d)
  BY <1>0, <1>7 DEF TypeInv, SpawnNoThread, lists, Calls
<1> QED
  BY <1>1, <1>2, <1>3, <1>4, <1>5, <1>6, <1>7 DEF TrySubmit

LEMMA TypeStep == TypeInv /\ [Next]_vars => TypeInv'
<1> SUFFICES ASSUME TypeInv, [Next]_vars PROVE TypeInv'
  OBVIOUS
<1>0. /\ BroadcastTask(wpc) \in [Workers -> WorkerPCs]
      /\ \A w \in Workers : BroadcastTask(wpc)[w] = "running" => wpc[w] = "running"
      /\ WakeCalls(call) \in [Tasks -> Calls] /\ WakeDestroyer(destroy) \in DestroyPCs
  BY BroadcastTypes DEF TypeInv
<1>1. ASSUME NEW t \in Tasks, Submit(t) PROVE TypeInv'
  BY <1>1, TrySubmitType DEF Submit, TypeInv
<1>2. ASSUME NEW t \in Tasks, Resume(t) PROVE TypeInv'
  <2>1. blocked_count - 1 \in Int /\ 0 \in Int /\ call \in [Tasks -> Calls] /\ destroy \in DestroyPCs
    BY DEF TypeInv
  <2>2. CASE blocked_count = 1
    BY <1>0, <1>2, <2>1, <2>2, TrySubmitType DEF Resume
  <2>3. CASE blocked_count # 1
    BY <1>2, <2>1, <2>3, TrySubmitType DEF Resume
  <2> QED BY <2>2, <2>3
<1>3. ASSUME NEW w \in Workers, TakeTask(w) PROVE TypeInv'
  <2>1. Head(queue) \in Tasks /\ Tail(queue) \in Seq(Tasks)
    BY <1>3, HeadTailProperties DEF TakeTask, TypeInv
  <2> QED BY <1>0, <1>3, <2>1 DEF TypeInv, TakeTask, WaitingAfterWake, WorkerPCs
<1>4. ASSUME NEW w \in Workers, Wait(w) PROVE TypeInv'
  BY <1>4 DEF TypeInv, Wait, WaitingAfterWake, WorkerPCs, lists
<1>5. ASSUME NEW w \in Workers, RetireAtOnce(w) PROVE TypeInv'
  BY <1>0, <1>5 DEF TypeInv, RetireAtOnce, RetireSection, WaitingAfterWake, WorkerPCs
<1>6. ASSUME NEW w \in Workers, SpliceRetired(w) PROVE TypeInv'
  BY <1>6 DEF TypeInv, SpliceRetired, WaitingAfterWake, WorkerPCs
<1>7. ASSUME NEW w \in Workers, JoinStale(w) PROVE TypeInv'
  BY <1>7 DEF TypeInv, JoinStale, WorkerPCs, lists, counts
<1>8. ASSUME NEW w \in Workers, RetireAfterJoin(w) PROVE TypeInv'
  BY <1>0, <1>8 DEF TypeInv, RetireAfterJoin, RetireSection, WorkerPCs
<1>9. ASSUME NEW w \in Workers, FinishTask(w) PROVE TypeInv'
  BY <1>9 DEF TypeInv, FinishTask, WorkerPCs, Awake, lists, counts
<1>10. ASSUME NEW w \in Workers, ExitThread(w) PROVE TypeInv'
  BY <1>10 DEF TypeInv, ExitThread, WorkerPCs, lists, counts
<1>11. ASSUME NEW w \in Workers, WaitTimesOut(w) \/ NextSlice(w) PROVE TypeInv'
  BY <1>11 DEF TypeInv, WaitTimesOut, NextSlice, WorkerPCs, Awake, lists, counts
<1>12. CASE Close \/ BeginDestroy
  BY <1>0, <1>12 DEF TypeInv, Close, BeginDestroy, CloseSection, lists, counts, DestroyPCs
<1>13. CASE DestroyWait \/ DestroyDrained \/ DestroyFree
  BY <1>13 DEF TypeInv, DestroyWait, DestroyDrained, DestroyFree, lists, counts, DestroyPCs
<1>14. CASE DestroyJoin
  BY <1>14 DEF TypeInv, DestroyJoin, lists, counts, WorkerPCs
<1>15. CASE SpuriousWakeup
  BY <1>15, SMTT(60) DEF TypeInv, SpuriousWakeup, lists, counts, WorkerPCs, Awake, Calls, DestroyPCs
<1>16. CASE UNCHANGED vars
  BY <1>16 DEF TypeInv, vars
<1> QED
  BY <1>1, <1>2, <1>3, <1>4, <1>5, <1>6, <1>7, <1>8, <1>9, <1>10, <1>11, <1>12, <1>13,
     <1>14, <1>15, <1>16
     DEF Next, WorkerStep, DestroyStep, Terminated

-----------------------------------------------------------------------------
(* queued_count_ and blocked_count_. *)

QueueInv ==
  /\ queued_count = Len(queue)
  /\ MaxTasks > 0 => queued_count <= MaxTasks

LEMMA QueueStep == TypeInv /\ QueueInv /\ [Next]_vars => QueueInv'
<1> SUFFICES ASSUME TypeInv, QueueInv, [Next]_vars PROVE QueueInv'
  OBVIOUS
<1>0. /\ queue \in Seq(Tasks) /\ Len(queue) \in Nat /\ MaxTasks \in Nat
      /\ queue # <<>> => Len(Tail(queue)) = Len(queue) - 1
      /\ \A t \in Tasks : Len(Append(queue, t)) = Len(queue) + 1
  BY ConfigAssumption DEF TypeInv
<1>1. ASSUME NEW t \in Tasks, NEW b, NEW calls, NEW d, TrySubmit(t, b, calls, d) PROVE QueueInv'
  <2>1. \/ queue' = queue /\ queued_count' = queued_count
        \/ HasRoom /\ queue' = Append(queue, t) /\ queued_count' = queued_count + 1
    BY <1>1 DEF TrySubmit, RejectClosed, RejectOverload, Block, AcceptNoSpawn, AcceptSpawn,
       SpawnNoMemory, SpawnNoThread, Enqueue, lists
  <2> QED
    BY <1>0, <2>1 DEF QueueInv, HasRoom
<1>2. ASSUME NEW t \in Tasks, Submit(t) \/ Resume(t) PROVE QueueInv'
  BY <1>1, <1>2 DEF Submit, Resume
<1>3. ASSUME NEW w \in Workers, TakeTask(w) PROVE QueueInv'
  BY <1>0, <1>3 DEF QueueInv, TakeTask
<1>4. CASE queue' = queue /\ queued_count' = queued_count
  BY <1>4 DEF QueueInv
<1> QED
  BY <1>2, <1>3, <1>4
     DEF Next, vars, lists, counts, WorkerStep, Wait, RetireAtOnce, SpliceRetired, JoinStale,
         RetireAfterJoin, FinishTask, ExitThread, WaitTimesOut, NextSlice, Close, BeginDestroy,
         CloseSection, DestroyStep, DestroyWait, DestroyDrained, DestroyJoin, DestroyFree,
         SpuriousWakeup, Terminated

BlockedInv ==
  /\ IsFiniteSet(Submitters)
  /\ blocked_count = Cardinality(Submitters)

\* The submit calls that calls says are blocked or have been woken.
InCalls(calls) == {t \in Tasks : calls[t] \in {"blocked", "unblocked"}}

LEMMA WakeKeepsCalls ==
  ASSUME NEW calls \in [Tasks -> Calls]
  PROVE  InCalls(WakeCalls(calls)) = InCalls(calls)
BY DEF InCalls, WakeCalls

\* One turn of the submit loop, entered with every other call counted by b.
LEMMA TrySubmitBlocked ==
  ASSUME NEW t \in Tasks, NEW b \in Int, NEW calls \in [Tasks -> Calls], NEW d,
         IsFiniteSet(InCalls(calls) \ {t}), b = Cardinality(InCalls(calls) \ {t}),
         TrySubmit(t, b, calls, d)
  PROVE  BlockedInv'
<1> DEFINE Others == InCalls(calls) \ {t}
<1>1. CASE Block(t, b, calls, d)
  <2>1. Submitters' = Others \union {t}
    BY <1>1 DEF Block, Submitters, InSubmit, InCalls
  <2> QED
    BY <1>1, <2>1, FS_AddElement DEF BlockedInv, Block
<1>2. ASSUME NEW c \in {calls, WakeCalls(calls)}, NEW v \in {"accepted", "rejected"},
             call' = [c EXCEPT ![t] = v], blocked_count' = b
      PROVE  BlockedInv'
  <2>1. c \in [Tasks -> Calls] /\ InCalls(c) = InCalls(calls)
    BY WakeKeepsCalls, BroadcastTypes
  <2>2. Submitters' = InCalls(c) \ {t}
    BY <1>2, <2>1 DEF Submitters, InSubmit, InCalls
  <2> QED
    BY <1>2, <2>1, <2>2 DEF BlockedInv
<1> QED
  BY <1>1, <1>2 DEF TrySubmit, RejectClosed, RejectOverload, AcceptNoSpawn, AcceptSpawn,
     SpawnNoMemory, SpawnNoThread

LEMMA BlockedStep == TypeInv /\ BlockedInv /\ [Next]_vars => BlockedInv'
<1> SUFFICES ASSUME TypeInv, BlockedInv, [Next]_vars PROVE BlockedInv'
  OBVIOUS
<1>0. /\ call \in [Tasks -> Calls] /\ blocked_count \in Int
      /\ InCalls(call) = Submitters
      /\ InCalls(WakeCalls(call)) = Submitters /\ WakeCalls(call) \in [Tasks -> Calls]
  BY WakeKeepsCalls, BroadcastTypes DEF TypeInv, InCalls, Submitters, InSubmit
<1>1. ASSUME NEW t \in Tasks, Submit(t) PROVE BlockedInv'
  <2>1. Submitters \ {t} = Submitters
    BY <1>1 DEF Submit, Submitters, InSubmit
  <2> QED
    BY <1>0, <1>1, <2>1, TrySubmitBlocked DEF Submit, BlockedInv
<1>2. ASSUME NEW t \in Tasks, Resume(t) PROVE BlockedInv'
  <2>1. t \in Submitters
    BY <1>2 DEF Resume, Submitters, InSubmit
  <2>2. /\ IsFiniteSet(Submitters \ {t})
        /\ Cardinality(Submitters \ {t}) = blocked_count - 1
    BY <2>1, FS_RemoveElement DEF BlockedInv
  <2>3. CASE blocked_count = 1
    BY <1>0, <1>2, <2>2, <2>3, TrySubmitBlocked DEF Resume
  <2>4. CASE blocked_count # 1
    BY <1>0, <1>2, <2>2, <2>4, TrySubmitBlocked DEF Resume
  <2> QED BY <2>3, <2>4
<1>3. ASSUME Submitters' = Submitters, blocked_count' = blocked_count PROVE BlockedInv'
  BY <1>3 DEF BlockedInv
<1>4. CASE UNCHANGED <<call, blocked_count>>
  BY <1>3, <1>4 DEF Submitters, InSubmit
<1>5. CASE call' = WakeCalls(call) /\ UNCHANGED blocked_count
  BY <1>0, <1>3, <1>5 DEF Submitters, InSubmit, InCalls
<1>6. CASE SpuriousWakeup
  <2>1. Submitters' = Submitters
    BY <1>0, <1>6 DEF SpuriousWakeup, Submitters, InSubmit
  <2> QED
    BY <1>3, <1>6, <2>1 DEF SpuriousWakeup, counts
<1> QED
  BY <1>1, <1>2, <1>4, <1>5, <1>6
     DEF Next, vars, lists, counts, WorkerStep, TakeTask, Wait, RetireAtOnce, RetireSection,
         SpliceRetired, JoinStale, RetireAfterJoin, FinishTask, ExitThread, WaitTimesOut, NextSlice,
         Close, BeginDestroy, CloseSection, DestroyStep, DestroyWait, DestroyDrained,
         DestroyJoin, DestroyFree, Terminated

-----------------------------------------------------------------------------
(* live_count_ and waiting_count_. *)

LivePCs == Awake \union {"idle", "running", "joining"}
LiveIn(pcs) == {w \in Workers : pcs[w] \in LivePCs}
WaitersIn(pcs) == {w \in Workers : pcs[w] \in {"idle", "woken", "timedout"}}

WorkerInv ==
  /\ live = LiveIn(wpc)
  /\ IsFiniteSet(live)
  /\ live_count = Cardinality(live)
  /\ waiting_count = Cardinality(WaitersIn(wpc))
  /\ Capacity > 0 => live_count <= Capacity

\* A woken worker is still live and still counted as waiting.
LEMMA WakeKeepsWorkers ==
  ASSUME NEW pcs \in [Workers -> WorkerPCs]
  PROVE  /\ \A p \in SignalTask(pcs) : LiveIn(p) = LiveIn(pcs) /\ WaitersIn(p) = WaitersIn(pcs)
         /\ LiveIn(BroadcastTask(pcs)) = LiveIn(pcs)
         /\ WaitersIn(BroadcastTask(pcs)) = WaitersIn(pcs)
<1>1. ASSUME NEW p \in SignalTask(pcs)
      PROVE  LiveIn(p) = LiveIn(pcs) /\ WaitersIn(p) = WaitersIn(pcs)
  BY SignalMoves DEF LiveIn, WaitersIn, LivePCs, Awake
<1>2. /\ LiveIn(BroadcastTask(pcs)) = LiveIn(pcs)
      /\ WaitersIn(BroadcastTask(pcs)) = WaitersIn(pcs)
  BY DEF LiveIn, WaitersIn, LivePCs, Awake, BroadcastTask
<1> QED BY <1>1, <1>2

\* The waiting worker that returns from its wait leaves the count.
LEMMA WaitingAfterWakeCounts ==
  ASSUME TypeInv, WorkerInv, NEW w \in Workers, wpc[w] \in Awake
  PROVE  /\ WaitingAfterWake(w) = Cardinality(WaitersIn(wpc) \ {w})
         /\ IsFiniteSet(WaitersIn(wpc) \ {w})
         /\ waiting_count \in Nat /\ IsFiniteSet(WaitersIn(wpc))
<1>1. WaitersIn(wpc) \in SUBSET live
  BY DEF WorkerInv, WaitersIn, LiveIn, LivePCs, Awake
<1>2. IsFiniteSet(WaitersIn(wpc))
  BY <1>1, FS_Subset DEF WorkerInv
<1>3. /\ IsFiniteSet(WaitersIn(wpc) \ {w})
      /\ Cardinality(WaitersIn(wpc) \ {w}) =
           IF w \in WaitersIn(wpc) THEN Cardinality(WaitersIn(wpc)) - 1 ELSE Cardinality(WaitersIn(wpc))
  BY <1>2, FS_RemoveElement
<1>4. w \in WaitersIn(wpc) <=> wpc[w] # "ready"
  BY DEF WaitersIn, Awake
<1> QED
  BY <1>2, <1>3, <1>4, FS_CardinalityType DEF WaitingAfterWake, WorkerInv

LEMMA TrySubmitWorkers ==
  ASSUME TypeInv, WorkerInv, NEW t \in Tasks, NEW b, NEW calls, NEW d, TrySubmit(t, b, calls, d)
  PROVE  WorkerInv'
<1>0. wpc \in [Workers -> WorkerPCs]
  BY DEF TypeInv
<1>1. CASE UNCHANGED <<live, live_count, waiting_count, wpc>>
  BY <1>1 DEF WorkerInv, LiveIn, WaitersIn
<1>2. CASE AcceptNoSpawn(t, b, calls, d)
  <2>1. LiveIn(wpc)' = LiveIn(wpc) /\ WaitersIn(wpc)' = WaitersIn(wpc)
    BY <1>0, <1>2, WakeKeepsWorkers DEF AcceptNoSpawn, Enqueue, LiveIn, WaitersIn
  <2> QED BY <1>2, <2>1 DEF WorkerInv, AcceptNoSpawn
<1>3. CASE AcceptSpawn(t, b, calls, d)
  <2>1. PICK w \in Workers : /\ wpc[w] = "none"
                             /\ live' = live \union {w}
                             /\ Enqueue(t, [wpc EXCEPT ![w] = "ready"])
    BY <1>3 DEF AcceptSpawn
  <2> DEFINE pcs == [wpc EXCEPT ![w] = "ready"]
  <2>2. pcs \in [Workers -> WorkerPCs]
    BY <1>0 DEF WorkerPCs, Awake
  <2>3. LiveIn(wpc)' = LiveIn(pcs) /\ WaitersIn(wpc)' = WaitersIn(pcs)
    BY <2>1, <2>2, WakeKeepsWorkers DEF Enqueue, LiveIn, WaitersIn
  <2>4. LiveIn(pcs) = LiveIn(wpc) \union {w} /\ WaitersIn(pcs) = WaitersIn(wpc)
    BY <1>0, <2>1 DEF LiveIn, WaitersIn, LivePCs, Awake
  <2>5. w \notin live
    BY <2>1 DEF WorkerInv, LiveIn, LivePCs, Awake
  <2>6. IsFiniteSet(live') /\ Cardinality(live') = Cardinality(live) + 1
    BY <2>1, <2>5, FS_AddElement DEF WorkerInv
  <2>7. Capacity > 0 => live_count + 1 <= Capacity
    BY <1>3, ConfigAssumption DEF AcceptSpawn, NeedsWorker, TypeInv
  <2> QED BY <1>3, <2>1, <2>3, <2>4, <2>6, <2>7 DEF WorkerInv, AcceptSpawn
<1> QED
  BY <1>1, <1>2, <1>3 DEF TrySubmit, RejectClosed, RejectOverload, Block, SpawnNoMemory,
     SpawnNoThread, lists

LEMMA RetireWorkers ==
  ASSUME TypeInv, WorkerInv, NEW w \in Workers, wpc[w] \in LivePCs, RetireSection(w),
         waiting_count' = Cardinality(WaitersIn(wpc) \ {w})
  PROVE  WorkerInv'
<1>1. LiveIn(wpc)' = LiveIn(wpc) \ {w} /\ WaitersIn(wpc)' = WaitersIn(wpc) \ {w}
  BY DEF TypeInv, RetireSection, LiveIn, WaitersIn, LivePCs, Awake
<1>2. w \in live
  BY DEF WorkerInv, LiveIn
<1>3. IsFiniteSet(live \ {w}) /\ Cardinality(live \ {w}) = Cardinality(live) - 1
  BY <1>2, FS_RemoveElement DEF WorkerInv
<1>4. Capacity > 0 => live_count - 1 <= Capacity
  BY ConfigAssumption DEF WorkerInv, TypeInv
<1> QED BY <1>1, <1>3, <1>4 DEF WorkerInv, RetireSection

LEMMA WorkerStepInv == TypeInv /\ WorkerInv /\ [Next]_vars => WorkerInv'
<1> SUFFICES ASSUME TypeInv, WorkerInv, [Next]_vars PROVE WorkerInv'
  OBVIOUS
<1>0. wpc \in [Workers -> WorkerPCs]
  BY DEF TypeInv
<1>1. ASSUME LiveIn(wpc)' = LiveIn(wpc), WaitersIn(wpc)' = WaitersIn(wpc),
             UNCHANGED <<live, live_count, waiting_count>>
      PROVE  WorkerInv'
  BY <1>1 DEF WorkerInv
<1>2. ASSUME NEW t \in Tasks, Submit(t) \/ Resume(t) PROVE WorkerInv'
  BY <1>2, TrySubmitWorkers DEF Submit, Resume
<1>3. ASSUME NEW w \in Workers, TakeTask(w) \/ SpliceRetired(w) PROVE WorkerInv'
  <2>1. LiveIn(wpc)' = LiveIn(wpc) /\ WaitersIn(wpc)' = WaitersIn(wpc) \ {w}
    BY <1>0, <1>3 DEF TakeTask, SpliceRetired, Leaves, LiveIn, WaitersIn, LivePCs, Awake
  <2>2. UNCHANGED <<live, live_count>> /\ waiting_count' = WaitingAfterWake(w) /\ wpc[w] \in Awake
    BY <1>3 DEF TakeTask, SpliceRetired, Leaves
  <2> QED BY <2>1, <2>2, WaitingAfterWakeCounts DEF WorkerInv
<1>4. ASSUME NEW w \in Workers, Wait(w) PROVE WorkerInv'
  <2> DEFINE Others == WaitersIn(wpc) \ {w}
  <2>1. LiveIn(wpc)' = LiveIn(wpc) /\ WaitersIn(wpc)' = Others \union {w}
    BY <1>0, <1>4 DEF Wait, LiveIn, WaitersIn, LivePCs, Awake
  <2>2. /\ UNCHANGED <<live, live_count>>
        /\ waiting_count' = WaitingAfterWake(w) + 1 /\ wpc[w] \in Awake
    BY <1>4 DEF Wait, lists, Awake
  <2>3. IsFiniteSet(Others) /\ Cardinality(Others) = WaitingAfterWake(w)
    BY <2>2, WaitingAfterWakeCounts
  <2>4. Cardinality(Others \union {w}) = Cardinality(Others) + 1
    BY <2>3, FS_AddElement
  <2> QED BY <2>1, <2>2, <2>3, <2>4 DEF WorkerInv
<1>5. ASSUME NEW w \in Workers, RetireAtOnce(w) PROVE WorkerInv'
  BY <1>5, RetireWorkers, WaitingAfterWakeCounts DEF RetireAtOnce, Leaves, LivePCs
<1>6. ASSUME NEW w \in Workers, RetireAfterJoin(w) PROVE WorkerInv'
  <2>1. WaitersIn(wpc) \ {w} = WaitersIn(wpc)
    BY <1>6 DEF RetireAfterJoin, WaitersIn
  <2> QED
    BY <1>6, <2>1, RetireWorkers DEF RetireAfterJoin, LivePCs, WorkerInv
<1>7. ASSUME NEW w \in Workers,
             FinishTask(w) \/ ExitThread(w) \/ WaitTimesOut(w) \/ NextSlice(w)
      PROVE  WorkerInv'
  BY <1>0, <1>1, <1>7
     DEF FinishTask, ExitThread, WaitTimesOut, NextSlice, LiveIn, WaitersIn, LivePCs, Awake,
         lists, counts
<1>8. ASSUME NEW w \in Workers, JoinStale(w) PROVE WorkerInv'
  BY <1>0, <1>1, <1>8 DEF JoinStale, LiveIn, WaitersIn, LivePCs, Awake, lists, counts
<1>9. CASE Close \/ BeginDestroy
  <2>1. wpc' = BroadcastTask(wpc) /\ UNCHANGED <<live, live_count, waiting_count>>
    BY <1>9 DEF Close, BeginDestroy, CloseSection, lists, counts
  <2> QED BY <1>0, <1>1, <2>1, WakeKeepsWorkers DEF LiveIn, WaitersIn
<1>10. CASE DestroyJoin \/ SpuriousWakeup
  BY <1>0, <1>1, <1>10
     DEF DestroyJoin, SpuriousWakeup, LiveIn, WaitersIn, LivePCs, Awake, lists, counts
<1>11. CASE UNCHANGED <<wpc, live, live_count, waiting_count>>
  BY <1>1, <1>11 DEF LiveIn, WaitersIn
<1> QED
  BY <1>2, <1>3, <1>4, <1>5, <1>6, <1>7, <1>8, <1>9, <1>10, <1>11
     DEF Next, vars, lists, counts, WorkerStep, DestroyStep, DestroyWait, DestroyDrained,
         DestroyFree, Terminated

-----------------------------------------------------------------------------
(* The pool's counters, as theorems. *)

CountInv == TypeInv /\ QueueInv /\ BlockedInv /\ WorkerInv

LEMMA CountInit == Init => CountInv
<1> SUFFICES ASSUME Init PROVE CountInv
  OBVIOUS
<1>1. TypeInv
  <2>1. queue \in Seq(Tasks) /\ closed \in BOOLEAN /\ destroy \in DestroyPCs
    BY EmptySeq DEF Init, DestroyPCs
  <2>2. call \in [Tasks -> Calls] /\ finished \in SUBSET Tasks
    BY DEF Init, Calls
  <2>3. /\ wpc \in [Workers -> WorkerPCs] /\ job \in [Workers -> Tasks \union {NoTask}]
        /\ stale \in [Workers -> SUBSET Workers]
        /\ \A w \in Workers : wpc[w] # "running"
    BY DEF Init, WorkerPCs
  <2> QED
    BY <2>1, <2>2, <2>3 DEF Init, TypeInv
<1>2. QueueInv
  BY ConfigAssumption DEF Init, QueueInv
<1>3. Submitters = {} /\ LiveIn(wpc) = {} /\ WaitersIn(wpc) = {}
  BY DEF Init, Submitters, InSubmit, LiveIn, WaitersIn, LivePCs, Awake
<1> QED
  <2>1. BlockedInv
    BY <1>3, FS_EmptySet DEF BlockedInv, Init
  <2>2. WorkerInv
    <3>1. Capacity > 0 => 0 <= Capacity
      BY ConfigAssumption
    <3>2. live = LiveIn(wpc) /\ IsFiniteSet(live)
      BY <1>3, FS_EmptySet DEF Init
    <3>3. live_count = Cardinality(live) /\ waiting_count = Cardinality(WaitersIn(wpc))
      BY <1>3, FS_EmptySet DEF Init
    <3> QED BY <3>1, <3>2, <3>3 DEF WorkerInv, Init
  <2> QED BY <1>1, <1>2, <2>1, <2>2 DEF CountInv

LEMMA CountInvariant == Spec => []CountInv
<1>1. CountInv /\ [Next]_vars => CountInv'
  BY TypeStep, QueueStep, BlockedStep, WorkerStepInv DEF CountInv
<1> QED BY <1>1, CountInit, PTL DEF Spec

\* Every field keeps to its type; no counter of the pool ever drops below zero.
THEOREM TypeCorrect == Spec => []TypeOK
<1>1. CountInv => TypeOK
  <2> SUFFICES ASSUME CountInv PROVE TypeOK
    OBVIOUS
  <2>1. queued_count \in Nat /\ live_count \in Nat /\ blocked_count \in Nat
    BY FS_CardinalityType, LenProperties DEF CountInv, TypeInv, QueueInv, BlockedInv, WorkerInv
  <2>2. waiting_count \in Nat
    <3>1. WaitersIn(wpc) \in SUBSET live
      BY DEF CountInv, WorkerInv, WaitersIn, LiveIn, LivePCs, Awake
    <3> QED
      BY <3>1, FS_Subset, FS_CardinalityType DEF CountInv, WorkerInv
  <2> QED
    BY <2>1, <2>2 DEF CountInv, TypeInv, TypeOK, Calls, WorkerPCs, DestroyPCs
<1> QED BY <1>1, CountInvariant, PTL

\* submit decides on counters that agree with the lists and the waits they stand for,
\* and neither limit of the configuration is exceeded.
THEOREM CountersCorrect == Spec => []CountersAgree
<1>1. CountInv => CountersAgree
  BY DEF CountInv, QueueInv, BlockedInv, WorkerInv, CountersAgree, LiveIn, LivePCs,
         WaitersIn, Waiters
<1> QED BY <1>1, CountInvariant, PTL

-----------------------------------------------------------------------------
(* No wakeup of slot_cond_ is lost. *)

\* A blocked submitter is counted, so a worker that takes a task broadcasts.
LEMMA BlockedIsCounted ==
  ASSUME BlockedInv, NEW t \in Tasks, InSubmit(t)
  PROVE  blocked_count \in Nat /\ blocked_count > 0
<1>1. t \in Submitters
  BY DEF Submitters
<1> QED BY <1>1, FS_EmptySet, FS_CardinalityType DEF BlockedInv

LEMMA BlockedJustifiedStep == CountInv /\ BlockedJustified /\ [Next]_vars => BlockedJustified'
<1> SUFFICES ASSUME CountInv, BlockedJustified, [Next]_vars,
                    NEW s \in Tasks, call'[s] = "blocked"
             PROVE  (~closed /\ ~NonBlocking /\ MaxTasks > 0 /\ Len(queue) = MaxTasks)'
  BY DEF BlockedJustified
<1> USE DEF CountInv
<1>0. call \in [Tasks -> Calls]
  BY DEF TypeInv
<1>1. CASE call[s] = "blocked" /\ UNCHANGED <<closed, queue>>
  BY <1>1 DEF BlockedJustified
<1>2. ASSUME NEW t \in Tasks, NEW b, NEW calls \in {call, WakeCalls(call)}, NEW d,
             TrySubmit(t, b, calls, d)
      PROVE  (~closed /\ ~NonBlocking /\ MaxTasks > 0 /\ Len(queue) = MaxTasks)'
  <2>0. /\ calls \in [Tasks -> Calls] /\ WakeCalls(calls) \in [Tasks -> Calls]
        /\ calls[s] = "blocked" => call[s] = "blocked"
        /\ WakeCalls(calls)[s] # "blocked"
    BY <1>0, BroadcastTypes DEF WakeCalls
  <2>1. CASE Block(t, b, calls, d)
    <3>1. MaxTasks > 0 /\ Len(queue) = MaxTasks
      BY <2>1, ConfigAssumption DEF Block, HasRoom, QueueInv, TypeInv
    <3> QED BY <1>2, <2>1, <3>1 DEF TrySubmit, Block, lists
  <2>2. CASE AcceptNoSpawn(t, b, calls, d) \/ AcceptSpawn(t, b, calls, d)
    <3>1. HasRoom /\ call'[s] = "blocked" => call[s] = "blocked"
      BY <2>0, <2>2 DEF AcceptNoSpawn, AcceptSpawn
    <3> QED
      BY <2>2, <3>1, ConfigAssumption DEF AcceptNoSpawn, AcceptSpawn, HasRoom, BlockedJustified, QueueInv
  <2>3. CASE \/ RejectClosed(t, b, calls, d) \/ RejectOverload(t, b, calls, d)
             \/ SpawnNoMemory(t, b, calls, d) \/ SpawnNoThread(t, b, calls, d)
    BY <1>1, <1>2, <2>0, <2>3
       DEF TrySubmit, RejectClosed, RejectOverload, SpawnNoMemory, SpawnNoThread, lists
  <2> QED BY <1>2, <2>1, <2>2, <2>3 DEF TrySubmit
<1>3. ASSUME NEW t \in Tasks, Submit(t) \/ Resume(t)
      PROVE  (~closed /\ ~NonBlocking /\ MaxTasks > 0 /\ Len(queue) = MaxTasks)'
  BY <1>2, <1>3 DEF Submit, Resume
<1>4. ASSUME call' = WakeCalls(call) PROVE FALSE
  BY <1>0, <1>4 DEF WakeCalls
<1>5. ASSUME NEW w \in Workers, TakeTask(w) PROVE FALSE
  <2>1. CASE blocked_count > 0
    BY <1>4, <1>5, <2>1 DEF TakeTask
  <2>2. CASE ~(blocked_count > 0)
    <3>1. call[s] = "blocked"
      BY <1>5, <2>2 DEF TakeTask
    <3> QED BY <2>2, <3>1, BlockedIsCounted DEF InSubmit
  <2> QED BY <2>1, <2>2
<1>6. CASE SpuriousWakeup
  BY <1>0, <1>1, <1>6 DEF SpuriousWakeup, lists
<1> QED
  BY <1>1, <1>3, <1>4, <1>5, <1>6
     DEF Next, vars, lists, counts, WorkerStep, Wait, RetireAtOnce, RetireSection,
         SpliceRetired, JoinStale, RetireAfterJoin, FinishTask, ExitThread, WaitTimesOut, NextSlice,
         Close, BeginDestroy, CloseSection, DestroyStep, DestroyWait, DestroyDrained,
         DestroyJoin, DestroyFree, Terminated

\* A submitter never sleeps beside a free slot or in a closed pool.
THEOREM NoSlotWakeupLost == Spec => []BlockedJustified
<1>1. Init => BlockedJustified
  BY DEF Init, BlockedJustified
<1> QED BY <1>1, CountInvariant, BlockedJustifiedStep, PTL DEF Spec

LEMMA DestroyerJustifiedStep ==
  CountInv /\ CountInv' /\ DestroyerJustified /\ [Next]_vars => DestroyerJustified'
<1> SUFFICES ASSUME CountInv, CountInv', DestroyerJustified, [Next]_vars, destroy' = "waiting"
             PROVE  live' # {} \/ Submitters' # {}
  BY DEF DestroyerJustified
<1> USE DEF CountInv
<1>0. /\ destroy \in DestroyPCs /\ WakeDestroyer(destroy) # "waiting"
      /\ WakeDestroyer(WakeDestroyer(destroy)) # "waiting"
      /\ call \in [Tasks -> Calls]
      /\ blocked_count' # 0 => Submitters' # {}
  BY FS_EmptySet DEF WakeDestroyer, TypeInv, DestroyPCs, BlockedInv
<1>1. CASE destroy = "waiting" /\ live \subseteq live' /\ Submitters' = Submitters
  BY <1>1 DEF DestroyerJustified
<1>2. ASSUME NEW t \in Tasks, NEW b, NEW calls, NEW d, TrySubmit(t, b, calls, d)
      PROVE  /\ destroy' \in {d, WakeDestroyer(d)} /\ live \subseteq live'
             /\ blocked_count' \in {b, b + 1}
  BY <1>2 DEF TrySubmit, RejectClosed, RejectOverload, Block, AcceptNoSpawn, AcceptSpawn,
     SpawnNoMemory, SpawnNoThread, lists
<1>3. ASSUME NEW t \in Tasks, Submit(t) PROVE live' # {} \/ Submitters' # {}
  <2>1. /\ destroy' \in {destroy, WakeDestroyer(destroy)} /\ live \subseteq live'
        /\ blocked_count' \in {blocked_count, blocked_count + 1}
    BY <1>2, <1>3 DEF Submit
  <2>2. blocked_count \in Nat /\ (blocked_count = 0 => Submitters = {})
    BY FS_EmptySet, FS_CardinalityType DEF BlockedInv
  <2> QED BY <1>0, <2>1, <2>2 DEF DestroyerJustified
<1>4. ASSUME NEW t \in Tasks, Resume(t) PROVE live' # {} \/ Submitters' # {}
  <2>1. blocked_count \in Nat /\ blocked_count > 0
    BY <1>4, BlockedIsCounted DEF Resume, InSubmit
  <2>2. CASE blocked_count = 1
    BY <1>0, <1>2, <1>4, <2>2 DEF Resume
  <2>3. CASE blocked_count # 1
    <3>1. blocked_count' \in {blocked_count - 1, blocked_count - 1 + 1}
      BY <1>2, <1>4, <2>3 DEF Resume
    <3> QED BY <1>0, <2>1, <2>3, <3>1
  <2> QED BY <2>2, <2>3
<1>5. ASSUME NEW w \in Workers, TakeTask(w) PROVE live' # {} \/ Submitters' # {}
  BY <1>5 DEF TakeTask, WorkerInv, LiveIn, LivePCs, Awake
<1>6. ASSUME destroy' = WakeDestroyer(destroy) PROVE FALSE
  BY <1>0, <1>6
<1>7. CASE DestroyWait
  <2>1. live_count # 0 \/ blocked_count # 0
    BY <1>7 DEF DestroyWait, Drained
  <2>2. live # {} \/ blocked_count' # 0
    BY <1>7, <2>1, FS_EmptySet DEF DestroyWait, WorkerInv, counts
  <2> QED BY <1>0, <1>7, <2>2 DEF DestroyWait, lists
<1>8. CASE Close \/ BeginDestroy
  <2>1. destroy' # "waiting"
    BY <1>8 DEF Close, BeginDestroy
  <2> QED BY <2>1
<1>9. CASE SpuriousWakeup
  <2>1. Submitters' = Submitters /\ live' = live
    BY <1>0, <1>9 DEF SpuriousWakeup, Submitters, InSubmit, lists
  <2>2. destroy = "waiting"
    BY <1>9 DEF SpuriousWakeup
  <2> QED BY <1>1, <2>1, <2>2
<1>10. CASE UNCHANGED <<live, call, destroy>>
  BY <1>1, <1>10 DEF Submitters, InSubmit
<1> QED
  BY <1>3, <1>4, <1>5, <1>6, <1>7, <1>8, <1>9, <1>10
     DEF Next, vars, lists, counts, WorkerStep, Wait, RetireAtOnce, RetireSection,
         SpliceRetired, JoinStale, RetireAfterJoin, FinishTask, ExitThread, WaitTimesOut, NextSlice,
         DestroyStep, DestroyDrained, DestroyJoin, DestroyFree, Terminated

\* The destroyer never sleeps after the last worker and the last submitter have left.
THEOREM NoDrainWakeupLost == Spec => []DestroyerJustified
<1>1. Init => DestroyerJustified
  BY DEF Init, DestroyerJustified
<1> QED BY <1>1, CountInvariant, DestroyerJustifiedStep, PTL DEF Spec

-----------------------------------------------------------------------------
(* No wakeup of task_cond_ is lost. *)

AwakeIn(pcs) == {w \in Workers : pcs[w] \in Awake}

\* Signals and broadcasts wake workers; a signal wakes one if one is idle.
LEMMA WakeAddsAwake ==
  ASSUME NEW pcs \in [Workers -> WorkerPCs], NEW p \in SignalTask(pcs)
  PROVE  \/ AwakeIn(p) = AwakeIn(pcs) /\ \A w \in Workers : p[w] # "idle"
         \/ \E w \in Workers : w \notin AwakeIn(pcs) /\ AwakeIn(p) = AwakeIn(pcs) \union {w}
BY SignalMoves DEF AwakeIn, Awake

LEMMA AwakeFinite ==
  ASSUME WorkerInv
  PROVE  IsFiniteSet(AwakeIn(wpc)) /\ Cardinality(AwakeIn(wpc)) \in Nat
<1>1. AwakeIn(wpc) \in SUBSET live
  BY DEF WorkerInv, AwakeIn, LiveIn, LivePCs
<1> QED BY <1>1, FS_Subset, FS_CardinalityType DEF WorkerInv

IdleInv ==
  ~sliced /\ (\E w \in Workers : wpc[w] = "idle") => ~closed /\ Len(queue) <= Cardinality(AwakeIn(wpc))

\* The kind of build never changes.
LEMMA SlicedStays == [Next]_vars => sliced' = sliced
BY DEF Next, vars, Submit, Resume, TrySubmit, WorkerStep, TakeTask, Wait, RetireAtOnce,
   SpliceRetired, JoinStale, RetireAfterJoin, FinishTask, ExitThread, WaitTimesOut, NextSlice,
   Close, BeginDestroy, CloseSection, DestroyStep, DestroyWait, DestroyDrained, DestroyJoin,
   DestroyFree, SpuriousWakeup, Terminated

LEMMA IdleStep == CountInv /\ CountInv' /\ IdleInv /\ [Next]_vars => IdleInv'
<1> SUFFICES ASSUME CountInv, CountInv', IdleInv, [Next]_vars, ~sliced',
                    NEW i \in Workers, wpc'[i] = "idle"
             PROVE  (~closed /\ Len(queue) <= Cardinality(AwakeIn(wpc)))'
  BY DEF IdleInv
<1> USE DEF CountInv
<1> DEFINE Goal == (~closed /\ Len(queue) <= Cardinality(AwakeIn(wpc)))'
<1>0. /\ wpc \in [Workers -> WorkerPCs] /\ queue \in Seq(Tasks) /\ Len(queue) \in Nat
      /\ IsFiniteSet(AwakeIn(wpc)) /\ Cardinality(AwakeIn(wpc)) \in Nat
      /\ IsFiniteSet(AwakeIn(wpc)') /\ Cardinality(AwakeIn(wpc)') \in Nat
      /\ ~sliced
  <2>1. IsFiniteSet(AwakeIn(wpc)') /\ Cardinality(AwakeIn(wpc)') \in Nat
    <3>1. AwakeIn(wpc)' \in SUBSET live'
      BY DEF WorkerInv, AwakeIn, LiveIn, LivePCs
    <3> QED BY <3>1, FS_Subset, FS_CardinalityType DEF WorkerInv
  <2> QED BY <2>1, AwakeFinite, LenProperties, SlicedStays DEF TypeInv
\* The awake workers stay, or more wake, and the queue does not grow.
<1>1. ASSUME wpc[i] = "idle", UNCHANGED <<closed, queue>>, AwakeIn(wpc) \subseteq AwakeIn(wpc)'
      PROVE  Goal
  <2>1. Cardinality(AwakeIn(wpc)) <= Cardinality(AwakeIn(wpc)')
    BY <1>0, <1>1, FS_Subset
  <2> QED BY <1>0, <1>1, <2>1 DEF IdleInv
<1>2. ASSUME NEW t \in Tasks, NEW b, NEW calls, NEW d, TrySubmit(t, b, calls, d) PROVE Goal
  <2>1. CASE UNCHANGED <<queue, wpc, closed>>
    BY <1>1, <2>1 DEF AwakeIn
  <2>2. CASE AcceptNoSpawn(t, b, calls, d)
    <3>1. /\ wpc' \in SignalTask(wpc) /\ Len(queue') = Len(queue) + 1 /\ ~closed'
      BY <1>0, <1>2, <2>2 DEF AcceptNoSpawn, Enqueue, TrySubmit
    <3>2. PICK w \in Workers : w \notin AwakeIn(wpc) /\ AwakeIn(wpc)' = AwakeIn(wpc) \union {w}
      BY <1>0, <3>1, WakeAddsAwake DEF AwakeIn
    <3>3. Cardinality(AwakeIn(wpc)') = Cardinality(AwakeIn(wpc)) + 1
      BY <1>0, <3>2, FS_AddElement
    <3>4. wpc[i] = "idle"
      BY <1>0, <3>1, SignalMoves
    <3> QED BY <1>0, <3>1, <3>3, <3>4 DEF IdleInv
  <2>3. CASE AcceptSpawn(t, b, calls, d)
    <3>1. PICK w \in Workers : wpc' \in SignalTask([wpc EXCEPT ![w] = "ready"])
      BY <2>3 DEF AcceptSpawn, Enqueue
    <3>2. [wpc EXCEPT ![w] = "ready"] \in [Workers -> WorkerPCs]
      BY <1>0 DEF WorkerPCs, Awake
    <3>3. wpc[i] = "idle"
      <4>1. [wpc EXCEPT ![w] = "ready"][i] = "idle"
        BY <3>1, <3>2, SignalMoves, ZenonT(60)
      <4> QED BY <1>0, <4>1
    <3>4. WaitersIn(wpc) # {}
      BY <3>3 DEF WaitersIn
    <3>5. WaitersIn(wpc) \in SUBSET live
      BY DEF WorkerInv, WaitersIn, LiveIn, LivePCs, Awake
    <3>6. waiting_count # 0
      BY <3>4, <3>5, FS_Subset, FS_EmptySet DEF WorkerInv
    <3> QED BY <2>3, <3>6 DEF AcceptSpawn, NeedsWorker
  <2> QED
    BY <1>2, <2>1, <2>2, <2>3 DEF TrySubmit, RejectClosed, RejectOverload, Block,
       SpawnNoMemory, SpawnNoThread, lists
<1>3. ASSUME NEW t \in Tasks, Submit(t) \/ Resume(t) PROVE Goal
  BY <1>2, <1>3 DEF Submit, Resume
<1>4. ASSUME NEW w \in Workers, TakeTask(w) PROVE Goal
  <2>1. wpc[i] = "idle" /\ ~closed' /\ closed' = closed
    BY <1>0, <1>4 DEF TakeTask, IdleInv
  <2>2. Len(queue') = Len(queue) - 1
    BY <1>0, <1>4 DEF TakeTask
  <2>3. w \in AwakeIn(wpc) /\ AwakeIn(wpc)' = AwakeIn(wpc) \ {w}
    BY <1>0, <1>4 DEF TakeTask, AwakeIn, Awake
  <2>4. Cardinality(AwakeIn(wpc)') = Cardinality(AwakeIn(wpc)) - 1
    BY <1>0, <2>3, FS_RemoveElement
  <2> QED BY <1>0, <2>1, <2>2, <2>4 DEF IdleInv
<1>5. ASSUME NEW w \in Workers, Wait(w) PROVE Goal
  BY <1>0, <1>5 DEF Wait, lists
<1>6. ASSUME NEW w \in Workers, RetireAtOnce(w) \/ SpliceRetired(w) \/ RetireAfterJoin(w) PROVE Goal
  <2>1. wpc[i] = "idle" /\ UNCHANGED <<closed, queue>>
    BY <1>0, <1>6 DEF RetireAtOnce, SpliceRetired, RetireAfterJoin, RetireSection
  <2>2. CASE Leaves(w)
    BY <1>0, <2>1, <2>2 DEF Leaves, IdleInv
  <2>3. CASE RetireAfterJoin(w)
    <3>1. AwakeIn(wpc) \subseteq AwakeIn(wpc)'
      BY <1>0, <2>3 DEF RetireAfterJoin, RetireSection, AwakeIn, Awake
    <3> QED BY <1>1, <2>1, <3>1
  <2> QED BY <1>6, <2>2, <2>3 DEF RetireAtOnce, SpliceRetired
<1>7. ASSUME NEW w \in Workers,
             JoinStale(w) \/ FinishTask(w) \/ ExitThread(w) \/ WaitTimesOut(w) \/ NextSlice(w)
      PROVE  Goal
  <2>1. UNCHANGED <<closed, queue>>
    BY <1>7 DEF JoinStale, FinishTask, ExitThread, WaitTimesOut, NextSlice, lists
  <2>2. wpc[i] = "idle" /\ AwakeIn(wpc) \subseteq AwakeIn(wpc)'
    BY <1>0, <1>7 DEF JoinStale, FinishTask, ExitThread, WaitTimesOut, NextSlice,
       AwakeIn, Awake
  <2> QED BY <1>1, <2>1, <2>2
<1>8. CASE Close \/ BeginDestroy
  BY <1>0, <1>8 DEF Close, BeginDestroy, CloseSection, BroadcastTask
<1>9. CASE DestroyJoin \/ SpuriousWakeup
  <2>1. wpc[i] = "idle" /\ UNCHANGED <<closed, queue>> /\ AwakeIn(wpc) \subseteq AwakeIn(wpc)'
    BY <1>0, <1>9 DEF DestroyJoin, SpuriousWakeup, AwakeIn, Awake, lists
  <2> QED BY <1>1, <2>1
<1>10. CASE UNCHANGED <<wpc, closed, queue>>
  BY <1>1, <1>10 DEF AwakeIn
<1> QED
  BY <1>3, <1>4, <1>5, <1>6, <1>7, <1>8, <1>9, <1>10
     DEF Next, vars, lists, WorkerStep, DestroyStep, DestroyWait, DestroyDrained, DestroyFree,
         Terminated

\* Where the idle waits are not cut into slices, a worker never sleeps while more tasks
\* are queued than workers are awake, nor in a closed pool (thpool.c:107, 158, 219-230).
THEOREM NoTaskWakeupLost == Spec => []IdleJustified
<1>1. Init => IdleInv
  BY DEF Init, IdleInv
<1>2. IdleInv => IdleJustified
  BY DEF IdleInv, IdleJustified, AwakeIn, AwakeWorkers
<1> QED BY <1>1, <1>2, CountInvariant, IdleStep, PTL DEF Spec

-----------------------------------------------------------------------------
(* Once the drain loop has ended no worker and no submitter is left. *)

DrainedInv ==
  /\ destroy # "none" => closed
  /\ destroy \in {"joining", "freed"} => live = {} /\ Submitters = {}

LEMMA DrainedStep == CountInv /\ CountInv' /\ DrainedInv /\ [Next]_vars => DrainedInv'
<1> SUFFICES ASSUME CountInv, CountInv', DrainedInv, [Next]_vars PROVE DrainedInv'
  OBVIOUS
<1> USE DEF CountInv
<1>0. /\ destroy \in DestroyPCs /\ WakeDestroyer(destroy) \in DestroyPCs
      /\ \A v \in {"none", "joining", "freed"} : WakeDestroyer(destroy) = v => destroy = v
      /\ call \in [Tasks -> Calls]
  BY DEF TypeInv, DestroyPCs, WakeDestroyer
<1>1. CASE /\ destroy' \in {destroy, WakeDestroyer(destroy)} /\ closed' = closed
           /\ live' \subseteq live /\ Submitters' \subseteq Submitters
  BY <1>0, <1>1 DEF DrainedInv, WakeDestroyer
<1>2. ASSUME NEW t \in Tasks, NEW b, NEW calls, NEW d, TrySubmit(t, b, calls, d),
             destroy \in {"joining", "freed"}
      PROVE  RejectClosed(t, b, calls, d)
  BY <1>2 DEF DrainedInv, TrySubmit, RejectOverload, Block, AcceptNoSpawn, AcceptSpawn,
     SpawnNoMemory, SpawnNoThread
<1>3. ASSUME NEW t \in Tasks, Submit(t) PROVE DrainedInv'
  <2>1. TrySubmit(t, blocked_count, call, destroy) /\ closed' = closed
    BY <1>3 DEF Submit, TrySubmit
  <2>2. destroy' \in {destroy, WakeDestroyer(destroy)}
    BY <2>1 DEF TrySubmit, RejectClosed, RejectOverload, Block, AcceptNoSpawn, AcceptSpawn,
       SpawnNoMemory, SpawnNoThread
  <2>3. CASE destroy \in {"joining", "freed"}
    <3>1. live' = live /\ call' = [call EXCEPT ![t] = "rejected"]
      BY <1>2, <2>1, <2>3 DEF RejectClosed, lists
    <3>2. Submitters' \subseteq Submitters
      BY <1>0, <3>1 DEF Submitters, InSubmit
    <3> QED BY <1>1, <2>1, <2>2, <3>1, <3>2
  <2>4. CASE destroy \notin {"joining", "freed"}
    BY <1>0, <2>1, <2>2, <2>4 DEF DrainedInv, WakeDestroyer
  <2> QED BY <2>3, <2>4
<1>4. ASSUME NEW t \in Tasks, Resume(t) PROVE DrainedInv'
  <2>1. destroy \notin {"joining", "freed"}
    BY <1>4 DEF Resume, DrainedInv, Submitters, InSubmit
  <2>2. /\ closed' = closed
        /\ destroy' \in {destroy, WakeDestroyer(destroy), WakeDestroyer(WakeDestroyer(destroy))}
    BY <1>4 DEF Resume, TrySubmit, RejectClosed, RejectOverload, Block, AcceptNoSpawn,
       AcceptSpawn, SpawnNoMemory, SpawnNoThread
  <2>3. destroy' \notin {"joining", "freed"} /\ (destroy' # "none" => destroy # "none")
    BY <1>0, <2>1, <2>2 DEF WakeDestroyer
  <2> QED BY <2>2, <2>3 DEF DrainedInv
<1>5. ASSUME NEW w \in Workers, TakeTask(w) \/ RetireAtOnce(w) \/ RetireAfterJoin(w) PROVE DrainedInv'
  <2>1. w \in live
    BY <1>5 DEF TakeTask, RetireAtOnce, RetireAfterJoin, Leaves, WorkerInv, LiveIn, LivePCs
  <2>2. destroy' \in {destroy, WakeDestroyer(destroy)} /\ closed' = closed
    BY <1>5 DEF TakeTask, RetireAtOnce, RetireAfterJoin, RetireSection
  <2> QED BY <1>0, <2>1, <2>2 DEF DrainedInv, WakeDestroyer
<1>6. CASE Close \/ BeginDestroy
  BY <1>6 DEF Close, BeginDestroy, CloseSection, DrainedInv
<1>7. CASE DestroyDrained
  <2>1. live = {} /\ Submitters = {}
    BY <1>7, FS_EmptySet DEF DestroyDrained, Drained, WorkerInv, BlockedInv
  <2>2. UNCHANGED <<live, Submitters, closed>> /\ closed
    BY <1>7 DEF DestroyDrained, lists, Submitters, InSubmit, DrainedInv
  <2> QED BY <2>1, <2>2 DEF DrainedInv
<1>8. CASE SpuriousWakeup
  <2>1. Submitters' = Submitters
    BY <1>0, <1>8 DEF SpuriousWakeup, Submitters, InSubmit
  <2> QED BY <2>1, <1>8 DEF SpuriousWakeup, DrainedInv, lists
<1>9. CASE DestroyWait \/ DestroyFree
  BY <1>9 DEF DestroyWait, DestroyFree, DrainedInv, lists, Submitters, InSubmit
<1>10. CASE UNCHANGED <<live, call, closed, destroy>>
  BY <1>10 DEF DrainedInv, Submitters, InSubmit
<1> QED
  BY <1>3, <1>4, <1>5, <1>6, <1>7, <1>8, <1>9, <1>10
     DEF Next, vars, lists, WorkerStep, Wait, SpliceRetired, JoinStale, FinishTask,
         ExitThread, WaitTimesOut, NextSlice, DestroyStep, DestroyJoin, Terminated

LEMMA DrainedInvariant == Spec => []DrainedInv
<1>1. Init => DrainedInv
  BY DEF Init, DrainedInv
<1> QED BY <1>1, CountInvariant, DrainedStep, PTL DEF Spec

-----------------------------------------------------------------------------
(* Every accepted task is queued, running or finished. *)

Queued == {queue[k] : k \in 1..Len(queue)}

AcceptedInv ==
  \A t \in Tasks : call[t] = "accepted" =>
     \/ t \in finished
     \/ t \in Queued
     \/ \E w \in Workers : wpc[w] = "running" /\ job[w] = t

LEMMA AcceptedStep == TypeInv /\ AcceptedInv /\ [Next]_vars => AcceptedInv'
<1> SUFFICES ASSUME TypeInv, AcceptedInv, [Next]_vars,
                    NEW a \in Tasks, call'[a] = "accepted"
             PROVE  \/ a \in finished'
                    \/ a \in Queued'
                    \/ \E w \in Workers : wpc'[w] = "running" /\ job'[w] = a
  BY DEF AcceptedInv
<1> DEFINE Goal == \/ a \in finished'
                   \/ a \in Queued'
                   \/ \E w \in Workers : wpc'[w] = "running" /\ job'[w] = a
<1>0. /\ call \in [Tasks -> Calls] /\ wpc \in [Workers -> WorkerPCs] /\ queue \in Seq(Tasks)
      /\ job \in [Workers -> Tasks \union {NoTask}]
  BY DEF TypeInv
<1>1. ASSUME call[a] = "accepted", finished \subseteq finished', queue' = queue, job' = job,
             \A w \in Workers : wpc[w] = "running" => wpc'[w] = "running"
      PROVE  Goal
  BY <1>1 DEF AcceptedInv, Queued
<1>2. ASSUME NEW t \in Tasks, NEW b, NEW calls \in {call, WakeCalls(call)}, NEW d,
             TrySubmit(t, b, calls, d)
      PROVE  Goal
  <2>0. /\ calls \in [Tasks -> Calls] /\ WakeCalls(calls) \in [Tasks -> Calls]
        /\ calls[a] = "accepted" => call[a] = "accepted"
        /\ WakeCalls(calls)[a] = "accepted" => call[a] = "accepted"
    BY <1>0, BroadcastTypes DEF WakeCalls
  <2>1. CASE UNCHANGED <<queue, wpc>> /\ (a # t \/ call'[t] # "accepted")
    <3>1. call[a] = "accepted"
      BY <1>2, <2>0, <2>1 DEF TrySubmit, RejectClosed, RejectOverload, Block, AcceptNoSpawn,
         AcceptSpawn, SpawnNoMemory, SpawnNoThread
    <3> QED BY <1>1, <1>2, <2>1, <3>1 DEF TrySubmit
  <2>2. CASE AcceptNoSpawn(t, b, calls, d) \/ AcceptSpawn(t, b, calls, d)
    <3>1. queue' = Append(queue, t)
      BY <2>2 DEF AcceptNoSpawn, AcceptSpawn, Enqueue
    <3>2. t \in Queued' /\ Queued \subseteq Queued'
      BY <1>0, <3>1 DEF Queued
    <3>3. \A w \in Workers : wpc[w] = "running" => wpc'[w] = "running"
      <4>1. ASSUME NEW pcs \in [Workers -> WorkerPCs], wpc' \in SignalTask(pcs)
            PROVE  \A w \in Workers : pcs[w] = "running" => wpc'[w] = "running"
        BY <4>1, SignalMoves
      <4>2. CASE AcceptNoSpawn(t, b, calls, d)
        BY <1>0, <4>1, <4>2 DEF AcceptNoSpawn, Enqueue
      <4>3. CASE AcceptSpawn(t, b, calls, d)
        <5>1. PICK w \in Workers : /\ wpc[w] = "none"
                                   /\ wpc' \in SignalTask([wpc EXCEPT ![w] = "ready"])
          BY <4>3 DEF AcceptSpawn, Enqueue
        <5>2. [wpc EXCEPT ![w] = "ready"] \in [Workers -> WorkerPCs]
          BY <1>0 DEF WorkerPCs, Awake
        <5>3. \A v \in Workers : [wpc EXCEPT ![w] = "ready"][v] = "running" => wpc'[v] = "running"
          BY <4>1, <5>1, <5>2
        <5> QED BY <1>0, <5>1, <5>3
      <4> QED BY <2>2, <4>2, <4>3
    <3>4. a # t => call[a] = "accepted"
      BY <2>0, <2>2 DEF AcceptNoSpawn, AcceptSpawn
    <3> QED BY <1>2, <3>2, <3>3, <3>4 DEF TrySubmit, AcceptedInv
  <2>3. CASE \/ RejectClosed(t, b, calls, d) \/ RejectOverload(t, b, calls, d)
             \/ Block(t, b, calls, d)
             \/ SpawnNoMemory(t, b, calls, d) \/ SpawnNoThread(t, b, calls, d)
    BY <2>0, <2>1, <2>3 DEF RejectClosed, RejectOverload, Block, SpawnNoMemory, SpawnNoThread, lists
  <2> QED BY <1>2, <2>2, <2>3 DEF TrySubmit
<1>3. ASSUME NEW t \in Tasks, Submit(t) \/ Resume(t) PROVE Goal
  BY <1>2, <1>3 DEF Submit, Resume
<1>4. call' \in {call, WakeCalls(call)} => call[a] = "accepted"
  BY <1>0 DEF WakeCalls
<1>5. ASSUME NEW w \in Workers, TakeTask(w) PROVE Goal
  <2>1. call[a] = "accepted"
    BY <1>4, <1>5 DEF TakeTask
  <2>2. CASE a \in Queued
    <3>1. PICK k \in 1..Len(queue) : queue[k] = a
      BY <2>2 DEF Queued
    <3>2. CASE k = 1
      <4>1. wpc'[w] = "running" /\ job'[w] = a
        BY <1>0, <1>5, <3>1, <3>2 DEF TakeTask
      <4> QED BY <4>1
    <3>3. CASE k # 1
      <4>1. Len(Tail(queue)) = Len(queue) - 1 /\ k - 1 \in 1..Len(Tail(queue))
        BY <1>0, <1>5, <3>1, <3>3 DEF TakeTask
      <4>2. Tail(queue)[k - 1] = queue[k]
        BY <1>0, <1>5, <3>1, <3>3, <4>1 DEF TakeTask
      <4> QED BY <1>5, <3>1, <4>1, <4>2 DEF TakeTask, Queued
    <3> QED BY <3>2, <3>3
  <2>3. CASE a \in finished
    BY <1>5, <2>3 DEF TakeTask
  <2>4. CASE \E v \in Workers : wpc[v] = "running" /\ job[v] = a
    <3>1. PICK v \in Workers : wpc[v] = "running" /\ job[v] = a
      BY <2>4
    <3>2. v # w
      BY <1>5, <3>1 DEF TakeTask, Awake
    <3>3. wpc'[v] = "running" /\ job'[v] = a
      BY <1>0, <1>5, <3>1, <3>2 DEF TakeTask
    <3> QED BY <3>3
  <2> QED BY <2>1, <2>2, <2>3, <2>4 DEF AcceptedInv
<1>6. ASSUME NEW w \in Workers, FinishTask(w) PROVE Goal
  <2>1. /\ call[a] = "accepted" /\ finished' = finished \union {job[w]} /\ queue' = queue
        /\ \A v \in Workers : v # w => job'[v] = job[v] /\ wpc'[v] = wpc[v]
    BY <1>0, <1>6 DEF FinishTask, lists
  <2> QED BY <2>1 DEF AcceptedInv, Queued
<1>7. ASSUME NEW w \in Workers,
             \/ Wait(w) \/ RetireAtOnce(w) \/ SpliceRetired(w) \/ JoinStale(w)
             \/ RetireAfterJoin(w) \/ ExitThread(w) \/ WaitTimesOut(w) \/ NextSlice(w)
      PROVE  Goal
  <2>1. /\ call' \in {call, WakeCalls(call)} /\ finished' = finished /\ queue' = queue /\ job' = job
        /\ \A v \in Workers : wpc[v] = "running" => wpc'[v] = "running"
    BY <1>0, <1>7 DEF Wait, RetireAtOnce, SpliceRetired, JoinStale, RetireAfterJoin,
       RetireSection, ExitThread, WaitTimesOut, NextSlice, Leaves, Awake, lists
  <2> QED BY <1>1, <1>4, <2>1
<1>8. CASE Close \/ BeginDestroy \/ DestroyJoin \/ SpuriousWakeup
  <2>1. call[a] = "accepted"
    BY <1>0, <1>4, <1>8 DEF Close, BeginDestroy, CloseSection, DestroyJoin, SpuriousWakeup
  <2>2. /\ finished' = finished /\ queue' = queue /\ job' = job
        /\ \A v \in Workers : wpc[v] = "running" => wpc'[v] = "running"
    BY <1>0, <1>8 DEF Close, BeginDestroy, CloseSection, DestroyJoin, SpuriousWakeup,
       BroadcastTask, lists
  <2> QED BY <1>1, <2>1, <2>2
<1>9. CASE UNCHANGED <<call, wpc, job, queue, finished>>
  BY <1>1, <1>9
<1> QED
  BY <1>3, <1>5, <1>6, <1>7, <1>8, <1>9
     DEF Next, vars, lists, WorkerStep, DestroyStep, DestroyWait, DestroyDrained, DestroyFree,
         Terminated

LEMMA AcceptedInvariant == Spec => []AcceptedInv
<1>1. Init => AcceptedInv
  BY DEF Init, AcceptedInv
<1>2. CountInv => TypeInv
  BY DEF CountInv
<1> QED BY <1>1, <1>2, CountInvariant, AcceptedStep, PTL DEF Spec

-----------------------------------------------------------------------------
(* A queued task has a worker that will come for it. *)

ServersIn(pcs) == {w \in Workers : pcs[w] \in ComesBack}

ServerInv ==
  /\ ~IdleTimeout => \A w \in Workers : wpc[w] # "timedout" /\ (wpc[w] = "joining" => closed)
  /\ queue # <<>> => ServersIn(wpc) # {}

\* A signal keeps the servers and makes one of an idle worker.
LEMMA SignalServers ==
  ASSUME NEW pcs \in [Workers -> WorkerPCs], NEW p \in SignalTask(pcs)
  PROVE  /\ ServersIn(pcs) \subseteq ServersIn(p)
         /\ (\E w \in Workers : pcs[w] = "idle") => ServersIn(p) # {}
         /\ \A w \in Workers : p[w] \in {"timedout", "joining"} => pcs[w] = p[w]
BY SignalMoves DEF ServersIn, ComesBack, Awake

LEMMA ServerStep ==
  ASSUME NoRetireWindow
  PROVE  CountInv /\ ServerInv /\ [Next]_vars => ServerInv'
<1> SUFFICES ASSUME CountInv, ServerInv, [Next]_vars PROVE ServerInv'
  OBVIOUS
<1> USE DEF CountInv
<1>0. /\ wpc \in [Workers -> WorkerPCs] /\ IdleTimeout \in BOOLEAN /\ Capacity \in Nat
      /\ sliced' = sliced
  BY ConfigAssumption, SlicedStays DEF TypeInv
<1>1. ASSUME queue' = queue, closed => closed',
             queue # <<>> => ServersIn(wpc) \subseteq ServersIn(wpc)',
             \A w \in Workers : wpc'[w] = "timedout" => wpc[w] = "timedout" \/ IdleTimeout,
             \A w \in Workers : wpc'[w] = "joining" => wpc[w] = "joining" \/ closed
      PROVE  ServerInv'
  BY <1>1 DEF ServerInv
<1>2. ASSUME NEW t \in Tasks, NEW b, NEW calls, NEW d, AcceptNoSpawn(t, b, calls, d),
             closed' = closed
      PROVE  ServerInv'
  <2>1. wpc' \in SignalTask(wpc)
    BY <1>2 DEF AcceptNoSpawn, Enqueue
  <2>2. ServersIn(wpc) \subseteq ServersIn(wpc')
    BY <1>0, <2>1, SignalServers
  <2>3. CASE waiting_count # 0
    <3>1. WaitersIn(wpc) # {}
      BY <2>3, FS_EmptySet DEF WorkerInv
    <3>2. PICK w \in Workers : wpc[w] \in {"idle", "woken", "timedout"}
      BY <3>1 DEF WaitersIn
    <3>3. ServersIn(wpc') # {}
      <4>1. CASE wpc[w] = "idle"
        BY <1>0, <2>1, <4>1, SignalServers
      <4>2. CASE wpc[w] # "idle"
        BY <2>2, <3>2, <4>2 DEF ServersIn, ComesBack, Awake
      <4> QED BY <4>1, <4>2
    <3> QED
      BY <1>0, <1>2, <2>1, <3>3, SignalServers DEF ServerInv, ServersIn, ComesBack
  <2>4. CASE waiting_count = 0
    <3>1. Capacity # 0 /\ ~(live_count < Capacity)
      BY <1>2, <2>4 DEF AcceptNoSpawn, NeedsWorker
    <3>2. live # {}
      BY <1>0, <3>1, FS_EmptySet DEF WorkerInv
    <3>3. PICK w \in Workers : wpc[w] \in LivePCs
      BY <3>2 DEF WorkerInv, LiveIn
    <3>4. ~IdleTimeout /\ wpc[w] # "joining"
      BY <1>2, <3>1 DEF NoRetireWindow, ServerInv, AcceptNoSpawn
    <3>5. ServersIn(wpc') # {}
      <4>1. CASE wpc[w] = "idle"
        BY <1>0, <2>1, <4>1, SignalServers
      <4>2. CASE wpc[w] # "idle"
        BY <2>2, <3>3, <3>4, <4>2 DEF ServersIn, ComesBack, LivePCs
      <4> QED BY <4>1, <4>2
    <3> QED
      BY <1>0, <1>2, <2>1, <3>5, SignalServers DEF ServerInv, ServersIn, ComesBack
  <2> QED BY <2>3, <2>4
<1>3. ASSUME NEW t \in Tasks, NEW b, NEW calls, NEW d, AcceptSpawn(t, b, calls, d),
             closed' = closed
      PROVE  ServerInv'
  <2>1. PICK w \in Workers : wpc' \in SignalTask([wpc EXCEPT ![w] = "ready"])
    BY <1>3 DEF AcceptSpawn, Enqueue
  <2> DEFINE pcs == [wpc EXCEPT ![w] = "ready"]
  <2>2. pcs \in [Workers -> WorkerPCs]
    BY <1>0 DEF WorkerPCs, Awake
  <2>2a. pcs[w] = "ready"
    BY <1>0
  <2>2b. w \in ServersIn(pcs)
    BY <2>2a DEF ServersIn, ComesBack, Awake
  <2>2c. wpc' \in SignalTask(pcs)
    BY <2>1
  <2> HIDE DEF pcs
  <2>2d. ServersIn(pcs) \subseteq ServersIn(wpc')
    BY <2>2, <2>2c, SignalServers
  <2>3. w \in ServersIn(wpc')
    BY <2>2b, <2>2d
  <2>4. \A v \in Workers : wpc'[v] \in {"timedout", "joining"} => pcs[v] = wpc'[v]
    BY <2>2, <2>2c, SignalServers
  <2>5. \A v \in Workers : wpc'[v] \in {"timedout", "joining"} => wpc[v] = wpc'[v]
    BY <1>0, <2>4 DEF pcs
  <2> QED BY <1>0, <1>3, <2>3, <2>5 DEF ServerInv, ServersIn, ComesBack
<1>4. ASSUME NEW t \in Tasks, NEW b, NEW calls, NEW d, TrySubmit(t, b, calls, d)
      PROVE  ServerInv'
  <2>1. CASE UNCHANGED <<queue, wpc>>
    BY <1>0, <1>1, <1>4, <2>1 DEF TrySubmit, ServersIn, ComesBack
  <2> QED
    BY <1>2, <1>3, <1>4, <2>1 DEF TrySubmit, RejectClosed, RejectOverload, Block,
       SpawnNoMemory, SpawnNoThread, lists
<1>5. ASSUME NEW t \in Tasks, Submit(t) \/ Resume(t) PROVE ServerInv'
  BY <1>4, <1>5 DEF Submit, Resume
<1>6. ASSUME NEW w \in Workers, TakeTask(w) PROVE ServerInv'
  <2>1. /\ wpc'[w] = "running" /\ closed' = closed
        /\ \A v \in Workers : wpc'[v] \in {"timedout", "joining"} => wpc[v] = wpc'[v]
    BY <1>0, <1>6 DEF TakeTask
  <2>2. w \in ServersIn(wpc')
    BY <2>1 DEF ServersIn, ComesBack
  <2> QED BY <1>0, <2>1, <2>2 DEF ServerInv, ServersIn, ComesBack
<1>7. ASSUME NEW w \in Workers,
             Wait(w) \/ RetireAtOnce(w) \/ SpliceRetired(w) \/ RetireAfterJoin(w)
      PROVE  ServerInv'
  <2>1. UNCHANGED <<queue, closed>>
    BY <1>7 DEF Wait, RetireAtOnce, SpliceRetired, RetireAfterJoin, RetireSection, lists
  <2>2. queue # <<>> => ServersIn(wpc) \subseteq ServersIn(wpc)'
    BY <1>0, <1>7 DEF Wait, RetireAtOnce, SpliceRetired, RetireAfterJoin, RetireSection,
       Leaves, ServersIn, ComesBack, Awake
  <2>3. \A v \in Workers : wpc'[v] = "timedout" => wpc[v] = "timedout"
    BY <1>0, <1>7 DEF Wait, RetireAtOnce, SpliceRetired, RetireAfterJoin, RetireSection
  <2>4. \A v \in Workers : wpc'[v] = "joining" => wpc[v] = "joining" \/ (v = w /\ Leaves(w))
    BY <1>0, <1>7 DEF Wait, RetireAtOnce, SpliceRetired, RetireAfterJoin, RetireSection
  <2>5. CASE IdleTimeout
    BY <2>1, <2>2, <2>5 DEF ServerInv
  <2>6. CASE ~IdleTimeout
    BY <1>1, <2>1, <2>2, <2>3, <2>4, <2>6 DEF ServerInv, Leaves
  <2> QED BY <2>5, <2>6
<1>8. ASSUME NEW w \in Workers,
             JoinStale(w) \/ FinishTask(w) \/ ExitThread(w) \/ WaitTimesOut(w) \/ NextSlice(w)
      PROVE  ServerInv'
  <2>1. UNCHANGED <<queue, closed>>
    BY <1>8 DEF JoinStale, FinishTask, ExitThread, WaitTimesOut, NextSlice, lists
  <2>2. ServersIn(wpc) \subseteq ServersIn(wpc)'
    BY <1>0, <1>8
       DEF JoinStale, FinishTask, ExitThread, WaitTimesOut, NextSlice, ServersIn,
           ComesBack, Awake
  <2>3. /\ \A v \in Workers : wpc'[v] = "timedout" => wpc[v] = "timedout" \/ IdleTimeout
        /\ \A v \in Workers : wpc'[v] = "joining" => wpc[v] = "joining"
    BY <1>0, <1>8 DEF JoinStale, FinishTask, ExitThread, WaitTimesOut, NextSlice
  <2> QED BY <1>1, <2>1, <2>2, <2>3
<1>9. CASE Close \/ BeginDestroy \/ DestroyJoin \/ SpuriousWakeup
  <2>1. queue' = queue /\ (closed => closed')
    BY <1>9 DEF Close, BeginDestroy, CloseSection, DestroyJoin, SpuriousWakeup, lists
  <2>2. ServersIn(wpc) \subseteq ServersIn(wpc)'
    BY <1>0, <1>9 DEF Close, BeginDestroy, CloseSection, DestroyJoin, SpuriousWakeup,
       BroadcastTask, ServersIn, ComesBack, Awake
  <2>3. \A v \in Workers : wpc'[v] \in {"timedout", "joining"} => wpc[v] = wpc'[v]
    BY <1>0, <1>9 DEF Close, BeginDestroy, CloseSection, DestroyJoin, SpuriousWakeup,
       BroadcastTask
  <2> QED BY <1>1, <2>1, <2>2, <2>3
<1>10. CASE UNCHANGED <<wpc, closed, queue>>
  BY <1>0, <1>1, <1>10 DEF ServersIn, ComesBack
<1> QED
  BY <1>5, <1>6, <1>7, <1>8, <1>9, <1>10
     DEF Next, vars, lists, WorkerStep, DestroyStep, DestroyWait, DestroyDrained, DestroyFree,
         Terminated

LEMMA ServerInvariant ==
  ASSUME NoRetireWindow
  PROVE  Spec => []ServerInv
<1>1. Init => ServerInv
  BY DEF Init, ServerInv
<1>2. CountInv /\ ServerInv /\ [Next]_vars => ServerInv'
  BY ServerStep
<1> QED BY <1>1, <1>2, CountInvariant, PTL DEF Spec

\* Outside the window of thpool_worker_retire, a queued task always has a worker that
\* will come back to the queue: one that is awake or running or, where idle waits are cut
\* into slices, asleep until its deadline at the latest (thpool.c:152, 219-247).
THEOREM QueuedTaskHasServer ==
  ASSUME NoRetireWindow
  PROVE  Spec => []ServerForQueue
<1>1. ServerInv => ServerForQueue
  BY DEF ServerInv, ServerForQueue, ServersIn, ComesBack
<1> QED BY <1>1, ServerInvariant, PTL

\* When ct_thpool_destroy frees the pool, every accepted task has finished, provided
\* that workers do not time out or their number is unlimited.
THEOREM DestroyDrainsPool ==
  ASSUME NoRetireWindow
  PROVE  Spec => []DestroyAfterAllTasks
<1>1. CountInv /\ DrainedInv /\ AcceptedInv /\ ServerInv => DestroyAfterAllTasks
  <2> SUFFICES ASSUME CountInv, DrainedInv, AcceptedInv, ServerInv, destroy = "freed",
                      NEW t \in Tasks, call[t] = "accepted"
               PROVE  t \in finished
    BY DEF DestroyAfterAllTasks
  <2>1. \A w \in Workers : wpc[w] \notin LivePCs
    BY DEF DrainedInv, CountInv, WorkerInv, LiveIn
  <2>2. ServersIn(wpc) = {} /\ \A w \in Workers : wpc[w] # "running"
    BY <2>1 DEF ServersIn, ComesBack, Awake, LivePCs
  <2>3. Queued = {}
    BY <2>2 DEF ServerInv, Queued
  <2> QED BY <2>2, <2>3 DEF AcceptedInv
<1> QED BY <1>1, CountInvariant, DrainedInvariant, AcceptedInvariant, ServerInvariant, PTL

-----------------------------------------------------------------------------
(* Every thread that has left the pool is on one list of threads to join. *)

Gone == {"retired", "exited"}

OwnedInv ==
  /\ \A v \in retired : wpc[v] \in Gone
  /\ \A v, w \in Workers : v \in stale[w] =>
       wpc[v] \in Gone /\ wpc[w] = "joining" /\ v \notin retired
  /\ \A v, w, u \in Workers : v \in stale[w] /\ v \in stale[u] => w = u
  /\ \A v \in Workers : wpc[v] \in Gone => v \in retired \/ \E w \in Workers : v \in stale[w]

LEMMA OwnedStep == TypeInv /\ OwnedInv /\ [Next]_vars => OwnedInv'
<1> SUFFICES ASSUME TypeInv, OwnedInv, [Next]_vars PROVE OwnedInv'
  OBVIOUS
<1>0. /\ wpc \in [Workers -> WorkerPCs] /\ stale \in [Workers -> SUBSET Workers]
      /\ retired \in SUBSET Workers
  BY DEF TypeInv
\* Steps of workers that neither leave nor join.
<1>1. ASSUME UNCHANGED <<retired, stale>>,
             \A v \in Workers : wpc[v] \in Gone <=> wpc'[v] \in Gone,
             \A v \in Workers : wpc[v] = "joining" => wpc'[v] = "joining"
      PROVE  OwnedInv'
  BY <1>0, <1>1 DEF OwnedInv
<1>2. ASSUME NEW t \in Tasks, NEW b, NEW calls, NEW d, TrySubmit(t, b, calls, d)
      PROVE  OwnedInv'
  <2>0. UNCHANGED <<retired, stale>>
    BY <1>2 DEF TrySubmit, RejectClosed, RejectOverload, Block, AcceptNoSpawn, AcceptSpawn,
       SpawnNoMemory, SpawnNoThread, lists
  <2>1. CASE wpc' = wpc
    BY <1>1, <2>0, <2>1
  <2>2. ASSUME NEW pcs \in [Workers -> WorkerPCs], wpc' \in SignalTask(pcs)
        PROVE  \A v \in Workers : /\ pcs[v] \in Gone <=> wpc'[v] \in Gone
                                  /\ pcs[v] = "joining" => wpc'[v] = "joining"
    BY <2>2, SignalMoves DEF Gone
  <2>3. CASE AcceptNoSpawn(t, b, calls, d)
    BY <1>0, <1>1, <2>0, <2>2, <2>3 DEF AcceptNoSpawn, Enqueue
  <2>4. CASE AcceptSpawn(t, b, calls, d)
    <3>1. PICK w \in Workers : /\ wpc[w] = "none"
                               /\ wpc' \in SignalTask([wpc EXCEPT ![w] = "ready"])
      BY <2>4 DEF AcceptSpawn, Enqueue
    <3> DEFINE pcs == [wpc EXCEPT ![w] = "ready"]
    <3>2. pcs \in [Workers -> WorkerPCs]
      BY <1>0 DEF WorkerPCs, Awake
    <3>3. \A v \in Workers : /\ pcs[v] \in Gone <=> wpc'[v] \in Gone
                             /\ pcs[v] = "joining" => wpc'[v] = "joining"
      BY <2>2, <3>1, <3>2
    <3>4. \A v \in Workers : /\ wpc[v] \in Gone <=> pcs[v] \in Gone
                             /\ wpc[v] = "joining" => pcs[v] = "joining"
      BY <1>0, <3>1 DEF Gone
    <3> QED BY <1>1, <2>0, <3>3, <3>4
  <2> QED
    BY <1>2, <2>1, <2>3, <2>4 DEF TrySubmit, RejectClosed, RejectOverload, Block,
       SpawnNoMemory, SpawnNoThread
<1>3. ASSUME NEW t \in Tasks, Submit(t) \/ Resume(t) PROVE OwnedInv'
  BY <1>2, <1>3 DEF Submit, Resume
<1>4. ASSUME NEW w \in Workers,
             TakeTask(w) \/ Wait(w) \/ FinishTask(w) \/ ExitThread(w) \/ WaitTimesOut(w) \/ NextSlice(w)
      PROVE  OwnedInv'
  <2>1. UNCHANGED <<retired, stale>>
    BY <1>4 DEF TakeTask, Wait, FinishTask, ExitThread, WaitTimesOut, NextSlice, lists
  <2>2. \A v \in Workers : /\ wpc[v] \in Gone <=> wpc'[v] \in Gone
                           /\ wpc[v] = "joining" => wpc'[v] = "joining"
    BY <1>0, <1>4 DEF TakeTask, Wait, FinishTask, ExitThread, WaitTimesOut, NextSlice, Gone, Awake
  <2> QED BY <1>1, <2>1, <2>2
<1>5. ASSUME NEW w \in Workers, RetireAtOnce(w) \/ RetireAfterJoin(w) PROVE OwnedInv'
  <2>1. stale[w] = {} /\ wpc[w] \notin Gone
    BY <1>0, <1>5 DEF RetireAtOnce, RetireAfterJoin, Leaves, OwnedInv, Gone, Awake
  <2>2. stale' = stale /\ retired' = retired \union {w} /\ wpc' = [wpc EXCEPT ![w] = "retired"]
    BY <1>5 DEF RetireAtOnce, RetireAfterJoin, RetireSection
  <2>3. \A v \in Workers : /\ v # w => wpc'[v] = wpc[v]
                           /\ wpc'[w] = "retired"
                           /\ w \notin stale[v]
    BY <1>0, <2>1, <2>2 DEF OwnedInv
  <2> QED BY <1>0, <2>1, <2>2, <2>3 DEF OwnedInv, Gone
<1>6. ASSUME NEW w \in Workers, SpliceRetired(w) PROVE OwnedInv'
  <2>1. /\ wpc[w] \in Awake /\ stale' = [stale EXCEPT ![w] = retired] /\ retired' = {}
        /\ wpc' = [wpc EXCEPT ![w] = "joining"]
    BY <1>6 DEF SpliceRetired, Leaves
  <2>2. \A v \in Workers : /\ v # w => wpc'[v] = wpc[v] /\ stale'[v] = stale[v]
                           /\ wpc'[w] = "joining" /\ stale'[w] = retired
                           /\ v \notin stale[w]
    BY <1>0, <2>1 DEF OwnedInv, Awake
  <2>3. w \notin retired /\ \A v \in Workers : w \notin stale[v]
    BY <1>0, <2>1 DEF OwnedInv, Gone, Awake
  <2> QED BY <1>0, <2>1, <2>2, <2>3 DEF OwnedInv, Gone, Awake
<1>7. ASSUME NEW w \in Workers, JoinStale(w) PROVE OwnedInv'
  <2>1. PICK j \in stale[w] : /\ wpc[j] = "exited" /\ wpc' = [wpc EXCEPT ![j] = "none"]
                              /\ stale' = [stale EXCEPT ![w] = @ \ {j}]
    BY <1>7 DEF JoinStale
  <2>2. j \in Workers /\ j \notin retired /\ \A v \in Workers : v # w => j \notin stale[v]
    BY <1>0 DEF OwnedInv
  <2>3. /\ \A v \in Workers : v # j => wpc'[v] = wpc[v]
        /\ wpc'[j] = "none" /\ stale'[w] = stale[w] \ {j}
        /\ \A v \in Workers : v # w => stale'[v] = stale[v]
        /\ retired' = retired
    BY <1>0, <1>7, <2>1, <2>2 DEF JoinStale, lists
  <2> QED BY <1>0, <2>1, <2>2, <2>3 DEF OwnedInv, Gone
<1>8. CASE DestroyJoin
  <2>1. PICK j \in retired : /\ wpc[j] = "exited" /\ wpc' = [wpc EXCEPT ![j] = "none"]
                             /\ retired' = retired \ {j}
    BY <1>8 DEF DestroyJoin
  <2>2. stale' = stale /\ j \in Workers /\ \A v \in Workers : j \notin stale[v]
    BY <1>0, <1>8 DEF OwnedInv, DestroyJoin
  <2>3. wpc'[j] = "none" /\ \A v \in Workers : v # j => wpc'[v] = wpc[v]
    BY <1>0, <2>1, <2>2
  <2> QED BY <1>0, <2>1, <2>2, <2>3 DEF OwnedInv, Gone
<1>9. CASE Close \/ BeginDestroy \/ SpuriousWakeup
  <2>1. UNCHANGED <<retired, stale>>
    BY <1>9 DEF Close, BeginDestroy, CloseSection, SpuriousWakeup, lists
  <2>2. \A v \in Workers : /\ wpc[v] \in Gone <=> wpc'[v] \in Gone
                           /\ wpc[v] = "joining" => wpc'[v] = "joining"
    BY <1>0, <1>9 DEF Close, BeginDestroy, CloseSection, SpuriousWakeup, BroadcastTask, Gone
  <2> QED BY <1>1, <2>1, <2>2
<1>10. CASE UNCHANGED <<wpc, retired, stale>>
  BY <1>1, <1>10
<1> QED
  BY <1>3, <1>4, <1>5, <1>6, <1>7, <1>8, <1>9, <1>10
     DEF Next, vars, lists, WorkerStep, DestroyStep, DestroyWait, DestroyDrained, DestroyFree,
         Terminated

LEMMA OwnedInvariant == Spec => []OwnedInv
<1>1. Init => OwnedInv
  BY DEF Init, OwnedInv, Gone
<1>2. CountInv => TypeInv
  BY DEF CountInv
<1> QED BY <1>1, <1>2, CountInvariant, OwnedStep, PTL DEF Spec

\* No retired thread is joined twice, forgotten, or joined while it uses the pool.
THEOREM ThreadsJoinedOnce == Spec => []UnjoinedOwnedOnce
<1>1. TypeInv /\ OwnedInv => UnjoinedOwnedOnce
  <2> SUFFICES ASSUME TypeInv, OwnedInv PROVE UnjoinedOwnedOnce
    OBVIOUS
  <2>0. stale \in [Workers -> SUBSET Workers] /\ retired \in SUBSET Workers
    BY DEF TypeInv
  <2>1. Unjoined = retired \union UNION {stale[w] : w \in Workers}
    BY <2>0 DEF OwnedInv, Unjoined, Gone
  <2>2. \A w \in Workers : stale[w] # {} => wpc[w] = "joining" /\ stale[w] \intersect retired = {}
    BY <2>0 DEF OwnedInv
  <2>3. \A v, w \in Workers : v # w => stale[v] \intersect stale[w] = {}
    BY <2>0 DEF OwnedInv
  <2> QED BY <2>1, <2>2, <2>3 DEF UnjoinedOwnedOnce
<1>2. CountInv => TypeInv
  BY DEF CountInv
<1> QED BY <1>1, <1>2, CountInvariant, OwnedInvariant, PTL

\* What destroy releases is not used by any thread: no worker is left in the pool, no
\* submitter is in a call, and after the joins no thread is left at all.
FreedInv == destroy = "freed" => retired = {}

THEOREM FreedPoolUnused == Spec => []FreedUnused
<1>1. Init => FreedInv
  BY DEF Init, FreedInv
<1>2. CountInv /\ DrainedInv /\ FreedInv /\ [Next]_vars => FreedInv'
  <2> SUFFICES ASSUME CountInv, DrainedInv, FreedInv, [Next]_vars, destroy' = "freed"
               PROVE  retired' = {}
    BY DEF FreedInv
  <2>0. \A v : WakeDestroyer(v) = "freed" => v = "freed"
    BY DEF WakeDestroyer
  <2>1. ASSUME NEW t \in Tasks, Submit(t) \/ Resume(t) PROVE destroy = "freed" /\ retired' = retired
    BY <2>0, <2>1 DEF Submit, Resume, TrySubmit, RejectClosed, RejectOverload, Block,
       AcceptNoSpawn, AcceptSpawn, SpawnNoMemory, SpawnNoThread, lists
  <2>2. ASSUME NEW w \in Workers, RetireAtOnce(w) \/ RetireAfterJoin(w) \/ SpliceRetired(w)
        PROVE FALSE
    <3>1. destroy = "freed" /\ wpc[w] \in LivePCs
      BY <2>0, <2>2 DEF RetireAtOnce, RetireAfterJoin, SpliceRetired, RetireSection, Leaves, LivePCs
    <3> QED BY <3>1 DEF DrainedInv, CountInv, WorkerInv, LiveIn
  <2>3. CASE DestroyStep
    BY <2>3 DEF DestroyStep, DestroyWait, DestroyDrained, DestroyJoin, DestroyFree, lists
  <2>4. CASE destroy = "freed" /\ retired' = retired
    BY <2>4 DEF FreedInv
  <2> QED
    BY <2>0, <2>1, <2>2, <2>3, <2>4
       DEF FreedInv, Next, vars, lists, WorkerStep, TakeTask, Wait, JoinStale, FinishTask,
           ExitThread, WaitTimesOut, NextSlice, Close, BeginDestroy, CloseSection, SpuriousWakeup, Terminated
<1>3. CountInv /\ DrainedInv /\ OwnedInv /\ FreedInv => FreedUnused
  <2> SUFFICES ASSUME CountInv, DrainedInv, OwnedInv, FreedInv, destroy \in {"joining", "freed"}
               PROVE  /\ \A w \in Workers : wpc[w] \in {"none", "retired", "exited"}
                      /\ Submitters = {}
                      /\ destroy = "freed" => \A w \in Workers : wpc[w] = "none"
    BY DEF FreedUnused
  <2>1. \A w \in Workers : wpc[w] \notin LivePCs /\ wpc[w] \in WorkerPCs
    BY DEF DrainedInv, CountInv, WorkerInv, LiveIn, TypeInv
  <2>2. \A w \in Workers : wpc[w] \in {"none", "retired", "exited"}
    BY <2>1 DEF LivePCs, WorkerPCs
  <2>3. ASSUME destroy = "freed", NEW w \in Workers PROVE wpc[w] = "none"
    BY <2>2, <2>3 DEF FreedInv, OwnedInv, Gone
  <2> QED BY <2>2, <2>3 DEF DrainedInv
<1> QED BY <1>1, <1>2, <1>3, CountInvariant, DrainedInvariant, OwnedInvariant, PTL DEF Spec

-----------------------------------------------------------------------------
(* Retired threads do not pile up. *)

JoinersIn(pcs) == {w \in Workers : pcs[w] = "joining"}

BoundInv ==
  /\ IsFiniteSet(retired)
  /\ Capacity > 0 => Cardinality(retired) + Cardinality(JoinersIn(wpc)) <= Capacity

\* The joiners are live, so each worker that is not one of them makes room for one more.
LEMMA JoinersFinite ==
  ASSUME WorkerInv
  PROVE  /\ IsFiniteSet(JoinersIn(wpc)) /\ Cardinality(JoinersIn(wpc)) \in Nat
         /\ Capacity > 0 => Cardinality(JoinersIn(wpc)) <= Capacity
         /\ \A w \in Workers : wpc[w] \in LivePCs \ {"joining"} =>
              (Capacity > 0 => Cardinality(JoinersIn(wpc)) + 1 <= Capacity)
<1>1. JoinersIn(wpc) \in SUBSET live
  BY DEF WorkerInv, JoinersIn, LiveIn, LivePCs
<1>2. /\ IsFiniteSet(JoinersIn(wpc)) /\ Cardinality(JoinersIn(wpc)) \in Nat
      /\ Cardinality(JoinersIn(wpc)) <= live_count /\ live_count \in Nat
  BY <1>1, FS_Subset, FS_CardinalityType DEF WorkerInv
<1>3. ASSUME NEW w \in Workers, wpc[w] \in LivePCs \ {"joining"}
      PROVE  Cardinality(JoinersIn(wpc)) + 1 <= live_count
  <2>1. w \in live /\ w \notin JoinersIn(wpc)
    BY <1>3 DEF WorkerInv, LiveIn, JoinersIn
  <2>2. JoinersIn(wpc) \in SUBSET (live \ {w})
    BY <1>1, <2>1
  <2>3. IsFiniteSet(live \ {w}) /\ Cardinality(live \ {w}) = live_count - 1
    BY <2>1, FS_RemoveElement DEF WorkerInv
  <2>4. Cardinality(JoinersIn(wpc)) <= live_count - 1
    BY <2>2, <2>3, FS_Subset
  <2> QED BY <1>2, <2>4
<1>4. Capacity \in Nat /\ (Capacity > 0 => live_count <= Capacity)
  BY ConfigAssumption DEF WorkerInv
<1> QED BY <1>2, <1>3, <1>4

LEMMA BoundStep == CountInv /\ CountInv' /\ BoundInv /\ [Next]_vars => BoundInv'
<1> SUFFICES ASSUME CountInv, CountInv', BoundInv, [Next]_vars PROVE BoundInv'
  OBVIOUS
<1> USE DEF CountInv
<1>0. /\ wpc \in [Workers -> WorkerPCs] /\ Capacity \in Nat
      /\ IsFiniteSet(retired) /\ Cardinality(retired) \in Nat
  BY ConfigAssumption, FS_CardinalityType DEF TypeInv, BoundInv
<1>1. ASSUME retired' = retired, JoinersIn(wpc)' = JoinersIn(wpc) PROVE BoundInv'
  BY <1>1 DEF BoundInv
<1>2. ASSUME NEW t \in Tasks, NEW b, NEW calls, NEW d, TrySubmit(t, b, calls, d)
      PROVE  BoundInv'
  <2>0. retired' = retired
    BY <1>2 DEF TrySubmit, RejectClosed, RejectOverload, Block, AcceptNoSpawn, AcceptSpawn,
       SpawnNoMemory, SpawnNoThread, lists
  <2>1. CASE wpc' = wpc
    BY <1>1, <2>0, <2>1 DEF JoinersIn
  <2>2. ASSUME NEW pcs \in [Workers -> WorkerPCs], wpc' \in SignalTask(pcs)
        PROVE  JoinersIn(wpc') = JoinersIn(pcs)
    BY <2>2, SignalMoves DEF JoinersIn
  <2>3. CASE AcceptNoSpawn(t, b, calls, d)
    BY <1>0, <1>1, <2>0, <2>2, <2>3 DEF AcceptNoSpawn, Enqueue, JoinersIn
  <2>4. CASE AcceptSpawn(t, b, calls, d)
    <3>1. PICK w \in Workers : /\ wpc[w] = "none"
                               /\ wpc' \in SignalTask([wpc EXCEPT ![w] = "ready"])
      BY <2>4 DEF AcceptSpawn, Enqueue
    <3>2. [wpc EXCEPT ![w] = "ready"] \in [Workers -> WorkerPCs]
      BY <1>0 DEF WorkerPCs, Awake
    <3>3. JoinersIn(wpc') = JoinersIn([wpc EXCEPT ![w] = "ready"])
      BY <2>2, <3>1, <3>2
    <3>4. JoinersIn([wpc EXCEPT ![w] = "ready"]) = JoinersIn(wpc)
      BY <1>0, <3>1 DEF JoinersIn
    <3> QED BY <1>1, <2>0, <3>3, <3>4 DEF JoinersIn
  <2> QED
    BY <1>2, <2>1, <2>3, <2>4 DEF TrySubmit, RejectClosed, RejectOverload, Block,
       SpawnNoMemory, SpawnNoThread
<1>3. ASSUME NEW t \in Tasks, Submit(t) \/ Resume(t) PROVE BoundInv'
  BY <1>2, <1>3 DEF Submit, Resume
<1>4. ASSUME NEW w \in Workers, RetireAtOnce(w) PROVE BoundInv'
  <2>1. retired' = {w} /\ JoinersIn(wpc)' = JoinersIn(wpc)
    BY <1>0, <1>4 DEF RetireAtOnce, RetireSection, Leaves, HasRetired, JoinersIn, Awake
  <2>2. IsFiniteSet({w}) /\ Cardinality({w}) = 1
    BY FS_Singleton
  <2>3. Capacity > 0 => Cardinality(JoinersIn(wpc)) + 1 <= Capacity
    <3>1. wpc[w] \in LivePCs \ {"joining"}
      BY <1>4 DEF RetireAtOnce, Leaves, LivePCs, Awake
    <3> QED BY <3>1, JoinersFinite
  <2> QED BY <1>0, <2>1, <2>2, <2>3, JoinersFinite DEF BoundInv
<1>5. ASSUME NEW w \in Workers, SpliceRetired(w) PROVE BoundInv'
  <2>1. retired' = {} /\ JoinersIn(wpc)' = JoinersIn(wpc) \union {w}
    BY <1>0, <1>5 DEF SpliceRetired, JoinersIn
  <2>2. wpc[w] \in LivePCs \ {"joining"} /\ w \notin JoinersIn(wpc)
    BY <1>5 DEF SpliceRetired, Leaves, LivePCs, Awake, JoinersIn
  <2>3. /\ Cardinality(JoinersIn(wpc) \union {w}) = Cardinality(JoinersIn(wpc)) + 1
        /\ Capacity > 0 => Cardinality(JoinersIn(wpc)) + 1 <= Capacity
    BY <2>2, JoinersFinite, FS_AddElement
  <2>4. IsFiniteSet({}) /\ Cardinality({}) = 0
    BY FS_EmptySet
  <2>5. Cardinality(JoinersIn(wpc)) \in Nat
    BY JoinersFinite
  <2> QED BY <1>0, <2>1, <2>3, <2>4, <2>5 DEF BoundInv
<1>6. ASSUME NEW w \in Workers, RetireAfterJoin(w) PROVE BoundInv'
  <2>1. /\ retired' = retired \union {w} /\ JoinersIn(wpc)' = JoinersIn(wpc) \ {w}
        /\ w \in JoinersIn(wpc)
    BY <1>0, <1>6 DEF RetireAfterJoin, RetireSection, JoinersIn
  <2>2. /\ Cardinality(JoinersIn(wpc) \ {w}) = Cardinality(JoinersIn(wpc)) - 1
        /\ Cardinality(JoinersIn(wpc)) \in Nat
    BY <2>1, JoinersFinite, FS_RemoveElement
  <2>3. /\ IsFiniteSet(retired \union {w})
        /\ Cardinality(retired \union {w}) \in {Cardinality(retired), Cardinality(retired) + 1}
    BY <1>0, FS_AddElement
  <2> QED BY <1>0, <2>1, <2>2, <2>3 DEF BoundInv
<1>7. CASE DestroyJoin
  <2>1. PICK j \in retired : /\ wpc[j] = "exited" /\ wpc' = [wpc EXCEPT ![j] = "none"]
                             /\ retired' = retired \ {j}
    BY <1>7 DEF DestroyJoin
  <2>2. JoinersIn(wpc)' = JoinersIn(wpc)
    BY <1>0, <2>1 DEF JoinersIn
  <2>3. IsFiniteSet(retired \ {j}) /\ Cardinality(retired \ {j}) = Cardinality(retired) - 1
    BY <1>0, FS_RemoveElement
  <2>4. Cardinality(JoinersIn(wpc)) \in Nat
    BY JoinersFinite
  <2> QED BY <1>0, <2>1, <2>2, <2>3, <2>4 DEF BoundInv
<1>8. ASSUME NEW w \in Workers,
             \/ TakeTask(w) \/ Wait(w) \/ FinishTask(w) \/ ExitThread(w) \/ WaitTimesOut(w) \/ NextSlice(w)
             \/ JoinStale(w)
      PROVE  BoundInv'
  <2>1. retired' = retired /\ JoinersIn(wpc)' = JoinersIn(wpc)
    BY <1>0, <1>8 DEF TakeTask, Wait, FinishTask, ExitThread, WaitTimesOut, NextSlice, JoinStale, lists,
       JoinersIn, Awake
  <2> QED BY <1>1, <2>1
<1>9. CASE Close \/ BeginDestroy \/ SpuriousWakeup
  <2>1. retired' = retired /\ JoinersIn(wpc)' = JoinersIn(wpc)
    BY <1>0, <1>9 DEF Close, BeginDestroy, CloseSection, SpuriousWakeup, BroadcastTask, lists,
       JoinersIn
  <2> QED BY <1>1, <2>1
<1>10. CASE UNCHANGED <<wpc, retired>>
  BY <1>1, <1>10 DEF JoinersIn
<1> QED
  BY <1>3, <1>4, <1>5, <1>6, <1>7, <1>8, <1>9, <1>10
     DEF Next, vars, lists, WorkerStep, DestroyStep, DestroyWait, DestroyDrained, DestroyFree,
         Terminated

\* The threads waiting to be joined on retired_head_ never exceed the capacity.
THEOREM RetiredThreadsBounded == Spec => []RetiredBounded
<1>1. Init => BoundInv
  <2> SUFFICES ASSUME Init PROVE BoundInv
    OBVIOUS
  <2>1. retired = {} /\ JoinersIn(wpc) = {}
    BY DEF Init, JoinersIn
  <2>2. IsFiniteSet({}) /\ Cardinality({}) = 0 /\ Capacity \in Nat
    BY FS_EmptySet, ConfigAssumption
  <2> QED BY <2>1, <2>2 DEF BoundInv
<1>2. BoundInv => RetiredBounded
  BY DEF BoundInv, RetiredBounded, JoinersIn, Joiners
<1> QED BY <1>1, <1>2, CountInvariant, BoundStep, PTL DEF Spec

-----------------------------------------------------------------------------
(* The threads that are not joined yet, on the lists of the retiring workers too. *)

\* Stale threads: the ones on the lists of the retiring workers in K.
StaleOf(st, K) == UNION {st[w] : w \in K}

\* Each worker that splices retired_head_ finds at most the capacity less the workers that
\* are retiring already, so any k of the lists that are being joined hold together at most
\* Capacity + (Capacity - 1) + ... + (Capacity - k + 1) threads.
StaleInv ==
  Capacity > 0 =>
    \A K \in SUBSET JoinersIn(wpc) :
      /\ IsFiniteSet(StaleOf(stale, K))
      /\ 2 * Cardinality(StaleOf(stale, K))
           <= 2 * (Cardinality(K) * Capacity) - Cardinality(K) * (Cardinality(K) - 1)

LEMMA OneMoreList ==
  ASSUME NEW c \in Nat, NEW k \in Nat, NEW n \in Nat, NEW r \in Nat,
         2 * n <= 2 * (k * c) - k * (k - 1), r + k <= c
  PROVE  2 * (n + r) <= 2 * ((k + 1) * c) - (k + 1) * ((k + 1) - 1)
<1>1. (k + 1) * c = k * c + c /\ (k + 1) * ((k + 1) - 1) = k * (k - 1) + 2 * k
  OBVIOUS
<1>2. k * c \in Int /\ k * (k - 1) \in Int
  OBVIOUS
<1> QED BY <1>1, <1>2

LEMMA AllLists ==
  ASSUME NEW c \in Nat, NEW k \in Nat, NEW n \in Nat, NEW r \in Nat,
         2 * n <= 2 * (k * c) - k * (k - 1), r + k <= c
  PROVE  2 * (n + r) <= c * (c + 1)
<1>1. PICK d \in Nat : c = k + d
  <2>1. c - k \in Nat /\ c = k + (c - k)
    OBVIOUS
  <2> QED BY <2>1
<1>2. d <= d * d
  OBVIOUS
<1>3. k * c = k * k + k * d /\ k * (k - 1) = k * k - k
      /\ c * (c + 1) = k * k + 2 * (k * d) + d * d + k + d
  BY <1>1
<1>4. k * k \in Int /\ k * d \in Int /\ d * d \in Int
  OBVIOUS
<1> QED BY <1>1, <1>2, <1>3, <1>4

\* A step that starts no retirement and adds to no list.
LEMMA StaleShrinks ==
  ASSUME CountInv, StaleInv, JoinersIn(wpc') \subseteq JoinersIn(wpc),
         \A w \in Workers : stale'[w] \subseteq stale[w]
  PROVE  StaleInv'
<1> SUFFICES ASSUME Capacity > 0, NEW K \in SUBSET JoinersIn(wpc')
             PROVE  /\ IsFiniteSet(StaleOf(stale', K))
                    /\ 2 * Cardinality(StaleOf(stale', K))
                         <= 2 * (Cardinality(K) * Capacity) - Cardinality(K) * (Cardinality(K) - 1)
  BY DEF StaleInv
<1> DEFINE bound == 2 * (Cardinality(K) * Capacity) - Cardinality(K) * (Cardinality(K) - 1)
<1>1. K \in SUBSET JoinersIn(wpc) /\ K \subseteq Workers
  BY DEF JoinersIn
<1>2. StaleOf(stale', K) \in SUBSET StaleOf(stale, K)
  BY <1>1 DEF StaleOf
<1>3. IsFiniteSet(StaleOf(stale, K)) /\ 2 * Cardinality(StaleOf(stale, K)) <= bound
  BY <1>1 DEF StaleInv
<1>4. /\ IsFiniteSet(StaleOf(stale', K))
      /\ Cardinality(StaleOf(stale', K)) <= Cardinality(StaleOf(stale, K))
  BY <1>2, <1>3, FS_Subset
<1>5. Cardinality(StaleOf(stale', K)) \in Nat /\ Cardinality(StaleOf(stale, K)) \in Nat
  BY <1>3, <1>4, FS_CardinalityType
<1>6. bound \in Int
  <2>1. Cardinality(K) \in Nat
    BY <1>1, JoinersFinite, FS_Subset, FS_CardinalityType DEF CountInv
  <2> QED BY <2>1, ConfigAssumption
<1> HIDE DEF bound
<1>7. 2 * Cardinality(StaleOf(stale', K)) <= bound
  BY <1>3, <1>4, <1>5, <1>6
<1> QED BY <1>4, <1>7 DEF bound

\* A retiring worker takes what is on retired_head_ (thpool.c, thpool_worker_retire).
LEMMA StaleSplice ==
  ASSUME CountInv, BoundInv, StaleInv, NEW w \in Workers, SpliceRetired(w)
  PROVE  StaleInv'
<1> SUFFICES ASSUME Capacity > 0, NEW K \in SUBSET JoinersIn(wpc')
             PROVE  /\ IsFiniteSet(StaleOf(stale', K))
                    /\ 2 * Cardinality(StaleOf(stale', K))
                         <= 2 * (Cardinality(K) * Capacity) - Cardinality(K) * (Cardinality(K) - 1)
  BY DEF StaleInv
<1>0. /\ wpc \in [Workers -> WorkerPCs] /\ Capacity \in Nat /\ stale \in [Workers -> SUBSET Workers]
      /\ IsFiniteSet(retired) /\ Cardinality(retired) \in Nat
  BY ConfigAssumption, FS_CardinalityType DEF CountInv, TypeInv, BoundInv
<1>1. /\ JoinersIn(wpc') = JoinersIn(wpc) \union {w} /\ w \notin JoinersIn(wpc)
      /\ stale' = [stale EXCEPT ![w] = retired]
  BY <1>0 DEF SpliceRetired, JoinersIn, Leaves, Awake
<1>2. /\ IsFiniteSet(JoinersIn(wpc)) /\ Cardinality(JoinersIn(wpc)) \in Nat
      /\ Cardinality(retired) + Cardinality(JoinersIn(wpc)) <= Capacity
  BY JoinersFinite DEF CountInv, BoundInv
<1> DEFINE K0 == K \ {w}
<1>3. K0 \in SUBSET JoinersIn(wpc) /\ \A v \in K0 : stale'[v] = stale[v]
  BY <1>0, <1>1 DEF JoinersIn
<1>4. /\ IsFiniteSet(K0) /\ Cardinality(K0) \in Nat
      /\ Cardinality(K0) <= Cardinality(JoinersIn(wpc))
  BY <1>2, <1>3, FS_Subset, FS_CardinalityType
<1>5. /\ IsFiniteSet(StaleOf(stale, K0))
      /\ 2 * Cardinality(StaleOf(stale, K0))
           <= 2 * (Cardinality(K0) * Capacity) - Cardinality(K0) * (Cardinality(K0) - 1)
  BY <1>3 DEF StaleInv
<1>6. CASE w \notin K
  <2>1. K = K0 /\ StaleOf(stale', K) = StaleOf(stale, K0)
    BY <1>3, <1>6 DEF StaleOf
  <2> QED BY <1>5, <2>1
<1>7. CASE w \in K
  <2>1. StaleOf(stale', K) = StaleOf(stale, K0) \union retired
    <3>1. K = K0 \union {w} /\ stale'[w] = retired
      BY <1>0, <1>1, <1>7
    <3> QED BY <1>3, <3>1 DEF StaleOf
  <2>2. Cardinality(K) = Cardinality(K0) + 1
    <3>1. K = K0 \union {w} /\ w \notin K0
      BY <1>7
    <3> HIDE DEF K0
    <3> QED BY <1>4, <3>1, FS_AddElement
  <2>3. PICK n \in Nat : n = Cardinality(StaleOf(stale, K0))
    BY <1>5, FS_CardinalityType
  <2>4. /\ IsFiniteSet(StaleOf(stale', K)) /\ Cardinality(StaleOf(stale', K)) \in Nat
        /\ Cardinality(StaleOf(stale', K)) <= n + Cardinality(retired)
    <3>1. PICK i \in Nat : i = Cardinality(StaleOf(stale, K0) \intersect retired)
      BY <1>0, FS_Subset, FS_CardinalityType
    <3>2. /\ IsFiniteSet(StaleOf(stale, K0) \union retired)
          /\ Cardinality(StaleOf(stale, K0) \union retired) = n + Cardinality(retired) - i
      BY <1>0, <1>5, <2>3, <3>1, FS_Union
    <3>3. Cardinality(StaleOf(stale, K0) \union retired) \in Nat
      BY <3>2, FS_CardinalityType
    <3> QED BY <1>0, <2>1, <3>1, <3>2, <3>3
  <2> HIDE DEF K0
  <2>5. 2 * (n + Cardinality(retired))
          <= 2 * ((Cardinality(K0) + 1) * Capacity) - (Cardinality(K0) + 1) * ((Cardinality(K0) + 1) - 1)
    BY <1>0, <1>2, <1>4, <1>5, <2>3, OneMoreList
  <2>6. 2 * ((Cardinality(K0) + 1) * Capacity) - (Cardinality(K0) + 1) * ((Cardinality(K0) + 1) - 1) \in Int
    BY <1>0, <1>4
  <2> QED BY <1>0, <2>2, <2>3, <2>4, <2>5, <2>6
<1> QED BY <1>6, <1>7

LEMMA StaleStep ==
  CountInv /\ OwnedInv /\ BoundInv /\ StaleInv /\ [Next]_vars => StaleInv'
<1> SUFFICES ASSUME CountInv, OwnedInv, BoundInv, StaleInv, [Next]_vars PROVE StaleInv'
  OBVIOUS
<1>0. wpc \in [Workers -> WorkerPCs] /\ stale \in [Workers -> SUBSET Workers]
  BY DEF CountInv, TypeInv
<1>1. ASSUME stale' = stale, JoinersIn(wpc') \subseteq JoinersIn(wpc) PROVE StaleInv'
  BY <1>1, StaleShrinks
<1>2. ASSUME NEW t \in Tasks, Submit(t) \/ Resume(t) PROVE StaleInv'
  <2>1. stale' = stale
    BY <1>2 DEF Submit, Resume, TrySubmit
  <2>2. JoinersIn(wpc') \subseteq JoinersIn(wpc)
    <3>1. ASSUME NEW pcs \in [Workers -> WorkerPCs], wpc' \in SignalTask(pcs)
          PROVE  JoinersIn(wpc') = JoinersIn(pcs)
      BY <3>1, SignalMoves DEF JoinersIn
    <3>2. ASSUME NEW w \in Workers, wpc[w] = "none", wpc' \in SignalTask([wpc EXCEPT ![w] = "ready"])
          PROVE  JoinersIn(wpc') = JoinersIn(wpc)
      <4>1. [wpc EXCEPT ![w] = "ready"] \in [Workers -> WorkerPCs]
        BY <1>0 DEF WorkerPCs, Awake
      <4>2. JoinersIn([wpc EXCEPT ![w] = "ready"]) = JoinersIn(wpc)
        BY <1>0, <3>2 DEF JoinersIn
      <4> QED BY <3>1, <3>2, <4>1, <4>2
    <3>3. ASSUME NEW b, NEW calls, NEW d, TrySubmit(t, b, calls, d)
          PROVE  JoinersIn(wpc') \subseteq JoinersIn(wpc)
      <4>1. CASE wpc' = wpc
        BY <4>1
      <4>2. CASE AcceptNoSpawn(t, b, calls, d)
        BY <1>0, <3>1, <4>2 DEF AcceptNoSpawn, Enqueue
      <4>3. CASE AcceptSpawn(t, b, calls, d)
        BY <3>2, <4>3 DEF AcceptSpawn, Enqueue
      <4> QED
        BY <3>3, <4>1, <4>2, <4>3 DEF TrySubmit, RejectClosed, RejectOverload, Block,
           SpawnNoMemory, SpawnNoThread
    <3> QED BY <1>2, <3>3 DEF Submit, Resume
  <2> QED BY <1>1, <2>1, <2>2
<1>3. ASSUME NEW w \in Workers, SpliceRetired(w) PROVE StaleInv'
  BY <1>3, StaleSplice
<1>4. ASSUME NEW w \in Workers, JoinStale(w) PROVE StaleInv'
  <2>1. \A v \in Workers : stale'[v] \subseteq stale[v]
    BY <1>0, <1>4 DEF JoinStale
  <2>2. JoinersIn(wpc') \subseteq JoinersIn(wpc)
    BY <1>0, <1>4 DEF JoinStale, JoinersIn
  <2> QED BY <2>1, <2>2, StaleShrinks
<1>5. ASSUME NEW w \in Workers,
             \/ TakeTask(w) \/ Wait(w) \/ FinishTask(w) \/ ExitThread(w) \/ WaitTimesOut(w) \/ NextSlice(w)
             \/ RetireAtOnce(w) \/ RetireAfterJoin(w)
      PROVE  StaleInv'
  <2>1. stale' = stale /\ JoinersIn(wpc') \subseteq JoinersIn(wpc)
    BY <1>0, <1>5 DEF TakeTask, Wait, FinishTask, ExitThread, WaitTimesOut, NextSlice, RetireAtOnce,
       RetireAfterJoin, RetireSection, JoinersIn
  <2> QED BY <1>1, <2>1
<1>6. CASE Close \/ BeginDestroy \/ SpuriousWakeup \/ DestroyStep
  <2>1. stale' = stale /\ JoinersIn(wpc') \subseteq JoinersIn(wpc)
    BY <1>0, <1>6 DEF Close, BeginDestroy, CloseSection, SpuriousWakeup, BroadcastTask,
       DestroyStep, DestroyWait, DestroyDrained, DestroyJoin, DestroyFree, JoinersIn
  <2> QED BY <1>1, <2>1
<1>7. CASE UNCHANGED vars
  BY <1>1, <1>7 DEF vars
<1> QED
  BY <1>2, <1>3, <1>4, <1>5, <1>6, <1>7 DEF Next, WorkerStep, Terminated

\* The threads that have left the pool and are not joined yet never number more than
\* 1 + 2 + ... + Capacity, whatever the retiring workers and the joins interleave to.
THEOREM UnjoinedThreadsBounded == Spec => []UnjoinedBounded
<1>1. Init => BoundInv /\ StaleInv
  <2> SUFFICES ASSUME Init PROVE BoundInv /\ StaleInv
    OBVIOUS
  <2>1. retired = {} /\ JoinersIn(wpc) = {}
    BY DEF Init, JoinersIn
  <2>2. IsFiniteSet({}) /\ Cardinality({}) = 0 /\ Capacity \in Nat
    BY FS_EmptySet, ConfigAssumption
  <2>3. BoundInv
    BY <2>1, <2>2 DEF BoundInv
  <2>4. StaleInv
    <3>1. SUFFICES ASSUME Capacity > 0, NEW K \in SUBSET JoinersIn(wpc)
                   PROVE  /\ IsFiniteSet(StaleOf(stale, K))
                          /\ 2 * Cardinality(StaleOf(stale, K)) <= 2 * (Cardinality(K) * Capacity)
                                                              - Cardinality(K) * (Cardinality(K) - 1)
      BY DEF StaleInv
    <3>2. K = {} /\ StaleOf(stale, K) = {}
      BY <2>1 DEF StaleOf
    <3>3. /\ IsFiniteSet(StaleOf(stale, K)) /\ Cardinality(StaleOf(stale, K)) = 0
          /\ Cardinality(K) = 0
      BY <2>2, <3>2
    <3> QED BY <2>2, <3>3
  <2> QED BY <2>3, <2>4
<1>2. CountInv /\ OwnedInv /\ BoundInv /\ StaleInv => UnjoinedBounded
  <2> SUFFICES ASSUME CountInv, OwnedInv, BoundInv, StaleInv, Capacity > 0
               PROVE  2 * Cardinality(Unjoined) <= Capacity * (Capacity + 1)
    BY DEF UnjoinedBounded
  <2> DEFINE J == JoinersIn(wpc)
  <2>0. stale \in [Workers -> SUBSET Workers] /\ Capacity \in Nat
    BY ConfigAssumption DEF CountInv, TypeInv
  <2>1. Unjoined = StaleOf(stale, J) \union retired
    <3>1. retired \in SUBSET Workers
      BY DEF CountInv, TypeInv
    <3>2. \A v \in StaleOf(stale, J) : v \in Unjoined
      BY <2>0 DEF OwnedInv, Unjoined, Gone, StaleOf, JoinersIn
    <3>3. \A v \in retired : v \in Unjoined
      BY <3>1 DEF OwnedInv, Unjoined, Gone
    <3>4. ASSUME NEW v \in Unjoined, v \notin retired PROVE v \in StaleOf(stale, J)
      <4>1. PICK w \in Workers : v \in stale[w]
        BY <3>4 DEF OwnedInv, Unjoined, Gone
      <4>2. w \in J
        BY <3>4, <4>1 DEF OwnedInv, Unjoined, JoinersIn
      <4> QED BY <4>1, <4>2 DEF StaleOf
    <3> QED BY <3>2, <3>3, <3>4
  <2>2. /\ IsFiniteSet(StaleOf(stale, J)) /\ IsFiniteSet(retired)
        /\ 2 * Cardinality(StaleOf(stale, J))
             <= 2 * (Cardinality(J) * Capacity) - Cardinality(J) * (Cardinality(J) - 1)
        /\ Cardinality(retired) + Cardinality(J) <= Capacity
    BY DEF StaleInv, BoundInv
  <2> HIDE DEF J
  <2>3. PICK n \in Nat, r \in Nat, i \in Nat :
          /\ n = Cardinality(StaleOf(stale, J)) /\ r = Cardinality(retired)
          /\ i = Cardinality(StaleOf(stale, J) \intersect retired)
    BY <2>2, FS_Subset, FS_CardinalityType
  <2>4. Cardinality(J) \in Nat
    BY JoinersFinite DEF CountInv, J
  <2>5. 2 * (n + r) <= Capacity * (Capacity + 1)
    BY <2>0, <2>2, <2>3, <2>4, AllLists
  <2>6. Cardinality(StaleOf(stale, J) \union retired) = n + r - i
    BY <2>2, <2>3, FS_Union
  <2>7. Capacity * (Capacity + 1) \in Int
    BY <2>0
  <2> QED BY <2>1, <2>3, <2>5, <2>6, <2>7
<1>3. CountInv => TypeInv
  BY DEF CountInv
<1> QED BY <1>1, <1>2, <1>3, CountInvariant, OwnedInvariant, BoundStep, StaleStep, PTL DEF Spec

-----------------------------------------------------------------------------
(* The pool implements TaskService.  A task is known to the abstract service by where    *)
(* it is: in the queue, with a running worker, or among the finished.  The proof keeps   *)
(* these apart.                                                                          *)

\* The workers that execute a task.
RunsIn(pcs) == {w \in Workers : pcs[w] = "running"}

\* What is queued, runs or has run was accepted.
OnlyAccepted ==
  \A t \in Tasks : call[t] # "accepted" => t \notin Queued /\ t \notin Running /\ t \notin finished

\* No task is queued twice.
QueuedOnce == \A j, k \in 1..Len(queue) : queue[j] = queue[k] => j = k

\* No task is queued while it runs.
QueuedNotRunning == \A k \in 1..Len(queue) : queue[k] \notin Running

\* No two workers run the same task.
RunOnce == \A v, w \in RunsIn(wpc) : job[v] = job[w] => v = w

OnceInv == OnlyAccepted /\ QueuedOnce /\ QueuedNotRunning /\ RunOnce

-----------------------------------------------------------------------------
(* What the kinds of step do to the tasks. *)

\* A step that moves no task is a step of the service only if it closes the pool.
LEMMA QuietStep ==
  ASSUME OnceInv, UNCHANGED <<queue, job, finished>>, RunsIn(wpc') = RunsIn(wpc),
         \A t \in Tasks : call[t] = "accepted" => call'[t] = "accepted"
  PROVE  OnceInv' /\ Running' = Running
<1>1. Running' = Running
  BY DEF Running, RunsIn
<1>2. OnlyAccepted'
  BY <1>1 DEF OnceInv, OnlyAccepted, Queued
<1>3. QueuedOnce' /\ QueuedNotRunning'
  BY <1>1 DEF OnceInv, QueuedOnce, QueuedNotRunning
<1>4. RunOnce'
  BY DEF OnceInv, RunOnce, RunsIn
<1> QED BY <1>1, <1>2, <1>3, <1>4 DEF OnceInv

\* An accepted submit appends a task that the pool has not seen (thpool.c:146-158).
LEMMA AcceptStep ==
  ASSUME TypeInv, OnceInv, NEW t \in Tasks, call[t] # "accepted", ~closed,
         queue' = Append(queue, t), UNCHANGED <<job, finished, closed>>,
         RunsIn(wpc') = RunsIn(wpc), call'[t] = "accepted",
         \A s \in Tasks : call[s] = "accepted" => call'[s] = "accepted"
  PROVE  OnceInv' /\ Order!Accept(t)
<1>0. /\ queue \in Seq(Tasks) /\ Len(queue) \in Nat /\ Len(queue') = Len(queue) + 1
      /\ \A k \in 1..Len(queue) + 1 : queue'[k] = IF k <= Len(queue) THEN queue[k] ELSE t
  BY DEF TypeInv
<1>1. Running' = Running
  BY DEF Running, RunsIn
<1>2. t \notin Queued /\ t \notin Running /\ t \notin finished
  BY DEF OnceInv, OnlyAccepted
<1>3. \A k \in 1..Len(queue) : queue[k] # t
  BY <1>2 DEF Queued
<1>4. OnlyAccepted'
  <2>1. ASSUME NEW s \in Tasks, s # t, s \notin Queued PROVE s \notin Queued'
    BY <1>0, <2>1 DEF Queued
  <2> QED BY <1>1, <2>1 DEF OnceInv, OnlyAccepted
<1>5. QueuedOnce'
  BY <1>0, <1>3 DEF OnceInv, QueuedOnce
<1>6. QueuedNotRunning'
  BY <1>0, <1>1, <1>2 DEF OnceInv, QueuedNotRunning
<1>7. RunOnce'
  BY DEF OnceInv, RunOnce, RunsIn
<1>8. Order!Accept(t)
  <2>1. Order!Pending = Queued
    BY <1>0 DEF Order!Pending, Queued
  <2> QED BY <1>1, <1>2, <2>1 DEF Order!Accept
<1> QED BY <1>4, <1>5, <1>6, <1>7, <1>8 DEF OnceInv

\* A worker takes the oldest task.
LEMMA StartStep ==
  ASSUME TypeInv, OnceInv, NEW w \in Workers, TakeTask(w)
  PROVE  OnceInv' /\ Order!Start
<1>0. /\ wpc' = [wpc EXCEPT ![w] = "running"] /\ job' = [job EXCEPT ![w] = Head(queue)]
      /\ queue' = Tail(queue) /\ queue # <<>> /\ UNCHANGED <<finished, closed>>
      /\ wpc[w] # "running" /\ call' \in {call, WakeCalls(call)}
      /\ wpc \in [Workers -> WorkerPCs] /\ job \in [Workers -> Tasks \union {NoTask}]
      /\ queue \in Seq(Tasks) /\ call \in [Tasks -> Calls]
  BY DEF TypeInv, TakeTask, Awake
<1>1. /\ Len(queue) \in Nat /\ 1 \in 1..Len(queue) /\ Head(queue) = queue[1]
      /\ Len(queue') = Len(queue) - 1
      /\ \A k \in 1..Len(queue') : k + 1 \in 1..Len(queue) /\ queue'[k] = queue[k + 1]
  BY <1>0
<1>2. \A t \in Tasks : call[t] = "accepted" => call'[t] = "accepted"
  BY <1>0 DEF WakeCalls
<1>3. RunsIn(wpc') = RunsIn(wpc) \union {w} /\ w \notin RunsIn(wpc)
  BY <1>0 DEF RunsIn
<1>4. job'[w] = Head(queue) /\ \A v \in RunsIn(wpc) : job'[v] = job[v]
  BY <1>0 DEF RunsIn
<1>5. Running = {job[v] : v \in RunsIn(wpc)} /\ Running' = {job'[v] : v \in RunsIn(wpc')}
  BY DEF Running, RunsIn
<1>6. Running' = Running \union {Head(queue)}
  BY <1>3, <1>4, <1>5
<1>7. Queued' \subseteq Queued /\ Head(queue) \in Queued
  BY <1>1 DEF Queued
<1>8. OnlyAccepted'
  BY <1>0, <1>2, <1>6, <1>7 DEF OnceInv, OnlyAccepted
<1>9. QueuedOnce'
  BY <1>1 DEF OnceInv, QueuedOnce
<1>10. QueuedNotRunning'
  <2>1. ASSUME NEW k \in 1..Len(queue') PROVE queue'[k] \notin Running /\ queue'[k] # Head(queue)
    <3>1. k + 1 # 1 /\ queue'[k] = queue[k + 1] /\ k + 1 \in 1..Len(queue)
      BY <1>1
    <3> QED BY <1>1, <3>1 DEF OnceInv, QueuedOnce, QueuedNotRunning
  <2> QED BY <1>6, <2>1 DEF QueuedNotRunning
<1>11. RunOnce'
  <2>1. \A v \in RunsIn(wpc) : job[v] # Head(queue)
    BY <1>1, <1>5 DEF OnceInv, QueuedNotRunning
  <2> QED BY <1>3, <1>4, <2>1 DEF OnceInv, RunOnce
<1>12. Order!Start
  BY <1>0, <1>6 DEF Order!Start
<1> QED BY <1>8, <1>9, <1>10, <1>11, <1>12 DEF OnceInv

\* The routine of a task returns.
LEMMA EndStep ==
  ASSUME TypeInv, OnceInv, NEW w \in Workers, FinishTask(w)
  PROVE  OnceInv' /\ job[w] \in Tasks /\ Order!Finish(job[w])
<1>0. /\ wpc' = [wpc EXCEPT ![w] = "ready"] /\ job' = [job EXCEPT ![w] = NoTask]
      /\ finished' = finished \union {job[w]} /\ UNCHANGED <<queue, call, closed>>
      /\ wpc[w] = "running" /\ job[w] \in Tasks
      /\ wpc \in [Workers -> WorkerPCs] /\ job \in [Workers -> Tasks \union {NoTask}]
  BY DEF TypeInv, FinishTask, lists
<1>1. RunsIn(wpc') = RunsIn(wpc) \ {w} /\ w \in RunsIn(wpc)
  BY <1>0 DEF RunsIn
<1>2. \A v \in RunsIn(wpc') : job'[v] = job[v]
  BY <1>0 DEF RunsIn
<1>3. Running = {job[v] : v \in RunsIn(wpc)} /\ Running' = {job'[v] : v \in RunsIn(wpc')}
  BY DEF Running, RunsIn
<1>4. job[w] \in Running /\ Running' = Running \ {job[w]}
  BY <1>1, <1>2, <1>3 DEF OnceInv, RunOnce
<1>5. OnlyAccepted'
  BY <1>0, <1>4 DEF OnceInv, OnlyAccepted, Queued
<1>6. QueuedOnce' /\ QueuedNotRunning'
  BY <1>0, <1>4 DEF OnceInv, QueuedOnce, QueuedNotRunning
<1>7. RunOnce'
  BY <1>1, <1>2 DEF OnceInv, RunOnce
<1>8. Order!Finish(job[w])
  BY <1>0, <1>4 DEF Order!Finish
<1> QED BY <1>0, <1>5, <1>6, <1>7, <1>8 DEF OnceInv

\* The outcomes of a submit in which the task is not accepted.
NotAccepted(t, b, calls, d) ==
  \/ RejectClosed(t, b, calls, d) \/ RejectOverload(t, b, calls, d) \/ Block(t, b, calls, d)
  \/ SpawnNoMemory(t, b, calls, d) \/ SpawnNoThread(t, b, calls, d)

\* One turn of the loop of ct_thpool_submit.
LEMMA SubmitStep ==
  ASSUME TypeInv, OnceInv, NEW t \in Tasks, call[t] # "accepted", NEW b,
         NEW calls \in {call, WakeCalls(call)}, NEW d, TrySubmit(t, b, calls, d)
  PROVE  OnceInv' /\ [Order!Next]_(Order!vars)
<1>0. /\ wpc \in [Workers -> WorkerPCs] /\ calls \in [Tasks -> Calls]
      /\ WakeCalls(calls) \in [Tasks -> Calls]
      /\ \A s \in Tasks : call[s] = "accepted" =>
           calls[s] = "accepted" /\ WakeCalls(calls)[s] = "accepted" /\ s # t
      /\ UNCHANGED <<closed, job, finished>>
  BY DEF TypeInv, TrySubmit, WakeCalls, Calls
<1>1. CASE NotAccepted(t, b, calls, d)
  <2>1. UNCHANGED <<queue, wpc>>
    BY <1>1 DEF NotAccepted, RejectClosed, RejectOverload, Block, SpawnNoMemory, SpawnNoThread,
       lists
  <2>2. \A s \in Tasks : call[s] = "accepted" => call'[s] = "accepted"
    BY <1>0, <1>1
       DEF NotAccepted, RejectClosed, RejectOverload, Block, SpawnNoMemory, SpawnNoThread
  <2>3. OnceInv' /\ Running' = Running
    BY <1>0, <2>1, <2>2, QuietStep
  <2> QED BY <1>0, <2>1, <2>3 DEF Order!vars
<1>2. CASE AcceptNoSpawn(t, b, calls, d) \/ AcceptSpawn(t, b, calls, d)
  <2>1. ~closed /\ queue' = Append(queue, t) /\ call' = [calls EXCEPT ![t] = "accepted"]
    BY <1>2 DEF AcceptNoSpawn, AcceptSpawn, Enqueue
  <2>2. call'[t] = "accepted" /\ \A s \in Tasks : call[s] = "accepted" => call'[s] = "accepted"
    BY <1>0, <2>1
  <2>3. ASSUME NEW pcs \in [Workers -> WorkerPCs], wpc' \in SignalTask(pcs)
        PROVE  RunsIn(wpc') = RunsIn(pcs)
    BY <2>3 DEF SignalTask, RunsIn
  <2>4. RunsIn(wpc') = RunsIn(wpc)
    <3>1. CASE AcceptNoSpawn(t, b, calls, d)
      BY <1>0, <2>3, <3>1 DEF AcceptNoSpawn, Enqueue
    <3>2. CASE AcceptSpawn(t, b, calls, d)
      <4>1. PICK w \in Workers : /\ wpc[w] = "none"
                                 /\ wpc' \in SignalTask([wpc EXCEPT ![w] = "ready"])
        BY <3>2 DEF AcceptSpawn, Enqueue
      <4>2. [wpc EXCEPT ![w] = "ready"] \in [Workers -> WorkerPCs]
        BY <1>0 DEF WorkerPCs, Awake
      <4>3. RunsIn([wpc EXCEPT ![w] = "ready"]) = RunsIn(wpc)
        BY <1>0, <4>1 DEF RunsIn
      <4> QED BY <2>3, <4>1, <4>2, <4>3
    <3> QED BY <1>2, <3>1, <3>2
  <2>5. OnceInv' /\ Order!Accept(t)
    BY <1>0, <2>1, <2>2, <2>4, AcceptStep
  <2> QED BY <2>5 DEF Order!Next
<1> QED BY <1>1, <1>2 DEF TrySubmit, NotAccepted

\* Every step of the pool is a step of the service without its release, or none.
LEMMA OrderStep ==
  ASSUME TypeInv, OnceInv, [Next]_vars
  PROVE  OnceInv' /\ [Order!Next]_(Order!vars)
<1>0. call \in [Tasks -> Calls] /\ wpc \in [Workers -> WorkerPCs]
  BY DEF TypeInv
<1>1. ASSUME UNCHANGED <<queue, job, finished>>, RunsIn(wpc') = RunsIn(wpc),
             call' \in {call, WakeCalls(call)}, closed' = closed \/ closed' = TRUE
      PROVE  OnceInv' /\ [Order!Next]_(Order!vars)
  <2>1. \A t \in Tasks : call[t] = "accepted" => call'[t] = "accepted"
    BY <1>1 DEF WakeCalls
  <2>2. OnceInv' /\ Running' = Running
    BY <1>1, <2>1, QuietStep
  <2>3. CASE closed' = closed
    BY <1>1, <2>2, <2>3 DEF Order!vars
  <2>4. CASE closed' = TRUE
    BY <1>1, <2>2, <2>4 DEF Order!Close, Order!Next
  <2> QED BY <1>1, <2>2, <2>3, <2>4
<1>2. ASSUME NEW t \in Tasks, Submit(t) \/ Resume(t)
      PROVE  OnceInv' /\ [Order!Next]_(Order!vars)
  BY <1>2, SubmitStep DEF Submit, Resume
<1>3. ASSUME NEW w \in Workers, TakeTask(w) PROVE OnceInv' /\ [Order!Next]_(Order!vars)
  BY <1>3, StartStep DEF Order!Next
<1>4. ASSUME NEW w \in Workers, FinishTask(w) PROVE OnceInv' /\ [Order!Next]_(Order!vars)
  BY <1>4, EndStep DEF Order!Next
<1>5. ASSUME NEW w \in Workers,
             \/ Wait(w) \/ RetireAtOnce(w) \/ SpliceRetired(w) \/ JoinStale(w)
             \/ RetireAfterJoin(w) \/ ExitThread(w) \/ WaitTimesOut(w) \/ NextSlice(w)
      PROVE  OnceInv' /\ [Order!Next]_(Order!vars)
  <2>1. /\ UNCHANGED <<queue, job, finished, closed>> /\ call' \in {call, WakeCalls(call)}
    BY <1>5 DEF Wait, RetireAtOnce, SpliceRetired, JoinStale, RetireAfterJoin, RetireSection,
       ExitThread, WaitTimesOut, NextSlice, lists
  <2>2. \E v \in Workers :
          /\ wpc[v] # "running"
          /\ \E place \in {"idle", "retired", "joining", "none", "exited", "timedout"} :
               wpc' = [wpc EXCEPT ![v] = place]
    <3>1. CASE JoinStale(w)
      <4>1. PICK v \in stale[w] : wpc[v] = "exited" /\ wpc' = [wpc EXCEPT ![v] = "none"]
        BY <3>1 DEF JoinStale
      <4>2. v \in Workers
        BY <4>1 DEF TypeInv
      <4> QED BY <4>1, <4>2
    <3>2. CASE ~JoinStale(w)
      <4>1. wpc[w] # "running"
        BY <1>5, <3>2 DEF Wait, RetireAtOnce, Leaves, SpliceRetired, RetireAfterJoin,
           ExitThread, WaitTimesOut, NextSlice, Awake
      <4>2. \E place \in {"idle", "retired", "joining", "exited", "timedout"} :
              wpc' = [wpc EXCEPT ![w] = place]
        BY <1>5, <3>2 DEF Wait, RetireAtOnce, SpliceRetired, RetireAfterJoin, RetireSection,
           ExitThread, WaitTimesOut, NextSlice
      <4> QED BY <4>1, <4>2
    <3> QED BY <3>1, <3>2
  <2>3. RunsIn(wpc') = RunsIn(wpc)
    BY <1>0, <2>2 DEF RunsIn
  <2> QED BY <1>1, <2>1, <2>3
<1>6. CASE Close \/ BeginDestroy
  <2>1. UNCHANGED <<queue, job, finished>> /\ call' \in {call, WakeCalls(call)} /\ closed' = TRUE
    BY <1>6 DEF Close, BeginDestroy, CloseSection, lists
  <2>2. RunsIn(wpc') = RunsIn(wpc)
    BY <1>0, <1>6 DEF Close, BeginDestroy, CloseSection, BroadcastTask, RunsIn
  <2> QED BY <1>1, <2>1, <2>2
<1>7. CASE DestroyStep
  <2>1. /\ UNCHANGED <<queue, job, finished, call, closed>>
    BY <1>7 DEF DestroyStep, DestroyWait, DestroyDrained, DestroyJoin, DestroyFree, lists
  <2>2. RunsIn(wpc') = RunsIn(wpc)
    BY <1>0, <1>7 DEF DestroyStep, DestroyWait, DestroyDrained, DestroyJoin, DestroyFree, RunsIn
  <2> QED BY <1>1, <2>1, <2>2
<1>8. CASE SpuriousWakeup
  <2>1. UNCHANGED <<queue, job, finished, closed>>
    BY <1>8 DEF SpuriousWakeup, lists
  <2>2. \A t \in Tasks : call[t] = "accepted" => call'[t] = "accepted"
    BY <1>0, <1>8 DEF SpuriousWakeup
  <2>3. RunsIn(wpc') = RunsIn(wpc)
    BY <1>0, <1>8 DEF SpuriousWakeup, RunsIn
  <2>4. OnceInv' /\ Running' = Running
    BY <2>1, <2>2, <2>3, QuietStep
  <2> QED BY <2>1, <2>4 DEF Order!vars
<1>9. CASE UNCHANGED vars
  <2>1. UNCHANGED <<queue, job, finished, call, closed, wpc>>
    BY <1>9 DEF vars
  <2> QED BY <1>1, <2>1
<1> QED BY <1>2, <1>3, <1>4, <1>5, <1>6, <1>7, <1>8, <1>9 DEF Next, WorkerStep, Terminated

LEMMA OnceInit == Init => OnceInv
<1> SUFFICES ASSUME Init PROVE OnceInv
  OBVIOUS
<1>1. queue = <<>> /\ finished = {} /\ \A w \in Workers : wpc[w] = "none"
  BY DEF Init
<1>2. Queued = {} /\ Running = {} /\ RunsIn(wpc) = {} /\ Len(queue) = 0
  BY <1>1 DEF Queued, Running, RunsIn
<1> QED BY <1>1, <1>2 DEF OnceInv, OnlyAccepted, QueuedOnce, QueuedNotRunning, RunOnce

LEMMA OnceInvariant == Spec => []OnceInv
<1>1. CountInv /\ OnceInv /\ [Next]_vars => OnceInv'
  BY OrderStep DEF CountInv
<1> QED BY <1>1, OnceInit, CountInvariant, PTL DEF Spec

\* In every configuration the pool starts each accepted task once, oldest first, and
\* accepts none after the close (thpool.c:146-158, :232-237).
THEOREM PoolKeepsOrder == Spec => ImplementsOrder
<1>1. Init => Order!Init
  BY DEF Init, Order!Init, Running
<1>2. CountInv /\ OnceInv /\ [Next]_vars => [Order!Next]_(Order!vars)
  BY OrderStep DEF CountInv
<1> QED BY <1>1, <1>2, CountInvariant, OnceInvariant, PTL DEF Spec, ImplementsOrder, Order!Spec

-----------------------------------------------------------------------------
(* The release. *)

\* Apart from DestroyFree, no step frees the pool, and none brings it back.
LEMMA OnlyDestroyFrees ==
  ASSUME TypeInv, [Next]_vars, ~DestroyFree
  PROVE  (destroy = "freed")' = (destroy = "freed")
<1>1. \A d \in DestroyPCs : /\ (WakeDestroyer(d) = "freed") = (d = "freed")
                            /\ WakeDestroyer(d) \in DestroyPCs
  BY DEF WakeDestroyer, DestroyPCs
<1>2. destroy \in DestroyPCs
  BY DEF TypeInv
<1>3. \/ destroy' \in {destroy, WakeDestroyer(destroy), WakeDestroyer(WakeDestroyer(destroy))}
      \/ destroy # "freed" /\ destroy' # "freed"
  BY DEF Next, vars, Submit, Resume, TrySubmit, RejectClosed, RejectOverload, Block,
     AcceptNoSpawn, AcceptSpawn, SpawnNoMemory, SpawnNoThread, WorkerStep, TakeTask, Wait,
     RetireAtOnce, SpliceRetired, JoinStale, RetireAfterJoin, RetireSection, FinishTask,
     ExitThread, WaitTimesOut, NextSlice, Close, BeginDestroy, DestroyStep, DestroyWait, DestroyDrained,
     DestroyJoin, SpuriousWakeup, Terminated
<1> QED BY <1>1, <1>2, <1>3

\* The pool keeps every promise of the service, its release included, provided that
\* workers do not time out or their number is unlimited.
THEOREM PoolImplementsService ==
  ASSUME NoRetireWindow
  PROVE  Spec => ImplementsService
<1>1. Init => Service!Init
  BY DEF Init, Service!Init, Running
<1>2. CountInv /\ DrainedInv /\ ServerInv /\ OnceInv /\ [Next]_vars =>
        [Service!Next]_(Service!vars)
  <2> SUFFICES ASSUME CountInv, DrainedInv, ServerInv, OnceInv, [Next]_vars
               PROVE  [Service!Next]_(Service!vars)
    OBVIOUS
  <2>1. CASE DestroyFree
    <3>1. /\ destroy = "joining" /\ destroy' = "freed"
          /\ UNCHANGED <<queue, wpc, job, finished, closed>>
      BY <2>1 DEF DestroyFree, lists
    <3>2. closed /\ \A w \in Workers : wpc[w] \notin LivePCs
      BY <3>1 DEF DrainedInv, CountInv, WorkerInv, LiveIn
    <3>3. queue = <<>> /\ Running = {}
      BY <3>2 DEF ServerInv, ServersIn, ComesBack, Awake, LivePCs, Running
    <3>4. Running' = Running
      BY <3>1 DEF Running
    <3> QED BY <3>1, <3>2, <3>3, <3>4 DEF Service!Release, Service!Next
  <2>2. CASE ~DestroyFree
    <3>1. (destroy = "freed")' = (destroy = "freed")
      BY <2>2, OnlyDestroyFrees DEF CountInv
    <3>2. [Order!Next]_(Order!vars)
      BY OrderStep DEF CountInv
    <3>3. ASSUME NEW t \in Tasks, Order!Accept(t) PROVE Service!Accept(t)
      BY <3>1, <3>3 DEF Order!Accept, Service!Accept, Order!Pending, Service!Pending
    <3>4. ASSUME NEW t \in Tasks, Order!Finish(t) PROVE Service!Finish(t)
      BY <3>1, <3>4 DEF Order!Finish, Service!Finish
    <3>5. Order!Start => Service!Start
      BY <3>1 DEF Order!Start, Service!Start
    <3>6. Order!Close => Service!Close
      BY <3>1 DEF Order!Close, Service!Close
    <3>7. ~Order!Release
      BY DEF Order!Release
    <3>8. UNCHANGED Order!vars => UNCHANGED Service!vars
      BY <3>1 DEF Order!vars, Service!vars
    <3> QED BY <3>2, <3>3, <3>4, <3>5, <3>6, <3>7, <3>8 DEF Order!Next, Service!Next
  <2> QED BY <2>1, <2>2
<1> QED BY <1>1, <1>2, CountInvariant, DrainedInvariant, ServerInvariant, OnceInvariant, PTL
        DEF Spec, ImplementsService, Service!Spec
=============================================================================
