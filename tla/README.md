# A formal model of coter

coter is a C library of threads, locks, queues, containers, encodings and a
command-line parser. This directory holds TLA+ modules that model its concurrent
core and its sequential components, configurations with which TLC checks them on small instances, and theorems
about them that TLAPS checks for every instance. `PROJECT.json` lists the runs,
which definition models which lines, the hazards of the code and what covers
each of them.

## 1. The system

| component | state | operations | hard behaviour | what makes it correct | module |
|---|---|---|---|---|---|
| thread pool, `thread/src/thpool.c` | task queue, live and retired workers, four counters, `closed_`, a lock, two conditions | submit, close, destroy; workers that start on demand, time out, retire and join each other | wakeups, a lock given up half way, who joins whom, destroy against everybody | tasks run once, in order, all of them before destroy returns; nothing uses a freed pool | `ThPool` |
| message queue, `sync/src/msgqueue.c`, `container/src/queue.c` | ring, close flag, a lock, two conditions | push, pop, their `try_` and `_for` forms, close, destroy | one signal per element, timeouts, close against sleepers, the wrap of the ring | a bounded FIFO; nobody sleeps beside work | `MsgQueue` |
| job pool, `thread/src/jobpool.c` | a message queue and a list of workers | create, three submits, destroy | creation that fails half way, destroy with jobs running or blocked | jobs run once and in order; the queue outlives its users | `JobPool` |
| condition variable, `sync/src/cond.c` | the platform's | wait, timed wait, signal, broadcast | spurious wakeups, waits in slices | a waiter sees what was signaled | in the above |
| shutdown token, `sync/src/shutdown_signal.c` | an atomic flag, a deadline, a lock, a condition, a callback | cancel, wait, poll, destroy | the flag is set outside the lock; two deadlines | no cancellation is missed, every waiter leaves with the truth, and it is known who may destroy | `ShutdownToken` |
| reference count, `sync/src/ref.c` | one 32-bit word | get, get unless zero, put, put with lock | several steps per operation; the word is repaired after it was damaged | one release; a poisoned count stays poisoned | `RefCount` |
| read-write lock, `sync/src/rwlock.c` (fallback) | state, waiting writers, two conditions | lock, try, unlock, both ways | writer preference, who is woken, waits that fail | exclusion; nobody sleeps without a cause | `RwLock` |
| publish/subscribe, `sync/src/pubsub.c` | subscriber array under a read-write lock | subscribe, unsubscribe, publish | subscribers run under the lock and may call the bus | a publish calls each subscriber of the list it found once; only reentry stops the bus | `PubSub` |
| event, wait group, semaphore, `sync/src/event.c`, `waitgroup.c`, `sem.c` | a counter, a lock, a condition | signal, reset, wait, add, post and their timed forms | a condition that changes back before the waiter looks, a timeout beside a signal | nobody sleeps beside what would let it go | `Event`, `WaitGroup`, `Semaphore` |
| containers, `container/src` | cells, links, sizes, capacities | push, pop, insert, remove, splice, meld, grow, shrink | wrap, growth that fails, links with two meanings | hold what was put in and not taken out, in order | `Vector`, `LinkedList`, `PairingHeap`, `PQueue`, `RingBuffer` |
| bytes, `bytes/src` | storage, cursors, byte order, overflow flag | put, take, get, set, peek, seek, compact, views; ring and message buffers | bounds, wrap, byte and word order on two kinds of host | bounds hold; what is put is read back, and laid out as the order says | `Bytes`, `RingBuffer` |
| encodings, `encoding` | the streaming encoder's three bytes | base64, hex, packed decimal, byte orders | chunks, padding, outputs without room | decoding inverts encoding | `Encodings`, `Bytes` |
| hashes, `crypto/src` | buffer, bit count, chaining state | init, update, final | chunks against blocks, the carry of the count, padding | a digest is made of the padded message, however it was cut | `Digest` |
| option parser, `opt/src/opt.c` | argv and two indices | next option, next word | options move before skipped words, clusters | what is returned is what the line says | `OptParser` |
| core, `core/src` | | calendar, reversed copies; clocks, files, random numbers, text | ends of months and cycles, overlaps | days add up; reversed is reversed | `DateTime`, `Encodings`, in part |
| thread, once, tls, atomics, test support | | wrappers of the platform | | | not modelled |

The pools call the lock, the conditions and the thread functions; the job pool is
built on the message queue, which is built on the ring of the containers; the
thread pool has its own list of tasks. `pubsub` is built on the read-write lock
and the array. The shutdown token, the reference count and the others stand alone.

## 2. Modules

    TaskService  <--implements--  ThPool   <-- MCThPool, ThPoolProofs
    BoundedFifo  <--implements--  MsgQueue <-- MCMsgQueue, MsgQueueProofs
    TaskService  <--implements--  JobPool (extends MsgQueue) <-- MCJobPool,
                                               JobPoolProofs (extends MsgQueueProofs)
                                  RefCount <-- MCRefCount, RefCountProofs
                             ShutdownToken <-- MCShutdownToken, ShutdownTokenProofs
         CondVar <-- RwLock <-- PubSub
         RwLock, Event, WaitGroup, Semaphore  <-- SyncWaits
         SyncWaits, PubSub                    <-- SyncProofs
         Vector, LinkedList, RingBuffer, PQueue, PairingHeap
                                              <-- Containers
         Encodings, Digest                    <-- Codecs
         Containers, DateTime, Bytes          <-- LibraryProofs
         OptParser, Codecs                    <-- TextProofs (extends LibraryProofs)
         SyncWaits, PubSub, Containers, Bytes, Codecs, OptParser, DateTime
                                              <-- MCLibrary

- **TaskService** says what a pool promises: tasks are accepted while it is open,
  started in order and once each, and the pool is released when nothing is left.
  Its constant `Discards` is the one difference between the pools: whether a close
  drops the tasks that have not started.
- **BoundedFifo** says what a message queue promises.
- **ThPool** is `thpool.c`. `queue`, `live`, `retired` and the counters are the
  fields of `struct ct_thpool`; `call[t]`, `wpc[w]` and `destroy` are the program
  counters of the three kinds of thread. An idle worker waits with a deadline, through
  `ct_cond_wait_for`. The variable `sliced`, chosen at the start and never changed, says
  whether the build cuts such a wait into slices; one run covers both kinds of build. Where it
  does, a worker whose slice has ended either goes on in its loop, its deadline having passed, or
  waits again (`NextSlice`) without a look at the queue.
- **MsgQueue** is `msgqueue.c`, with the ring (`all`, `head`, `tail`, `size`) and the
  timed wait. Push and pop are mirror images and share their actions: `Items` are
  the pushing threads with their elements, `Consumers` the popping ones.
- **JobPool** is `jobpool.c`: it conjoins the actions of `MsgQueue` with the loop of
  the workers and with the creation and destruction by the owner.

- **RefCount** is `ref.c`, one action per atomic access. Around the counter it puts the
  use that `ref.h` describes: owners pass references on (`Get`), a lookup finds the
  object in a table under a lock (`Lookup`, `Load`, `CasGet`), and either of the two puts
  drops a reference and may release the object. `value` is the word; `poisoned`,
  `releases` and `held` (the references that exist) are history the code does not keep.
  `MisuseSpec` adds gets and puts of references that nobody owns.

- **ShutdownToken** is the token of `shutdown_signal.c`: `cancelled` and `deadline` are its
  atomic fields, `limit`, `span` and `until` the local deadlines of each wait, and the
  clock is a variable that advances between any two looks at it.

- **CondVar** holds what the small synchronization components share: a signal to one
  thread of a wait set, and a broadcast.
- **RwLock** is the fallback of `rwlock.c`: `state`, `waiting_writers`, and the place
  `rw[c]` of every activation of the lock. **PubSub** extends it: a call of the bus is an
  activation `<<thread, 1>>`, and a call made by a subscriber that runs inside it is
  `<<thread, 2>>`. `list` and `seen` in a call are history: the list the publisher found, and
  whom it has called.
- **Event**, **WaitGroup** and **Semaphore** are `event.c`, `waitgroup.c` and the version of
  `sem.c` over a mutex and a condition. **SyncWaits** states what these and the lock promise
  alike, that nobody sleeps without a cause.
- **PQueue** (a 4-ary heap in an array), **PairingHeap** (its links `child`, `left`, `right`),
  **Vector** (with the array that shares its helpers), **LinkedList**, **RingBuffer** (with the
  queue and the stack) keep the fields of the code, and beside them, as history, what
  a caller believes the container holds. Realloc may fail where the code calls it.
  The sifts of the one heap and the two passes of the other are loops: each has an operator for
  one turn (`Raised`, `Sunk`, `PairMelded`, `ChainMelded`) and a recursive function of the
  number of turns. **Containers** states what those that keep an order promise alike, and what
  the heaps do.
- **Bytes**: an integer is a tuple of its bytes, the most significant first, so widths up to 8
  bytes need no arithmetic; `byHost` is the byte order of the build.
- **Encodings**: the streaming base64 encoder is a state machine, the other conversions
  are operators. **Digest**: md5 and sha1 side by side; a block that is transformed is
  remembered, not computed with. Its sizes are scaled (a block of 4 bytes instead of 64, of
  which 2 instead of 8 hold the count, in words modulo 64 instead of 2^32), which keeps
  every case: the count wraps its first word, and the padding needs a block more or not.
  The index of `ct_sha1_update`, a `uint32_t`, is scaled too (`DgIndex`): an update whose
  loop does not end (`Sha1Returns`) is not taken.
  **Codecs** states what is wanted of both.
- **OptParser**: a token of argv is a record of its kind. The scanner permutes argv; a
  second cursor, `optLine`, reads the line as it was given and moves nothing.
- **DateTime**: the calendar, against a count of days by years and months.

### Grain of atomicity

All fields of a pool or queue are accessed with its lock held, so one critical
section, from the lock or from the return of a wait to the next unlock or wait, is
one action; no other thread can see the states in between. Between two sections
of a thread every other thread can act. A condition wait takes part in two
actions: the one that enters the wait set, and a later one, when the thread has
left the set and has the lock again. A signal moves one thread of the set to
"woken", any one; a broadcast all; a spurious wakeup and a timeout move one
without a signal. Joins and frees, done without the lock, are steps of their own.

`ref.c` has no lock of its own: there an action is one atomic access, with the
branches that follow it up to the next access. A weak compare-and-swap may fail
without a reason. The store of `refcount_saturate` is a step of its own, after the
addition that made it necessary.

The loop of `ct_shutdown_token_wait` looks at a flag that is set without the lock, and at
the clock. Each look is an action. A look that reads the flag and then the clock is one
action: both only ever move towards "done", so its outcome is that of reading both at
the later moment.

Elsewhere time is abstract: a wait with a deadline may end at any moment, or not at all.
Arguments that are checked and refused before any state is touched (NULL, a
missing routine), the texts of errors and the failures of `malloc` that return at
once are left out, except where state has been changed first
(`SpawnNoThread`, `CreateFails`). Capacities are mathematical naturals: the
counters are bounded by the threads and tasks that exist. The word of `RefCount`
keeps its width: it wraps at `Modulus`, and `RefMax` and `Saturated` divide it as
`REFCOUNT_MAX` and `REFCOUNT_SATURATED` do; the assumption is the gap between the
ranges, which has to exceed the number of threads.

An operator `X_Fault` next to `X` is a faulty variant of `X`, for the check that each
property can fail; no other definition uses one.

## 3. Runs

| run | instance | states | shows |
|---|---|---|---|
| `thpool_core` | 5 tasks, one of them submitted by another, 2 workers, queue of 1, blocking, no idle timeout | 29271 | `CountersAgree`, `BlockedJustified`, `DestroyerJustified`, `FreedUnused`; the pool implements `TaskService` |
| `thpool_reap` | 5 tasks, capacity 2, 5 worker nodes, queue of 2, refusing when full, idle timeout, whole and sliced waits | 11460 | `UnjoinedOwnedOnce`, `RetiredBounded`, `UnjoinedBounded`; the order of tasks |
| `thpool_live` | 3 tasks, one of them submitted by another, unlimited workers, queue of 1, blocking, idle timeout, whole and sliced waits | 19305 | `IdleJustified`, `ServerForQueue`, `DestroyAfterAllTasks`; accepted tasks finish, submit and destroy return |
| `thpool_lost` | 3 tasks, capacity 1, unlimited queue, idle timeout | - | violation of `DestroyAfterAllTasks`, see section 5 |
| `msgqueue` | 3 pushes, 2 consumers, ring of 2, every kind of call | 72776 | `SleepersServed`; the ring implements `BoundedFifo`; elements reach consumers, a close releases everybody |
| `msgqueue_sliced` | the same with sliced waits | - | violation of `ConsumersServed`, see section 5 |
| `jobpool` | 3 jobs, one of them submitted by another, 2 workers, queue of 1, sliced waits | 7013 | `FreedQueueUnused`; the pool implements the discarding `TaskService`; queued jobs finish, destroy returns |
| `refcount` | 3 threads with 2 references each, 4-bit word, at most 3 valid references | 293129 | `CountExact`, `PoisonSticks`, `ReleasedUnowned`, `LastPutReleases` |
| `shutdown` | 2 waiters, 2 cancellers, timeouts of none, 0, 1 and the maximum, a clock up to 2 | 149369 | `CancelReachesSleepers`, `WaitTellsTruth`, `DestroyedUnused`; every wait returns |
| `refcount_misuse` | 4 threads, 5-bit word, gets and puts on a dead counter | - | violation of `ReleasedOnce`, see section 5 |
| `library` | the small components, see below | 645113 | `WaitersJustified`, `DeliveredToSubscribers`, `StuckOnlyByReentry`, `SequencesIntact`, `HeapsIntact`, `BytesIntact`, `EncodingsInvert`, `OptionsAsGiven`, `ShiftsAddUp` |
| `pqueue` | up to 8 elements of 3 priorities | - | violation of `PopsHighestPriority`, see section 5 |

The run `library` instantiates the components that stand alone in one module: the variable
`focus` chooses one of them, whose steps are taken while the others rest, so the state
space is the sum of theirs and not the product. Its bounds: the lock and the bus have 2
threads with one level of reentry (4 activations), 2 event types, 2 subscribers and a list
of 2; the event, wait group and semaphore have 3 waiting threads and counters up to 3; the
priority queue has 6 elements, which gives its 4-ary heap a second level; the pairing heap
has 4 nodes in 2 heaps, enough for two passes over three children; the vector a
limit of 4 cells below the size asked for; rings of 1, 2 and 4 bytes are written 3 at a
time; the byte buffer has 5 bytes, integers of 1, 2 and 4 bytes and 3
calls after any initial length; base64 is fed up to 5 bytes in any chunks with room for 0,
1 or 3 groups; digests take up to 20 bytes, five blocks, and the index
of sha1 wraps at 16, so that single updates of 16 bytes or more can be those that do not
return; command lines have up to 3 of 15
kinds of token; dates around the ends of months, years, centuries and cycles are shifted 3
times by 16 distances. `CHECK_DEADLOCK FALSE` stands for the bounds on calls, and for the
bus, which can stand still when a subscriber calls it (that is what
`StuckOnlyByReentry` is about).

Why the bounds of the other runs are enough to meet the interesting cases: one queue slot with
two or more submitters gives blocked submitters that compete for it; two workers
are needed for a wakeup that goes to the wrong one, for a worker that joins
another, and for a task that submits while a colleague empties the queue; five
worker nodes let a node be retired, joined and used again while two more workers
are joining; a ring of two slots and three elements wraps; six possible references against
a maximum of three overflow the counter, with three threads in the gap at once. Bounds: `Tasks` and
`Items` (each is submitted once), `Workers` (nodes that can exist at a time; with
`Capacity` = 0 the number of nodes is the limit of memory, and a submit that finds
none takes `SpawnNoMemory`), `Consumers`, `Max`.

Symmetry is used in the runs without liveness, and only for sets whose elements
no definition tells apart.

### Fairness

The run `library` checks safety only: that the threads of the small components get on is
stated as an invariant, that nobody sleeps without somebody who will wake him.

Weak fairness is assumed of every step that the code takes as soon as its thread
gets the processor and the lock: coming back from a wait that has ended, taking a
task, retiring, the join of a thread that has ended, the steps of destroy. The
routines of tasks are assumed to return. Nothing is assumed of new calls, of the
timeouts of waits that are one wait in `ThPool` and `MsgQueue`, or of spurious wakeups. Where
waits are cut into slices, in `JobPool` (a `submit_for`) and in `ThPool` (an idle worker), they
are assumed to reach their deadline: weak fairness of the end of a slice, strong fairness of
its being the last one, since a wait whose slices end again and again has a deadline that
is fixed, and the clock advances. A worker that a signal or a spurious wakeup takes
out of the wait starts the next one with a new deadline, but it has looked at the queue and at
`closed_` in between. The behaviours of `thpool_live` with whole waits make no use of this
assumption: there a worker may sleep for ever. In
`ShutdownToken` the clock goes on, and a thread that wants the lock gets it some time
(strong fairness, because others may take it again and again after spurious wakeups).
There the clock stops at `LastTick`, and from `LastDrift` on it stands still while a
waiter computes its sleep: a wait ends later by the time that passes there, and has to
end within the modelled time.

## 4. Proofs

A leaf that a prover finds only after a second or more names the prover and a limit
(`SMTT(60)`, `ZenonT(60)`), so that the proofs check on a slower machine too.

`RefCountProofs` proves all five invariants of the run `refcount` for any finite number of
threads and references and any width with the gap: `TypeCorrect`, `CounterExact`,
`PoisonIsFinal`, `ReleasedOnlyUnowned`, `LastPutNeverMissed`.

`ShutdownTokenProofs` proves the three invariants of the run `shutdown` for any number of
waiters and cancellers, all timeouts and any length of time: `NoCancelMissed`,
`WaitIsTruthful`, `DestroyIsSafe`.

`ThPoolProofs` proves for all finite sets of tasks and
workers, every nesting of tasks and, but for the two exceptions named below, every configuration
and both kinds of timed wait:

- `TypeCorrect`, `CountersCorrect`: the types, and that each counter equals what it counts;
- `NoTaskWakeupLost`, `NoSlotWakeupLost`, `NoDrainWakeupLost`: nobody sleeps while there
  is something to do for him; the first says so of builds whose
  idle waits are not cut into slices (`~sliced`: section 5);
- `ThreadsJoinedOnce`, `FreedPoolUnused`, `RetiredThreadsBounded`, `UnjoinedThreadsBounded`;
- `PoolKeepsOrder`: the pool implements `TaskService` without its release;
- under `NoRetireWindow` (no idle timeout, or no limit on the workers):
  `QueuedTaskHasServer`, `DestroyDrainsPool`, and `PoolImplementsService`, the refinement
  with the release.

The assumptions are those of `ThPool` and the finiteness of the two sets; the last three
theorems need `NoRetireWindow`, and `thpool_lost` shows that they do. `QueuedTaskHasServer`
names the places from which a worker comes back to the queue (`ComesBack`): awake or running,
and, with sliced waits, also asleep until its deadline. Where waits are whole a sleeper does
not count.

The argument. `CountersAgree` is not inductive: a counter stays right when a worker
comes back from a wait only if the workers that are counted as waiting are those
whose program counter says so, and the queue keeps its limit only if the section
that appends tests it. `CountInv` conjoins the types and what each counter counts
(`QueueInv`, `BlockedInv`, `WorkerInv`); on it rest the invariants that say for each condition
variable why a thread may sleep on it. The one for `task_cond_` is `IdleInv`: in a build with
whole waits, while a worker is idle the awake workers are at least as
many as the tasks. It is preserved by submit because a signal turns an idle worker
into an awake one, and by the workers because one that goes to sleep has seen the
queue empty. The proofs go through the actions of `Next` one by one, with lemmas
about cardinalities when one thread changes its program counter.

For destroy, the invariant adds the ownership of retired threads, that every
accepted task is queued, running or finished, and that a worker which is joining
others (and will not look at the queue again) can be the only worker only if the
queue is empty. The last is where `NoRetireWindow` enters.

The threads that are gone and not joined are bounded by 1 + 2 + ... + `Capacity`. The list
that the k-th retiring worker takes over holds at most `Capacity` - k + 1 of them, but joins
end in any order, and a worker can take the list again while others are still busy with
theirs. The invariant `StaleInv` therefore speaks of every set of retiring workers, not of all of
them together: any k of their lists hold at most `Capacity` + ... + (`Capacity` - k + 1)
threads. When a worker takes the list only the sets with that worker are new, and each is
one list more (`OneMoreList`); when one leaves or a thread is joined, every set that is left was there
before. The bound is written as 2n <= k(2c - k + 1), so that no sum is needed.

For the refinement, `OnceInv` keeps apart where a task can be: what is queued, runs or has
run was accepted, no task is queued twice or while it runs, and no two workers run the
same one. With it, every step is a step of the service or none (`OrderStep`); that
`DestroyFree` is the release follows from the invariants of destroy.

For the counter, the invariant says how far it can be off: a poisoned value is moved
by at most one per thread that is about to poison it again (`PoisonedApart`), which is
where the gap is needed; the first thread that leaves the valid range is a get, so it
keeps a reference until it has poisoned the counter (`FirstPoisonerOwns`), which is why
nobody can release the object in the meantime. The steps are sorted by what they do to
the counter (`Gains`, `Loses`, `Looks`, `Repairs`), and the invariant is preserved by each kind.

For the token, a waiter relies on a broadcast from the moment of its test, not only
when it sleeps; the invariant (`SleepersExpected`) says so, and the broadcast cannot come
before the sleep because it takes the lock that the waiter has since before its test.

`MsgQueueProofs` proves, for any capacity:

- `NoTransferWakeupLost`: `SleepersServed` for any finite number of producers and consumers,
  under the assumption that timed waits are not cut into slices, which `msgqueue_sliced`
  shows to be needed;
- `RingImplementsFifo`: the ring and its callers implement `BoundedFifo`, for any sets of
  threads and with both kinds of timed wait.

For the first, `SleepersServed` is inductive with the types and with "nobody sleeps in a
closed queue"; the lemmas say what a signal, a return and a wakeup do to one side
of the queue, given as a set of threads and a demand, and are used for both sides. For the
second, the invariant `FifoInv` says that `tail` is `size` slots after `head`, around
the ring, and that a push still in its call has its element neither in the ring nor among
those handed out. `Cell` replaces the remainder in `Contents` by one subtraction
(`CellIsSlot`); `PushAppends` and `PopTakesHead` then say what the two operations of
the ring do to the sequence that it stands for.

`JobPoolProofs` proves, for any sets of jobs and workers, any capacity, every nesting of
jobs and both kinds of timed wait:

- `FreedQueueIsUnused`: after a destroy, and after a create that failed, no worker has a
  thread and no submit is in progress;
- `JobPoolImplementsService`: the pool implements `TaskService` with the discarding close.

Every step of the pool is a step of the queue or leaves it alone (`PoolStepsQueue`), so
`FifoInv` holds here too. `UnitInv` says that the list to join holds exactly the workers
with a thread; `CallerInv` says who can be in a call of the queue, and that a job's submit
keeps its worker, so an empty list leaves nobody. For the refinement, `DistinctInv` and
`RunInv` follow a job from the ring to the worker: a job in the ring was not handed out, one
that runs was, and runs once; a pop either moves the oldest job (`PopMaps`) or nothing.

`SyncProofs` proves, for any finite sets of threads, types and subscribers:

- `LockExcludes`, `LockSleepersJustified`: the fallback lock keeps writers alone, and
  nobody sleeps at it without a cause, with spurious wakeups and waits that fail;
- `BusUsesLock`: every step of the bus is a step of the lock or leaves it alone, so what
  holds of the lock holds in the bus; `ListHeldWhileWalked`: the list does not change
  under a publisher; `BusStopsOnlyByReentry`: if every call in progress is asleep or waits
  for its own subscriber, some thread sleeps for a lock that it holds itself;
- `PublisherDelivers`: a publisher has called the subscriptions of its type that it has
  passed, each once and in their order;
- `EventSignalKept`, `GroupReleasesAll`, `PermitsReachWaiters`: nobody sleeps beside a set
  event, a group at zero, or more permits than woken waiters; `NobodySleepsInVain` puts these
  and the lock's together.

The lock's invariant `RwInv` adds to the types that `waiting_writers_` counts the activations in
line as writers, asleep or awake (`LineCounted`), and that `state_` counts the readers or
stands for the one writer (`StateCounted`): from the counts follows whether there is
somebody left to wake. For the bus, `BusInv` gives the shape of the calls and `CallsPlaced` says
where at the lock a call in each stage can be; if nobody reentered, the sleepers' cause
(`RwSleepersJustified`) would be a holder of the lock, who is not asleep and not in a
subscriber, against the assumption that everybody stands still.

For `PublisherDelivers` the list that a call has found and the list of the bus are the same
while it walks (`ListHeldWhileWalked`). The invariant `SeenInv` says that the n-th delivery is the n-th
match: a delivery at place k has as many before it as there are matches up to k. One turn of
the loop adds a match at the end or nothing (`SeenOneMore`), and a call that has to wait
for the lock starts on the list it then finds.

`LibraryProofs` is about the sequential components, for any sequence of their calls:

- `ListLinked`: with any number of heads and nodes (the two sets disjoint, `LsAssumption`)
  every list is a ring of links in both directions through exactly its elements, in order;
- `VectorKeeps`: with any limit, any elements and failing allocations (`VcAssumption`) vector and array
  hold what was put in; the vector's elements are constructed and destroyed once each;
- `RingKeeps`: ring buffer, queue and stack of any positive capacity. `RbAssumption`
  is that capacity and request together fit in `size_t`; section 5 names the other case;
- `SequencesKept`: the property of the run, from the three;
- `PqueueKeeps`: with any elements and any room (`PqAssumption`: the elements are numbers) the
  priority queue holds, within its capacity, what was pushed and not popped, each element as
  often;
- `HeapLinked`: with any finite set of nodes and any number of heaps (`HpAssumption`, which also
  says that keys are integers) every pairing heap reaches exactly its nodes, counts them,
  links every node back to the one that leads to it, and puts none below a less urgent one;
- `HeapsKept`: the property of the run, from the two;
- `CalendarKept`: from valid dates and with any shifts (`DtAssumption`), as long as the year stays in 1..9999,
  `ct_datetime`'s arithmetic agrees with a count of days by years and months;
- `BytesKept`: buffers of any size of at least 2 bytes, any integers of 1, 2, 4 and 8 bytes and any strings
  (`ByAssumption`; 2 because a segment starts up to two bytes before the end).

The argument for the list: `LsInv` adds to the links that no element is in two places, so that the
two or four links an operation sets can be told from all others. Each operation is reduced
to one of three changes of the rings (a node goes in, a node goes out, a run of nodes
is moved), whatever the name under which the header offers it. For the vector, `Holds` says that the first
`size` cells are the history; growth, shifting and truncation are lemmas about cells, and
`Named` relates the living elements to those cells. For the ring, `RingHolds` gives the cell of each
place from the head (`Cell`); `CellsApart` shows that no two places share a cell and that
the free places start at the tail, and a write that is cut in two at the end of the
storage is the write of one run (`AppendedHolds`).

For the priority queue, `PqInv` counts copies. A sift moves a hole: the array with the sifted
value in the hole has the same copies before and after each turn (`Holes`), whichever child
the turn chooses, so the order it fails to keep (section 5) does not matter here.

For the pairing heap, the invariant `HpInv` says that there are parents, which the code does
not store, with which the nodes of each heap are a `Tree` from its root: `Forest` says that every
link back agrees with the links down and right and with the parents, that no node is
more urgent than its parent, and that no smaller set of nodes is closed under the links from its first node.
Without the parents this is not inductive: `left_` alone does not tell a parent from a sibling
when a node is taken out of the middle. An operation is then put together from four facts:
the tree of a node can be cut off the forest (`FirstCutOff`, `NodeTakenOut`), two trees meld into
one (`MeldMakesTree`), a turn of the first pass moves two trees to the chain and one of the
second moves one from the chain to the root (`PairTurn`, `ChainTurn`), and links changed
elsewhere leave a forest as it is (`ForestStays`). The loops are followed by the number of
turns: each takes a node out of what is left, so there are turns enough for all nodes. `TreeIsSeen`
goes from the parents back to `HeapIntact`, which follows the links.

The calendar's code counts in cycles of 400 years that start in March, the specification by years
and months. `EraYears` and the lemmas after it relate the two: the day of the cycle determines its year
by division, corrected by the leap days before it, and the month by (5d + 2) / 153. The
only non-linear terms are divisions by literals, which are replaced by the inequalities
that define them (`Quotients`). For the bytes, `WithinBounds` is inductive; that what was stored is
read back is a lemma about one state: conversion and its inverse cancel, and the order of the
bytes in memory is that of the code, for the four combinations of order and word swap
(for what the header says of the swap see section 5).

`TextProofs` is about what reads and writes bytes and words, again for any sequence of
calls:

- `ScannerReadsTheLine`: the option scanner, for any line, any options, both modes and any
  order of the calls (`OptAssumption`: a letter or name asks for an argument, allows one or
  takes none, and an element of the line is of one of the four kinds);
- `MovedIsReversed`: the reversed move of `strings.c`, for memories and regions of any size and
  every overlap of the two;
- `EncodingsKept`: the encodings and the digests. The message of a digest is of any length,
  each of its chunks such that `ct_sha1_update` returns: less than 2^32 bytes, and up to
  a block more when the buffer is partly filled (`Sha1Returns`, section 5). The same chunks
  are fed to md5, which has no such limit. `CdAssumption` says that what is
  fed and tried are bytes. `DgAssumption` says that the two words of the count are put down
  behind the padding in a block that has room for them, and that a word counts the bits of
  whole blocks, as 2^32 does with blocks of 512 bits. A word of the count stands in the
  block as one cell (`DgLen` = 2), so its bytes and their order are not part of the theorem.

For the scanner, `Follows` relates it to the reader of the line as given. From the reader's
place on no element has moved; between the scanner's place and the reader's lie the words
that were skipped, in their order. So the next option the scanner comes to is the one that
the reader sees, and moving it, with its argument, before those words (`Permuted`) leaves them
in their order.

For the streaming encoder, `Streamed` says that what was fed is whole groups, all of them
written, followed by what is left over. A call that has no room for its first group keeps the bytes
that complete it; one that fails after it has written groups, or with input unread, sets
`b64Lost`, and nothing is claimed until the next final. Decoding
one group inverts encoding it, digit by digit, for groups of three bytes and for
the two paddings; hex and packed decimals invert in the same way, with their divisions replaced
by the inequalities that define them. The parts of `CodecsInvert` that are not about what
was fed are proved over the ranges they name: decoders are given up to four
characters, and packed decimals all the numbers there are.

For the digests, `DgInv` says that a context holds the message: its blocks are the message's
(`Held`), the bytes behind them are in the buffer, and the count is the number of bits, in
two words (`Counts`). An update that ends in the buffer, fills it or goes on for
blocks keeps that, whichever way md5 and sha1 take (`HeldMore`, `HeldFull`, `HeldWhole`). The
padding of either is the least that leaves room for the count (`FreeIs`), with a block
more or not (`Md5Closes`, `Sha1Closes`); that of sha1 is fed byte by byte, which is an induction
over its length.

What TLC checks and the proofs do not cover is all liveness: fairness and ENABLED are
out of the prover's reach. The order in which the priority queue hands out its elements is the
subject of `PopsHighestPriority`, which does not hold. An induction over data is available only where it
can be done in first-order terms, by the least counterexample in Nat, as the proofs
about sequences here do.

## 5. Where the code does not keep what it says

**A task can be lost in a thread pool with a limit and an idle timeout**
(`thpool_lost`). "Destroy the pool after all accepted tasks have finished"
(`thpool.h:66`). A worker times out on an empty queue and enters
`thpool_worker_retire`. If `retired_head_` is not empty it gives up the lock to join
those threads (`thpool.c:258`) and is still counted in `live_count_`. A submit that
comes now finds the pool at its capacity and creates no worker; the task is accepted.
The worker then leaves without another look at the queue. Unless a later submit
starts a new worker the task stays, and `ct_thpool_destroy` frees the pool without
running it. Without an idle timeout a worker retires only when the pool is closed;
without a limit submit creates a worker: the two cases of `NoRetireWindow`.

**A timed wait in slices can miss its signal** (`msgqueue_sliced`).
"pop_for succeeds when producer arrives before timeout"
(`sync/test/msgqueue_test.cpp:162`). On builds that take the last branch of
`cond_timedwait` a long wait is a loop of waits of at most a second, and the loop is
inside `ct_cond_wait_for` (`cond.c:87`), so that the caller does not test its
condition between them. A push at that moment finds nobody in the wait set; the
consumer goes back to sleep beside the element, up to its deadline. For this reason
`SleepersServed` is not checked in `jobpool`, which models such a build.
The idle wait of the thread pool (`thpool.c:222`) is such a wait. A worker between two
slices is still counted in `waiting_count_`, so a submit that comes then hires nobody
(`thpool.c:152`), and its signal (`:158`) finds nobody: the task waits beside the sleeper,
as long as no other worker is awake, until the sleeper's idle timeout ends. The broadcast of a
close is missed in the same way, and destroy then waits for that deadline. `IdleJustified` is
therefore stated and proved for whole waits only, and `thpool_live` checks what is left:
the task finishes and destroy returns, because the deadline comes. A wait of at most a second,
the default, has one slice; longer idle timeouts have more.
The same holds of the timed waits of the event and the wait group; `Event` and `WaitGroup`
model the builds whose wait is one wait.

**A dead counter can be released again** (`refcount_misuse`). "Counters never wrap: invalid
operations move them into a permanent poisoned state" (`ref.h:5`), and "Only the thread that
gets `true` back may release the object" (`ref.h:94`). That holds above
the maximum (`PoisonIsFinal`), not at zero: `ct_refcount_inc` on a dead counter makes it 1
(`ref.c:141`) and poisons it later (`ref.c:147`). A put in between sees the count 1, returns
true, and its caller releases the object once more. Both calls are misuse; the header
claims protection against concurrent ones, with a gap above 0x7fffffff (`ref.h:38`) in which a
dead counter is not.

**The priority queue is not always popped in order** (`pqueue`). "Remove the highest-priority
element" (`pqueue.h:83`). `pqueue_sift_down` looks for the smallest child starting from the
cell of the hole (`pqueue.c:29-37`). After the first move that cell still holds the child
that moved up, not the value that is being sifted, and children between the two are passed
over: the value is put above them (`pqueue.c:39`). Pushing 1, 2, 10, 10, 10, 3, 4, 9 and
popping all shows it. No element is lost (`HeapsIntact` holds), only the order.

Smaller differences met on the way, which no run is about:

- `ct_pubsub_unsubscribe` removes every subscription of a type and function; the header
  says "Remove one subscription" (`pubsub.h:60`).
- `ct_list_is_first` and `ct_list_is_last` are exchanged: the first tests the link to the
  next node (`list.h:39-40`).
- `ct_bytes_find`: "Find byte in readable portion. Returns relative offset from pos, or -1 if
  not found" (`bytes.h:160`). The code subtracts `pos_ + offset` (`bytes.c:25`): with an offset
  other than 0 the result counts from where the search began. With the bytes 1 2 0 1, `pos_` = 0
  and offset 1 the search for 1 returns 2, and the byte at pos + 2 is 0. The tests search with an
  offset only where nothing is found, and agree with both. `Find` and `BytesIntact` say what the
  code does.
- `hlswap_` is a "High-low 16-bit word swap for 32/64-bit values" (`bytes.h:26`; `bytes.h:18`:
  "high-low word swap"). The code exchanges the two bytes of each 16-bit word and leaves the
  words where they are (`bytes.c:152`, whose helper is documented so, `binary.h:68`): 0xAABBCCDD
  in big endian becomes BB AA DD CC, where an exchange of the words gives CC DD AA BB. The tests
  (`bytes_test.cpp:304`) expect the first, as do `Wire` and `BytesIntact`.
- `ct_bytes_compact` clears the overflow flag when everything has been read, and only then.
- `ct_rbuf_write` and `ct_rbuf_commit` add the request to the length before they compare, and
  the sum wraps for requests near `SIZE_MAX`.
- `ct_base64_encoder_update` returns 0 for lack of room also after it has consumed input and
  written groups (`base64.c:66`); the streaming property excepts those calls.
- `ct_hex_encode` writes no terminator when its output is full; its text can then not be given
  to `ct_hex_decode` with the length 0, which stands for `strlen` (`hex.c:45`).
- `ct_sha1_update` keeps its index in a `uint32_t` (`sha1.c:178`), against a length in a
  `size_t`. In one update of 2^32 bytes or more (a little more when the buffer is partly
  filled) the index wraps before the loop (`sha1.c:187`) ends, and the call does not return.
  `Sha1Returns` is the exact condition; nothing is claimed of such a call.

## 6. Not modelled

- The Windows branches: the same algorithms on other primitives.
- `ct_msgqueue_is_empty`, `_is_full`, `_size` and `ct_jobpool_pending`: they read one
  field under the lock and their result is stale when it is used.
- Two concurrent calls of a destroy, a submit by an application thread after the
  destroy has begun, and a destroy by a task: the headers forbid them or leave them
  undefined.
- A shutdown token that is destroyed by a waiter as soon as its wait has returned: the
  canceller may not yet have taken the mutex for its broadcast (`shutdown_signal.c:71`), so
  "no thread may be waiting" (`shutdown_signal.h:76`) is not enough. The model lets the
  thread that cancelled destroy it, which is safe (`DestroyIsSafe`).
- The slices of a timed wait in `ShutdownToken`: they miss a broadcast as they miss a
  signal (section 5), and the wait then ends at its deadline.
- A failing lock, condition or join: `thpool.c` aborts or ignores the result.
- Memory orderings of the atomics; the transformation of a block in the digests; clocks, files,
  random numbers (arithmetic modulo 2^64), formatting, and the layout of help texts.
- Packed decimals of 32 and 64 bits, which do not fit TLC's integers. The batch forms of
  `binary.c` apply one modelled conversion to each element.
- Thread creation, once and thread-local storage as components of their own: they pass
  calls on to the platform. Creation, its failure and join are steps of the pools.
- A failing wait for the lock inside the bus, and more than INT_MAX publishers: the bus
  ignores the results of the lock, and would go on without it. `RwLock` itself models both.
- Subscribers that call the bus more than one level deep, and a vector insertion whose
  data is an element of the same vector (the growth may move it away).
- The macros that only read, and destroys that ask for an unused object.

## 7. What is left

Every component the code builds itself has a module, except those section 6 names, and every
invariant that a passing run checks is the subject of a theorem. What
a continuation could add:

- a digest whose words of the count are laid out byte by byte, in their two orders;
- a run of the event and the wait group on a build that cuts timed waits into slices.
