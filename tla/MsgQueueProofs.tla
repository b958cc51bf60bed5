--------------------------- MODULE MsgQueueProofs ---------------------------
(***************************************************************************)
(* Two results for every capacity and any number of threads.               *)
(*                                                                         *)
(* No wakeup of the message queue is lost: on each side of it, a thread    *)
(* sleeps only while those on their way are enough for what there is to    *)
(* take.  The argument looks at one side at a time, as a function from     *)
(* threads to places and a demand: the elements for the consumers, the     *)
(* free slots for the producers.                                           *)
(*                                                                         *)
(* The ring and its callers implement BoundedFifo.  The argument counts    *)
(* the slots from the head; what a push that is still in its call adds is  *)
(* new because each element is pushed once.                                *)
(***************************************************************************)
EXTENDS MsgQueue, FiniteSetTheorems, TLAPS

Places == {"out", "waiting", "woken", "expired"}

In(f, S, place) == {t \in S : f[t] = place}

\* While a thread of S sleeps, at least `demand' threads of S are on their way.
Enough(f, S, demand) ==
  In(f, S, "waiting") # {} => demand <= Cardinality(In(f, S, "woken"))

-----------------------------------------------------------------------------
(* What becomes of one side when a thread moves. *)

\* Of a finite side, the threads on their way are a number.
LEMMA AwakenedCount ==
  ASSUME NEW f, NEW S, IsFiniteSet(S)
  PROVE  IsFiniteSet(In(f, S, "woken")) /\ Cardinality(In(f, S, "woken")) \in Nat
<1>1. In(f, S, "woken") \in SUBSET S
  BY DEF In
<1> QED BY <1>1, FS_Subset, FS_CardinalityType

\* A thread that is woken, by a signal or not, leaves its side with enough, and a
\* thread of the side makes up for one more demand (ct_cond_signal).
LEMMA Woken ==
  ASSUME NEW f \in [Threads -> Places], NEW S \in SUBSET Threads, IsFiniteSet(S),
         NEW n \in Int, Enough(f, S, n), NEW t \in Threads, f[t] = "waiting",
         NEW g, g = [f EXCEPT ![t] = "woken"]
  PROVE  Enough(g, S, n) /\ (t \in S => Enough(g, S, n + 1))
<1>1. CASE t \in S
  <2>1. In(g, S, "woken") = In(f, S, "woken") \union {t} /\ t \notin In(f, S, "woken")
    BY <1>1 DEF In
  <2>2. Cardinality(In(g, S, "woken")) = Cardinality(In(f, S, "woken")) + 1
    BY <2>1, AwakenedCount, FS_AddElement
  <2>3. n <= Cardinality(In(f, S, "woken"))
    BY <1>1 DEF Enough, In
  <2> QED BY <2>2, <2>3, AwakenedCount DEF Enough
<1>2. CASE t \notin S
  <2>1. In(g, S, "woken") = In(f, S, "woken") /\ In(g, S, "waiting") = In(f, S, "waiting")
    BY <1>2 DEF In
  <2> QED BY <1>2, <2>1 DEF Enough
<1> QED BY <1>1, <1>2

\* A signal to the side pays for one more demand; one to others changes nothing here.
LEMMA SignalPays ==
  ASSUME NEW f \in [Threads -> Places], NEW S \in SUBSET Threads, IsFiniteSet(S),
         NEW n \in Int, Enough(f, S, n), NEW T \in SUBSET Threads, NEW g \in Signal(f, T)
  PROVE  /\ g \in [Threads -> Places]
         /\ Enough(g, S, n)
         /\ T = S => Enough(g, S, n + 1)
<1>1. CASE In(f, T, "waiting") = {}
  <2>1. g = f
    BY <1>1 DEF Signal, In
  <2> QED BY <1>1, <2>1 DEF Enough
<1>2. CASE In(f, T, "waiting") # {}
  <2>1. PICK t \in T : f[t] = "waiting" /\ g = [f EXCEPT ![t] = "woken"]
    BY <1>2 DEF Signal, In
  <2>2. g \in [Threads -> Places]
    BY <2>1 DEF Places
  <2> QED BY <2>1, <2>2, Woken
<1> QED BY <1>1, <1>2

\* One less of a demand is not more, and is met by one less of what met it.
LEMMA OneLess ==
  ASSUME NEW n \in Int, NEW c \in Nat, n <= c
  PROVE  n - 1 <= c /\ n - 1 <= c - 1
OBVIOUS

\* A removed element lowers the cardinality of a finite set by one.
LEMMA FiniteRemove ==
  ASSUME NEW S, IsFiniteSet(S), NEW x \in S
  PROVE  IsFiniteSet(S \ {x}) /\ Cardinality(S \ {x}) = Cardinality(S) - 1
BY FS_RemoveElement

\* A thread that was not on its way may return; one of the side that was, or that had
\* not slept at all, takes what it came for with it.
LEMMA Leaves ==
  ASSUME NEW f \in [Threads -> Places], NEW S \in SUBSET Threads, IsFiniteSet(S),
         NEW n \in Int, Enough(f, S, n), NEW t \in Threads,
         NEW place \in {"out", "expired"}, NEW g, g = [f EXCEPT ![t] = place]
  PROVE  /\ g \in [Threads -> Places]
         /\ t \notin S \/ f[t] # "woken" => Enough(g, S, n)
         /\ t \in S => Enough(g, S, n - 1)
<1>0. /\ IsFiniteSet(In(f, S, "woken"))
      /\ Cardinality(In(f, S, "woken")) \in Nat /\ Cardinality(In(g, S, "woken")) \in Nat
  BY AwakenedCount
<1>1. g \in [Threads -> Places] /\ In(g, S, "waiting") \subseteq In(f, S, "waiting")
  BY DEF Places, In
<1>2. CASE t \notin S \/ f[t] # "woken"
  <2>1. In(g, S, "woken") = In(f, S, "woken")
    BY <1>2 DEF In
  <2>2. Enough(g, S, n)
    BY <1>1, <2>1 DEF Enough
  <2>3. Enough(g, S, n - 1)
    BY <1>0, <2>2, OneLess DEF Enough
  <2> QED BY <1>1, <2>2, <2>3
<1>3. CASE t \in S /\ f[t] = "woken"
  <2>1. t \in In(f, S, "woken") /\ In(g, S, "woken") = In(f, S, "woken") \ {t}
    BY <1>3 DEF In
  <2>2. Cardinality(In(g, S, "woken")) = Cardinality(In(f, S, "woken")) - 1
    BY <1>0, <2>1, FiniteRemove
  <2>3. Enough(g, S, n - 1)
    BY <1>0, <1>1, <2>2, OneLess DEF Enough
  <2> QED BY <1>1, <1>3, <2>3
<1> QED BY <1>2, <1>3

\* Where there is nothing to take, any number of sleepers is right.
LEMMA NoDemand ==
  ASSUME NEW f, NEW S, IsFiniteSet(S)
  PROVE  Enough(f, S, 0)
BY AwakenedCount DEF Enough

-----------------------------------------------------------------------------
(* The queue. *)

MqServedInv ==
  /\ size \in Int /\ is_shut \in BOOLEAN /\ pc \in [Threads -> Places]
  /\ is_shut => In(pc, Threads, "waiting") = {}
  /\ Enough(pc, Consumers, size)
  /\ Enough(pc, Items, Max - size)

\* Neither side of the queue sleeps beside what it waits for, with one signal per
\* transfer (msgqueue.c:112-115), where the platform waits for the whole time at once.
THEOREM NoTransferWakeupLost ==
  ASSUME ~Sliced, IsFiniteSet(Items), IsFiniteSet(Consumers)
  PROVE  MqSpec => []SleepersServed
<1> USE MaxAssumption, ThreadsAssumption
<1>0. Items \in SUBSET Threads /\ Consumers \in SUBSET Threads
  BY DEF Threads
<1>1. MqInit => MqServedInv
  <2> SUFFICES ASSUME MqInit PROVE MqServedInv
    OBVIOUS
  <2>1. pc \in [Threads -> Places] /\ \A t \in Threads : pc[t] # "waiting"
    BY DEF MqInit, Places
  <2>2. \A S \in SUBSET Threads : In(pc, S, "waiting") = {}
    BY <2>1 DEF In
  <2>3. Enough(pc, Consumers, size) /\ Enough(pc, Items, Max - size)
    BY <1>0, <2>2 DEF Enough
  <2>4. size = 0 /\ is_shut = FALSE
    BY Zenon DEF MqInit
  <2>5. size \in Int
    BY <2>4
  <2>6. is_shut \in BOOLEAN
    BY <2>4, Zenon
  <2>7. In(pc, Threads, "waiting") = {}
    BY <2>2
  <2> QED BY <2>1, <2>3, <2>5, <2>6, <2>7, Zenon DEF MqServedInv
<1>2. MqServedInv /\ [MqNext]_mqVars => MqServedInv'
  <2> SUFFICES ASSUME MqServedInv, [MqNext]_mqVars PROVE MqServedInv'
    OBVIOUS
  <2> USE DEF MqServedInv
  <2>0. size \in Int /\ Max - size \in Int
    OBVIOUS
  <2>1. ASSUME NEW t \in Threads, NEW code, Return(t, code),
               pc[t] # "woken" \/ is_shut \/ MustWait(t)
        PROVE  MqServedInv'
    <3>1. pc' = [pc EXCEPT ![t] = "out"] /\ UNCHANGED <<size, is_shut>>
      BY <2>1 DEF Return, ring
    <3>2. /\ pc' \in [Threads -> Places]
          /\ In(pc', Threads, "waiting") \subseteq In(pc, Threads, "waiting")
      BY <3>1 DEF Places, In
    <3>3. CASE is_shut
      BY <3>1, <3>2, <3>3 DEF Enough, In, Threads
    <3>4. CASE ~is_shut
      <4>1. Enough(pc', Consumers, size)
        <5>1. CASE t \notin Consumers \/ pc[t] # "woken"
          BY <1>0, <2>0, <3>1, <5>1, Leaves
        <5>2. CASE t \in Consumers /\ size = 0
          BY <5>2, NoDemand
        <5> QED BY <2>1, <3>4, <5>1, <5>2 DEF MustWait
      <4>2. Enough(pc', Items, Max - size)
        <5>1. CASE t \notin Items \/ pc[t] # "woken"
          BY <1>0, <2>0, <3>1, <5>1, Leaves
        <5>2. CASE t \in Items /\ Max - size = 0
          BY <5>2, NoDemand
        <5> QED BY <2>1, <3>4, <5>1, <5>2 DEF MustWait
      <4> QED BY <3>1, <3>2, <3>4, <4>1, <4>2
    <3> QED BY <3>3, <3>4
  <2>2. ASSUME NEW t \in Threads, NEW isTimed, Sleep(t, isTimed), MustWait(t), ~is_shut
        PROVE  MqServedInv'
    <3>1. /\ pc' = [pc EXCEPT ![t] = "waiting"] /\ UNCHANGED <<size, is_shut>>
          /\ pc' \in [Threads -> Places]
      BY <2>2 DEF Sleep, ring, Places
    <3>2. Enough(pc', Consumers, size)
      <4>1. CASE t \in Consumers
        BY <2>2, <4>1, NoDemand DEF MustWait
      <4>2. CASE t \notin Consumers
        <5>1. /\ In(pc', Consumers, "waiting") = In(pc, Consumers, "waiting")
              /\ In(pc', Consumers, "woken") = In(pc, Consumers, "woken")
          BY <1>0, <3>1, <4>2 DEF In
        <5> QED BY <5>1 DEF Enough
      <4> QED BY <4>1, <4>2
    <3>3. Enough(pc', Items, Max - size)
      <4>1. CASE t \in Items
        <5>1. Max - size = 0
          BY <2>2, <4>1 DEF MustWait
        <5> QED BY <5>1, NoDemand
      <4>2. CASE t \notin Items
        <5>1. /\ In(pc', Items, "waiting") = In(pc, Items, "waiting")
              /\ In(pc', Items, "woken") = In(pc, Items, "woken")
          BY <1>0, <3>1, <4>2 DEF In
        <5> QED BY <5>1 DEF Enough
      <4> QED BY <4>1, <4>2
    <3> QED BY <2>2, <3>1, <3>2, <3>3
  <2>3. ASSUME NEW t \in Threads, Transfer(t), ~is_shut PROVE MqServedInv'
    <3> DEFINE f == [pc EXCEPT ![t] = "out"]
    <3> HIDE DEF f
    <3>0. /\ Peers(t) \in SUBSET Threads /\ pc' \in Signal(f, Peers(t))
          /\ f \in [Threads -> Places] /\ is_shut' = is_shut
      BY <1>0, <2>3 DEF Transfer, Peers, f, Places
    <3>1. CASE t \in Items
      <4>1. size' = size + 1 /\ Peers(t) = Consumers /\ t \notin Consumers
        BY <2>3, <3>1 DEF Transfer, Enqueue, Peers
      <4>2. Enough(f, Consumers, size)
        BY <1>0, <2>0, <4>1, Leaves DEF f
      <4>2a. Enough(f, Items, (Max - size) - 1)
        BY <1>0, <2>0, <3>1, Leaves DEF f
      <4>3. Enough(pc', Consumers, size + 1) /\ pc' \in [Threads -> Places]
        BY <1>0, <2>0, <3>0, <4>1, <4>2, SignalPays
      <4>4. Enough(pc', Items, (Max - size) - 1)
        BY <1>0, <2>0, <3>0, <4>2a, SignalPays
      <4>5. (Max - size) - 1 = Max - size'
        BY <4>1
      <4> QED BY <2>3, <3>0, <4>1, <4>3, <4>4, <4>5
    <3>2. CASE t \notin Items
      <4>1. size' = size - 1 /\ Peers(t) = Items /\ t \in Consumers
        BY <2>3, <3>2 DEF Transfer, Dequeue, Peers, Threads
      <4>2. Enough(f, Items, Max - size)
        BY <1>0, <2>0, <3>2, Leaves DEF f
      <4>2a. Enough(f, Consumers, size - 1)
        BY <1>0, <2>0, <4>1, Leaves DEF f
      <4>3. Enough(pc', Items, (Max - size) + 1) /\ pc' \in [Threads -> Places]
        BY <1>0, <2>0, <3>0, <4>1, <4>2, SignalPays
      <4>4. Enough(pc', Consumers, size - 1)
        BY <1>0, <2>0, <3>0, <4>2a, SignalPays
      <4>5. (Max - size) + 1 = Max - size'
        BY <4>1
      <4> QED BY <2>3, <3>0, <4>1, <4>3, <4>4, <4>5
    <3> QED BY <3>1, <3>2
  <2>4. ASSUME NEW t \in Threads, NEW mode \in Modes, Call(t, mode) PROVE MqServedInv'
    BY <2>1, <2>2, <2>3, <2>4 DEF Call, Refuse
  <2>5. ASSUME NEW t \in Threads, Proceed(t) PROVE MqServedInv'
    BY <2>1, <2>2, <2>3, <2>5 DEF Proceed, Recheck, GiveUp
  <2>6. ASSUME NEW t \in Threads, NEW to \in {"woken", "expired"}, LeaveWait(t, to)
        PROVE  MqServedInv'
    <3>1. /\ pc[t] = "waiting" /\ pc' = [pc EXCEPT ![t] = to] /\ UNCHANGED <<size, is_shut>>
          /\ pc' \in [Threads -> Places]
      BY <2>6 DEF LeaveWait, ring, Places
    <3>2. ~is_shut
      BY <3>1 DEF In
    <3>3. Enough(pc', Consumers, size) /\ Enough(pc', Items, Max - size)
      <4>1. CASE to = "woken"
        BY <1>0, <2>0, <3>1, <4>1, Woken
      <4>2. CASE to = "expired"
        <5>1. Enough(pc', Consumers, size)
          BY <1>0, <2>0, <3>1, <4>2, Leaves
        <5>2. Enough(pc', Items, Max - size)
          BY <1>0, <2>0, <3>1, <4>2, Leaves
        <5> QED BY <5>1, <5>2
      <4> QED BY <4>1, <4>2
    <3> QED BY <3>1, <3>2, <3>3
  <2>7. CASE CloseQueue
    <3>1. size' = size /\ is_shut' /\ pc' \in [Threads -> Places]
      BY <2>7 DEF CloseQueue, WakeAll, ring, Places
    <3>2. In(pc', Threads, "waiting") = {}
      BY <2>7 DEF CloseQueue, WakeAll, In
    <3> QED BY <2>7, <3>1, <3>2 DEF CloseQueue, Enough, In, Threads
  <2>8. CASE UNCHANGED mqVars
    BY <2>8 DEF mqVars, ring
  <2> QED BY <2>4, <2>5, <2>6, <2>7, <2>8 DEF MqNext, TimesOut, SpuriousWakeup
<1>3. MqServedInv => SleepersServed
  BY <1>0 DEF MqServedInv, SleepersServed, ConsumersServed, ProducersServed, Enough, In,
             Asleep, Awakened
<1> QED BY <1>1, <1>2, <1>3, PTL DEF MqSpec

-----------------------------------------------------------------------------
(* The ring.  The k-th slot after slot h, without the remainder of Contents. *)

Cell(h, k) == IF h + k >= Max THEN h + k - Max ELSE h + k

\* One lap around the ring at most is what its indexes go.
LEMMA CellIsSlot ==
  ASSUME NEW h \in 0..Max - 1, NEW k \in 0..Max
  PROVE  Cell(h, k) \in 0..Max - 1 /\ (h + k) % Max = Cell(h, k)
<1>1. h \in Nat /\ k \in Nat /\ Max \in Nat /\ Max > 0 /\ h + k < 2 * Max
  BY MaxAssumption
<1> QED BY <1>1 DEF Cell

\* Different places of the queue are different slots (ct_queue_enqueue writes into the
\* place after the last element).
LEMMA CellsDiffer ==
  ASSUME NEW h \in 0..Max - 1, NEW j \in 0..Max - 1, NEW k \in 0..Max - 1, j # k
  PROVE  Cell(h, j) # Cell(h, k)
BY MaxAssumption DEF Cell

\* CT_QUEUE_INDEX_INC goes to the next slot, counted from either end.
LEMMA IncIsNext ==
  ASSUME NEW h \in 0..Max - 1, NEW k \in 0..Max - 1
  PROVE  /\ Inc(Cell(h, k)) = Cell(h, k + 1)
         /\ Inc(h) \in 0..Max - 1
         /\ Cell(Inc(h), k) = Cell(h, k + 1)
         /\ Cell(h, 0) = h
BY MaxAssumption DEF Cell, Inc

RingInv ==
  /\ head \in 0..Max - 1 /\ size \in 0..Max /\ tail = Cell(head, size)
  /\ all \in [0..Max - 1 -> Items \union {NoItem}]

Results == {"none", "0", "EPIPE", "EAGAIN", "ETIMEDOUT"}

\* The element is not in the queue, with contents q, and was not.
Absent(i, q, gone) == i \notin gone /\ \A k \in 1..Len(q) : q[k] # i

\* A push is called once, and has put nothing in while it has not returned.
CallInv ==
  /\ pc \in [Threads -> Places]
  /\ result \in [Threads -> Results]
  /\ \A i \in Items : pc[i] # "out" => result[i] = "none"

FreshInv == \A i \in Items : result[i] = "none" => Absent(i, Contents, taken)

FifoInv == RingInv /\ CallInv /\ FreshInv

\* The slot in which Contents looks for its k-th element.
LEMMA ContentsSlot ==
  ASSUME NEW h \in 0..Max - 1, NEW k \in 1..Max
  PROVE  (h + k - 1) % Max = Cell(h, k - 1) /\ Cell(h, k - 1) \in 0..Max - 1
<1>1. k - 1 \in 0..Max /\ h + k - 1 = h + (k - 1)
  BY MaxAssumption
<1> QED BY <1>1, CellIsSlot

\* The contents, cell by cell.
LEMMA ContentsCells ==
  ASSUME RingInv
  PROVE  /\ Contents = [k \in 1..size |-> all[Cell(head, k - 1)]]
         /\ Len(Contents) = size
         /\ Contents \in Seq(Items \union {NoItem})
<1>1. ASSUME NEW k \in 1..size
      PROVE  (head + k - 1) % Max = Cell(head, k - 1) /\ Cell(head, k - 1) \in 0..Max - 1
  <2>1. k \in 1..Max
    BY <1>1, MaxAssumption DEF RingInv
  <2> QED BY <2>1, ContentsSlot DEF RingInv
<1>2. Contents = [k \in 1..size |-> all[Cell(head, k - 1)]]
  BY <1>1 DEF Contents
<1>3. \A k \in 1..size : all[Cell(head, k - 1)] \in Items \union {NoItem}
  BY <1>1 DEF RingInv
<1>4. size \in Nat
  BY MaxAssumption DEF RingInv
<1> QED BY <1>2, <1>3, <1>4

\* A push appends the element, which was not in the queue and had not been (queue.c:26-29).
LEMMA PushAppends ==
  ASSUME RingInv, NEW i \in Items, size # Max, Enqueue(i)
  PROVE  RingInv' /\ Contents' = Append(Contents, i)
<1>1. /\ size' = size + 1 /\ head' = head /\ tail = Cell(head, size) /\ tail' = Inc(tail)
      /\ all' = [all EXCEPT ![tail] = i]
      /\ size \in 0..Max - 1 /\ size' \in 0..Max /\ head \in 0..Max - 1
  BY MaxAssumption DEF Enqueue, RingInv
<1>2. tail \in 0..Max - 1 /\ tail' = Cell(head, size + 1)
  <2>1. size \in 0..Max
    BY <1>1, MaxAssumption
  <2>2. tail \in 0..Max - 1
    BY <1>1, <2>1, CellIsSlot
  <2>3. Inc(Cell(head, size)) = Cell(head, size + 1)
    BY <1>1, IncIsNext
  <2> QED BY <1>1, <2>2, <2>3
<1>3. RingInv'
  BY <1>1, <1>2 DEF RingInv
<1>4. ASSUME NEW k \in 1..size + 1
      PROVE  all'[Cell(head, k - 1)] = IF k <= size THEN all[Cell(head, k - 1)] ELSE i
  <2>1. k - 1 \in 0..Max - 1 /\ k - 1 \in 0..Max
    BY <1>1, <1>4, MaxAssumption
  <2>2. Cell(head, k - 1) \in 0..Max - 1
    BY <1>1, <2>1, CellIsSlot
  <2>3. CASE k <= size
    <3>1. Cell(head, k - 1) # tail
      BY <1>1, <2>1, <2>3, CellsDiffer
    <3> QED BY <1>1, <2>2, <2>3, <3>1 DEF RingInv
  <2>4. CASE ~(k <= size)
    <3>1. k - 1 = size
      BY <1>1, <2>4
    <3> QED BY <1>1, <1>2, <2>4, <3>1 DEF RingInv
  <2> QED BY <2>3, <2>4
<1>5. Contents' = [k \in 1..size + 1 |-> all'[Cell(head, k - 1)]]
  <2>1. Contents' = [k \in 1..size' |-> all'[Cell(head', k - 1)]]
    <3>1. ASSUME NEW k \in 1..size'
          PROVE  (head' + k - 1) % Max = Cell(head', k - 1)
      <4>1. k \in 1..Max /\ head' \in 0..Max - 1
        BY <1>3, <3>1, MaxAssumption DEF RingInv
      <4> QED BY <4>1, ContentsSlot
    <3> QED BY <3>1 DEF Contents
  <2> QED BY <1>1, <2>1
<1>6. Contents = [k \in 1..size |-> all[Cell(head, k - 1)]] /\ Len(Contents) = size
  BY ContentsCells
<1>7. Append(Contents, i) = [k \in 1..size + 1 |-> IF k <= size THEN all[Cell(head, k - 1)] ELSE i]
  BY <1>1, <1>6, ContentsCells
<1> QED BY <1>3, <1>4, <1>5, <1>7

\* A pop takes the head and leaves the rest in order (queue.c:36-39).
LEMMA PopTakesHead ==
  ASSUME RingInv, size # 0, Dequeue
  PROVE  /\ RingInv' /\ Contents # <<>> /\ Contents' = Tail(Contents)
         /\ taken' = taken \union {Head(Contents)} /\ Head(Contents) = all[Cell(head, 0)]
<1>1. /\ size' = size - 1 /\ head' = Inc(head) /\ tail = Cell(head, size) /\ tail' = tail
      /\ all' = all /\ taken' = taken \union {all[head]}
      /\ size \in 1..Max /\ size' \in 0..Max - 1 /\ head \in 0..Max - 1
  BY MaxAssumption DEF Dequeue, RingInv
<1>2. /\ head' \in 0..Max - 1 /\ Cell(head, 0) = head
      /\ \A k \in 0..Max - 1 : Cell(head', k) = Cell(head, k + 1)
  BY <1>1, MaxAssumption, IncIsNext
<1>3. RingInv'
  <2>1. size' \in 0..Max /\ size' + 1 = size
    BY <1>1, MaxAssumption
  <2> QED BY <1>1, <1>2, <2>1 DEF RingInv
<1>4. Contents' = [k \in 1..size - 1 |-> all[Cell(head', k - 1)]]
  <2>1. Contents' = [k \in 1..size' |-> all'[Cell(head', k - 1)]]
    <3>1. ASSUME NEW k \in 1..size'
          PROVE  (head' + k - 1) % Max = Cell(head', k - 1)
      <4>1. k \in 1..Max /\ head' \in 0..Max - 1
        BY <1>3, <3>1, MaxAssumption DEF RingInv
      <4> QED BY <4>1, ContentsSlot
    <3> QED BY <3>1 DEF Contents
  <2> QED BY <1>1, <2>1
<1>5. ASSUME NEW k \in 1..size - 1
      PROVE  Cell(head', k - 1) = Cell(head, k)
  <2>1. k - 1 \in 0..Max - 1 /\ (k - 1) + 1 = k
    BY <1>1, <1>5, MaxAssumption
  <2> QED BY <1>2, <2>1
<1>6. /\ Contents = [k \in 1..size |-> all[Cell(head, k - 1)]] /\ Len(Contents) = size
      /\ Contents \in Seq(Items \union {NoItem})
  BY ContentsCells
<1>7. Contents # <<>> /\ Head(Contents) = all[Cell(head, 0)]
  BY <1>1, <1>6
<1>8. Tail(Contents) = [k \in 1..size - 1 |-> all[Cell(head, k)]]
  <2>1. Tail(Contents) = [k \in 1..size - 1 |-> Contents[k + 1]]
    BY <1>1, <1>6, <1>7
  <2>2. ASSUME NEW k \in 1..size - 1 PROVE Contents[k + 1] = all[Cell(head, k)]
    <3>1. k + 1 \in 1..size /\ (k + 1) - 1 = k
      BY <1>1
    <3> QED BY <1>6, <3>1
  <2> QED BY <2>1, <2>2
<1> QED BY <1>1, <1>2, <1>3, <1>4, <1>5, <1>7, <1>8

\* Every step of the callers is a step of the bounded queue, or none.
LEMMA FifoStep ==
  ASSUME FifoInv, [MqNext]_mqVars
  PROVE  FifoInv' /\ [Fifo!Next]_(Fifo!vars)
<1> USE DEF FifoInv
<1>0. Contents \in Seq(Items \union {NoItem}) /\ Len(Contents) = size /\ size \in Nat
  BY ContentsCells, MaxAssumption DEF RingInv
<1>1. ASSUME UNCHANGED <<ring, taken>>, pc' \in [Threads -> Places],
             result' \in [Threads -> Results],
             \A i \in Items : /\ pc'[i] # "out" => result'[i] = "none"
                              /\ result'[i] = "none" => result[i] = "none"
      PROVE  FifoInv' /\ UNCHANGED <<Contents, taken>>
  <2>1. UNCHANGED <<all, head, tail, size, taken>>
    BY <1>1 DEF ring
  <2>2. RingInv' /\ Contents' = Contents
    BY <2>1 DEF RingInv, Contents
  <2>3. ASSUME NEW i \in Items, Absent(i, Contents, taken)
        PROVE  Absent(i, Contents', taken')
    BY <2>1, <2>2, <2>3 DEF Absent
  <2>4. \A i \in Items : result'[i] = "none" => Absent(i, Contents', taken')
    BY <1>1, <2>3 DEF FreshInv
  <2>5. FreshInv'
    BY <2>4 DEF FreshInv, Absent
  <2>6. CallInv'
    BY <1>1 DEF CallInv
  <2> QED BY <2>1, <2>2, <2>5, <2>6
<1>2. ASSUME NEW t \in Threads, NEW code \in Results \ {"none"}, Return(t, code)
      PROVE  FifoInv' /\ UNCHANGED <<Contents, taken, is_shut>>
  <2>1. /\ pc' = [pc EXCEPT ![t] = "out"] /\ result' = [result EXCEPT ![t] = code]
        /\ UNCHANGED <<ring, taken>> /\ is_shut' = is_shut
    BY <1>2 DEF Return
  <2>2. pc' \in [Threads -> Places] /\ result' \in [Threads -> Results]
    BY <2>1 DEF CallInv, Places
  <2>3. \A i \in Items : /\ pc'[i] # "out" => result'[i] = "none"
                         /\ result'[i] = "none" => result[i] = "none"
    BY <2>1 DEF CallInv, Threads
  <2> QED BY <1>1, <2>1, <2>2, <2>3
<1>3. ASSUME NEW t \in Threads, NEW place \in Places, t \in Items => result[t] = "none",
             pc' = [pc EXCEPT ![t] = place], UNCHANGED <<ring, is_shut, result, taken>>
      PROVE  FifoInv' /\ UNCHANGED <<Contents, taken, is_shut>>
  <2>1. \A i \in Items : /\ pc'[i] # "out" => result'[i] = "none"
                         /\ result'[i] = "none" => result[i] = "none"
    BY <1>3 DEF CallInv, Threads
  <2>2. pc' \in [Threads -> Places] /\ result' \in [Threads -> Results]
    BY <1>3 DEF CallInv
  <2> QED BY <1>1, <1>3, <2>1, <2>2
<1>4. ASSUME NEW t \in Threads, ~is_shut, ~MustWait(t), t \in Items => result[t] = "none",
             Transfer(t)
      PROVE  FifoInv' /\ [Fifo!Next]_(Fifo!vars)
  <2> DEFINE f == [pc EXCEPT ![t] = "out"]
  <2>1. pc' \in Signal(f, Peers(t)) /\ result' = [result EXCEPT ![t] = "0"] /\ is_shut' = is_shut
    BY <1>4 DEF Transfer
  <2>2. pc' \in [Threads -> Places] /\ result' \in [Threads -> Results]
    BY <2>1 DEF CallInv, Places, Results, Signal
  <2>3. \A i \in Items : pc'[i] # "out" => i # t /\ pc[i] # "out"
    <3>1. f[t] = "out" /\ \A i \in Threads : i # t => f[i] = pc[i]
      BY DEF CallInv
    <3>2. f \in [Threads -> Places]
      BY DEF CallInv, Places
    <3> HIDE DEF f
    <3>3. \A i \in Threads : pc'[i] # "out" => f[i] # "out"
      BY <2>1, <3>2 DEF Signal, Peers, Threads
    <3> QED BY <3>1, <3>3 DEF Threads
  <2>4. \A i \in Items : /\ pc'[i] # "out" => result'[i] = "none"
                         /\ result'[i] = "none" => i # t /\ result[i] = "none"
    BY <2>1, <2>3 DEF CallInv, Threads
  <2>4a. CallInv'
    BY <2>2, <2>4 DEF CallInv
  <2>5. CASE t \in Items
    <3>1. size # Max /\ Enqueue(t) /\ taken' = taken /\ size < Max
      BY <1>0, <1>4, <2>5, MaxAssumption DEF MustWait, Transfer, Enqueue, RingInv
    <3>2. RingInv' /\ Contents' = Append(Contents, t)
      BY <2>5, <3>1, PushAppends
    <3>3. /\ Len(Contents') = Len(Contents) + 1
          /\ \A k \in 1..Len(Contents) + 1 :
               Contents'[k] = IF k <= Len(Contents) THEN Contents[k] ELSE t
      BY <1>0, <2>5, <3>2
    <3>4. FreshInv'
      <4>1. ASSUME NEW i \in Items, i # t, Absent(i, Contents, taken)
            PROVE  Absent(i, Contents', taken')
        BY <1>0, <3>1, <3>3, <4>1 DEF Absent
      <4>2. \A i \in Items : result'[i] = "none" => Absent(i, Contents', taken')
        BY <2>4, <4>1 DEF FreshInv
      <4> QED BY <4>2 DEF FreshInv, Absent
    <3>5. t \notin taken /\ \A k \in DOMAIN Contents : Contents[k] # t
      BY <1>0, <1>4, <2>5 DEF FreshInv, Absent
    <3>6. Fifo!Put(t)
      BY <1>0, <1>4, <2>1, <3>1, <3>2, <3>5 DEF Fifo!Put
    <3> QED BY <2>4a, <2>5, <3>2, <3>4, <3>6 DEF Fifo!Next
  <2>6. CASE t \notin Items
    <3>1. size # 0 /\ Dequeue
      BY <1>4, <2>6 DEF MustWait, Transfer
    <3>2. /\ RingInv' /\ Contents # <<>> /\ Contents' = Tail(Contents)
          /\ taken' = taken \union {Head(Contents)}
      BY <3>1, PopTakesHead
    <3>3. /\ Head(Contents) = Contents[1] /\ 1 \in 1..Len(Contents)
          /\ Len(Contents') = Len(Contents) - 1
          /\ \A k \in 1..Len(Contents) - 1 : Contents'[k] = Contents[k + 1]
          /\ \A k \in 1..Len(Contents) - 1 : k + 1 \in 1..Len(Contents)
      BY <1>0, <3>1, <3>2
    <3>4. FreshInv'
      <4>1. ASSUME NEW i \in Items, Absent(i, Contents, taken)
            PROVE  Absent(i, Contents', taken')
        BY <1>0, <3>2, <3>3, <4>1 DEF Absent
      <4>2. \A i \in Items : result'[i] = "none" => Absent(i, Contents', taken')
        BY <2>4, <4>1 DEF FreshInv
      <4> QED BY <4>2 DEF FreshInv, Absent
    <3>5. Fifo!Get
      BY <1>4, <2>1, <3>2 DEF Fifo!Get
    <3> QED BY <2>4a, <3>2, <3>4, <3>5 DEF Fifo!Next
  <2> QED BY <2>5, <2>6
<1>5. ASSUME NEW t \in Threads, NEW mode \in Modes, Call(t, mode)
      PROVE  FifoInv' /\ [Fifo!Next]_(Fifo!vars)
  BY <1>2, <1>3, <1>4, <1>5 DEF Call, Refuse, Sleep, Results, Places, Fifo!vars
<1>6. ASSUME NEW t \in Threads, Proceed(t)
      PROVE  FifoInv' /\ [Fifo!Next]_(Fifo!vars)
  <2>1. t \in Items => result[t] = "none"
    BY <1>6 DEF Proceed, Recheck, GiveUp, CallInv, Threads
  <2> QED BY <1>2, <1>3, <1>4, <1>6, <2>1
          DEF Proceed, Recheck, GiveUp, Sleep, Results, Places, Fifo!vars
<1>7. ASSUME NEW t \in Threads, TimesOut(t) \/ SpuriousWakeup(t)
      PROVE  FifoInv' /\ [Fifo!Next]_(Fifo!vars)
  <2>1. t \in Items => result[t] = "none"
    BY <1>7 DEF TimesOut, SpuriousWakeup, LeaveWait, CallInv, Threads
  <2> QED BY <1>3, <1>7, <2>1 DEF TimesOut, SpuriousWakeup, LeaveWait, Places, Fifo!vars
<1>8. CASE CloseQueue
  <2>1. UNCHANGED <<ring, result, taken>> /\ is_shut' = TRUE
    BY <1>8 DEF CloseQueue
  <2>2. pc' \in [Threads -> Places] /\ \A i \in Items : pc'[i] # "out" => pc[i] # "out"
    BY <1>8 DEF CloseQueue, WakeAll, CallInv, Places, Threads
  <2>3. \A i \in Items : /\ pc'[i] # "out" => result'[i] = "none"
                         /\ result'[i] = "none" => result[i] = "none"
    BY <2>1, <2>2 DEF CallInv
  <2>4. FifoInv' /\ UNCHANGED <<Contents, taken>>
    BY <1>1, <2>1, <2>2, <2>3 DEF CallInv
  <2> QED BY <2>1, <2>4 DEF Fifo!Shut, Fifo!Next
<1>9. CASE UNCHANGED mqVars
  <2>1. UNCHANGED <<ring, taken>> /\ pc' = pc /\ result' = result
    BY <1>9 DEF mqVars, ring
  <2>2. FifoInv' /\ UNCHANGED <<Contents, taken>>
    BY <1>1, <2>1 DEF CallInv
  <2> QED BY <1>9, <2>2 DEF mqVars, Fifo!vars
<1> QED BY <1>5, <1>6, <1>7, <1>8, <1>9 DEF MqNext

\* The empty queue.
LEMMA FifoInit == MqInit => FifoInv /\ Fifo!Init
<1> SUFFICES ASSUME MqInit PROVE FifoInv /\ Fifo!Init
  OBVIOUS
<1>1. head = 0 /\ tail = 0 /\ size = 0 /\ all = [k \in 0..Max - 1 |-> NoItem]
  BY Zenon DEF MqInit
<1>2. RingInv
  BY <1>1, MaxAssumption DEF RingInv, Cell
<1>3. Contents = <<>> /\ Len(Contents) = 0
  BY <1>1, <1>2, ContentsCells
<1>4. pc \in [Threads -> Places] /\ result \in [Threads -> Results] /\ taken = {}
  BY DEF MqInit, Places, Results
<1>5. CallInv /\ FreshInv
  <2>1. \A i \in Items : pc[i] = "out"
    BY DEF MqInit, Threads
  <2> QED BY <1>3, <1>4, <2>1 DEF CallInv, FreshInv, Absent
<1>6. is_shut = FALSE
  BY Zenon DEF MqInit
<1> QED BY <1>2, <1>3, <1>4, <1>5, <1>6 DEF FifoInv, Fifo!Init

\* The ring and its callers implement the bounded queue (sync/msgqueue.h): nothing is
\* lost, duplicated, reordered or overwritten, whatever the platform's timed wait does.
THEOREM RingImplementsFifo == MqSpec => ImplementsFifo
<1>1. FifoInv /\ [MqNext]_mqVars => FifoInv' /\ [Fifo!Next]_(Fifo!vars)
  BY FifoStep
<1> QED BY <1>1, FifoInit, PTL DEF MqSpec, ImplementsFifo, Fifo!Spec
=============================================================================
