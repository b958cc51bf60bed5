------------------------------ MODULE MsgQueue ------------------------------
(***************************************************************************)
(* The message queue of sync/src/msgqueue.c, the ring of                   *)
(* container/src/queue.c under it and the timed wait of sync/src/cond.c.   *)
(*                                                                         *)
(* As in ThPool, a critical section under mutex_ is one action, and a      *)
(* thread that leaves a wait takes mutex_ in a later action.  Push and pop *)
(* are mirror images in the code; here they are one set of actions: an     *)
(* element of Items is the thread that pushes it, once, with one of the    *)
(* three push functions, and an element of Consumers is a thread that      *)
(* calls the pop functions any number of times.                            *)
(*                                                                         *)
(* Name_Fault is a faulty variant of the operator Name (see ThPool).       *)
(***************************************************************************)
EXTENDS Integers, Sequences, FiniteSets

CONSTANTS Items,      \* elements, each with the thread that pushes it
          Consumers,  \* threads that pop
          NoItem,     \* contents of a slot that was never written
          Max,        \* queue_->max_
          Sliced      \* ct_cond_wait_for waits in slices (no pthread_cond_clockwait)

Threads == Items \union Consumers

ASSUME MaxAssumption == Max \in Nat \ {0}
ASSUME ThreadsAssumption == Items \intersect Consumers = {} /\ NoItem \notin Items
ASSUME SlicedAssumption == Sliced \in BOOLEAN

VARIABLES all,      \* queue_->all_
          head,     \* queue_->head_
          tail,     \* queue_->tail_
          size,     \* queue_->size_
          is_shut,  \* is_shut_
          pc,       \* where each thread stands in its call
          timed,    \* threads whose call has a positive timeout
          result,   \* what the last call of each thread returned
          taken     \* elements that a pop has copied out (history)

ring == <<all, head, tail, size>>
mqVars == <<all, head, tail, size, is_shut, pc, timed, result, taken>>

(***************************************************************************)
(* pc[t]:  "out"      not in a call                                        *)
(*         "waiting"  in the wait set of not_full_ or not_empty_           *)
(*         "woken"    left it on a signal, about to take mutex_            *)
(*         "expired"  left it because its time, or a slice of it, is over  *)
(* result[t]: "none" before the first call, then the name of the code      *)
(***************************************************************************)
MqInit ==
  /\ all = [k \in 0..Max - 1 |-> NoItem]
  /\ head = 0 /\ tail = 0 /\ size = 0
  /\ is_shut = FALSE
  /\ pc = [t \in Threads |-> "out"]
  /\ timed = {}
  /\ result = [t \in Threads |-> "none"]
  /\ taken = {}

-----------------------------------------------------------------------------
(* The ring. *)

Inc_OffByOne(k) == IF k + 1 > Max THEN 0 ELSE k + 1

\* CT_QUEUE_INDEX_INC
Inc(k) == IF k + 1 >= Max THEN 0 ELSE k + 1

\* ct_queue_enqueue
Enqueue(i) ==
  /\ all' = [all EXCEPT ![tail] = i]
  /\ tail' = Inc(tail)
  /\ size' = size + 1
  /\ UNCHANGED <<head, taken>>

\* ct_queue_dequeue
Dequeue ==
  /\ taken' = taken \union {all[head]}
  /\ head' = Inc(head)
  /\ size' = size - 1
  /\ UNCHANGED <<all, tail>>

-----------------------------------------------------------------------------
(* The calls. *)

\* The condition on which t waits: the queue is full for a push, empty for a pop.
MustWait(t) == IF t \in Items THEN size = Max ELSE size = 0

\* The threads that wait for what t does.
Peers(t) == IF t \in Items THEN Consumers ELSE Items

Signal_Lost(pcs, S) == {pcs}
Signal_Own(pcs, S) ==
  LET asleep == {t \in Threads \ S : pcs[t] = "waiting"}
  IN  IF asleep = {} THEN {pcs} ELSE {[pcs EXCEPT ![t] = "woken"] : t \in asleep}

\* ct_cond_signal on the condition on which the threads of S wait.
Signal(pcs, S) ==
  LET asleep == {t \in S : pcs[t] = "waiting"}
  IN  IF asleep = {} THEN {pcs} ELSE {[pcs EXCEPT ![t] = "woken"] : t \in asleep}

Return(t, code) ==
  /\ pc' = [pc EXCEPT ![t] = "out"]
  /\ result' = [result EXCEPT ![t] = code]
  /\ timed' = timed \ {t}
  /\ UNCHANGED <<ring, is_shut, taken>>

\* The element goes in or out, and one peer is signaled.
Transfer(t) ==
  /\ IF t \in Items THEN Enqueue(t) ELSE Dequeue
  /\ pc' \in Signal([pc EXCEPT ![t] = "out"], Peers(t))
  /\ result' = [result EXCEPT ![t] = "0"]
  /\ timed' = timed \ {t}
  /\ UNCHANGED is_shut

Sleep(t, isTimed) ==
  /\ pc' = [pc EXCEPT ![t] = "waiting"]
  /\ timed' = IF isTimed THEN timed \union {t} ELSE timed
  /\ UNCHANGED <<ring, is_shut, result, taken>>

\* What each function does when it finds the queue full, or empty: try_push and
\* try_pop return EAGAIN, a timeout of zero expires, push and pop wait.
Modes == {"try", "zero", "timed", "forever"}

Refuse(t, mode) ==
  \/ mode = "try" /\ Return(t, "EAGAIN")
  \/ mode = "zero" /\ Return(t, "ETIMEDOUT")
  \/ mode \in {"timed", "forever"} /\ Sleep(t, mode = "timed")

\* The first section of a push or a pop.
Call(t, mode) ==
  /\ pc[t] = "out"
  /\ t \in Items => result[t] = "none"
  /\ \/ is_shut /\ Return(t, "EPIPE")
     \/ ~is_shut /\ MustWait(t) /\ Refuse(t, mode)
     \/ ~is_shut /\ ~MustWait(t) /\ Transfer(t)

\* ct_cond_wait_for returned 0: test the queue again, then the flag.  A timed call
\* finds that its deadline has passed in the meantime, or waits for what is left.
Recheck(t) ==
  /\ pc[t] = "woken"
  /\ \/ is_shut /\ Return(t, "EPIPE")
     \/ ~is_shut /\ ~MustWait(t) /\ Transfer(t)
     \/ ~is_shut /\ MustWait(t) /\ Sleep(t, FALSE)
     \/ ~is_shut /\ MustWait(t) /\ t \in timed /\ Return(t, "ETIMEDOUT")

\* The platform's wait timed out.  ct_cond_wait_for returns ETIMEDOUT, and so does the
\* call, without another test; between two slices it looks at the clock and waits again.
GiveUp(t) ==
  /\ pc[t] = "expired"
  /\ Return(t, "ETIMEDOUT") \/ (Sliced /\ Sleep(t, FALSE))

Proceed(t) == Recheck(t) \/ GiveUp(t)

-----------------------------------------------------------------------------
(* What the clock and the system do to a waiting thread. *)

LeaveWait(t, to) ==
  /\ pc[t] = "waiting"
  /\ pc' = [pc EXCEPT ![t] = to]
  /\ UNCHANGED <<ring, is_shut, timed, result, taken>>

TimesOut(t) == t \in timed /\ LeaveWait(t, "expired")

SpuriousWakeup(t) == LeaveWait(t, "woken")

-----------------------------------------------------------------------------
WakeAll_Consumers(pcs) ==
  [t \in Threads |-> IF pcs[t] = "waiting" /\ t \in Consumers THEN "woken" ELSE pcs[t]]

\* The broadcasts on both conditions.
WakeAll(pcs) == [t \in Threads |-> IF pcs[t] = "waiting" THEN "woken" ELSE pcs[t]]

\* ct_msgqueue_close
CloseQueue ==
  /\ is_shut' = TRUE
  /\ pc' = IF is_shut THEN pc ELSE WakeAll(pc)
  /\ UNCHANGED <<ring, timed, result, taken>>

MqNext ==
  \/ \E t \in Threads :
       \/ \E mode \in Modes : Call(t, mode)
       \/ Proceed(t)
       \/ TimesOut(t) \/ SpuriousWakeup(t)
  \/ CloseQueue

MqSpec == MqInit /\ [][MqNext]_mqVars

\* A thread that has left its wait takes the mutex again.
MqFairness == \A t \in Threads : WF_mqVars(Proceed(t))

MqFairSpec == MqSpec /\ MqFairness

-----------------------------------------------------------------------------
(* Safety. *)

Asleep(S) == {t \in S : pc[t] = "waiting"}
Awakened(S) == {t \in S : pc[t] = "woken"}

\* One signal per element is enough: a consumer sleeps in an open queue only while
\* the elements are no more than the consumers on their way to them.  So a pop_for
\* succeeds "when producer arrives before timeout" (sync/test/msgqueue_test.cpp).
ConsumersServed ==
  Asleep(Consumers) # {} => ~is_shut /\ size <= Cardinality(Awakened(Consumers))

\* The same for producers and free slots.
ProducersServed ==
  Asleep(Items) # {} => ~is_shut /\ Max - size <= Cardinality(Awakened(Items))

\* Neither side of the queue sleeps beside what it waits for (msgqueue.c:112-115,
\* a signal per transfer in each direction).
SleepersServed == ConsumersServed /\ ProducersServed

-----------------------------------------------------------------------------
(* The abstract queue. *)

Contents == [k \in 1..size |-> all[(head + k - 1) % Max]]

Fifo == INSTANCE BoundedFifo WITH contents <- Contents, shut <- is_shut

\* The ring and its callers implement the bounded queue: nothing is lost, duplicated,
\* reordered or overwritten.
ImplementsFifo == Fifo!Spec

-----------------------------------------------------------------------------
(* Liveness. *)

\* An element does not stay in an open queue beside a consumer that sleeps.
ElementsReachConsumers ==
  (size > 0 /\ Asleep(Consumers) # {}) ~> (size = 0 \/ is_shut \/ Asleep(Consumers) = {})

\* After the close every call returns.
CloseReleasesAll == is_shut ~> \A t \in Threads : pc[t] = "out"
=============================================================================
