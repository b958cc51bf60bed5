----------------------------- MODULE RingBuffer -----------------------------
(***************************************************************************)
(* Bounded storage walked by cursors: the byte ring of src/bytes/src/      *)
(* rbuf.c, copied or accessed in place, the FIFO of src/container/src/     *)
(* queue.c and the stack of stack.c.  Cursors count from 0; cell i of the  *)
(* code is data[i + 1].                                                    *)
(***************************************************************************)
EXTENDS Integers, Sequences, SequencesExt

CONSTANTS RbCaps,      \* capacities
          RbBytes,     \* values stored
          RbChunk,     \* bound of the instance on the bytes of one call
          SizeRange    \* 2^w, for the width w of size_t

\* No storage, and no request for a part of one, comes near the width of size_t.
ASSUME RbAssumption ==
  /\ SizeRange \in Nat /\ RbChunk \in Nat
  /\ \A cap \in RbCaps : cap \in Nat /\ cap > 0 /\ cap + RbChunk < SizeRange

VARIABLES rb,          \* the ring: [data, head, tail, len]
          qu,          \* the queue, the same record: all_, head_, tail_, size_
          st,          \* the stack: its elements, and max_
          rbRef        \* history: what each holds

rbVars == <<rb, qu, st, rbRef>>

EmptyRing(cap) == [data |-> [i \in 1..cap |-> 0], head |-> 0, tail |-> 0, len |-> 0]

RbInit ==
  /\ \E cap \in RbCaps : rb = EmptyRing(cap) /\ qu = EmptyRing(cap) /\ st = [all |-> <<>>, max |-> cap]
  /\ rbRef = [rb |-> <<>>, qu |-> <<>>, st |-> <<>>]

Cap(r) == Len(r.data)
AtMost(n, m) == IF n > m THEN m ELSE n

\* memcpy of s to the cells from at on.
Copied(data, at, s) ==
  [i \in DOMAIN data |-> IF at < i /\ i <= at + Len(s) THEN s[i - at] ELSE data[i]]

\* The request, cut to the room; the sum wraps at the width of size_t.
Room(r, n) == IF (n + r.len) % SizeRange > Cap(r) THEN Cap(r) - r.len ELSE n

Written(r, src) ==
  LET s == SubSeq(src, 1, Room(r, Len(src)))
      first == Cap(r) - r.tail
      end == r.tail + Len(s)
  IN [r EXCEPT !.data = IF end <= Cap(r) THEN Copied(@, r.tail, s)
                        ELSE Copied(Copied(@, r.tail, SubSeq(s, 1, first)), 0, SubSeq(s, first + 1, Len(s))),
               !.tail = IF end < Cap(r) THEN end ELSE IF end = Cap(r) THEN 0 ELSE Len(s) - first,
               !.len = @ + Len(s)]

\* What ct_rbuf_peek copies out; ct_rbuf_read consumes it as well.
Peeked(r, len) ==
  LET n == AtMost(len, r.len)
      first == Cap(r) - r.head
  IN IF r.head + n <= Cap(r) THEN SubSeq(r.data, r.head + 1, r.head + n)
     ELSE SubSeq(r.data, r.head + 1, Cap(r)) \o SubSeq(r.data, 1, n - first)

\* A mutant: the cursor that reaches the end of the storage stays there.
LateConsumed(r, len) ==
  LET n == AtMost(len, r.len) IN
    [r EXCEPT !.head = IF @ + n > Cap(r) THEN @ + n - Cap(r) ELSE @ + n, !.len = @ - n]

\* ct_rbuf_remove, and the end of ct_rbuf_read.
Consumed(r, len) ==
  LET n == AtMost(len, r.len) IN
    [r EXCEPT !.head = IF @ + n >= Cap(r) /\ n > 0 THEN @ + n - Cap(r) ELSE @ + n, !.len = @ - n]

Committed(r, len) ==
  LET n == Room(r, len) IN
    [r EXCEPT !.tail = IF @ + n >= Cap(r) /\ n > 0 THEN @ + n - Cap(r) ELSE @ + n, !.len = @ + n]

\* The contiguous spans of ct_rbuf_read_ptr and ct_rbuf_write_ptr.
ReadSpan(r) == AtMost(r.len, Cap(r) - r.head)
WriteSpan(r) == AtMost(Cap(r) - r.len, Cap(r) - r.tail)

RbBecomes(r, ref) ==
  /\ rb' = r
  /\ rbRef' = [rbRef EXCEPT !.rb = ref]
  /\ UNCHANGED <<qu, st>>

Sources == SeqOf(RbBytes, RbChunk) \ {<<>>}

RbWrite(s) == RbBecomes(Written(rb, s), rbRef.rb \o SubSeq(s, 1, AtMost(Len(s), Cap(rb) - Len(rbRef.rb))))
RbRead(n) == RbBecomes(Consumed(rb, n), SubSeq(rbRef.rb, n + 1, Len(rbRef.rb)))

\* The caller fills part of the span it got, and commits what it filled.
RbWriteInPlace(s) ==
  /\ Len(s) <= WriteSpan(rb)
  /\ RbBecomes(Committed([rb EXCEPT !.data = Copied(@, rb.tail, s)], Len(s)), rbRef.rb \o s)

\* The caller reads the span it got, and removes what it read.
RbReadInPlace == RbBecomes(Consumed(rb, ReadSpan(rb)), SubSeq(rbRef.rb, ReadSpan(rb) + 1, Len(rbRef.rb)))

RbClear == RbBecomes([rb EXCEPT !.head = 0, !.tail = 0, !.len = 0], <<>>)

RbNext ==
  \/ \E s \in Sources : RbWrite(s) \/ RbWriteInPlace(s)
  \/ \E n \in 0..RbChunk : RbRead(n)
  \/ RbReadInPlace \/ RbClear

QueueStackBecome(q, s, f, ref) ==
  /\ qu' = q /\ st' = s
  /\ rbRef' = [rbRef EXCEPT ![f] = ref]
  /\ UNCHANGED rb

After(r, i) == IF i + 1 >= Cap(r) THEN 0 ELSE i + 1

QuEnqueue(x) ==
  /\ qu.len < Cap(qu)
  /\ QueueStackBecome([qu EXCEPT !.data[qu.tail + 1] = x, !.tail = After(qu, @), !.len = @ + 1],
                      st, "qu", Append(rbRef.qu, x))

QuDequeue ==
  /\ qu.len > 0
  /\ QueueStackBecome([qu EXCEPT !.head = After(qu, @), !.len = @ - 1], st, "qu", Tail(rbRef.qu))

\* What ct_queue_traverse visits: the cells from head_ on, wrapping.
Visited(q) == [i \in 1..q.len |-> q.data[((q.head + i - 1) % Cap(q)) + 1]]

StPush(x) ==
  /\ Len(st.all) < st.max
  /\ QueueStackBecome(qu, [st EXCEPT !.all = Append(@, x)], "st", Append(rbRef.st, x))

StPop ==
  /\ st.all # <<>>
  /\ QueueStackBecome(qu, [st EXCEPT !.all = Front(@)], "st", Front(rbRef.st))

QsNext ==
  \/ \E x \in RbBytes : QuEnqueue(x) \/ StPush(x)
  \/ QuDequeue \/ StPop

RbSpec == RbInit /\ [][RbNext \/ QsNext]_rbVars

-----------------------------------------------------------------------------
(* Properties. *)

\* What was accepted comes out in order, whole across the end of the storage,
\* and the cursors stay inside it: peeks of every length, and the zero-copy
\* spans, which are empty only when the ring is (rbuf.c, rbuf.h:98-147, queue.c).
RingIntact ==
  /\ rb.len = Len(rbRef.rb)
  /\ \A n \in 0..(Cap(rb) + 1) : Peeked(rb, n) = SubSeq(rbRef.rb, 1, AtMost(n, rb.len))
  /\ SubSeq(rb.data, rb.head + 1, rb.head + ReadSpan(rb)) = SubSeq(rbRef.rb, 1, ReadSpan(rb))
  /\ rb.len > 0 => ReadSpan(rb) > 0
  /\ rb.len < Cap(rb) => WriteSpan(rb) > 0
  /\ Visited(qu) = rbRef.qu /\ st.all = rbRef.st
=============================================================================
