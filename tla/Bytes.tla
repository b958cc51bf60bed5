------------------------------- MODULE Bytes --------------------------------
(***************************************************************************)
(* The byte buffer of src/bytes/src/bytes.c over a fixed array, with the   *)
(* integer accesses and their byte orders (src/encoding binary.h), and the *)
(* message buffer of msgbuf.c.  An integer is the tuple of its bytes, the  *)
(* most significant first; positions count from 0.                         *)
(***************************************************************************)
EXTENDS Integers, Sequences, SequencesExt

CONSTANTS ByCap,       \* capacity of the array
          ByInts,      \* integers put: tuples of 1, 2, 4 or 8 bytes
          ByStrings,   \* byte strings put
          ByCalls      \* bound of the instance on the number of calls

Byte == 0..255

ASSUME ByAssumption ==
  /\ ByCap \in Nat /\ ByCap >= 2
  /\ ByStrings \subseteq Seq(Byte)
  /\ \A v \in ByInts : v \in Seq(Byte) /\ Len(v) \in {1, 2, 4, 8}

VARIABLES by,          \* [data, len, pos, endian, hlswap, overflow]
          byLeft,      \* calls left
          byHost,      \* CT_ENDIAN_SYSTEM of the build
          mb           \* the message buffer: [buf, size]

byVars == <<by, byLeft, byHost, mb>>

Orders == {"big", "little"}

Bigger(m, n) == IF m > n THEN m ELSE n
Smaller(m, n) == IF m > n THEN n ELSE m

\* ct_bytes_init and ct_bytes_from, over memory that already holds bytes.
View(data, len) ==
  [data |-> data, len |-> Smaller(len, Len(data)), pos |-> 0,
   endian |-> "big", hlswap |-> FALSE, overflow |-> FALSE]

ByInit ==
  /\ byHost \in Orders
  /\ byLeft = ByCalls
  /\ \E len \in 0..(ByCap + 1) : by = View([i \in 1..ByCap |-> i % 3], len)
  /\ mb = [buf |-> [i \in 1..ByCap |-> 0], size |-> 0]

\* bswap, bswap16_lanes and reverse16_lanes of binary.h, of any width.
Bswap(v) == Reverse(v)
Bswap16Lanes(v) == [i \in DOMAIN v |-> IF i % 2 = 1 THEN v[i + 1] ELSE v[i - 1]]
Reverse16Lanes(v) == Bswap16Lanes(Bswap(v))

\* A mutant of Converted: words are swapped in one byte order only.
OneOrderConverted(b, v) ==
  IF Len(v) = 1 THEN v
  ELSE IF b.endian = byHost THEN v
  ELSE IF b.hlswap /\ Len(v) > 2 THEN Reverse16Lanes(v) ELSE Bswap(v)

\* What is done to an integer between its value and its memory, both ways.
Converted(b, v) ==
  IF Len(v) = 1 THEN v
  ELSE IF b.endian = byHost THEN IF b.hlswap /\ Len(v) > 2 THEN Bswap16Lanes(v) ELSE v
  ELSE IF b.hlswap /\ Len(v) > 2 THEN Reverse16Lanes(v) ELSE Bswap(v)

\* The memory of an integer of this machine, and back.
Memory(v) == IF byHost = "big" THEN v ELSE Reverse(v)

\* ct_le_get_ and ct_le_set_, ct_be_get_ and ct_be_set_: one conversion serves both ways.
LittleEndian(v) == IF byHost = "big" THEN Bswap(v) ELSE v
BigEndian(v) == IF byHost = "little" THEN Bswap(v) ELSE v

Stored(b, v) == Memory(Converted(b, v))
Loaded(b, m) == Converted(b, Memory(m))

Replaced(data, at, s) ==
  [i \in DOMAIN data |-> IF at < i /\ i <= at + Len(s) THEN s[i - at] ELSE data[i]]

Overflowed(b) == [b EXCEPT !.overflow = TRUE]

Advanced(b, n) == [b EXCEPT !.pos = @ + n, !.len = Bigger(@, b.pos + n)]

\* ct_bytes_writable; the capacity is the length of data.
Writable(b) == Len(b.data) - b.pos

\* ct_bytes_put_bytes, fill and commit: what does not fit is cut and flagged.
Put(b, s) ==
  LET n == Smaller(Len(s), Writable(b))
      b1 == IF n < Len(s) THEN Overflowed(b) ELSE b
  IN Advanced([b1 EXCEPT !.data = Replaced(@, b.pos, SubSeq(s, 1, n))], n)

Fill(b, x, n) == Put(b, [i \in 1..n |-> x])

Commit(b, n) == Put(b, [i \in 1..n |-> IF i <= Writable(b) THEN b.data[b.pos + i] ELSE 0])

Overfill(b, x, n) ==
  LET m == Smaller(n, Len(b.data))
      b1 == IF m < n THEN Overflowed(b) ELSE b
  IN [b1 EXCEPT !.data = Replaced(@, 0, [i \in 1..m |-> x])]

\* ct_bytes_take_bytes and skip.
Skip(b, n) ==
  LET readable == b.len - b.pos
      b1 == IF n > readable THEN Overflowed(b) ELSE b
  IN [b1 EXCEPT !.pos = @ + Smaller(n, readable)]

\* get_bytes and peek_bytes (at pos + offset): what there is of the request.
GetBytes(b, at, n) ==
  IF at < 0 \/ at >= b.len THEN <<>> ELSE SubSeq(b.data, at + 1, at + Smaller(n, b.len - at))

\* set_bytes and poke_bytes: all of it, or nothing and the flag.
SetBytes(b, at, s) ==
  IF at < 0 \/ at > b.len \/ Len(s) > b.len - at THEN Overflowed(b)
  ELSE [b EXCEPT !.data = Replaced(@, at, s)]

\* put_u8 to put_u64, take_, peek_, get_ and set_.
PutInt(b, v) == IF Writable(b) < Len(v) THEN Overflowed(b) ELSE Put(b, Stored(b, v))

ZeroInt(w) == [i \in 1..w |-> 0]

TakeInt(b, w) ==
  IF b.len - b.pos < w THEN [b |-> Overflowed(b), v |-> ZeroInt(w)]
  ELSE [b |-> [b EXCEPT !.pos = @ + w], v |-> Loaded(b, SubSeq(b.data, b.pos + 1, b.pos + w))]

GetInt(b, at, w) ==
  IF at >= b.len \/ b.len - at < w THEN ZeroInt(w) ELSE Loaded(b, SubSeq(b.data, at + 1, at + w))

PeekInt(b, off, w) ==
  LET at == b.pos + off IN
    IF at < 0 \/ at > b.len \/ b.len - at < w THEN ZeroInt(w)
    ELSE Loaded(b, SubSeq(b.data, at + 1, at + w))

SetInt(b, at, v) ==
  IF at >= b.len \/ b.len - at < Len(v) THEN Overflowed(b)
  ELSE [b EXCEPT !.data = Replaced(@, at, Stored(b, v))]

Seek(b, n) == IF n > b.len THEN Overflowed(b) ELSE [b EXCEPT !.pos = n]
Reseek(b, n) == IF n > b.len THEN Overflowed(b) ELSE [b EXCEPT !.pos = b.len - n]

Truncate(b, n) ==
  IF n >= b.len THEN b ELSE [b EXCEPT !.len = n, !.pos = Smaller(@, n)]

ClearBytes(b) == [b EXCEPT !.len = 0, !.pos = 0, !.overflow = FALSE]

\* ct_bytes_compact; when all was read it is a clear, which drops the flag too.
Compact(b) ==
  IF b.pos = 0 THEN b
  ELSE IF b.pos >= b.len THEN ClearBytes(b)
  ELSE [b EXCEPT !.data = Replaced(@, 0, SubSeq(@, b.pos + 1, b.len)), !.len = @ - b.pos, !.pos = 0]

\* ct_bytes_find: the distance from pos + offset (bytes.c:25), or -1.  bytes.h:160 calls
\* it an offset from pos, which it is for offset = 0 only.
Find(b, x, offset) ==
  LET at == {i \in (b.pos + offset + 1)..b.len : b.data[i] = x} IN
    IF at = {} THEN -1 ELSE (CHOOSE i \in at : \A j \in at : i <= j) - 1 - (b.pos + offset)

\* ct_bytes_since: a view of the same memory; end = 0 stands for len.
Since(b, start, end) ==
  LET e == IF end = 0 THEN b.len ELSE end IN
    IF e < start \/ e > Len(b.data) THEN "refused"
    ELSE [b EXCEPT !.data = SubSeq(@, start + 1, Len(@)), !.len = e - start, !.pos = 0, !.overflow = FALSE]

ByBecomes(b) == by' = b /\ byLeft > 0 /\ byLeft' = byLeft - 1 /\ UNCHANGED <<byHost, mb>>

Sizes == 0..(ByCap + 1)

ByNext ==
  \/ \E e \in Orders, h \in BOOLEAN : ByBecomes([by EXCEPT !.endian = e, !.hlswap = h])
  \/ \E s \in ByStrings : ByBecomes(Put(by, s)) \/ \E at \in -1..ByCap : ByBecomes(SetBytes(by, at, s))
  \/ \E v \in ByInts : ByBecomes(PutInt(by, v)) \/ \E at \in Sizes : ByBecomes(SetInt(by, at, v))
  \/ \E w \in {1, 2, 4} : ByBecomes(TakeInt(by, w).b)
  \/ \E n \in Sizes : \/ ByBecomes(Skip(by, n)) \/ ByBecomes(Seek(by, n)) \/ ByBecomes(Reseek(by, n))
                      \/ ByBecomes(Commit(by, n)) \/ ByBecomes(Truncate(by, n))
                      \/ ByBecomes(Fill(by, 1, n)) \/ ByBecomes(Overfill(by, 0, n))
  \/ ByBecomes(Compact(by)) \/ ByBecomes(ClearBytes(by)) \/ ByBecomes([by EXCEPT !.overflow = FALSE])

MbBecomes(buf, size) ==
  /\ mb' = [buf |-> buf, size |-> size]
  /\ UNCHANGED <<by, byLeft, byHost>>

\* ct_msgbuf_write, cut to the space.
MbWrite(s) ==
  LET n == Smaller(Len(s), ByCap - mb.size) IN
    MbBecomes(Replaced(mb.buf, mb.size, SubSeq(s, 1, n)), mb.size + n)

\* ct_msgbuf_fmt: the terminator takes the byte after the text.
MbFmt(s) ==
  LET n == Smaller(Len(s), ByCap - mb.size - 1) IN
    /\ mb.size < ByCap
    /\ MbBecomes(Replaced(mb.buf, mb.size, Append(SubSeq(s, 1, n), 0)), mb.size + n)

MbClear == MbBecomes(mb.buf, 0)

\* ct_msgbuf_seg makes the byte buffer a view of a part of the message's memory.
MbSeg(start, end) ==
  /\ start <= end
  /\ by' = View(SubSeq(mb.buf, start + 1, ByCap), end - start)
  /\ UNCHANGED <<byLeft, byHost, mb>>

MbNext ==
  \/ \E s \in ByStrings : MbWrite(s) \/ MbFmt(s)
  \/ MbClear
  \/ \E start \in {0, 1, ByCap - 2}, end \in {mb.size, ByCap} : MbSeg(start, end)

BySpec == ByInit /\ [][ByNext \/ MbNext]_byVars

-----------------------------------------------------------------------------
(* Properties. *)

\* The bytes of an integer in a buffer, whatever the host.  hlswap_ exchanges the two
\* bytes of each 16-bit word, as binary.h:68-76 and the tests of the buffer have it;
\* bytes.h:26 speaks of a swap of the words, which would keep their bytes.
Wire(b, v) ==
  LET ordered == IF b.endian = "big" THEN v ELSE Reverse(v) IN
    IF b.hlswap /\ Len(v) > 2 THEN Bswap16Lanes(ordered) ELSE ordered

\* The bounds of the buffer hold after every sequence of calls; an integer set
\* or put is laid out as its order says and read back by take, peek and get, in
\* place and through a view; compaction keeps what was not read; what find returns
\* leads from pos + offset to the byte (bytes.c:25); the orders of binary.h do not
\* depend on the host.
BytesIntact ==
  /\ by.pos <= by.len /\ by.len <= Len(by.data) /\ mb.size <= ByCap
  /\ SubSeq(Compact(by).data, 1, Compact(by).len) = SubSeq(by.data, by.pos + 1, by.len)
  /\ \A v \in ByInts, at \in 0..ByCap : at + Len(v) <= by.len =>
       LET b == SetInt(by, at, v) IN
         /\ GetBytes(b, at, Len(v)) = Wire(by, v)
         /\ GetInt(b, at, Len(v)) = v /\ PeekInt(b, at - by.pos, Len(v)) = v
         /\ GetInt(Since(b, at, 0), 0, Len(v)) = v
         /\ TakeInt(Seek(PutInt(Seek(by, at), v), at), Len(v)).v = v
  /\ \A v \in ByInts : Memory(BigEndian(v)) = v /\ Memory(LittleEndian(v)) = Reverse(v)
  /\ \A x \in {0, 1}, at \in 0..(by.len - by.pos) :
       LET d == Find(by, x, at) IN d >= 0 => GetBytes(by, by.pos + at + d, 1) = <<x>>
=============================================================================
