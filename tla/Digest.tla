------------------------------- MODULE Digest -------------------------------
(***************************************************************************)
(* How src/crypto/src/md5.c and sha1.c cut a message into blocks.  The     *)
(* transformation of a block is not interpreted: a context remembers the   *)
(* blocks it was given.  A block, and the two words of the bit count, are  *)
(* scaled: DgBlock bytes instead of 64, of which DgLen hold the count      *)
(* instead of 8, and words modulo DgWord instead of 2^32.  DgIndex scales  *)
(* 2^32 once more, as the range of the index of ct_sha1_update, so that a  *)
(* call can reach it.                                                      *)
(***************************************************************************)
EXTENDS Integers, Sequences, SequencesExt

CONSTANTS DgBlock, DgLen, DgWord, DgIndex,
          DgMax       \* bound of the instance on the length of the message

\* The count is two words; as in the code, a word counts the bits of whole blocks.
ASSUME DgAssumption ==
  /\ DgLen = 2 /\ DgBlock \in Nat /\ DgBlock > DgLen
  /\ DgWord \in Nat /\ \E k \in 1..DgWord : DgWord = 8 * (DgBlock * k)
  /\ DgMax \in Nat

ASSUME DgIndexAssumption == DgIndex \in Nat \ {0} /\ DgIndex % DgBlock = 0

VARIABLES md5, sha1,  \* the contexts: [blocks, in, lo, hi]
          dgFed       \* history: bytes fed since the last init

dgVars == <<md5, sha1, dgFed>>

\* Bytes: the one at a place of the message, padding, a word of the count, or
\* what lies in memory that nobody has written.
MsgByte(i) == <<"message", i>>
Pad == <<"pad", 128>>
ZeroByte == <<"pad", 0>>
CountByte(v) == <<"count", v>>
Garbage == <<"garbage", 0>>

Context(cell) == [blocks |-> <<>>, in |-> [i \in 1..DgBlock |-> cell], lo |-> 0, hi |-> 0]

DgInit == md5 = Context(ZeroByte) /\ sha1 = Context(Garbage) /\ dgFed = 0

\* The bit count: a word, its carry, and the bits that are beyond the word.
Counted(c, n) ==
  LET lo == (c.lo + 8 * n) % DgWord
      carry == IF lo < c.lo THEN 1 ELSE 0
  IN [c EXCEPT !.lo = lo, !.hi = (@ + carry + (n \div (DgWord \div 8))) % DgWord]

Filled(c) == (c.lo \div 8) % DgBlock

Laid(in, at, s) == [i \in DOMAIN in |-> IF at < i /\ i <= at + Len(s) THEN s[i - at] ELSE in[i]]

Whole(s) == [k \in 1..(Len(s) \div DgBlock) |-> SubSeq(s, DgBlock * (k - 1) + 1, DgBlock * k)]
Remainder(s) == SubSeq(s, Len(s) - (Len(s) % DgBlock) + 1, Len(s))

\* ct_md5_update: the buffer is completed first; whole blocks pass through it.
Md5Update(c, s) ==
  LET at == Filled(c)
      head == IF at = 0 THEN 0 ELSE DgBlock - at
      first == IF at = 0 THEN <<>> ELSE <<Laid(c.in, at, SubSeq(s, 1, head))>>
      rest == SubSeq(s, head + 1, Len(s))
      done == c.blocks \o first \o Whole(rest)
      last == IF Len(done) > Len(c.blocks) THEN Last(done) ELSE c.in
  IN IF Len(s) < head THEN [Counted(c, Len(s)) EXCEPT !.in = Laid(@, at, s)]
     ELSE [Counted(c, Len(s)) EXCEPT !.blocks = done, !.in = Laid(last, 0, Remainder(rest))]

\* The loop over whole blocks counts bytes in a uint32_t, from what completes the first
\* block in steps of a block: it comes to an end only if the rest of the call fits
\* before the index wraps.  A call of 2^32 bytes into an empty block never returns.
Sha1Returns(c, n) == n < DgIndex + ((DgBlock - Filled(c)) % DgBlock)

\* ct_sha1_update, when it returns: whole blocks are taken from where they are.
Sha1Update(c, s) ==
  LET at == Filled(c)
      first == Laid(c.in, at, SubSeq(s, 1, DgBlock - at))
      rest == SubSeq(s, DgBlock - at + 1, Len(s))
  IN IF at + Len(s) > DgBlock - 1
     THEN [Counted(c, Len(s)) EXCEPT !.blocks = Append(@, first) \o Whole(rest),
                                     !.in = Laid(first, 0, Remainder(rest))]
     ELSE [Counted(c, Len(s)) EXCEPT !.in = Laid(@, at, s)]

Zeros(n) == [i \in 1..n |-> ZeroByte]

\* ct_md5_final: a block more when the count does not fit behind the padding.
Md5Final(c) ==
  LET at == Filled(c)
      room == DgBlock - 1 - at
      full == Laid(c.in, at, <<Pad>> \o Zeros(room))
      last == IF room < DgLen THEN Zeros(DgBlock) ELSE full
      before == IF room < DgLen THEN <<full>> ELSE <<>>
  IN c.blocks \o before \o <<Laid(last, DgBlock - DgLen, <<CountByte(c.lo), CountByte(c.hi)>>)>>

\* ct_sha1_final: the padding is fed byte by byte, then the count.
Sha1Final(c) ==
  LET padding == <<Pad>> \o Zeros((DgBlock - DgLen - 1 - Filled(c)) % DgBlock)
      padded[k \in 0..Len(padding)] == IF k = 0 THEN c ELSE Sha1Update(padded[k - 1], <<padding[k]>>)
  IN Sha1Update(padded[Len(padding)], <<CountByte(c.hi), CountByte(c.lo)>>).blocks

\* Both contexts are fed the same chunks, each of them one for which both calls return.
DgUpdate(n) ==
  /\ dgFed + n <= DgMax
  /\ Sha1Returns(sha1, n)
  /\ dgFed' = dgFed + n
  /\ LET s == [i \in 1..n |-> MsgByte(dgFed + i)] IN
       md5' = Md5Update(md5, s) /\ sha1' = Sha1Update(sha1, s)

DgNext == \E n \in 0..DgMax : DgUpdate(n)

DgSpec == DgInit /\ [][DgNext]_dgVars

-----------------------------------------------------------------------------
(* Properties. *)

\* The message of n bytes with the least padding before its count, in blocks.
PaddedMessage(n, counter) ==
  LET free == DgBlock - ((n + 1 + DgLen) % DgBlock)
  IN Whole([i \in 1..n |-> MsgByte(i)] \o <<Pad>> \o Zeros(free % DgBlock) \o counter)

\* In whatever chunks a message is fed for which the calls return, the digest of what
\* there is so far is made of the padded message, each byte once and none from memory
\* nobody has written, with its length in both words (md5.c:160-220, sha1.c:176-214).
DigestsWhole ==
  LET lo == CountByte((8 * dgFed) % DgWord)
      hi == CountByte(((8 * dgFed) \div DgWord) % DgWord)
  IN /\ Md5Final(md5) = PaddedMessage(dgFed, <<lo, hi>>)
     /\ Sha1Final(sha1) = PaddedMessage(dgFed, <<hi, lo>>)
=============================================================================
