----------------------------- MODULE Encodings ------------------------------
(***************************************************************************)
(* The codecs of src/encoding (base64.c, hex.c, bcd.h) and the reversed    *)
(* copy of src/core/src/strings.c.  Characters are their codes.  The       *)
(* streaming Base64 encoder is a state machine fed chunk by chunk; the     *)
(* others are functions, tried on what the encoder has been fed.           *)
(***************************************************************************)
EXTENDS Integers, Sequences, SequencesExt

CONSTANTS CdBytes,     \* bytes fed
          CdChars,     \* characters tried on the decoders
          CdLen        \* bound of the instance on the length fed

ASSUME CdAssumption ==
  /\ CdLen \in Nat \ {0}
  /\ CdBytes \subseteq 0..255 /\ CdChars \subseteq 0..255

VARIABLES b64,         \* state_bytes_, cut to state_count_
          b64Fed,      \* history: what was fed
          b64Out,      \* history: what the calls returned, one after the other
          b64Lost      \* history: a call dropped input or characters it had made

cdVars == <<b64, b64Fed, b64Out, b64Lost>>

CdInit == b64 = <<>> /\ b64Fed = <<>> /\ b64Out = <<>> /\ b64Lost = FALSE

EncodeSingle(c) ==
  IF c < 26 THEN c + 65 ELSE IF c < 52 THEN c - 26 + 97 ELSE IF c < 62 THEN c - 52 + 48
  ELSE IF c = 62 THEN 43 ELSE 47

DecodeSingle(c) ==
  IF c \in 65..90 THEN c - 65 ELSE IF c \in 97..122 THEN c + 26 - 97 ELSE IF c \in 48..57 THEN c + 52 - 48
  ELSE IF c = 43 THEN 62 ELSE IF c = 47 THEN 63 ELSE IF c = 61 THEN 64 ELSE -1

\* The characters of three bytes.
Group(s) ==
  <<EncodeSingle(s[1] \div 4), EncodeSingle((s[1] % 4) * 16 + s[2] \div 16),
    EncodeSingle((s[2] % 16) * 4 + s[3] \div 64), EncodeSingle(s[3] % 64)>>

Groups(s) == FlattenSeq([i \in 1..(Len(s) \div 3) |-> Group(SubSeq(s, 3 * i - 2, 3 * i))])

\* A mutant of B64Update: the bytes left over of the chunk before are forgotten.
B64UpdateAfresh(chunk, room) ==
  /\ Len(b64) < 3 \/ chunk = <<>>
  /\ LET out == Groups(chunk) IN
       /\ Len(out) <= room
       /\ b64Out' = b64Out \o out
       /\ b64' = SubSeq(chunk, Len(chunk) - (Len(chunk) % 3) + 1, Len(chunk))
       /\ b64Fed' = b64Fed \o chunk
       /\ UNCHANGED b64Lost

\* ct_base64_encoder_update: a full group is written as soon as it is there;
\* without room for it the call returns 0, whatever it wrote or read before.
B64Update(chunk, room) ==
  LET input == b64 \o chunk
      fits == room \div 4
      used == 3 * fits + 3
  IN IF Len(input) < used
     THEN /\ b64Out' = b64Out \o Groups(input)
          /\ b64' = SubSeq(input, Len(input) - (Len(input) % 3) + 1, Len(input))
          /\ b64Fed' = b64Fed \o chunk
          /\ UNCHANGED b64Lost
     ELSE /\ b64' = SubSeq(input, used - 2, used)
          /\ b64Fed' = b64Fed \o SubSeq(chunk, 1, used - Len(b64))
          /\ b64Lost' = (b64Lost \/ fits > 0 \/ used < Len(input))
          /\ UNCHANGED b64Out

\* The padded end, from one to three bytes; the terminator needs a place too.
Padded(s) ==
  IF s = <<>> \/ Len(s) = 3 THEN Groups(s)
  ELSE IF Len(s) = 1 THEN SubSeq(Group(s \o <<0, 0>>), 1, 2) \o <<61, 61>>
  ELSE SubSeq(Group(s \o <<0>>), 1, 3) \o <<61>>

B64Final(room) ==
  /\ IF room >= Len(Padded(b64)) + 1
     THEN b64' = <<>> /\ b64Out' = <<>> /\ b64Fed' = <<>> /\ b64Lost' = FALSE
     ELSE UNCHANGED cdVars

Chunks == SeqOf(CdBytes, CdLen)

CdNext ==
  \/ \E chunk \in Chunks, room \in {0, 4, 12} :
       /\ Len(b64Fed) + Len(chunk) <= CdLen
       /\ B64Update(chunk, room)
  \/ \E room \in {4, 5} : B64Final(room)

CdSpec == CdInit /\ [][CdNext]_cdVars

\* ct_base64_encode over its own encoder, and ct_base64_decode, which return
\* 0 when they refuse.
Encode64(s, room) ==
  IF room < 4 * ((Len(s) + 2) \div 3) + 1 THEN <<>>
  ELSE Groups(s) \o Padded(SubSeq(s, Len(s) - (Len(s) % 3) + 1, Len(s)))

Refused == <<-1>>

Quad(q) ==
  LET a == DecodeSingle(q[1])   b == DecodeSingle(q[2])
      c == DecodeSingle(q[3])   d == DecodeSingle(q[4])
      bytes == <<(a * 4 + b \div 16) % 256, (b * 16 + c \div 4) % 256, (c * 64 + d) % 256>>
  IN IF a \in {-1, 64} \/ b \in {-1, 64} \/ c = -1 \/ d = -1 THEN Refused
     ELSE IF c = 64 THEN SubSeq(bytes, 1, 1) ELSE IF d = 64 THEN SubSeq(bytes, 1, 2) ELSE bytes

Decode64(s, room) ==
  LET quads == [i \in 1..(Len(s) \div 4) |-> Quad(SubSeq(s, 4 * i - 3, 4 * i))] IN
    IF room < 3 * (Len(s) \div 4) + 1 \/ Refused \in ToSet(quads) THEN <<>> ELSE FlattenSeq(quads)

\* ct_hex_encode, as many whole bytes as fit, and ct_hex_decode.
HexDigit(x) == IF x < 10 THEN x + 48 ELSE x - 10 + 97

EncodeHex(s, max) ==
  FlattenSeq([i \in 1..(IF 2 * Len(s) <= max THEN Len(s) ELSE max \div 2) |->
                <<HexDigit(s[i] \div 16), HexDigit(s[i] % 16)>>])

HexValue(c) ==
  IF c \in 48..57 THEN c - 48 ELSE IF c \in 65..70 THEN c - 65 + 10 ELSE IF c \in 97..102 THEN c - 97 + 10 ELSE -1

\* The digits after the place where the output is full are not looked at.
DecodeDigits(s, max) ==
  LET n == IF Len(s) \div 2 <= max THEN Len(s) \div 2 ELSE max IN
    IF max = 0 \/ Len(s) % 2 # 0 \/ \E i \in 1..(2 * n) : HexValue(s[i]) = -1 THEN Refused
    ELSE [i \in 1..n |-> HexValue(s[2 * i - 1]) * 16 + HexValue(s[2 * i])]

\* strlen of the string that a memory begins with.
StringLength(m) == CHOOSE n \in 0..(Len(m) - 1) : m[n + 1] = 0 /\ \A i \in 1..n : m[i] # 0

\* A length of 0 asks for the length of the string.
DecodeHex(hex, hex_len, max) ==
  DecodeDigits(SubSeq(hex, 1, IF hex_len = 0 THEN StringLength(hex) ELSE hex_len), max)

\* Packed decimal of 8 and 16 bits, with the multiplications that stand for divisions.
Bcd8(bin) == LET b == bin % 100 IN (b + (b \div 10) * 6) % 256

Bcd16(bin) ==
  LET b0 == bin % 10000
      b == (b0 + (b0 \div 100) * 156) % 65536
      lo8 == (b \div 2) % 128
      hi8 == (b \div 512) % 128
      tens == (lo8 * 52) \div 256 + 256 * ((hi8 * 52) \div 256)
  IN (b + tens * 6) % 65536

BcdTo8(bcd) == bcd - (bcd \div 16) * 6

BcdTo16(bcd) ==
  LET nibbles == ((bcd \div 16) % 16) + 256 * ((bcd \div 4096) % 16)
      b == bcd - nibbles * 6
  IN b - (b \div 256) * 156

BcdValid8(bcd) == bcd % 16 <= 9 /\ bcd \div 16 <= 9

\* ct_reverse_memcpy (the two regions disjoint) and ct_reverse_memmove, which
\* copies the part beyond the overlap and reverses the overlap in place.
RevCopied(mem, dst, src, n) ==
  [i \in DOMAIN mem |-> IF dst <= i /\ i < dst + n THEN mem[src + n - 1 - (i - dst)] ELSE mem[i]]

RevMoved(mem, dst, src, n) ==
  IF dst < src
  THEN IF dst + n > src
       THEN LET m == RevCopied(mem, dst, dst + n, src - dst) IN RevCopied(m, src, src, n - (src - dst))
       ELSE RevCopied(mem, dst, src, n)
  ELSE IF dst > src /\ dst < src + n
       THEN LET m == RevCopied(mem, src + n, src, dst - src) IN RevCopied(m, dst, dst, n - (dst - src))
       ELSE RevCopied(mem, dst, src, n)

-----------------------------------------------------------------------------
(* Properties. *)

\* What the streaming encoder has returned, with what it would return at the
\* end, is the encoding of all it was fed, however it was cut into chunks and
\* retried with more room, as long as no call failed after it had done a part
\* (base64.c:46-115).
StreamEncodes ==
  ~b64Lost => b64Out \o Padded(b64) = Encode64(b64Fed, 4 * CdLen + 5)

\* Every text a decoder is given stays within its room.
DecodersKeepRoom ==
  \A s \in SeqOf(CdChars, 4), room \in 0..5 :
    /\ Decode64(s, room) # <<>> => Len(Decode64(s, room)) < room
    /\ \A len \in {0, Len(s)} : LET d == DecodeHex(Append(s, 0), len, room) IN
         d # Refused => Len(d) <= room

\* Packed decimals decode to the number they were made from, modulo the digits.
DecimalsInvert ==
  /\ \A k \in 0..255 : BcdValid8(Bcd8(k)) /\ BcdTo8(Bcd8(k)) = k % 100
  /\ \A hi \in CdBytes, lo \in 0..255 : LET bcd == Bcd16(hi * 256 + lo) IN
       /\ BcdTo16(bcd) = (hi * 256 + lo) % 10000
       /\ BcdValid8(bcd \div 256) /\ BcdValid8(bcd % 256)

\* The reversed move reverses for every overlap of its two regions.
ReversesOverlaps ==
  \A d, s \in 1..4, n \in 0..3, i \in 0..2 :
    i < n => RevMoved([k \in 1..7 |-> k], d, s, n)[d + i] = s + n - 1 - i

\* Decoding inverts encoding, and what is written stays within the room that
\* was given (base64.c:117-153, hex.c:8-65, bcd.h:63-156, strings.c:99-137).
CodecsInvert ==
  /\ \A room \in 0..(4 * CdLen) : LET e == Encode64(b64Fed, room) IN
       e # <<>> => Len(e) < room /\ Decode64(e, CdLen + 3) = b64Fed
  /\ LET e == EncodeHex(b64Fed, 2 * CdLen + 1) IN
       \A len \in {0, Len(e)} : DecodeHex(Append(e, 0), len, CdLen) = b64Fed
  /\ \A room \in 0..4 : Len(EncodeHex(b64Fed, room)) <= room
  /\ DecodersKeepRoom /\ DecimalsInvert /\ ReversesOverlaps
=============================================================================
