------------------------------- MODULE Codecs -------------------------------
(***************************************************************************)
(* The encodings and the digests together.                                 *)
(***************************************************************************)
EXTENDS Encodings, Digest

-----------------------------------------------------------------------------
(* Properties. *)

\* What is encoded, in one call or streamed in chunks, decodes to what it was,
\* and what is digested in chunks is the whole message, padded (src/encoding,
\* src/crypto, and the reversed copies of strings.c:56-137).
EncodingsInvert == StreamEncodes /\ CodecsInvert /\ DigestsWhole
=============================================================================
