---------------------------- MODULE MCByteStream ----------------------------
(* ByteStream with two byte values and offered strings of up to MaxData    *)
(* bytes, so that a write may fit, fit in part, or not fit at all.         *)
EXTENDS ByteStream

CONSTANT MaxData

MCData == UNION {[1 .. n -> Byte] : n \in 0 .. MaxData}
=============================================================================
