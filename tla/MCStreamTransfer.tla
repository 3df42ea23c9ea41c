-------------------------- MODULE MCStreamTransfer --------------------------
(* Every message of up to MaxData bytes through a small buffer.            *)
EXTENDS StreamTransfer

CONSTANT MaxData

MCData == UNION {[1 .. n -> Byte] : n \in 0 .. MaxData}
=============================================================================
