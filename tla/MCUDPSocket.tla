----------------------------- MODULE MCUDPSocket ----------------------------
(* Two endpoints that differ in both bytes of the address and in the port; *)
(* of two datagrams sent, the first is duplicated.                         *)
EXTENDS UDPSocket

MCEndpoint == {<<1, 1>>, <<2, 2>>}
MCCopies == <<2, 1>>
=============================================================================
