----------------------------- MODULE MCSendQueue ----------------------------
(* An empty string, and two that tell their bytes and their order.         *)
EXTENDS SendQueue

CONSTANT other

MCStrings == {<<>>, <<"a">>, <<"b", "c">>}
=============================================================================
