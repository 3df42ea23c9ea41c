------------------------------ MODULE MCWebget ------------------------------
(* Webget with the bounds of the configuration; Sizes says that they make  *)
(* a whole request and a whole response need more than one system call.    *)
EXTENDS Webget

ASSUME Sizes == RequestLen > SendRoom /\ ResponseLen > RecvRoom
=============================================================================
