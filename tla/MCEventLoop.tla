---------------------------- MODULE MCEventLoop -----------------------------
(* EventLoop on two small applications: `duplex` has a rule for reading    *)
(* and one for writing on one socket; `relay` reads one descriptor and     *)
(* writes another.                                                         *)
EXTENDS EventLoop

CONSTANTS a, b, reader, writer

duplexFd == (reader :> a) @@ (writer :> a)
relayFd  == (reader :> a) @@ (writer :> b)
copyDir  == (reader :> "In") @@ (writer :> "Out")
=============================================================================
