------------------------------- MODULE Webget -------------------------------
(***************************************************************************)
(* apps/webget.cc: get_URL() opens a TCP connection, writes a request,     *)
(* shuts down its sending side, prints what it reads until EOF, and closes *)
(* the socket; main() turns an exception into EXIT_FAILURE.  The calls go  *)
(* through TCPSocket, Socket and FileDescriptor (libsponge/util).          *)
(*                                                                         *)
(* The TCP connection and the server are external.  The request does not   *)
(* ask for "Connection: close", so the server may keep the connection open *)
(* until it sees the client's FIN; it may close earlier.  Either side's    *)
(* buffers are bounded, and the connection may be reset at any time.       *)
(*                                                                         *)
(* Request bytes are counted; response bytes are numbered 1, 2, ... so     *)
(* that loss, duplication and reordering show.                             *)
(***************************************************************************)
EXTENDS Integers, Sequences

CONSTANTS
  RequestLen,   \* bytes in the request
  ResponseLen,  \* bytes in the whole response
  SendRoom,     \* bytes the connection holds towards the server
  RecvRoom      \* bytes the connection holds towards the client

ASSUME WebgetAssumption ==
  /\ RequestLen \in Nat \ {0} /\ SendRoom \in Nat \ {0}
  /\ ResponseLen \in Nat      /\ RecvRoom \in Nat \ {0}

VARIABLES
  pc,         \* the client's next call, or how the process ended
  unsent,     \* bytes left in write()'s BufferViewList
  eof,        \* FDWrapper::_eof
  printed,    \* what was given to cout
  up, upFin,  \* kernel: request bytes in flight, and the client's FIN
  down,       \* kernel: Seq of response bytes in flight
  downFin,    \* kernel: the server's FIN
  reset,      \* kernel: the connection was reset
  got,        \* server: request bytes received
  sawFin,     \* server: it saw the client's FIN
  sent        \* server: response bytes sent

client == <<pc, unsent, eof, printed>>
server == <<got, sawFin, sent>>
wire   == <<up, upFin, down, downFin, reset>>
vars   == <<client, server, wire>>

Ended == {"success", "failure", "killed"}

Init ==
  /\ pc = "resolve" /\ unsent = RequestLen /\ printed = <<>>
  /\ eof = FALSE
  /\ up = 0 /\ upFin = FALSE /\ down = <<>> /\ downFin = FALSE /\ reset = FALSE
  /\ got = 0 /\ sawFin = FALSE /\ sent = 0
-----------------------------------------------------------------------------
(* An exception leaves get_URL() and main() returns EXIT_FAILURE.  That    *)
(* the socket's destructor releases its number is a matter of Sockets.     *)
Fails ==
  /\ pc' = "failure"
  /\ UNCHANGED <<unsent, eof, printed, wire, server>>

Proceeds(call) ==
  /\ pc' = call
  /\ UNCHANGED <<unsent, eof, printed, wire, server>>

(* main()'s checks of its arguments, the first of which calls abort(), and *)
(* Address(host, "http"), which may throw.                                 *)
Resolve ==
  /\ pc = "resolve"
  /\ Proceeds("socket") \/ Proceeds("killed") \/ Fails

OpenSocket ==
  /\ pc = "socket"
  /\ Proceeds("connect") \/ Fails

Connect ==
  /\ pc = "connect"
  /\ Proceeds("write") \/ Fails

(* write(): one ::writev() takes what the connection has room for, and the *)
(* do-while repeats until nothing is left (write_all is TRUE).  It blocks  *)
(* while there is no room.                                                 *)
AfterWrite_Once(left) == "shutdown"
AfterWrite(left) == IF left > 0 THEN "write" ELSE "shutdown"

Write_DropsTwice ==
  /\ pc = "write" /\ ~ reset
  /\ \E n \in 1 .. unsent :
        /\ up + n <= SendRoom
        /\ up' = up + n
        /\ unsent' = unsent - 2 * n
        /\ pc' = AfterWrite(unsent - 2 * n)
  /\ UNCHANGED <<eof, printed, upFin, down, downFin, reset, server>>
Write ==
  /\ pc = "write" /\ ~ reset
  /\ \E n \in 1 .. unsent :
        /\ up + n <= SendRoom
        /\ up' = up + n
        /\ unsent' = unsent - n
        /\ pc' = AfterWrite(unsent - n)
  /\ UNCHANGED <<eof, printed, upFin, down, downFin, reset, server>>

(* On a connection that was reset ::writev() fails, or raises SIGPIPE,     *)
(* which kills the process.                                                *)
WriteFails ==
  /\ pc = "write" /\ reset
  /\ Proceeds("killed") \/ Fails

(* shutdown(SHUT_WR): FIN after the bytes written, or ENOTCONN.            *)
Shutdown_Omitted ==
  /\ pc = "shutdown" /\ ~ reset
  /\ Proceeds("read")
Shutdown ==
  /\ pc = "shutdown" /\ ~ reset
  /\ upFin' = TRUE
  /\ pc' = "read"
  /\ UNCHANGED <<unsent, eof, printed, up, down, downFin, reset, server>>

ShutdownFails ==
  /\ pc = "shutdown" /\ reset
  /\ Fails

(* while (!eof()) cout << read(): ::read() returns some of what is there,  *)
(* blocks while there is nothing, and returns 0 after the server's FIN.    *)
(* Nothing looks at the state of cout, so a failed stdout goes unnoticed:  *)
(* printed is what cout was given.                                         *)
AtRead == pc = "read" /\ ~ eof

Read_StopsEarly ==
  /\ AtRead /\ down # <<>>
  /\ \E n \in 1 .. Len(down) :
        /\ printed' = printed \o SubSeq(down, 1, n)
        /\ down' = SubSeq(down, n + 1, Len(down))
        /\ eof' = (n < RecvRoom)
  /\ UNCHANGED <<pc, unsent, up, upFin, downFin, reset, server>>
Read ==
  /\ AtRead /\ down # <<>>
  /\ \E n \in 1 .. Len(down) :
        /\ printed' = printed \o SubSeq(down, 1, n)
        /\ down' = SubSeq(down, n + 1, Len(down))
  /\ UNCHANGED <<pc, unsent, eof, up, upFin, downFin, reset, server>>

ReadEof ==
  /\ AtRead /\ down = <<>> /\ downFin /\ ~ reset
  /\ eof' = TRUE
  /\ UNCHANGED <<pc, unsent, printed, wire, server>>

ReadFails ==
  /\ AtRead /\ down = <<>> /\ reset
  /\ Fails

ReadLoopEnds ==
  /\ pc = "read" /\ eof
  /\ Proceeds("close")

(* close() and the return to main(); ::close() may report an error.        *)
Close ==
  /\ pc = "close"
  /\ Proceeds("success") \/ Fails

Client ==
  \/ Resolve \/ OpenSocket \/ Connect
  \/ Write \/ WriteFails
  \/ Shutdown \/ ShutdownFails
  \/ Read \/ ReadEof \/ ReadFails \/ ReadLoopEnds
  \/ Close
-----------------------------------------------------------------------------
(* The server and the connection.  HTTP/1.1 lets a server answer, and      *)
(* close, at any time: with an error before it has the request, short of   *)
(* the response, after a timeout.                                          *)
Connected == pc \notin {"resolve", "socket", "connect"}

ServerReceives ==
  /\ up > 0 /\ ~ reset
  /\ up' = up - 1 /\ got' = got + 1
  /\ UNCHANGED <<client, upFin, down, downFin, reset, sawFin, sent>>

ServerSeesFin ==
  /\ upFin /\ up = 0 /\ ~ sawFin /\ ~ reset
  /\ sawFin' = TRUE
  /\ UNCHANGED <<client, wire, got, sent>>

ServerResponds ==
  /\ Connected /\ sent < ResponseLen /\ Len(down) < RecvRoom
  /\ ~ downFin /\ ~ reset
  /\ down' = Append(down, sent + 1)
  /\ sent' = sent + 1
  /\ UNCHANGED <<client, up, upFin, downFin, reset, got, sawFin>>

ServerCloses ==
  /\ Connected /\ ~ downFin /\ ~ reset
  /\ downFin' = TRUE
  /\ UNCHANGED <<client, up, upFin, down, reset, server>>

(* RST: what is in flight towards the server is lost; what the client has  *)
(* not read may be.                                                        *)
Resets ==
  /\ Connected /\ pc \notin Ended /\ ~ reset
  /\ reset' = TRUE /\ up' = 0
  /\ down' \in {down, <<>>}
  /\ UNCHANGED <<client, upFin, downFin, server>>

Server == ServerReceives \/ ServerSeesFin \/ ServerResponds \/ ServerCloses

Next == Client \/ Server \/ Resets

(* The client's calls return once they can, the connection delivers, and a *)
(* server that has seen the client's FIN closes in the end.  Nothing makes *)
(* it close before that, or respond, and nothing breaks the connection.    *)
Spec ==
  /\ Init
  /\ [][Next]_vars
  /\ WF_vars(Client)
  /\ WF_vars(ServerReceives) /\ WF_vars(ServerSeesFin)
  /\ WF_vars(sawFin /\ ServerCloses)
-----------------------------------------------------------------------------
(* Type invariant: the client's state, and buffers within their rooms.     *)
TypeOK ==
  /\ pc \in Ended \cup {"resolve", "socket", "connect", "write", "shutdown",
                        "read", "close"}
  /\ unsent \in 0 .. RequestLen
  /\ {eof, upFin, downFin, reset, sawFin} \subseteq BOOLEAN
  /\ printed \in Seq(1 .. ResponseLen)
  /\ up \in 0 .. SendRoom
  /\ down \in Seq(1 .. ResponseLen) /\ Len(down) <= RecvRoom
  /\ got \in 0 .. RequestLen /\ sent \in 0 .. ResponseLen

(* EXIT_SUCCESS means that the whole request was written and everything    *)
(* that the server sent before it closed was printed, once and in order: a *)
(* reset or a short read never passes for the end of the response.  (A     *)
(* server that closes early does, since nothing looks at Content-Length.)  *)
SuccessMeansAllPrinted ==
  pc = "success" => printed = [i \in 1 .. sent |-> i] /\ unsent = 0

(* The half-close comes after the whole request, although ::writev() may   *)
(* take it in pieces: a server that sees FIN has every byte.               *)
FinAfterRequest == sawFin => got = RequestLen

(* webget ends: it reads until EOF from a server that may keep the         *)
(* connection open until it sees FIN, so neither waits for the other for   *)
(* ever.                                                                   *)
Terminates == <>(pc \in Ended)
=============================================================================
