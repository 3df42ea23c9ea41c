---------------------------- MODULE WebgetProofs ----------------------------
(***************************************************************************)
(* Proofs about Webget, for every length of the request and the response   *)
(* and every size of the connection's buffers.  The inductive invariant    *)
(* IInv accounts for every request byte (left in write(), in flight, or    *)
(* received), numbers every response byte that was printed or is in        *)
(* flight, and says what EOF means.                                        *)
(***************************************************************************)
EXTENDS Webget, SequenceTheorems, TLAPS

Before == {"resolve", "socket", "connect", "write", "shutdown"}

(* Request bytes: none is lost or doubled while the connection stands, and *)
(* the client's FIN says that everything before it arrived.                *)
RequestInv ==
  /\ up + got + unsent <= RequestLen
  /\ ~ reset => up + got + unsent = RequestLen
  /\ upFin \/ pc \in {"shutdown", "read", "close", "success"} => unsent = 0
  /\ sawFin => got = RequestLen

(* Response bytes: printed, then in flight, in order; a reset may drop     *)
(* bytes but never reorders them.                                          *)
ResponseInv ==
  /\ \A i \in 1 .. Len(printed) : printed[i] = i
  /\ \A i \in 1 .. Len(down) : down[i] = Len(printed) + i
  /\ Len(printed) + Len(down) <= sent
  /\ ~ reset => Len(printed) + Len(down) = sent
  /\ (pc = "read" /\ eof) \/ pc \in {"close", "success"} => downFin /\ Len(printed) = sent

(* EOF is seen in the read loop only.                                      *)
EofInv == eof => pc \notin Before

IInv == TypeOK /\ RequestInv /\ ResponseInv /\ EofInv
-----------------------------------------------------------------------------
(* Establishing the invariant.                                             *)
LEMMA InitIInv == Init => IInv
<1> SUFFICES ASSUME Init PROVE IInv
  OBVIOUS
<1>1. <<>> \in Seq(1 .. ResponseLen) /\ Len(<<>>) = 0
  BY EmptySeq
<1>2. TypeOK
  <2>1. {eof, upFin, downFin, reset, sawFin} \subseteq BOOLEAN
    BY Zenon DEF Init
  <2>2. 0 \in 0 .. SendRoom /\ 0 \in 0 .. RequestLen /\ 0 \in 0 .. ResponseLen
        /\ RequestLen \in 0 .. RequestLen /\ 0 <= RecvRoom
    BY WebgetAssumption
  <2> QED BY <1>1, <2>1, <2>2 DEF Init, TypeOK
<1>3. RequestInv
  BY WebgetAssumption DEF Init, RequestInv
<1>4. ResponseInv
  BY <1>1, WebgetAssumption DEF Init, ResponseInv
<1>5. EofInv
  BY DEF Init, EofInv, Ended, Before
<1> QED BY <1>2, <1>3, <1>4, <1>5 DEF IInv

(* An exception that leaves get_URL() preserves the invariant.             *)
LEMMA FailsIInv ==
  ASSUME IInv, Fails
  PROVE  IInv'
<1>1. TypeOK'
  BY DEF IInv, TypeOK, Fails, wire, server, Ended
<1>2. RequestInv'
  BY DEF IInv, TypeOK, RequestInv, Fails, wire, server
<1>3. ResponseInv'
  BY DEF IInv, TypeOK, ResponseInv, Fails, wire, server
<1>4. EofInv'
  BY DEF IInv, EofInv, Fails, Ended, Before
<1> QED BY <1>1, <1>2, <1>3, <1>4 DEF IInv

(* So does a call that only moves on, to where its invariant holds.        *)
LEMMA ProceedsIInv ==
  ASSUME IInv, NEW call, Proceeds(call),
         \/ pc \in {"resolve", "socket", "connect"} /\ call \in {"socket", "connect", "write", "killed"}
         \/ pc = "write" /\ call = "killed"
         \/ pc = "read" /\ eof /\ call = "close"
         \/ pc = "close" /\ call = "success"
  PROVE  IInv'
<1>1. /\ pc' = call /\ UNCHANGED <<unsent, eof, printed, up, upFin, down, downFin, reset, got, sawFin, sent>>
  BY DEF Proceeds, wire, server
<1>2. TypeOK'
  BY <1>1 DEF IInv, TypeOK, Ended
<1>3. RequestInv'
  BY <1>1 DEF IInv, TypeOK, RequestInv
<1>4. ResponseInv'
  BY <1>1 DEF IInv, TypeOK, ResponseInv
<1>5. EofInv'
  BY <1>1 DEF IInv, EofInv, Before
<1> QED BY <1>2, <1>3, <1>4, <1>5 DEF IInv

(* The calls before the request is written preserve the invariant.         *)
LEMMA SetupIInv ==
  ASSUME IInv, Resolve \/ OpenSocket \/ Connect
  PROVE  IInv'
BY FailsIInv, ProceedsIInv DEF Resolve, OpenSocket, Connect

(* write() preserves the invariant, in one ::writev() or in many.          *)
LEMMA WriteIInv ==
  ASSUME IInv, Write \/ WriteFails
  PROVE  IInv'
<1>1. CASE Write
  <2> PICK n \in 1 .. unsent :
        /\ pc = "write" /\ ~ reset
        /\ up + n <= SendRoom
        /\ up' = up + n
        /\ unsent' = unsent - n
        /\ pc' = AfterWrite(unsent - n)
        /\ UNCHANGED <<eof, printed, upFin, down, downFin, reset, server>>
    BY <1>1 DEF Write
  <2>1. pc' \in {"write", "shutdown"} /\ (pc' = "shutdown" => unsent' = 0)
    BY WebgetAssumption DEF IInv, TypeOK, AfterWrite
  <2>2. TypeOK'
    BY <2>1, WebgetAssumption DEF IInv, TypeOK, server
  <2>3. RequestInv'
    BY <2>1, WebgetAssumption DEF IInv, TypeOK, RequestInv, server
  <2>4. ResponseInv'
    BY <2>1 DEF IInv, TypeOK, ResponseInv, server
  <2>5. EofInv'
    BY <2>1 DEF IInv, EofInv, Ended, Before
  <2> QED BY <2>2, <2>3, <2>4, <2>5 DEF IInv
<1>2. CASE WriteFails
  BY <1>2, FailsIInv, ProceedsIInv DEF WriteFails
<1> QED BY <1>1, <1>2

(* shutdown(SHUT_WR) preserves the invariant: it follows the whole request.*)
LEMMA ShutdownIInv ==
  ASSUME IInv, Shutdown \/ ShutdownFails
  PROVE  IInv'
<1>1. CASE ShutdownFails
  BY <1>1, FailsIInv DEF ShutdownFails
<1>2. CASE Shutdown
  <2>1. TypeOK'
    BY <1>2 DEF IInv, TypeOK, Shutdown, server
  <2>2. RequestInv'
    BY <1>2 DEF IInv, TypeOK, RequestInv, Shutdown, server
  <2>3. ResponseInv'
    BY <1>2 DEF IInv, TypeOK, ResponseInv, EofInv, Shutdown, server, Before
  <2>4. EofInv'
    BY <1>2 DEF IInv, EofInv, Shutdown, Ended, Before
  <2> QED BY <2>1, <2>2, <2>3, <2>4 DEF IInv
<1> QED BY <1>1, <1>2

(* Where ::read() cuts what has arrived: the bytes returned and the bytes  *)
(* left keep their order.                                                  *)
LEMMA CutProperties ==
  ASSUME NEW S, NEW s \in Seq(S), NEW n \in 1 .. Len(s)
  PROVE  /\ SubSeq(s, 1, n) \in Seq(S)
         /\ Len(SubSeq(s, 1, n)) = n
         /\ \A i \in 1 .. n : SubSeq(s, 1, n)[i] = s[i]
         /\ SubSeq(s, n + 1, Len(s)) \in Seq(S)
         /\ Len(SubSeq(s, n + 1, Len(s))) = Len(s) - n
         /\ \A i \in 1 .. Len(s) - n : SubSeq(s, n + 1, Len(s))[i] = s[n + i]
<1>1. /\ SubSeq(s, 1, n) \in Seq(S)
      /\ Len(SubSeq(s, 1, n)) = n
      /\ SubSeq(s, n + 1, Len(s)) \in Seq(S)
      /\ Len(SubSeq(s, n + 1, Len(s))) = Len(s) - n
  OBVIOUS
<1>2. ASSUME NEW i \in 1 .. n
      PROVE  SubSeq(s, 1, n)[i] = s[i]
  BY <1>1
<1>3. ASSUME NEW i \in 1 .. Len(s) - n
      PROVE  SubSeq(s, n + 1, Len(s))[i] = s[n + i]
  BY <1>1
<1> QED BY <1>1, <1>2, <1>3

(* A read() that returns bytes moves them from the connection to cout.     *)
LEMMA ReadIInv ==
  ASSUME IInv, Read
  PROVE  IInv'
<1>0. PICK n \in 1 .. Len(down) :
      /\ printed' = printed \o SubSeq(down, 1, n)
      /\ down' = SubSeq(down, n + 1, Len(down))
  BY DEF Read
<1> DEFINE front == SubSeq(down, 1, n)
<1>1. /\ pc = "read" /\ ~ eof
      /\ UNCHANGED <<pc, unsent, eof, up, upFin, downFin, reset,
                     got, sawFin, sent>>
  BY DEF Read, AtRead, server
<1>2. /\ printed \in Seq(1 .. ResponseLen) /\ down \in Seq(1 .. ResponseLen)
      /\ Len(printed) \in Nat /\ Len(down) \in Nat /\ n \in Nat
  BY DEF IInv, TypeOK
<1>3. /\ front \in Seq(1 .. ResponseLen)
      /\ Len(front) = n
      /\ \A i \in 1 .. n : front[i] = down[i]
  BY <1>2, CutProperties, ZenonT(30)
<1>4. /\ down' \in Seq(1 .. ResponseLen)
      /\ Len(down') = Len(down) - n
      /\ \A i \in 1 .. Len(down) - n : down'[i] = down[n + i]
  BY <1>0, <1>2, CutProperties
<1> HIDE DEF front
<1>5. /\ printed' \in Seq(1 .. ResponseLen)
      /\ Len(printed') = Len(printed) + n
      /\ \A i \in 1 .. Len(printed) + n :
            printed'[i] = IF i <= Len(printed) THEN printed[i] ELSE front[i - Len(printed)]
  BY <1>0, <1>2, <1>3, ConcatProperties DEF front
<1>6. TypeOK'
  BY <1>1, <1>2, <1>4, <1>5, WebgetAssumption DEF IInv, TypeOK
<1>7. RequestInv'
  BY <1>1 DEF IInv, TypeOK, RequestInv
<1>8. ResponseInv'
  <2>1. \A i \in 1 .. Len(printed') : printed'[i] = i
    <3> SUFFICES ASSUME NEW i \in 1 .. Len(printed) + n
                 PROVE  printed'[i] = i
      BY <1>5
    <3>1. CASE i <= Len(printed)
      BY <3>1, <1>2, <1>5 DEF IInv, ResponseInv
    <3>2. CASE i > Len(printed)
      <4> DEFINE j == i - Len(printed)
      <4>1. j \in 1 .. n /\ j \in 1 .. Len(down) /\ Len(printed) + j = i
        BY <3>2, <1>2
      <4>2. printed'[i] = front[j]
        BY <3>2, <1>2, <1>5
      <4> HIDE DEF j
      <4>3. front[j] = Len(printed) + j
        BY <4>1, <1>3 DEF IInv, ResponseInv
      <4> QED BY <4>1, <4>2, <4>3
    <3> QED BY <3>1, <3>2, <1>2
  <2>2. \A i \in 1 .. Len(down') : down'[i] = Len(printed') + i
    BY <1>2, <1>4, <1>5 DEF IInv, ResponseInv
  <2>3. Len(printed') + Len(down') = Len(printed) + Len(down)
    <3>1. Len(printed') = Len(printed) + n /\ Len(down') = Len(down) - n
      BY <1>4, <1>5
    <3> QED BY <3>1, <1>2
  <2> QED BY <2>1, <2>2, <2>3, <1>1 DEF IInv, ResponseInv
<1>9. EofInv'
  BY <1>1 DEF IInv, EofInv
<1> QED BY <1>6, <1>7, <1>8, <1>9 DEF IInv

(* EOF, an error of read(), and the end of the loop preserve the           *)
(* invariant: EOF is seen only when nothing is left to print.              *)
LEMMA ReadEndsIInv ==
  ASSUME IInv, ReadEof \/ ReadFails \/ ReadLoopEnds
  PROVE  IInv'
<1>1. CASE ReadFails
  BY <1>1, FailsIInv DEF ReadFails
<1>2. CASE ReadEof
  <2>1. TypeOK'
    BY <1>2 DEF IInv, TypeOK, ReadEof, wire, server
  <2>2. RequestInv'
    BY <1>2 DEF IInv, TypeOK, RequestInv, ReadEof, wire, server
  <2>3. ResponseInv'
    <3>1. Len(down) = 0 /\ Len(printed) = sent
      BY <1>2 DEF IInv, TypeOK, ResponseInv, ReadEof
    <3> QED BY <3>1, <1>2 DEF IInv, TypeOK, ResponseInv, ReadEof, wire, server
  <2>4. EofInv'
    BY <1>2 DEF IInv, EofInv, ReadEof, AtRead, Before
  <2> QED BY <2>1, <2>2, <2>3, <2>4 DEF IInv
<1>3. CASE ReadLoopEnds
  BY <1>3, ProceedsIInv DEF ReadLoopEnds
<1> QED BY <1>1, <1>2, <1>3

(* close() preserves the invariant, whether or not it reports an error.    *)
LEMMA CloseIInv ==
  ASSUME IInv, Close
  PROVE  IInv'
BY FailsIInv, ProceedsIInv DEF Close

(* The server's steps preserve the invariant.                              *)
LEMMA ServerIInv ==
  ASSUME IInv, Server
  PROVE  IInv'
<1>1. CASE ServerReceives
  <2>1. TypeOK'
    BY <1>1, WebgetAssumption DEF IInv, TypeOK, RequestInv, ServerReceives, client
  <2>2. RequestInv'
    BY <1>1, WebgetAssumption DEF IInv, TypeOK, RequestInv, ServerReceives, client
  <2>3. ResponseInv' /\ EofInv'
    BY <1>1 DEF IInv, ResponseInv, EofInv, ServerReceives, client
  <2> QED BY <2>1, <2>2, <2>3 DEF IInv
<1>2. CASE ServerSeesFin
  <2>1. TypeOK'
    BY <1>2 DEF IInv, TypeOK, ServerSeesFin, client, wire
  <2>2. RequestInv'
    BY <1>2, WebgetAssumption DEF IInv, TypeOK, RequestInv, ServerSeesFin, client, wire
  <2>3. ResponseInv' /\ EofInv'
    BY <1>2 DEF IInv, ResponseInv, EofInv, ServerSeesFin, client, wire
  <2> QED BY <2>1, <2>2, <2>3 DEF IInv
<1>3. CASE ServerResponds
  <2>1. /\ down \in Seq(1 .. ResponseLen) /\ Len(down) \in Nat
        /\ Len(printed) \in Nat /\ sent \in Nat /\ sent + 1 \in 1 .. ResponseLen
    BY <1>3, WebgetAssumption DEF IInv, TypeOK, ServerResponds
  <2>2. /\ down' \in Seq(1 .. ResponseLen)
        /\ Len(down') = Len(down) + 1
        /\ \A i \in 1 .. Len(down) : down'[i] = down[i]
        /\ down'[Len(down) + 1] = sent + 1
    BY <1>3, <2>1, AppendProperties DEF ServerResponds
  <2>3. TypeOK'
    BY <1>3, <2>1, <2>2, WebgetAssumption DEF IInv, TypeOK, ServerResponds, client
  <2>4. RequestInv'
    BY <1>3 DEF IInv, RequestInv, ServerResponds, client
  <2>5. ResponseInv'
    <3>1. Len(printed) + Len(down) = sent
      BY <1>3 DEF IInv, ResponseInv, ServerResponds
    <3>2. \A i \in 1 .. Len(down') : down'[i] = Len(printed) + i
      BY <2>1, <2>2, <3>1 DEF IInv, ResponseInv
    <3> QED BY <1>3, <2>1, <2>2, <3>1, <3>2 DEF IInv, ResponseInv, ServerResponds, client
  <2>6. EofInv'
    BY <1>3 DEF IInv, EofInv, ServerResponds, client
  <2> QED BY <2>3, <2>4, <2>5, <2>6 DEF IInv
<1>4. CASE ServerCloses
  <2>1. TypeOK'
    BY <1>4 DEF IInv, TypeOK, ServerCloses, client, server
  <2>2. RequestInv' /\ ResponseInv' /\ EofInv'
    BY <1>4 DEF IInv, RequestInv, ResponseInv, EofInv, ServerCloses, client, server
  <2> QED BY <2>1, <2>2 DEF IInv
<1> QED BY <1>1, <1>2, <1>3, <1>4 DEF Server

(* A reset at any point preserves the invariant.                           *)
LEMMA ResetsIInv ==
  ASSUME IInv, Resets
  PROVE  IInv'
<1>1. /\ <<>> \in Seq(1 .. ResponseLen) /\ Len(<<>>) = 0
      /\ Len(printed) \in Nat /\ Len(down) \in Nat
  BY EmptySeq DEF IInv, TypeOK
<1>2. TypeOK'
  <2>1. {eof, upFin, downFin, reset, sawFin}' \subseteq BOOLEAN
    BY Zenon DEF IInv, TypeOK, Resets, client, server
  <2>2. up' \in 0 .. SendRoom /\ down' \in Seq(1 .. ResponseLen) /\ Len(down') <= RecvRoom
    <3>1. up' = 0 /\ 0 \in 0 .. SendRoom /\ 0 <= RecvRoom
      BY WebgetAssumption DEF Resets
    <3>2. down \in Seq(1 .. ResponseLen) /\ Len(down) <= RecvRoom
      BY DEF IInv, TypeOK
    <3>3. down' = down \/ down' = <<>>
      BY DEF Resets
    <3> QED BY <1>1, <3>1, <3>2, <3>3
  <2> QED BY <2>1, <2>2 DEF IInv, TypeOK, Resets, client, server
<1>3. RequestInv'
  BY WebgetAssumption DEF IInv, TypeOK, RequestInv, Resets, client, server
<1>4. ResponseInv'
  BY <1>1 DEF IInv, TypeOK, ResponseInv, Resets, client, server
<1>5. EofInv'
  BY DEF IInv, EofInv, Resets, client
<1> QED BY <1>2, <1>3, <1>4, <1>5 DEF IInv

(* A step that changes nothing preserves the invariant.                    *)
LEMMA StutterIInv ==
  ASSUME IInv, UNCHANGED vars
  PROVE  IInv'
BY DEF IInv, TypeOK, RequestInv, ResponseInv, EofInv, vars, client, server, wire

(* IInv is an invariant of webget and its connection.                      *)
LEMMA Invariance == Spec => []IInv
<1>1. IInv /\ [Next]_vars => IInv'
  BY SetupIInv, WriteIInv, ShutdownIInv, ReadIInv, ReadEndsIInv, CloseIInv,
     ServerIInv, ResetsIInv, StutterIInv
  DEF Next, Client
<1> QED BY <1>1, InitIInv, PTL DEF Spec
-----------------------------------------------------------------------------
(* webget's state and both directions of its connection stay within their  *)
(* types and rooms, whatever the sizes.                                    *)
THEOREM TypeCorrect == Spec => []TypeOK
<1>1. IInv => TypeOK
  BY DEF IInv
<1> QED BY <1>1, Invariance, PTL

(* EXIT_SUCCESS of main() means that the whole request was written and     *)
(* that what the server sent before it closed, which need not be a whole   *)
(* response, was printed once and in order.                                *)
THEOREM SuccessPrintsAllSent == Spec => []SuccessMeansAllPrinted
<1>1. IInv => SuccessMeansAllPrinted
  <2> SUFFICES ASSUME IInv, pc = "success"
               PROVE  printed = [i \in 1 .. sent |-> i] /\ unsent = 0
    BY DEF SuccessMeansAllPrinted
  <2>1. printed \in Seq(1 .. ResponseLen) /\ Len(printed) = sent /\ sent \in Nat
    BY WebgetAssumption DEF IInv, TypeOK, ResponseInv
  <2>2. printed = [i \in 1 .. sent |-> printed[i]]
    BY <2>1
  <2>3. \A i \in 1 .. sent : printed[i] = i
    BY <2>1 DEF IInv, ResponseInv
  <2>4. unsent = 0
    BY DEF IInv, RequestInv
  <2> QED BY <2>2, <2>3, <2>4
<1> QED BY <1>1, Invariance, PTL

(* A server that sees get_URL()'s half-close has the whole request.        *)
THEOREM FinIsLast == Spec => []FinAfterRequest
<1>1. IInv => FinAfterRequest
  BY DEF IInv, RequestInv, FinAfterRequest
<1> QED BY <1>1, Invariance, PTL
=============================================================================
