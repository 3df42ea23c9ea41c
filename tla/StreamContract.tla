--------------------------- MODULE StreamContract ---------------------------
(***************************************************************************)
(* What byte_stream.hh promises, stated without a buffer: a stream is the  *)
(* sequence of all the bytes ever accepted, and a cursor says how many of  *)
(* them the reader has taken.  The writer may append only as much as keeps *)
(* the untaken part within Capacity, and never holds back room it has;     *)
(* "the writer can end the input, and then no more bytes can be written".  *)
(* ByteStream keeps this contract with writers that keep their side of it  *)
(* (StreamTransfer); by itself it does not refuse bytes after the end.     *)
(***************************************************************************)
EXTENDS Naturals, Sequences

CONSTANTS
  Data,     \* the strings a writer may offer in one call
  Capacity  \* how many untaken bytes the stream may hold

VARIABLES
  stream,   \* every byte accepted so far, in order
  taken,    \* how many of them the reader has taken
  ended,    \* the writer has signalled the end of the input
  failed    \* the stream suffered an error

contractVars == <<stream, taken, ended, failed>>

Untaken == Len(stream) - taken

Init ==
  /\ stream = <<>>
  /\ taken = 0
  /\ ended = FALSE
  /\ failed = FALSE

(* Before the end of the input the writer offers data; the longest prefix  *)
(* that fits is accepted.                                                  *)
Accept(data) ==
  /\ ~ ended
  /\ \E n \in 0 .. Len(data) :
        /\ \/ n = Len(data) /\ Untaken + n <= Capacity
           \/ n < Len(data) /\ Untaken + n = Capacity
        /\ stream' = stream \o SubSeq(data, 1, n)
  /\ UNCHANGED <<taken, ended, failed>>

(* The reader takes bytes from the front; it cannot overtake the writer.   *)
Take ==
  /\ taken' \in taken .. Len(stream)
  /\ UNCHANGED <<stream, ended, failed>>

End ==
  /\ ended' = TRUE
  /\ UNCHANGED <<stream, taken, failed>>

Fail ==
  /\ failed' = TRUE
  /\ UNCHANGED <<stream, taken, ended>>

Next ==
  \/ \E data \in Data : Accept(data)
  \/ Take
  \/ End
  \/ Fail

Spec == Init /\ [][Next]_contractVars
=============================================================================
