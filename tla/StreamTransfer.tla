--------------------------- MODULE StreamTransfer ---------------------------
(***************************************************************************)
(* A ByteStream between the two clients its interface is made for: a       *)
(* writer that offers its message piece by piece, goes on after what       *)
(* write() has accepted, and calls end_input() when all of it is; and a    *)
(* reader that reads or skips until eof().  Either may call set_error().   *)
(* The clients are external to libsponge: they use its interface the way   *)
(* byte_stream.hh describes, and so write nothing after the end.  They     *)
(* interleave freely: a write() may find any amount of room, none          *)
(* included.                                                               *)
(***************************************************************************)
EXTENDS ByteStream

VARIABLE message  \* what the writer means to send

transferVars == <<vars, message>>

TransferInit ==
  /\ Init
  /\ message \in Data

(* The writer knows how much of the message is left from the sum of the    *)
(* values write() returned.                                                *)
Remainder == SubSeq(message, Len(written) + 1, Len(message))

(* It offers all that is left or a first piece of it.                      *)
WriterOffers(data) ==
  /\ Len(data) \in 1 .. Len(Remainder)
  /\ data = SubSeq(Remainder, 1, Len(data))
  /\ write(data)
  /\ UNCHANGED message

WriterFinishes ==
  /\ Remainder = <<>>
  /\ end_input
  /\ UNCHANGED message

ReaderTakes ==
  /\ ~ eof
  /\ \E len \in 0 .. MaxLen : read(len) \/ pop_output(len)
  /\ UNCHANGED message

EitherFails == set_error /\ UNCHANGED message

TransferNext ==
  \/ \E data \in Data : WriterOffers(data)
  \/ WriterFinishes
  \/ ReaderTakes
  \/ EitherFails

(* Each client is a loop that keeps making its calls, and the writer keeps *)
(* offering all that is left; that it may offer less helps nobody.         *)
TransferSpec ==
  /\ TransferInit
  /\ [][TransferNext]_transferVars
  /\ WF_transferVars(WriterOffers(Remainder))
  /\ WF_transferVars(WriterFinishes)
  /\ WF_transferVars(ReaderTakes)
-----------------------------------------------------------------------------
(* eof() is never reported early: input_ended() holds before the last      *)
(* bytes are drained, and a reader that stops at eof() has the whole       *)
(* message, in order.                                                      *)
EofMeansComplete == eof => consumed = message

(* Flow control does not lock up: with a capacity of at least one byte,    *)
(* remaining_capacity() reopens after every full buffer and the reader     *)
(* reaches eof(), however the calls interleave.                            *)
TransferCompletes == <>(eof /\ consumed = message)
=============================================================================
