----------------------------- MODULE ByteStream -----------------------------
(***************************************************************************)
(* class ByteStream (libsponge/byte_stream.{hh,cc}): a bounded in-memory   *)
(* byte stream.  Bytes are written on the input side and read from the     *)
(* output side; the writer can end the input.                              *)
(*                                                                         *)
(* size_t arithmetic keeps its width: SizeMod is 2^64 in the code, and     *)
(* every sum and difference of size_t values is taken modulo SizeMod.      *)
(***************************************************************************)
EXTENDS Integers, Sequences

CONSTANTS
  Byte,        \* the values of a char
  Data,        \* the strings a caller passes to write()
  Capacity,    \* the constructor's argument
  SizeMod,     \* 2^64: one more than the largest size_t
  MaxLen,      \* largest `len` a caller passes to read() or pop_output()
  MaxWritten   \* bound on the bytes accepted in a behaviour

ASSUME ByteStreamAssumption ==
  /\ Data \subseteq Seq(Byte)
  /\ SizeMod \in Nat \ {0}
  /\ Capacity \in 0 .. SizeMod - 1
  /\ MaxLen \in 0 .. SizeMod - 1
  /\ MaxWritten \in Nat

VARIABLES
  buffer,        \* std::deque<char>: accepted and not yet popped
  readCount,     \* size_t: total bytes popped
  writeCount,    \* size_t: total bytes accepted
  isInputEnded,
  error,
  written,        \* history: every byte write() accepted, in order
  consumed        \* history: every byte read() returned or pop_output() dropped

vars == <<buffer, readCount, writeCount, isInputEnded, error,
          written, consumed>>

-----------------------------------------------------------------------------
(* size_t arithmetic.                                                      *)
SizeAdd(a, b) == (a + b) % SizeMod
SizeSub(a, b) == (a - b) % SizeMod

(* Accessors.                                                              *)
buffer_size == Len(buffer)
buffer_empty == buffer = <<>>
remaining_capacity == SizeSub(Capacity, Len(buffer))
input_ended == isInputEnded
eof_NotDrained == input_ended
eof == input_ended /\ buffer_empty
bytes_written == writeCount
bytes_read == readCount
-----------------------------------------------------------------------------
(* A stream is constructed empty, open and without error.                  *)
Init ==
  /\ buffer = <<>>
  /\ readCount = 0
  /\ writeCount = 0
  /\ isInputEnded = FALSE
  /\ error = FALSE
  /\ written = <<>>
  /\ consumed = <<>>

(* How many bytes of data write() accepts, which is what it returns.       *)
AcceptedLen_AllOrNothing(data) ==
  IF Len(data) > remaining_capacity THEN 0 ELSE Len(data)
AcceptedLen_OffByOne(data) ==
  IF Len(data) > remaining_capacity + 1 THEN remaining_capacity + 1 ELSE Len(data)
AcceptedLen(data) ==
  IF Len(data) > remaining_capacity THEN remaining_capacity ELSE Len(data)

(* write(): note that the code does not look at isInputEnded.             *)
write(data) ==
  /\ Len(written) + AcceptedLen(data) <= MaxWritten
  /\ writeCount' = SizeAdd(writeCount, AcceptedLen(data))
  /\ buffer' = buffer \o SubSeq(data, 1, AcceptedLen(data))
  /\ written' = written \o SubSeq(data, 1, AcceptedLen(data))
  /\ UNCHANGED <<readCount, isInputEnded, error, consumed>>

(* The string peek_output() returns, and how many bytes pop_output()       *)
(* removes.  The two functions clamp `len` separately.                     *)
peek_output(len) ==
  IF buffer_empty
  THEN <<>>
  ELSE SubSeq(buffer, 1, IF len > Len(buffer) THEN Len(buffer) ELSE len)

PopLen_OffByOne(len) ==
  IF len >= Len(buffer) THEN Len(buffer) ELSE len + 1
PopLen(len) ==
  IF buffer_empty
  THEN 0
  ELSE IF len > Len(buffer) THEN Len(buffer) ELSE len

(* What pop_output() does to the stream.                                   *)
Pop_CountsRequested(len) ==
  /\ readCount' = SizeAdd(readCount, len)
  /\ buffer' = SubSeq(buffer, PopLen(len) + 1, Len(buffer))
Pop(len) ==
  /\ readCount' = SizeAdd(readCount, PopLen(len))
  /\ buffer' = SubSeq(buffer, PopLen(len) + 1, Len(buffer))

pop_output(len) ==
  /\ Pop(len)
  /\ consumed' = consumed \o SubSeq(buffer, 1, PopLen(len))
  /\ UNCHANGED <<writeCount, isInputEnded, error, written>>

(* read() copies with peek_output() and then pops; the reader gets the     *)
(* copy.                                                                   *)
read(len) ==
  /\ consumed' = consumed \o peek_output(len)
  /\ Pop(len)
  /\ UNCHANGED <<writeCount, isInputEnded, error, written>>

end_input ==
  /\ isInputEnded' = TRUE
  /\ UNCHANGED <<buffer, readCount, writeCount, error, written, consumed>>

set_error ==
  /\ error' = TRUE
  /\ UNCHANGED <<buffer, readCount, writeCount, isInputEnded, written, consumed>>

Next ==
  \/ \E data \in Data : write(data)
  \/ \E len \in 0 .. MaxLen : read(len)
  \/ \E len \in 0 .. MaxLen : pop_output(len)
  \/ end_input
  \/ set_error

Spec == Init /\ [][Next]_vars
-----------------------------------------------------------------------------
(* The types of the fields of a ByteStream and of the two histories.       *)
TypeOK ==
  /\ buffer \in Seq(Byte)
  /\ readCount \in 0 .. SizeMod - 1
  /\ writeCount \in 0 .. SizeMod - 1
  /\ isInputEnded \in BOOLEAN
  /\ error \in BOOLEAN
  /\ written \in Seq(Byte)
  /\ consumed \in Seq(Byte)

(* Flow control: the deque never holds more than Capacity bytes, hence the *)
(* unsigned difference _capacity - _buffer.size() in write() and          *)
(* remaining_capacity() never wraps.                                       *)
CapacityRespected ==
  /\ Len(buffer) <= Capacity
  /\ remaining_capacity = Capacity - Len(buffer)

(* In-order, exactly-once delivery: what the reader was given, followed by *)
(* what is still buffered, is what the writer had accepted.  Ties write(), *)
(* peek_output() and pop_output() together over any sequence of calls.     *)
InOrderDelivery == consumed \o buffer = written

(* bytes_written() and bytes_read() count the accepted and the popped      *)
(* bytes modulo 2^64, and their size_t difference is buffer_size() even    *)
(* after the counters wrapped.                                             *)
Accounting ==
  /\ bytes_written = Len(written) % SizeMod
  /\ bytes_read = Len(consumed) % SizeMod
  /\ SizeSub(bytes_written, bytes_read) = buffer_size

(* byte_stream.hh:10 says that "the writer can end the input, and then no  *)
(* more bytes can be written": what was accepted by the time end_input()   *)
(* is called is all there will be, and a reader that stops at eof() misses *)
(* nothing.                                                                *)
EndIsFinal == [][input_ended => written' = written]_vars

(* Seen through the accepted bytes (the contract's stream), the popped     *)
(* ones (its cursor) and the two flags, the stream does only what          *)
(* StreamContract allows.                                                  *)
Contract == INSTANCE StreamContract WITH
  stream <- written,
  taken  <- Len(consumed),
  ended  <- isInputEnded,
  failed <- error

ImplementsContract == Contract!Spec
=============================================================================
