------------------------------- MODULE Buffer -------------------------------
(***************************************************************************)
(* class Buffer (libsponge/util/buffer.{hh,cc}): a string that discards    *)
(* bytes from the front by moving an offset.  Copies share the storage     *)
(* through a std::shared_ptr; the last of them to let go frees it.         *)
(***************************************************************************)
EXTENDS Integers, Sequences

CONSTANTS
  Storage,  \* places on the heap for a std::string
  Null      \* an empty shared_ptr

ASSUME BufferAssumption == Null \notin Storage

VARIABLE heap   \* [Storage -> string], <<>> where nothing is allocated

(* What is left of a string without its first n bytes.                     *)
Drop(s, n) == SubSeq(s, n + 1, Len(s))

EmptyBuffer == [storage |-> Null, offset |-> 0]

(* Buffer(std::string &&): the string is in place s now.                   *)
BufferOn(s) == [storage |-> s, offset |-> 0]

str_IgnoresOffset(b) == IF b.storage = Null THEN <<>> ELSE heap[b.storage]
str(b) == IF b.storage = Null THEN <<>> ELSE Drop(heap[b.storage], b.offset)

size(b) == Len(str(b))

(* remove_prefix(n); it throws out_of_range instead if n > size(b).        *)
Discard_KeepsStorage(b, n) == [b EXCEPT !.offset = @ + n]
Discard(b, n) ==
  IF b.storage # Null /\ b.offset + n = Len(heap[b.storage])
  THEN [storage |-> Null, offset |-> b.offset + n]
  ELSE [b EXCEPT !.offset = @ + n]

(* The heap once only the buffers in `live` are left, with `string` newly  *)
(* put in the places `new`.                                                *)
Heap(live, new, string) ==
  [s \in Storage |-> IF s \in new THEN string
                     ELSE IF \E b \in live : b.storage = s THEN heap[s] ELSE <<>>]
=============================================================================
