----------------------------- MODULE BufferList -----------------------------
(***************************************************************************)
(* class BufferList (libsponge/util/buffer.{hh,cc}): a string in pieces.   *)
(* Each operation is one action, except that one step of remove_prefix()   *)
(* is one iteration of its loop.  The history variable `text` is what a    *)
(* std::string per list would hold after the same operations.              *)
(***************************************************************************)
EXTENDS Buffer, SequencesExt

CONSTANTS
  List,        \* BufferList objects
  MaxBuffers   \* bound on the Buffers in a list

VARIABLES
  buffers,     \* [List -> Seq(Buffer)]: std::deque<Buffer>
  trim,        \* the remove_prefix() in progress: [list, n], n = 0 when none
  text         \* history: [List -> string]

listVars == <<heap, buffers, trim, text>>

InitLists ==
  /\ heap = [s \in Storage |-> <<>>]
  /\ buffers = [l \in List |-> <<>>]
  /\ trim = [list |-> Null, n |-> 0]
  /\ text = [l \in List |-> <<>>]

concatenate(l) == FlattenSeq([i \in DOMAIN buffers[l] |-> str(buffers[l][i])])

Live(f) == UNION {Range(f[l]) : l \in List}

(* The lists become f and their reference counts follow.                   *)
SetLists(f) ==
  /\ buffers' = f
  /\ heap' = Heap(Live(f), {}, <<>>)

(* l = BufferList(string).                                                 *)
FreePlaces == {s \in Storage : \A b \in Live(buffers) : b.storage # s}

Assign(l, string) ==
  /\ FreePlaces # {}
  /\ LET s == CHOOSE s \in FreePlaces : TRUE
     IN  /\ buffers' = [buffers EXCEPT ![l] = <<BufferOn(s)>>]
         /\ heap' = Heap(Live(buffers'), {s}, string)
  /\ text' = [text EXCEPT ![l] = string]
  /\ UNCHANGED trim

(* l.append(m).  Appending a list to itself is left out: push_back()       *)
(* invalidates the iterators of the loop over the same deque.              *)
append(l, m) ==
  /\ l # m /\ Len(buffers[l]) + Len(buffers[m]) <= MaxBuffers
  /\ SetLists([buffers EXCEPT ![l] = @ \o buffers[m]])
  /\ text' = [text EXCEPT ![l] = @ \o text[m]]
  /\ UNCHANGED trim

(* Buffer b = m; b.remove_prefix(n); l = BufferList(b).  The conversion    *)
(* throws unless m has at most one Buffer.                                 *)
ToBuffer(m) == IF buffers[m] = <<>> THEN EmptyBuffer ELSE Head(buffers[m])

AssignBuffer(l, m, n) ==
  /\ l # m /\ Len(buffers[m]) <= 1 /\ n <= size(ToBuffer(m))
  /\ SetLists([buffers EXCEPT ![l] = <<Discard(ToBuffer(m), n)>>])
  /\ text' = [text EXCEPT ![l] = Drop(text[m], n)]
  /\ UNCHANGED trim

(* l.remove_prefix(n), and an iteration of its loop.  A list that runs out *)
(* makes it throw, with everything discarded.                              *)
remove_prefix(l, n) ==
  /\ trim' = [list |-> l, n |-> n]
  /\ text' = [text EXCEPT ![l] = Drop(@, n)]
  /\ UNCHANGED <<heap, buffers>>

TrimFront_PopsShort(bufs, n) ==
  IF n < size(Head(bufs)) THEN <<Tail(bufs), 0>> ELSE <<Tail(bufs), n - size(Head(bufs))>>
TrimFront(bufs, n) ==
  IF n < size(Head(bufs))
  THEN <<[bufs EXCEPT ![1] = Discard(@, n)], 0>>
  ELSE <<Tail(bufs), n - size(Head(bufs))>>

TrimStep ==
  /\ trim.n > 0
  /\ LET l == trim.list
     IN  IF buffers[l] = <<>>
         THEN trim' = [trim EXCEPT !.n = 0] /\ UNCHANGED <<heap, buffers>>
         ELSE LET front == TrimFront(buffers[l], trim.n)
              IN  /\ SetLists([buffers EXCEPT ![l] = front[1]])
                  /\ trim' = [trim EXCEPT !.n = front[2]]
  /\ UNCHANGED text
-----------------------------------------------------------------------------
(* A BufferList is a string: after any operations on lists that share      *)
(* their storage, each holds the bytes a std::string of its own would;     *)
(* what one list discards, by dropping a Buffer or by moving an offset,    *)
(* stays in the others, also when remove_prefix() runs off the end.        *)
SameAsString ==
  \A l \in List :
    Drop(concatenate(l), IF trim.list = l THEN trim.n ELSE 0) = text[l]

(* Storage is freed when its last byte is discarded ("until the whole      *)
(* string has been discarded in all copies of the Buffer", buffer.hh):     *)
(* whatever is on the heap can still be read through some list.            *)
SpentStorageFreed ==
  \A s \in Storage :
    heap[s] # <<>> => \E b \in Live(buffers) : b.storage = s /\ size(b) > 0
=============================================================================
