----------------------------- MODULE SendQueue ------------------------------
(***************************************************************************)
(* A sender that keeps what it has to send in a BufferList: the use        *)
(* BufferList, BufferViewList and FileDescriptor::write are made for.  It  *)
(* appends other lists to the queue, writes a view of the queue and        *)
(* discards from the queue what write() says it wrote.  After a write()    *)
(* that threw, the sender tries again if it had asked for one round only;  *)
(* with write_all it cannot know how much was sent, and gives up.          *)
(***************************************************************************)
EXTENDS BufferList, GatherWrite

CONSTANTS
  queue,     \* the list to send, and the others
  Strings,   \* the strings a BufferList is constructed from
  MaxGiven   \* bound on the bytes handed to the queue

ASSUME SendQueueAssumption ==
  /\ queue \in List
  /\ \A string \in Strings : string \in Seq(Range(string))
  /\ MaxGiven \in Nat

VARIABLE given   \* history: every byte handed to the queue, in order

vars == <<listVars, writeVars, given>>

Init == InitLists /\ InitWrite /\ given = <<>>

(* Between calls: nothing of the library is running.                       *)
Between == pc = "idle" /\ trim.n = 0

(* Free use of a list that is not the queue.                               *)
Edits(l) ==
  /\ Between
  /\ \/ \E string \in Strings : Assign(l, string)
     \/ \E m \in List \ {queue} : append(l, m)
     \/ \E m \in List, k \in 0 .. MaxGiven : AssignBuffer(l, m, k)
     \/ \E k \in 1 .. Len(text[l]) + 1 : remove_prefix(l, k)
  /\ UNCHANGED <<writeVars, given>>

Enqueue(m) ==
  /\ Between /\ Len(given) + Len(text[m]) <= MaxGiven
  /\ append(queue, m)
  /\ given' = given \o text[m]
  /\ UNCHANGED writeVars

(* write(BufferViewList(queue), all): a view of each Buffer.               *)
Send(all) ==
  /\ Between
  /\ write([i \in DOMAIN buffers[queue] |-> str(buffers[queue][i])], all)
  /\ UNCHANGED <<listVars, given>>

(* queue.remove_prefix(total_bytes_written).                               *)
Sent ==
  /\ pc = "returned"
  /\ remove_prefix(queue, total_bytes_written)
  /\ Leave
  /\ UNCHANGED given

Retries ==
  /\ pc = "threw" /\ ~ write_all
  /\ Leave
  /\ UNCHANGED <<listVars, given>>

Next ==
  \/ \E l \in List \ {queue} : Edits(l) \/ Enqueue(l)
  \/ \E all \in BOOLEAN : Send(all)
  \/ WriteStep /\ UNCHANGED <<listVars, given>>
  \/ Sent
  \/ Retries
  \/ TrimStep /\ UNCHANGED <<writeVars, given>>

(* ::writev() returns once there is room, and the loops run on.            *)
Spec ==
  /\ Init
  /\ [][Next]_vars
  /\ WF_vars(WriteStep /\ UNCHANGED <<listVars, given>>)
-----------------------------------------------------------------------------
(* Every byte handed to the queue reaches the kernel once and in order:    *)
(* between calls, what the kernel has and what the queue still holds is    *)
(* what was given, whatever mixture of full, partial and failed writes     *)
(* went before and whatever happened to lists that share the storage.  In  *)
(* particular a write() of one round that threw has sent nothing.          *)
ExactlyOnce == Between => accepted \o concatenate(queue) = given
=============================================================================
