---------------------------- MODULE GatherWrite -----------------------------
(***************************************************************************)
(* FileDescriptor::write(BufferViewList, write_all) (libsponge/util/       *)
(* file_descriptor.cc) with the BufferViewList it consumes (libsponge/     *)
(* util/buffer.{hh,cc}): each round hands all views to ::writev(), which   *)
(* may take any part of them, and then drops the bytes taken from the      *)
(* front of the list, view by view.  The views may be empty, so may be the *)
(* list.  One step is one call of ::writev() or one iteration of the loop  *)
(* in remove_prefix().                                                     *)
(***************************************************************************)
EXTENDS Integers, SequencesExt

VARIABLES
  payload,      \* the argument `buffer` as it was passed: Seq(string)
  write_all,    \* the other argument
  views,        \* the BufferViewList's deque of string_views
  n,            \* remove_prefix(): bytes still to drop
  bytes_written, total_bytes_written,
  accepted,     \* kernel: every byte ::writev() took, in order
  before,       \* history: Len(accepted) when write() was called
  pc            \* "idle", "writev", "remove", "returned", "threw" or "outOfRange"

writeVars == <<payload, write_all, views, n, bytes_written, total_bytes_written,
               accepted, before, pc>>

InitWrite ==
  /\ payload = <<>> /\ write_all = FALSE
  /\ views = <<>>
  /\ n = 0 /\ bytes_written = 0 /\ total_bytes_written = 0
  /\ accepted = <<>> /\ before = 0
  /\ pc = "idle"

(* The call: a BufferViewList of the strings p, taken by value.            *)
write(p, all) ==
  /\ pc = "idle"
  /\ payload' = p /\ write_all' = all
  /\ views' = p
  /\ n' = 0 /\ bytes_written' = 0 /\ total_bytes_written' = 0
  /\ before' = Len(accepted)
  /\ pc' = "writev"
  /\ UNCHANGED accepted

(* The bytes as_iovecs() exposes to writev(), and BufferViewList::size().  *)
Bytes(list) == FlattenSeq(list)
ViewsSize(list) == Len(Bytes(list))

(* ::writev() takes k bytes from the front and write() starts to drop them *)
(* (register_write() comes first).                                         *)
Writev(k) ==
  /\ pc = "writev"
  /\ k > 0 \/ ViewsSize(views) = 0
  /\ accepted' = accepted \o SubSeq(Bytes(views), 1, k)
  /\ bytes_written' = k
  /\ n' = k
  /\ pc' = "remove"
  /\ UNCHANGED <<payload, write_all, views, total_bytes_written, before>>

(* ::writev() fails, or takes nothing of a non-empty list.                 *)
WritevThrows ==
  /\ pc = "writev"
  /\ pc' = "threw"
  /\ UNCHANGED <<payload, write_all, views, n, bytes_written, total_bytes_written,
                 accepted, before>>

(* remove_prefix(): one iteration of its loop.                             *)
RemoveView_KeepsCount ==
  /\ views' = Tail(views)
  /\ n' = n
RemoveView ==
  /\ views' = Tail(views)
  /\ n' = n - Len(Head(views))

RemovePart ==
  /\ views' = [views EXCEPT ![1] = SubSeq(@, n + 1, Len(@))]
  /\ n' = 0

RemoveStep ==
  /\ pc = "remove" /\ n > 0
  /\ IF views = <<>>
     THEN pc' = "outOfRange" /\ UNCHANGED <<views, n>>
     ELSE /\ IF n < Len(Head(views)) THEN RemovePart ELSE RemoveView
          /\ UNCHANGED pc
  /\ UNCHANGED <<payload, write_all, bytes_written, total_bytes_written, accepted, before>>

(* The end of the do-while body, and its condition.                        *)
Again_AnyView == write_all /\ views # <<>>
Again == write_all /\ ViewsSize(views) > 0

Total_LastRoundOnly == bytes_written
Total == total_bytes_written + bytes_written

RoundEnds ==
  /\ pc = "remove" /\ n = 0
  /\ total_bytes_written' = Total
  /\ pc' = IF Again THEN "writev" ELSE "returned"
  /\ UNCHANGED <<payload, write_all, views, n, bytes_written, accepted, before>>

(* The caller has the result or the exception; the local variables go.     *)
Leave ==
  /\ payload' = <<>> /\ write_all' = FALSE
  /\ views' = <<>>
  /\ n' = 0 /\ bytes_written' = 0 /\ total_bytes_written' = 0
  /\ before' = 0
  /\ pc' = "idle"
  /\ UNCHANGED accepted

WriteStep ==
  \/ \E k \in 0 .. ViewsSize(views) : Writev(k)
  \/ WritevThrows
  \/ RemoveStep
  \/ RoundEnds
-----------------------------------------------------------------------------
(* No byte is lost, repeated or reordered, whatever part of the list each  *)
(* ::writev() takes: what it took in this call, followed by what is left   *)
(* once remove_prefix() has dropped its n bytes, is the payload, and       *)
(* remove_prefix() never runs off the end of the list.                     *)
NothingLostOrRepeated ==
  pc # "idle" =>
    /\ SubSeq(accepted, before + 1, Len(accepted))
         \o SubSeq(Bytes(views), n + 1, ViewsSize(views)) = Bytes(payload)
    /\ pc # "outOfRange"

(* The return value is what was written, and with write_all that is the    *)
(* whole payload, over however many rounds.                                *)
ReturnIsHonest ==
  pc = "returned" =>
    /\ total_bytes_written = Len(accepted) - before
    /\ write_all => total_bytes_written = ViewsSize(payload)

(* write() returns or throws: empty strings anywhere in the list, and a    *)
(* payload without bytes, do not keep the do-while going.                  *)
WriteEnds == pc = "writev" ~> pc \in {"returned", "threw"}
=============================================================================
