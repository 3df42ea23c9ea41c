------------------------------ MODULE Segment -------------------------------
(***************************************************************************)
(* NetUnparser, InternetChecksum, Buffer and NetParser together, the way   *)
(* util.cc and doctests/parser_example.cc describe their use.  A sender    *)
(* serializes a zero checksum field and then integers, and fills the field *)
(* in; the segment arrives intact, with one byte changed or cut short; the *)
(* receiver checksums it in pieces of any size, a pseudo-header sum        *)
(* included, and parses it with any sequence of calls.  The initial sum is *)
(* any value of its 32-bit type.                                           *)
(***************************************************************************)
EXTENDS InternetChecksum, NetParser

CONSTANT MaxPacket   \* bound on the bytes of a segment

ASSUME SegmentAssumption ==
  /\ MaxPacket \in Nat
  /\ Storage # {}

VARIABLES
  phase,     \* "build", "sent", "check" or "parse"
  initial,   \* initial_sum of both checksums
  s,         \* the sender's string
  received,  \* the receiver's Buffer, of which the parser got a copy
  damage,    \* "none", "byte" or "cut"
  c, at,     \* the receiver's checksum, and how many bytes it has added
  consumed   \* history: what the parser returned or skipped, as bytes

vars == <<heap, parserVars, phase, initial, s, received, damage, c, at, consumed>>

Init ==
  /\ heap = [x \in Storage |-> <<>>]
  /\ buffer = EmptyBuffer /\ error = "NoError"
  /\ phase = "build"
  /\ initial \in 0 .. SumMod - 1
  /\ s = unparse_int(2, 0)
  /\ received = EmptyBuffer /\ damage = "none"
  /\ c = NewChecksum(initial) /\ at = 0
  /\ consumed = <<>>

(* NetUnparser::u8, u16 or u32 (s, val).                                   *)
Unparse(len, val) ==
  /\ phase = "build" /\ Len(s) + len <= MaxPacket
  /\ s' = s \o unparse_int(len, val)
  /\ UNCHANGED <<heap, parserVars, phase, initial, received, damage, c, at, consumed>>

(* The sender's checksum, put in its field.                                *)
Seal ==
  /\ phase = "build"
  /\ s' = unparse_int(2, value(add(NewChecksum(initial), s))) \o Drop(s, 2)
  /\ phase' = "sent"
  /\ UNCHANGED <<heap, parserVars, initial, received, damage, c, at, consumed>>

(* The receiver has a segment: a Buffer, and a NetParser on a copy of it.  *)
Receive(data, what) ==
  /\ phase = "sent"
  /\ LET x == CHOOSE x \in Storage : TRUE
     IN  /\ heap' = [heap EXCEPT ![x] = data]
         /\ received' = BufferOn(x)
         /\ buffer' = BufferOn(x)
  /\ damage' = what
  /\ phase' = "check"
  /\ UNCHANGED <<error, initial, s, c, at, consumed>>

Arrives == Receive(s, "none")
ArrivesChanged(i, byte) == byte # s[i] /\ Receive([s EXCEPT ![i] = byte], "byte")
ArrivesCut(i) == Receive(SubSeq(s, 1, i), "cut")

(* c.add() of the next k bytes.                                            *)
AddsChunk(k) ==
  /\ phase = "check" /\ at + k <= size(received)
  /\ c' = add(c, SubSeq(str(received), at + 1, at + k))
  /\ at' = at + k
  /\ UNCHANGED <<heap, parserVars, phase, initial, s, received, damage, consumed>>

Judges ==
  /\ phase = "check" /\ at = size(received)
  /\ IF value(c) = 0 THEN UNCHANGED parserVars ELSE set_error("BadChecksum")
  /\ phase' = "parse"
  /\ UNCHANGED <<heap, initial, s, received, damage, c, at, consumed>>

(* u8(), u16(), u32(); remove_prefix(n); a caller that rejects the packet. *)
(* No caller passes NoError to set_error(), which would clear an error.    *)
Parses(len) ==
  /\ phase = "parse"
  /\ Take(len)
  /\ consumed' = IF error' = "NoError" THEN consumed \o unparse_int(len, parse_int(len))
                                       ELSE consumed
  /\ UNCHANGED <<heap, phase, initial, s, received, damage, c, at>>

Skips(n) ==
  /\ phase = "parse"
  /\ Take(n)
  /\ consumed' = IF error' = "NoError" THEN consumed \o SubSeq(str(buffer), 1, n)
                                       ELSE consumed
  /\ UNCHANGED <<heap, phase, initial, s, received, damage, c, at>>

Rejects ==
  /\ phase = "parse"
  /\ set_error("Unsupported")
  /\ UNCHANGED <<heap, phase, initial, s, received, damage, c, at, consumed>>

Next ==
  \/ \E len \in Widths : \E val \in 0 .. Shift(len) - 1 : Unparse(len, val)
  \/ Seal
  \/ Arrives
  \/ \E i \in 1 .. Len(s), byte \in 0 .. ByteMod - 1 : ArrivesChanged(i, byte)
  \/ \E i \in 0 .. Len(s) - 1 : ArrivesCut(i)
  \/ \E k \in 1 .. MaxPacket : AddsChunk(k)
  \/ Judges
  \/ \E len \in Widths : Parses(len)
  \/ \E n \in 1 .. MaxPacket : Skips(n)
  \/ Rejects

Spec == Init /\ [][Next]_vars
-----------------------------------------------------------------------------
(* Whatever the sizes of the chunks, odd ones included, the deferred       *)
(* carries and the parity kept between add() calls give the checksum of    *)
(* RFC 1071 of what was added so far, as long as the sum cannot wrap.      *)
ChecksumAgrees ==
  SumFits(initial, at) => value(c) = Reference(initial, SubSeq(str(received), 1, at))

(* util.cc: "if you read a correct TCP segment off the wire and pass it    *)
(* untouched to inet_cksum(), the return value will be 0".  A segment that *)
(* arrives as it was sealed is not taken for a bad one, as long as its sum *)
(* cannot wrap.                                                            *)
IntactVerifies == damage = "none" /\ SumFits(initial, Len(s)) => error # "BadChecksum"

(* A segment with one byte changed, in the checksum field or elsewhere,    *)
(* never gets past the checksum, as long as its sum cannot wrap: the       *)
(* parser returns nothing of it.                                           *)
DamageDetected ==
  damage = "byte" /\ phase = "parse" /\ SumFits(initial, Len(s))
    => error # "NoError" /\ consumed = <<>>

(* The parser makes nothing up: what it returned, written back in network  *)
(* byte order, and what it has left is exactly the received segment, which *)
(* the parser's own copy of the Buffer leaves untouched.                   *)
ParsesWhatArrived == phase = "parse" => consumed \o str(buffer) = str(received)

(* An error is final, as long as no caller clears it with set_error(): no  *)
(* later call forgets it, takes bytes, or returns part of an integer.      *)
ErrorSticks ==
  [][error # "NoError" => error' # "NoError" /\ UNCHANGED <<buffer, consumed>>]_vars
=============================================================================
