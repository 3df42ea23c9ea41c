-------------------------- MODULE InternetChecksum --------------------------
(***************************************************************************)
(* class InternetChecksum (libsponge/util/util.{hh,cc}): bytes are added   *)
(* one by one, in any number of add() calls, into an unsigned sum with the *)
(* carries left for value() to fold in.  A byte has ByteMod values and the *)
(* sum SumMod, for 2^8 and 2^32.                                           *)
(***************************************************************************)
EXTENDS Octets, SequencesExt

CONSTANT SumMod

ASSUME ChecksumAssumption == SumMod = WordMod * WordMod

NewChecksum(initial_sum) == [sum |-> initial_sum, parity |-> FALSE]

AddByte(c, byte) ==
  [sum |-> (c.sum + (IF c.parity THEN byte ELSE byte * ByteMod)) % SumMod,
   parity |-> ~ c.parity]

add_ParityPerCall(c, data) == FoldLeft(AddByte, [c EXCEPT !.parity = FALSE], data)
add(c, data) == FoldLeft(AddByte, c, data)

(* The loop of value(): fold the high half into the low one until it fits. *)
Folded[r \in 0 .. SumMod - 1] ==
  IF r < WordMod THEN r ELSE Folded[(r \div WordMod) + (r % WordMod)]

value_FoldsOnce(c) ==
  WordMod - 1 - (((c.sum \div WordMod) + (c.sum % WordMod)) % WordMod)
value(c) == WordMod - 1 - Folded[c.sum]
-----------------------------------------------------------------------------
(* The checksum as RFC 1071 defines it: the complement of the ones'        *)
(* complement sum of the 16-bit words, an odd last byte padded with zero,  *)
(* with the carry added back at every step.                                *)
OnesAdd(a, b) == IF a + b < WordMod THEN a + b ELSE a + b - (WordMod - 1)

WordAt(data, i) == data[2 * i - 1] * ByteMod
                     + (IF 2 * i <= Len(data) THEN data[2 * i] ELSE 0)

(* The two words of a 32-bit initial sum, added.                           *)
FirstWord(initial) == OnesAdd(initial \div WordMod, initial % WordMod)

Reference(initial, data) ==
  WordMod - 1 -
    FoldLeft(OnesAdd, FirstWord(initial),
             [i \in 1 .. (Len(data) + 1) \div 2 |-> WordAt(data, i)])

(* add() has no place for a carry out of the 32 bits: beyond this          *)
(* condition on the initial sum and the number of bytes the sum may wrap,  *)
(* and a carry is lost.  For an initial sum of one word the condition is   *)
(* met up to 128 KiB, for the unfolded sum of a few words up to as many    *)
(* words less.                                                             *)
SumFits(initial, n) == initial + (WordMod - 1) * ((n + 1) \div 2) < SumMod
=============================================================================
