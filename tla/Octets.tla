------------------------------- MODULE Octets -------------------------------
(* The integers of packets: a byte has ByteMod values, 2^8 in the code, and *)
(* the uint16_t of two bytes WordMod.                                      *)
EXTENDS Integers

CONSTANT ByteMod

ASSUME OctetsAssumption == ByteMod \in Nat /\ ByteMod > 1

WordMod == ByteMod * ByteMod

(* What a shift to the right by k bytes divides by, in up to 32 bits.      *)
Shift(k) == <<1, ByteMod, WordMod, ByteMod * WordMod, WordMod * WordMod>>[k + 1]
=============================================================================
