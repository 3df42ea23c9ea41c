----------------------------- MODULE NetParser ------------------------------
(***************************************************************************)
(* class NetParser and NetUnparser (libsponge/util/parser.{hh,cc}):        *)
(* integers in network byte order are cut off the front of a Buffer, which *)
(* the parser has its own copy of; an error stays and stops the parser.    *)
(***************************************************************************)
EXTENDS Buffer, Octets, SequencesExt

VARIABLES
  buffer,  \* the Buffer left to parse
  error    \* ParseResult

parserVars == <<buffer, error>>

(* sizeof of the types that u8(), u16() and u32() parse.                   *)
Widths == {1, 2, 4}

(* NetUnparser: the bytes that _unparse_int() pushes for val.              *)
unparse_int_LittleEndian(len, val) ==
  [i \in 1 .. len |-> (val \div Shift(i - 1)) % ByteMod]
unparse_int(len, val) ==
  [i \in 1 .. len |-> (val \div Shift(len - i)) % ByteMod]

(* _check_size(): what it leaves in _error; the last one wins.             *)
check_size_Clears(n) == IF n > size(buffer) THEN "PacketTooShort" ELSE "NoError"
check_size(n) == IF n > size(buffer) THEN "PacketTooShort" ELSE error

(* The value _parse_int() reads from the front of the buffer.              *)
FrontInt(len) ==
  FoldLeft(LAMBDA ret, byte : ret * ByteMod + byte, 0, SubSeq(str(buffer), 1, len))

(* _parse_int() and remove_prefix(): take n bytes, or none and an error.   *)
Take(n) ==
  /\ error' = check_size(n)
  /\ buffer' = IF error' = "NoError" THEN Discard(buffer, n) ELSE buffer

(* What u8(), u16() and u32() return.                                      *)
parse_int(len) == IF check_size(len) = "NoError" THEN FrontInt(len) ELSE 0

set_error(res) ==
  /\ error' = res
  /\ UNCHANGED buffer
=============================================================================
