-------------------------------- MODULE Defs --------------------------------
(***************************************************************************)
(* The integer types of Defs.hxx.                                          *)
(***************************************************************************)
EXTENDS Integers

Byte == 0..255
Word == 0..65535

\* A byte read as offset_t.
offset(b) == IF b >= 128 THEN b - 256 ELSE b

\* makeword of the little-endian build.
makeword(lo, hi) == hi * 256 + lo
=============================================================================
