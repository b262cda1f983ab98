--------------------------------- MODULE Alu ---------------------------------
(***************************************************************************)
(* What the IR of the operation callbacks computes from bytes and flags    *)
(* (TranslatorCallbacks.cxx).  The IR works on i8 and i16; a comparison of *)
(* the sign bits of two i8, written there with xor and and, is written     *)
(* here as a comparison of Negative.                                       *)
(***************************************************************************)
EXTENDS Defs

Negative(v) == v >= 128

\* A flag, an i1, as a number.
Num(c) == IF c THEN 1 ELSE 0

------------------------------------------------------------------------------
(* Bytes as the sets of the values of their bits.                          *)

Bit == {1, 2, 4, 8, 16, 32, 64, 128}

BitsOf(v) == {w \in Bit : (v \div w) % 2 = 1}

ValueOf(bits) ==
  LET part(w) == IF w \in bits THEN w ELSE 0
  IN  part(1) + part(2) + part(4) + part(8)
      + part(16) + part(32) + part(64) + part(128)

ORA(a, m) == ValueOf(BitsOf(a) \cup BitsOf(m))
AND(a, m) == ValueOf(BitsOf(a) \cap BitsOf(m))
EOR(a, m) == ValueOf((BitsOf(a) \ BitsOf(m)) \cup (BitsOf(m) \ BitsOf(a)))

------------------------------------------------------------------------------
(* The flags, in the order of enum Flag, by the bit each has in the byte   *)
(* PHP pushes.                                                             *)
Flag == {"C", "Z", "I", "D", "B", "Q", "V", "S"}

FlagBit == [C |-> 1, Z |-> 2, I |-> 4, D |-> 8,
            B |-> 16, Q |-> 32, V |-> 64, S |-> 128]

_build_flags(flag) == ValueOf({FlagBit[f] : f \in {g \in Flag : flag[g]}})

\* As if val were shifted right before each flag and not from the start.
ShiftedFlags(v)     == [f \in Flag |-> 2 * FlagBit[f] \in BitsOf(v)]
_decompose_flags(v) == [f \in Flag |-> FlagBit[f] \in BitsOf(v)]

\* _set_z and _set_s.
SetZS(flag, v) == [flag EXCEPT !["Z"] = (v = 0), !["S"] = Negative(v)]

------------------------------------------------------------------------------
(* Arithmetic.  A result is the byte with the flags it was computed with.  *)

\* The overflow test before it looked at the truncated sum.
OverflowOfOperands(a, m, val) == Negative(a) = Negative(m)

\* Overflow of a sum: operands of one sign and a result of the other.
Overflow(a, m, val) == Negative(a) = Negative(m) /\ Negative(a) # Negative(val)

ADC(a, m, c) ==
  LET sum == m + a + Num(c)
      val == sum % 256
  IN  [val |-> val, C |-> sum > 255, V |-> Overflow(a, m, val)]

\* The difference is an i16: it is below 256 when nothing was borrowed.
Difference(r, m, borrow) ==
  LET diff == (r - m - Num(borrow)) % 65536
      val  == diff % 256
  IN  [val |-> val, C |-> diff < 256,
       V |-> Negative(r) # Negative(val) /\ Negative(r) # Negative(m)]

\* SBC subtracts the complement of C.
SBCOfCarry(a, m, c) == Difference(a, m, c)
SBC(a, m, c)        == Difference(a, m, ~c)

\* CMP, CPX, CPY: nothing is borrowed.
CompareBorrowing(r, m) == Difference(r, m, TRUE)
Compare(r, m)          == Difference(r, m, FALSE)

------------------------------------------------------------------------------
(* Shifts.  Both shifts right are the arithmetic one.                      *)

AShr(v) == v \div 2 + (IF Negative(v) THEN 128 ELSE 0)

ASL(v)    == [val |-> (2 * v) % 256, C |-> Negative(v)]

ROLOfNewCarry(v, c) ==
  [val |-> ((2 * v) % 256) + Num(Negative(v)), C |-> Negative(v)]
ROL(v, c) == [val |-> ((2 * v) % 256) + Num(c), C |-> Negative(v)]
LSR(v)    == [val |-> AShr(v), C |-> v % 2 = 1]
ROR(v, c) == [val |-> ORA(AShr(v), 128 * Num(c)), C |-> v % 2 = 1]
DEC(v)    == (v - 1) % 256

INC16(v)  == v + 1
INC(v)    == (v + 1) % 256
=============================================================================
