------------------------------ MODULE PdpWord ------------------------------
(***************************************************************************)
(* The 12-bit words of the PDP-8, the bit slices of Register.h and the     *)
(* boolean operations the simulator applies to words.  Octal literals are  *)
(* used throughout, as in the source.                                      *)
(***************************************************************************)
EXTENDS Integers

WordSize == \o10000
Word     == 0 .. \o7777
Field    == 0 .. 7

(* A register slice written with a value too wide keeps the low bits.      *)
ToWord(n) == n % WordSize

Inc(w) == (w + 1) % WordSize

(* The bit of a with weight w is set.                                      *)
Bit(a, w) == (a \div w) % 2 = 1

(* C++ truth value as a number of one bit.                                 *)
BitOf(b) == IF b THEN 1 ELSE 0

-----------------------------------------------------------------------------
(* a & b, one octal digit at a time.                                       *)
Both(a, b, w) == IF Bit(a, w) /\ Bit(b, w) THEN w ELSE 0

AndDigit(a, b) == Both(a, b, 1) + Both(a, b, 2) + Both(a, b, 4)

And(a, b) ==
  AndDigit(a, b) + 8 * AndDigit(a \div 8, b \div 8)
    + 64 * AndDigit(a \div 64, b \div 64)
    + 512 * AndDigit(a \div 512, b \div 512)

Or(a, b) == a + b - And(a, b)

Complement(a) == \o7777 - a
=============================================================================
