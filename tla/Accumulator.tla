---------------------------- MODULE Accumulator ----------------------------
(***************************************************************************)
(* The accumulator as Accumulator.h builds it: a C++ unsigned integer far  *)
(* wider than the 13 bits it stands for.  Every setter masks its slice and *)
(* truncates the register to an unsigned short, but addOp adds without a   *)
(* mask, so bits above the link hold what carried out of it until the next *)
(* setter; every getter has to mask them away again.                       *)
(***************************************************************************)
EXTENDS PdpWord

CONSTANTS
  Operands,   \* the words that TAD, AND and setAcc are given
  MicroOps,   \* the Group 1 micro-instructions given
  ShortHigh,  \* a short is ShortHigh * 2^13 values wide: 8 in the program
  RegHigh     \* the register wraps at RegHigh shorts: 2^48 in a 64-bit build

VARIABLE value

Short   == ShortHigh * \o20000
RegSize == RegHigh * Short

getArithmetic(v) == v % \o20000
getAcc(v)        == v % WordSize
getLink(v)       == (v \div WordSize) % 2
getLeastSig(v)   == v % 2
getLowerNibble(v) == v % 64
getUpperNibble(v) == (v \div 64) % 64

setArithmetic(v, a) == ((v - getArithmetic(v)) + (a % \o20000)) % Short
setAcc(v, w)        == ((v - getAcc(v)) + ToWord(w)) % Short
setLink(v, b)       == ((v - WordSize * getLink(v)) + WordSize * (b % 2)) % Short

addOp(v, arg) == (v + arg) % RegSize
andOp(v, arg) == setAcc(v, And(getAcc(v), arg))

-----------------------------------------------------------------------------
(* Group 1 of OPR, written with the setters as execute_opr writes it.      *)
rotateRight(v) == setArithmetic(v, WordSize * getLeastSig(v) + getArithmetic(v) \div 2)
rotateLeft(v)  == setArithmetic(v, 2 * getArithmetic(v) + getLink(v))
byteSwap(v)    == setAcc(v, 64 * getLowerNibble(v) + getUpperNibble(v))

rotateCode(bits) == 2 * ((bits \div 2) % 8)

clear(bits, v) ==
  LET cla == IF Bit(bits, \o200) THEN setAcc(v, 0) ELSE v
  IN  IF Bit(bits, \o100) THEN setLink(cla, 0) ELSE cla

complement(bits, v) ==
  LET cma == IF Bit(bits, \o40) THEN setAcc(v, Complement(getAcc(v))) ELSE v
  IN  IF Bit(bits, \o20) THEN setLink(cma, 1 - getLink(cma)) ELSE cma

(* A slip: IAC through the 12-bit slice, its carry never reaching the link. *)
incrementAcc(bits, v) == IF Bit(bits, 1) THEN setAcc(v, getAcc(v) + 1) ELSE v

increment(bits, v) ==
  IF Bit(bits, 1) THEN setArithmetic(v, getArithmetic(v) + 1) ELSE v

rotate(code, v) ==
  CASE code = \o12 -> rotateRight(rotateRight(v))
    [] code = \o10 -> rotateRight(v)
    [] code = \o6  -> rotateLeft(rotateLeft(v))
    [] code = \o4  -> rotateLeft(v)
    [] code = \o2  -> byteSwap(v)
    [] OTHER       -> v

group1(bits, v) ==
  rotate(rotateCode(bits), increment(bits, complement(bits, clear(bits, v))))

-----------------------------------------------------------------------------
ASSUME AccumulatorAssumption ==
  /\ Operands \subseteq Word
  /\ MicroOps \subseteq {b \in 0 .. \o377 : rotateCode(b) \notin {\o14, \o16}}
  /\ ShortHigh \in Nat \ {0}
  /\ RegHigh \in Nat \ {0}

AccumulatorInit == value = 0

TAD(w) == value' = addOp(value, w)
AND(w) == value' = andOp(value, w)
DCA    == value' = setAcc(value, 0)
(* KRS, KRB, OSR, MQA and SWP put a word of their own into the accumulator. *)
Load(w) == value' = setAcc(value, w)
RTF    == value' = setLink(value, BitOf(Bit(getAcc(value), \o4000)))
OPR1(bits) == value' = group1(bits, value)

AccumulatorNext ==
  \/ \E w \in Operands : TAD(w) \/ AND(w) \/ Load(w)
  \/ DCA
  \/ RTF
  \/ \E bits \in MicroOps : OPR1(bits)

AccumulatorSpec == AccumulatorInit /\ [][AccumulatorNext]_value

(* The register stays inside its C++ type, whatever carried above the link. *)
AccumulatorTypeOK == value \in 0 .. RegSize - 1

(* What the machine sees of the register is a 13-bit link and accumulator. *)
Machine == INSTANCE LinkAC WITH lac <- getArithmetic(value)

(* Each of these operations on the wide register is the 13-bit operation   *)
(* of the machine: what addOp leaves above the link is never seen.         *)
ImplementsLinkAC == Machine!Spec
=============================================================================
