---------------------------- MODULE Instruction ----------------------------
(***************************************************************************)
(* The fields of an instruction word (Instruction.h).                      *)
(***************************************************************************)
EXTENDS PdpWord

AND == 0
TAD == 1
ISZ == 2
DCA == 3
JMS == 4
JMP == 5
IOT == 6
OPR == 7

OpCode(w)    == w \div \o1000
Address(w)   == w % \o200
ZeroPage(w)  == ~Bit(w, \o200)
Indirect(w)  == OpCode(w) < IOT /\ Bit(w, \o400)
OprBits(w)   == w % \o1000
DeviceSel(w) == (w \div 8) % 64
DeviceOpr(w) == w % 8
FieldReg(w)  == (w \div 8) % 8

IsMemoryInstruction(w) == OpCode(w) \notin {IOT, OPR}

(* The address named by a memory instruction found at address at: on page  *)
(* zero, or on the page of the instruction.                                *)
ImmediateAddress(at, w) ==
  Address(w) + IF ZeroPage(w) THEN 0 ELSE at - (at % \o200)

(* Indirect references through 010 .. 017 of page zero increment first.    *)
AutoIndexed(w) == Indirect(w) /\ ZeroPage(w) /\ Address(w) \in \o10 .. \o17

(* The instructions whose indirect operand lies in the data field.         *)
UsesDataField(w) == Indirect(w) /\ OpCode(w) \in {AND, TAD, ISZ, DCA}
=============================================================================
