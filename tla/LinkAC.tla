------------------------------ MODULE LinkAC -------------------------------
(***************************************************************************)
(* The 13-bit link and accumulator of the PDP-8 programmer as a state      *)
(* machine: the abstract specification that the wider C++ register of      *)
(* Accumulator.tla implements.  PDP8.tla computes with the same operators. *)
(***************************************************************************)
EXTENDS Opr

CONSTANTS
  Operands,   \* the words that TAD, AND and Load are given
  MicroOps    \* the Group 1 micro-instructions given, as in Accumulator.tla

VARIABLE lac   \* link and accumulator, 13 bits

Init == lac = 0

TAD(w) == lac' = Plus(lac, w)
AND(w) == lac' = WithAcc(lac, And(Acc(lac), w))
DCA    == lac' = WithAcc(lac, 0)
Load(w) == lac' = WithAcc(lac, w)
RTF    == lac' = WithLink(lac, BitOf(Bit(Acc(lac), \o4000)))
OPR1(bits) == lac' = Group1(bits, lac)

Next ==
  \/ \E w \in Operands : TAD(w) \/ AND(w) \/ Load(w)
  \/ DCA
  \/ RTF
  \/ \E bits \in MicroOps : OPR1(bits)

Spec == Init /\ [][Next]_lac

(* The number keeps its 13 bits.                                           *)
TypeOK == lac \in Lac
=============================================================================
