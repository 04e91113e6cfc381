-------------------------------- MODULE Opr --------------------------------
(***************************************************************************)
(* The link and accumulator as one 13-bit number, the link above the 12    *)
(* bits of the accumulator, and the three groups of operate instructions   *)
(* that compute on it.                                                     *)
(***************************************************************************)
EXTENDS PdpWord

Lac == 0 .. \o17777

Acc(l)        == l % WordSize
Link(l)       == l \div WordSize
WithAcc(l, w) == (l - Acc(l)) + ToWord(w)
WithLink(l, b) == Acc(l) + WordSize * b
Plus(l, w)    == (l + w) % \o20000

RotateRight(l) == (l % 2) * WordSize + (l \div 2)
RotateLeft(l)  == ((2 * l) % \o20000) + Link(l)
ByteSwap(l)    == WithAcc(l, 64 * (l % 64) + Acc(l) \div 64)

-----------------------------------------------------------------------------
(* Group 1 of OPR in its four sequence steps.  The two codes 014 and 016   *)
(* of the rotate field have no result: the simulator throws.               *)
RotateCode(bits) == 2 * ((bits \div 2) % 8)

BadRotates == {\o14, \o16}

ClearStep(bits, l) ==
  LET cla == IF Bit(bits, \o200) THEN WithAcc(l, 0) ELSE l
  IN  IF Bit(bits, \o100) THEN WithLink(cla, 0) ELSE cla

ComplementStep(bits, l) ==
  LET cma == IF Bit(bits, \o40) THEN WithAcc(l, Complement(Acc(l))) ELSE l
  IN  IF Bit(bits, \o20) THEN WithLink(cma, 1 - Link(cma)) ELSE cma

IncrementStep(bits, l) == IF Bit(bits, 1) THEN Plus(l, 1) ELSE l

RotateStep(code, l) ==
  CASE code = \o12 -> RotateRight(RotateRight(l))
    [] code = \o10 -> RotateRight(l)
    [] code = \o6  -> RotateLeft(RotateLeft(l))
    [] code = \o4  -> RotateLeft(l)
    [] code = \o2  -> ByteSwap(l)
    [] OTHER       -> l

Group1(bits, l) ==
  RotateStep(RotateCode(bits),
             IncrementStep(bits, ComplementStep(bits, ClearStep(bits, l))))

-----------------------------------------------------------------------------
(* Group 2: the AND group (bit 010) skips if every selected condition      *)
(* holds, the OR group if some selected condition holds.                   *)
SkipAnd(bits, l) ==
  /\ Bit(bits, \o100) => Acc(l) < \o4000     \* SPA
  /\ Bit(bits, \o40)  => Acc(l) # 0          \* SNA
  /\ Bit(bits, \o20)  => Link(l) = 0         \* SZL

SkipOr(bits, l) ==
  \/ Bit(bits, \o100) /\ Acc(l) >= \o4000    \* SMA
  \/ Bit(bits, \o40)  /\ Acc(l) = 0          \* SZA
  \/ Bit(bits, \o20)  /\ Link(l) # 0         \* SNL

Group2Skip(bits, l) == IF Bit(bits, \o10) THEN SkipAnd(bits, l) ELSE SkipOr(bits, l)

(* CLA, then OSR with the operator switches.                               *)
Group2(bits, l, switches) ==
  LET cla == IF Bit(bits, \o200) THEN WithAcc(l, 0) ELSE l
  IN  IF Bit(bits, 4) THEN WithAcc(cla, Or(Acc(cla), switches)) ELSE cla

(* Group 3, by the bits 0721: CAM, MQL, SWP and the two forms of MQA; any  *)
(* other code changes nothing.                                             *)
Group3Code(bits) == And(bits, \o721)

Group3(bits, l, mq) ==
  CASE Group3Code(bits) \in {\o621, \o421} -> WithAcc(l, 0)
    [] Group3Code(bits) \in {\o701, \o521} -> WithAcc(l, mq)
    [] Group3Code(bits) = \o501           -> WithAcc(l, Or(Acc(l), mq))
    [] OTHER                              -> l

Group3MQ(bits, l, mq) ==
  CASE Group3Code(bits) = \o621              -> 0
    [] Group3Code(bits) \in {\o421, \o521} -> Acc(l)
    [] OTHER                                 -> mq
=============================================================================
