---------------------------- MODULE Parts_proofs ----------------------------
(***************************************************************************)
(* The parts of the machine on their own.  The accumulator's register is   *)
(* the 13-bit link and accumulator, however wide its C++ type; every tick  *)
(* of the clock is accounted for, however many there are; the DECWriter    *)
(* loses, invents and swaps no character, whatever the alphabet.           *)
(***************************************************************************)
EXTENDS Accumulator, ClockSession, DECWriterSession, DECWriter_proofs

LEMMA DivMod ==
  ASSUME NEW x \in Nat, NEW m \in Nat \ {0}
  PROVE  x \div m \in Int /\ x % m \in 0 .. m - 1 /\ x = m * (x \div m) + (x % m)
<1>1. x \div m \in Int
  OBVIOUS
<1>2. x % m \in 0 .. m - 1
  OBVIOUS
<1>3. x = m * (x \div m) + (x % m)
  OBVIOUS
<1> QED
  BY <1>1, <1>2, <1>3

LEMMA Reassociated ==
  ASSUME NEW k \in Int, NEW q \in Int
  PROVE  (k * \o20000) * q = \o20000 * (k * q) /\ k * q \in Int
OBVIOUS

LEMMA SameRemainder ==
  ASSUME NEW x \in Int, NEW r \in Int, NEW j \in Int, x = \o20000 * j + r
  PROVE  r % \o20000 = x % \o20000
OBVIOUS

(* What is reduced modulo a multiple of 2^13 keeps its low 13 bits.        *)
LEMMA LowBits ==
  ASSUME NEW k \in Nat \ {0}, NEW x \in Nat
  PROVE  /\ x % (k * \o20000) \in 0 .. k * \o20000 - 1
         /\ getArithmetic(x % (k * \o20000)) = getArithmetic(x)
<1> DEFINE m == k * \o20000
<1>1. m \in Nat \ {0}
  OBVIOUS
<1>2. \A q \in Int : m * q = \o20000 * (k * q) /\ k * q \in Int
  BY Reassociated
<1> HIDE DEF m
<1>3. x \div m \in Int /\ x % m \in 0 .. m - 1 /\ x = m * (x \div m) + (x % m)
  BY <1>1, DivMod
<1>4. k * (x \div m) \in Int /\ x = \o20000 * (k * (x \div m)) + (x % m)
  BY <1>2, <1>3
<1>5. x % m \in Int
  BY <1>1, <1>3
<1>6. (x % m) % \o20000 = x % \o20000
  BY <1>4, <1>5, SameRemainder
<1> QED
  BY <1>3, <1>6 DEF getArithmetic, m

LEMMA Widths ==
  /\ Short \in Nat \ {0} /\ RegSize \in Nat \ {0} /\ Short <= RegSize
  /\ RegSize = (RegHigh * ShortHigh) * \o20000 /\ RegHigh * ShortHigh \in Nat \ {0}
<1>1. ShortHigh \in Nat \ {0} /\ RegHigh \in Nat \ {0}
  BY AccumulatorAssumption
<1>2. Short \in Nat \ {0}
  BY <1>1 DEF Short
<1>3. RegSize \in Nat \ {0} /\ Short <= RegSize
  BY <1>1, <1>2 DEF RegSize
<1>4. RegSize = (RegHigh * ShortHigh) * \o20000 /\ RegHigh * ShortHigh \in Nat \ {0}
  BY <1>1 DEF RegSize, Short
<1> QED
  BY <1>2, <1>3, <1>4

(* The values of the C++ type.                                             *)
Register == 0 .. RegSize - 1

LEMMA RegisterIsNat == ASSUME NEW v \in Register PROVE v \in Nat
BY Widths DEF Register

(* Truncating to a short, or to the whole register.                        *)
LEMMA Truncated ==
  ASSUME NEW x \in Nat
  PROVE  /\ x % Short \in Register /\ getArithmetic(x % Short) = getArithmetic(x)
         /\ x % RegSize \in Register /\ getArithmetic(x % RegSize) = getArithmetic(x)
<1>1. x % Short \in 0 .. Short - 1 /\ getArithmetic(x % Short) = getArithmetic(x)
  BY LowBits, AccumulatorAssumption DEF Short
<1>2. x % RegSize \in Register /\ getArithmetic(x % RegSize) = getArithmetic(x)
  BY LowBits, Widths, SMTT(40) DEF Register
<1>3. \A y \in 0 .. Short - 1 : y \in Register
  BY Widths DEF Register
<1> QED
  BY <1>1, <1>2, <1>3, Zenon

-----------------------------------------------------------------------------
(* The getters mask what is above the link away.                           *)
LEMMA GetArithmetic == ASSUME NEW v \in Nat PROVE getArithmetic(v) \in Machine!Lac
BY DEF getArithmetic, Machine!Lac

LEMMA GetAcc ==
  ASSUME NEW v \in Nat
  PROVE  getAcc(v) = Machine!Acc(getArithmetic(v)) /\ getAcc(v) \in Word
BY DEF getAcc, getArithmetic, Machine!Acc, Machine!WordSize, WordSize, Word

LEMMA GetLink ==
  ASSUME NEW v \in Nat
  PROVE  getLink(v) = Machine!Link(getArithmetic(v)) /\ getLink(v) \in {0, 1}
BY DEF getLink, getArithmetic, Machine!Link, Machine!WordSize, WordSize

LEMMA GetParts ==
  ASSUME NEW v \in Nat
  PROVE  /\ getLeastSig(v) = getArithmetic(v) % 2
         /\ getLowerNibble(v) = getArithmetic(v) % 64
         /\ getUpperNibble(v) = Machine!Acc(getArithmetic(v)) \div 64
<1>1. getLeastSig(v) = getArithmetic(v) % 2 /\ getLowerNibble(v) = getArithmetic(v) % 64
  BY DEF getLeastSig, getLowerNibble, getArithmetic
<1>2. getUpperNibble(v) = Machine!Acc(getArithmetic(v)) \div 64
  BY DEF getUpperNibble, getArithmetic, Machine!Acc, Machine!WordSize
<1> QED
  BY <1>1, <1>2

(* The setters touch only their slice of the 13 bits.                      *)
LEMMA SetArithmetic ==
  ASSUME NEW v \in Nat, NEW a \in Nat
  PROVE  /\ setArithmetic(v, a) \in Register
         /\ getArithmetic(setArithmetic(v, a)) = getArithmetic(a)
<1> DEFINE x == (v - getArithmetic(v)) + (a % \o20000)
<1>1. x \in Nat /\ getArithmetic(x) = getArithmetic(a)
  BY DEF getArithmetic
<1> HIDE DEF x
<1>2. setArithmetic(v, a) = x % Short
  BY SMT DEF setArithmetic, x
<1> QED
  BY <1>1, <1>2, Truncated

LEMMA SetAcc ==
  ASSUME NEW v \in Nat, NEW w \in Nat
  PROVE  /\ setAcc(v, w) \in Register
         /\ getArithmetic(setAcc(v, w)) = Machine!WithAcc(getArithmetic(v), w)
<1> DEFINE x == (v - getAcc(v)) + ToWord(w)
<1>1. x \in Nat
  BY DEF getAcc, ToWord, WordSize
<1>2. getArithmetic(x) = Machine!WithAcc(getArithmetic(v), w)
  BY DEF getAcc, getArithmetic, ToWord, WordSize, Machine!WithAcc, Machine!Acc, Machine!ToWord,
         Machine!WordSize
<1> HIDE DEF x
<1>3. setAcc(v, w) = x % Short
  BY Zenon DEF setAcc, x
<1> QED
  BY <1>1, <1>2, <1>3, Truncated, Zenon

LEMMA SetLink ==
  ASSUME NEW v \in Nat, NEW b \in {0, 1}
  PROVE  /\ setLink(v, b) \in Register
         /\ getArithmetic(setLink(v, b)) = Machine!WithLink(getArithmetic(v), b)
<1> DEFINE x == (v - WordSize * getLink(v)) + WordSize * (b % 2)
<1>1. x \in Nat
  BY DEF getLink, WordSize
<1>2. getArithmetic(x) = Machine!WithLink(getArithmetic(v), b)
  BY DEF getLink, getArithmetic, WordSize, Machine!WithLink, Machine!Acc, Machine!WordSize
<1> HIDE DEF x
<1>3. setLink(v, b) = x % Short
  BY Zenon DEF setLink, x
<1> QED
  BY <1>1, <1>2, <1>3, Truncated, Zenon

LEMMA AddOp ==
  ASSUME NEW v \in Nat, NEW w \in Nat
  PROVE  /\ addOp(v, w) \in Register
         /\ getArithmetic(addOp(v, w)) = Machine!Plus(getArithmetic(v), w)
<1>1. v + w \in Nat /\ getArithmetic(v + w) = Machine!Plus(getArithmetic(v), w)
  BY DEF getArithmetic, Machine!Plus
<1> QED
  BY <1>1, Truncated, Zenon DEF addOp
-----------------------------------------------------------------------------
(* The same arithmetic on both sides.                                      *)
LEMMA SameComplement ==
  ASSUME NEW x \in Word
  PROVE  Complement(x) = Machine!Complement(x) /\ Complement(x) \in Nat
BY DEF Complement, Machine!Complement, Word

LEMMA SameHighBit ==
  ASSUME NEW x
  PROVE  BitOf(Bit(x, \o4000)) = Machine!BitOf(Machine!Bit(x, \o4000))
BY DEF Bit, Machine!Bit, BitOf, Machine!BitOf

LEMMA SameRight ==
  ASSUME NEW l \in Machine!Lac
  PROVE  /\ WordSize * (l % 2) + l \div 2 \in Nat
         /\ getArithmetic(WordSize * (l % 2) + l \div 2) = Machine!RotateRight(l)
<1> DEFINE r == WordSize * (l % 2) + l \div 2
<1>1. r \in 0 .. \o17777
  BY SMTT(40) DEF WordSize, Machine!Lac
<1>2. r = Machine!RotateRight(l)
  BY DEF WordSize, Machine!WordSize, Machine!RotateRight, Machine!Lac
<1> HIDE DEF r
<1>3. r \in Nat
  BY <1>1
<1>4. getArithmetic(r) = r
  BY <1>1 DEF getArithmetic
<1> QED
  BY <1>2, <1>3, <1>4, Zenon DEF r

LEMMA SameLeft ==
  ASSUME NEW l \in Machine!Lac
  PROVE  /\ 2 * l + Machine!Link(l) \in Nat
         /\ getArithmetic(2 * l + Machine!Link(l)) = Machine!RotateLeft(l)
<1>1. CASE l \in 0 .. \o7777
  BY <1>1, SMTT(40) DEF getArithmetic, Machine!RotateLeft, Machine!Link, Machine!WordSize
<1>2. CASE l \in \o10000 .. \o17777
  BY <1>2, SMTT(40) DEF getArithmetic, Machine!RotateLeft, Machine!Link, Machine!WordSize
<1> QED
  BY <1>1, <1>2 DEF Machine!Lac

LEMMA SameSwap ==
  ASSUME NEW l \in Machine!Lac
  PROVE  /\ 64 * (l % 64) + Machine!Acc(l) \div 64 \in Nat
         /\ Machine!ByteSwap(l) = Machine!WithAcc(l, 64 * (l % 64) + Machine!Acc(l) \div 64)
<1>1. 64 * (l % 64) + Machine!Acc(l) \div 64 \in Nat
  BY DEF Machine!Acc, Machine!WordSize, Machine!Lac
<1>2. Machine!ByteSwap(l) = Machine!WithAcc(l, 64 * (l % 64) + Machine!Acc(l) \div 64)
  BY DEF Machine!ByteSwap
<1> QED
  BY <1>1, <1>2

(* The four sequence steps of Group 1.                                     *)
LEMMA ClearAgrees ==
  ASSUME NEW v \in Register, NEW bits \in Nat
  PROVE  /\ clear(bits, v) \in Register
         /\ getArithmetic(clear(bits, v)) = Machine!ClearStep(bits, getArithmetic(v))
<1> DEFINE cla == IF Bit(bits, \o200) THEN setAcc(v, 0) ELSE v
           mcla == IF Bit(bits, \o200) THEN Machine!WithAcc(getArithmetic(v), 0)
                     ELSE getArithmetic(v)
<1>1. v \in Nat
  BY RegisterIsNat
<1>2. cla \in Register /\ getArithmetic(cla) = mcla
  BY <1>1, SetAcc
<1>3. /\ clear(bits, v) = IF Bit(bits, \o100) THEN setLink(cla, 0) ELSE cla
      /\ Machine!ClearStep(bits, getArithmetic(v)) =
           IF Bit(bits, \o100) THEN Machine!WithLink(mcla, 0) ELSE mcla
  BY Zenon DEF clear, Machine!ClearStep, Machine!Bit, Bit
<1> HIDE DEF cla, mcla
<1>4. cla \in Nat
  BY <1>2, RegisterIsNat
<1> QED
  BY <1>2, <1>3, <1>4, SetLink

LEMMA ComplementAgrees ==
  ASSUME NEW v \in Register, NEW bits \in Nat
  PROVE  /\ complement(bits, v) \in Register
         /\ getArithmetic(complement(bits, v)) = Machine!ComplementStep(bits, getArithmetic(v))
<1> DEFINE cma == IF Bit(bits, \o40) THEN setAcc(v, Complement(getAcc(v))) ELSE v
           mcma == IF Bit(bits, \o40)
                     THEN Machine!WithAcc(getArithmetic(v),
                                          Machine!Complement(Machine!Acc(getArithmetic(v))))
                     ELSE getArithmetic(v)
<1>1. v \in Nat
  BY RegisterIsNat
<1>2. cma \in Register /\ getArithmetic(cma) = mcma
  <2>1. getAcc(v) \in Word /\ getAcc(v) = Machine!Acc(getArithmetic(v))
    BY <1>1, GetAcc
  <2>2. Complement(getAcc(v)) = Machine!Complement(Machine!Acc(getArithmetic(v)))
    BY <2>1, SameComplement, Zenon
  <2>3. Complement(getAcc(v)) \in Nat
    BY <2>1, SameComplement, Zenon
  <2> QED
    BY <1>1, <2>2, <2>3, SetAcc
<1>3. /\ complement(bits, v) = IF Bit(bits, \o20) THEN setLink(cma, 1 - getLink(cma)) ELSE cma
      /\ Machine!ComplementStep(bits, getArithmetic(v)) =
           IF Bit(bits, \o20) THEN Machine!WithLink(mcma, 1 - Machine!Link(mcma)) ELSE mcma
  BY Zenon DEF complement, Machine!ComplementStep, Machine!Bit, Bit
<1> HIDE DEF cma, mcma
<1>4. cma \in Nat
  BY <1>2, RegisterIsNat
<1>5. getLink(cma) = Machine!Link(mcma) /\ 1 - getLink(cma) \in {0, 1}
  <2>1. getLink(cma) = Machine!Link(getArithmetic(cma)) /\ getLink(cma) \in {0, 1}
    BY <1>4, GetLink
  <2> QED
    BY <1>2, <2>1
<1> QED
  BY <1>2, <1>3, <1>4, <1>5, SetLink

LEMMA IncrementAgrees ==
  ASSUME NEW v \in Register, NEW bits \in Nat
  PROVE  /\ increment(bits, v) \in Register
         /\ getArithmetic(increment(bits, v)) = Machine!IncrementStep(bits, getArithmetic(v))
<1> DEFINE a == getArithmetic(v) + 1
<1>1. v \in Nat
  BY RegisterIsNat
<1>2. a \in Nat /\ getArithmetic(a) = Machine!Plus(getArithmetic(v), 1)
  BY <1>1 DEF getArithmetic, Machine!Plus
<1> HIDE DEF a
<1>3. setArithmetic(v, a) \in Register
      /\ getArithmetic(setArithmetic(v, a)) = Machine!Plus(getArithmetic(v), 1)
  BY <1>1, <1>2, SetArithmetic
<1> QED
  BY <1>3, Zenon DEF increment, Machine!IncrementStep, Machine!Bit, Bit, a

LEMMA RotatesAgree ==
  ASSUME NEW v \in Register
  PROVE  /\ rotateRight(v) \in Register
         /\ getArithmetic(rotateRight(v)) = Machine!RotateRight(getArithmetic(v))
         /\ rotateLeft(v) \in Register
         /\ getArithmetic(rotateLeft(v)) = Machine!RotateLeft(getArithmetic(v))
         /\ byteSwap(v) \in Register
         /\ getArithmetic(byteSwap(v)) = Machine!ByteSwap(getArithmetic(v))
<1> DEFINE l == getArithmetic(v)
<1>1. v \in Nat
  BY RegisterIsNat
<1>2. l \in Machine!Lac
  BY <1>1, GetArithmetic, Zenon
<1>3. /\ getLeastSig(v) = l % 2 /\ getLink(v) = Machine!Link(l)
      /\ getLowerNibble(v) = l % 64 /\ getUpperNibble(v) = Machine!Acc(l) \div 64
  BY <1>1, GetParts, GetLink
<1>4. ASSUME NEW a \in Nat
      PROVE  /\ setArithmetic(v, a) \in Register
             /\ getArithmetic(setArithmetic(v, a)) = getArithmetic(a)
             /\ setAcc(v, a) \in Register
             /\ getArithmetic(setAcc(v, a)) = Machine!WithAcc(l, a)
  BY <1>1, <1>4, SetArithmetic, SetAcc, Zenon
<1>5. /\ rotateRight(v) = setArithmetic(v, WordSize * (l % 2) + l \div 2)
      /\ rotateLeft(v) = setArithmetic(v, 2 * l + Machine!Link(l))
      /\ byteSwap(v) = setAcc(v, 64 * (l % 64) + Machine!Acc(l) \div 64)
  BY <1>3, Zenon DEF rotateRight, rotateLeft, byteSwap
<1> HIDE DEF l
<1>6. /\ rotateRight(v) \in Register
      /\ getArithmetic(rotateRight(v)) = Machine!RotateRight(l)
  <2> DEFINE a == WordSize * (l % 2) + l \div 2
  <2>1. a \in Nat /\ getArithmetic(a) = Machine!RotateRight(l)
    BY <1>2, SameRight
  <2>2. rotateRight(v) = setArithmetic(v, a)
    BY <1>5
  <2> HIDE DEF a
  <2> QED
    BY <1>4, <2>1, <2>2
<1>7. /\ rotateLeft(v) \in Register
      /\ getArithmetic(rotateLeft(v)) = Machine!RotateLeft(l)
  <2> DEFINE a == 2 * l + Machine!Link(l)
  <2>1. a \in Nat /\ getArithmetic(a) = Machine!RotateLeft(l)
    BY <1>2, SameLeft
  <2>2. rotateLeft(v) = setArithmetic(v, a)
    BY <1>5
  <2> HIDE DEF a
  <2> QED
    BY <1>4, <2>1, <2>2
<1>8. /\ byteSwap(v) \in Register
      /\ getArithmetic(byteSwap(v)) = Machine!ByteSwap(l)
  <2> DEFINE a == 64 * (l % 64) + Machine!Acc(l) \div 64
  <2>1. a \in Nat /\ Machine!ByteSwap(l) = Machine!WithAcc(l, a)
    BY <1>2, SameSwap
  <2>2. byteSwap(v) = setAcc(v, a)
    BY <1>5
  <2> HIDE DEF a
  <2> QED
    BY <1>4, <2>1, <2>2
<1> QED
  BY <1>6, <1>7, <1>8, Zenon DEF l

LEMMA RotateAgrees ==
  ASSUME NEW v \in Register, NEW code
  PROVE  /\ rotate(code, v) \in Register
         /\ getArithmetic(rotate(code, v)) = Machine!RotateStep(code, getArithmetic(v))
<1>1. \A u \in Register :
        /\ rotateRight(u) \in Register
        /\ getArithmetic(rotateRight(u)) = Machine!RotateRight(getArithmetic(u))
        /\ rotateLeft(u) \in Register
        /\ getArithmetic(rotateLeft(u)) = Machine!RotateLeft(getArithmetic(u))
        /\ byteSwap(u) \in Register
        /\ getArithmetic(byteSwap(u)) = Machine!ByteSwap(getArithmetic(u))
  BY RotatesAgree
<1>2. CASE code = \o12
  <2>1. /\ rotate(code, v) = rotateRight(rotateRight(v))
        /\ Machine!RotateStep(code, getArithmetic(v)) =
             Machine!RotateRight(Machine!RotateRight(getArithmetic(v)))
    BY <1>2 DEF rotate, Machine!RotateStep
  <2> QED
    BY <1>1, <2>1, Zenon
<1>3. CASE code = \o10
  BY <1>1, <1>3 DEF rotate, Machine!RotateStep
<1>4. CASE code = \o6
  <2>1. /\ rotate(code, v) = rotateLeft(rotateLeft(v))
        /\ Machine!RotateStep(code, getArithmetic(v)) =
             Machine!RotateLeft(Machine!RotateLeft(getArithmetic(v)))
    BY <1>4 DEF rotate, Machine!RotateStep
  <2> QED
    BY <1>1, <2>1, Zenon
<1>5. CASE code = \o4
  BY <1>1, <1>5 DEF rotate, Machine!RotateStep
<1>6. CASE code = \o2
  BY <1>1, <1>6 DEF rotate, Machine!RotateStep
<1>7. CASE code \notin {\o12, \o10, \o6, \o4, \o2}
  BY <1>7 DEF rotate, Machine!RotateStep
<1> QED
  BY <1>2, <1>3, <1>4, <1>5, <1>6, <1>7

LEMMA Group1Agrees ==
  ASSUME NEW v \in Register, NEW bits \in Nat
  PROVE  /\ group1(bits, v) \in Register
         /\ getArithmetic(group1(bits, v)) = Machine!Group1(bits, getArithmetic(v))
<1> DEFINE cleared == clear(bits, v)
           complemented == complement(bits, cleared)
           incremented == increment(bits, complemented)
<1>1. /\ cleared \in Register
      /\ getArithmetic(cleared) = Machine!ClearStep(bits, getArithmetic(v))
  BY ClearAgrees
<1> HIDE DEF cleared
<1>2. /\ complemented \in Register
      /\ getArithmetic(complemented) = Machine!ComplementStep(bits, getArithmetic(cleared))
  BY <1>1, ComplementAgrees
<1> HIDE DEF complemented
<1>3. /\ incremented \in Register
      /\ getArithmetic(incremented) = Machine!IncrementStep(bits, getArithmetic(complemented))
  BY <1>2, IncrementAgrees
<1> HIDE DEF incremented
<1>4. \A code : /\ rotate(code, incremented) \in Register
                /\ getArithmetic(rotate(code, incremented)) =
                     Machine!RotateStep(code, getArithmetic(incremented))
  BY <1>3, RotateAgrees
<1>5. rotateCode(bits) = Machine!RotateCode(bits)
  BY Zenon DEF rotateCode, Machine!RotateCode
<1> QED
  BY <1>1, <1>2, <1>3, <1>4, <1>5, Zenon
     DEF group1, Machine!Group1, cleared, complemented, incremented

-----------------------------------------------------------------------------
LEMMA AndAgrees ==
  ASSUME NEW a \in Word, NEW b \in Word
  PROVE  And(a, b) = Machine!And(a, b) /\ And(a, b) \in Nat
<1>1. And(a, b) = Machine!And(a, b)
  BY Zenon DEF And, Machine!And, AndDigit, Machine!AndDigit, Both, Machine!Both, Bit, Machine!Bit
<1>2. ASSUME NEW x, NEW y, NEW w \in Nat PROVE Both(x, y, w) \in Nat
  BY <1>2 DEF Both
<1>3. ASSUME NEW x, NEW y PROVE AndDigit(x, y) \in Nat
  BY <1>2 DEF AndDigit
<1>4. And(a, b) \in Nat
  BY <1>3 DEF And
<1> QED
  BY <1>1, <1>4

LEMMA AccumulatorStep ==
  ASSUME AccumulatorTypeOK, [AccumulatorNext]_value
  PROVE  AccumulatorTypeOK' /\ [Machine!Next]_(getArithmetic(value))
<1>1. value \in Register /\ value \in Nat
  BY RegisterIsNat, Zenon DEF AccumulatorTypeOK, Register
<1>2. getAcc(value) = Machine!Acc(getArithmetic(value)) /\ getAcc(value) \in Word
  BY <1>1, GetAcc
<1>3. ASSUME NEW w \in Operands, TAD(w) PROVE AccumulatorTypeOK' /\ Machine!Next
  <2>1. w \in Nat
    BY AccumulatorAssumption DEF Word
  <2>2. /\ value' \in Register
        /\ getArithmetic(value') = Machine!Plus(getArithmetic(value), w)
    BY <1>1, <1>3, <2>1, AddOp, Zenon DEF TAD
  <2>3. AccumulatorTypeOK' /\ Machine!TAD(w)
    BY <2>2, Zenon DEF AccumulatorTypeOK, Register, Machine!TAD
  <2> QED
    BY <2>3, Zenon DEF Machine!Next
<1>4. ASSUME NEW w \in Operands, AND(w) PROVE AccumulatorTypeOK' /\ Machine!Next
  <2>1. /\ And(getAcc(value), w) = Machine!And(Machine!Acc(getArithmetic(value)), w)
        /\ And(getAcc(value), w) \in Nat
    <3>1. w \in Word
      BY AccumulatorAssumption
    <3> QED
      BY <1>2, <3>1, AndAgrees
  <2>2. value' = setAcc(value, And(getAcc(value), w))
    BY <1>4, Zenon DEF AND, andOp
  <2>3. /\ value' \in Register
        /\ getArithmetic(value') = Machine!WithAcc(getArithmetic(value), And(getAcc(value), w))
    BY <1>1, <2>1, <2>2, SetAcc
  <2>4. AccumulatorTypeOK' /\ Machine!AND(w)
    BY <2>1, <2>3, Zenon DEF AccumulatorTypeOK, Register, Machine!AND
  <2> QED
    BY <2>4, Zenon DEF Machine!Next
<1>5. CASE DCA
  <2>1. /\ value' \in Register
        /\ getArithmetic(value') = Machine!WithAcc(getArithmetic(value), 0)
    BY <1>1, <1>5, SetAcc DEF DCA
  <2>2. AccumulatorTypeOK' /\ Machine!DCA
    BY <2>1, Zenon DEF AccumulatorTypeOK, Register, Machine!DCA
  <2> QED
    BY <2>2, Zenon DEF Machine!Next
<1>6. CASE RTF
  <2>1. BitOf(Bit(getAcc(value), \o4000)) \in {0, 1}
    BY DEF BitOf
  <2>2. /\ value' \in Register
        /\ getArithmetic(value') =
             Machine!WithLink(getArithmetic(value), BitOf(Bit(getAcc(value), \o4000)))
    BY <1>1, <1>6, <2>1, SetLink DEF RTF
  <2>3. BitOf(Bit(getAcc(value), \o4000)) =
          Machine!BitOf(Machine!Bit(Machine!Acc(getArithmetic(value)), \o4000))
    BY <1>2, SameHighBit
  <2>4. AccumulatorTypeOK' /\ Machine!RTF
    BY <2>2, <2>3 DEF AccumulatorTypeOK, Register, Machine!RTF
  <2> QED
    BY <2>4, Zenon DEF Machine!Next
<1>7. ASSUME NEW bits \in MicroOps, OPR1(bits) PROVE AccumulatorTypeOK' /\ Machine!Next
  <2>1. bits \in Nat
    BY AccumulatorAssumption
  <2>2. /\ value' \in Register
        /\ getArithmetic(value') = Machine!Group1(bits, getArithmetic(value))
    BY <1>1, <1>7, <2>1, Group1Agrees DEF OPR1
  <2>3. AccumulatorTypeOK' /\ Machine!OPR1(bits)
    BY <2>2, Zenon DEF AccumulatorTypeOK, Register, Machine!OPR1
  <2> QED
    BY <2>3, Zenon DEF Machine!Next
<1>8. CASE UNCHANGED value
  BY <1>8, Zenon DEF AccumulatorTypeOK
<1>9. ASSUME NEW w \in Operands, Load(w) PROVE AccumulatorTypeOK' /\ Machine!Next
  <2>1. w \in Nat
    BY AccumulatorAssumption DEF Word
  <2>2. /\ value' \in Register
        /\ getArithmetic(value') = Machine!WithAcc(getArithmetic(value), w)
    BY <1>1, <1>9, <2>1, SetAcc DEF Load
  <2>3. AccumulatorTypeOK' /\ Machine!Load(w)
    BY <2>2, Zenon DEF AccumulatorTypeOK, Register, Machine!Load
  <2> QED
    BY <2>3, Zenon DEF Machine!Next
<1> QED
  BY <1>3, <1>4, <1>5, <1>6, <1>7, <1>8, <1>9, Zenon DEF AccumulatorNext

LEMMA AccumulatorStart == AccumulatorInit => AccumulatorTypeOK /\ Machine!Init
BY Widths DEF AccumulatorInit, AccumulatorTypeOK, Register, Machine!Init, getArithmetic

(* The register never leaves its C++ type, whatever carries above the link. *)
THEOREM AccumulatorTyped == AccumulatorSpec => []AccumulatorTypeOK
BY AccumulatorStart, AccumulatorStep, PTL DEF AccumulatorSpec

(* However wide a short and the register are, every operation on the wide  *)
(* register is the 13-bit operation: the carry that addOp leaves above the *)
(* link is never seen.                                                     *)
THEOREM RegisterImplementsLinkAC == AccumulatorSpec => ImplementsLinkAC
<1>1. AccumulatorInit => Machine!Init
  BY AccumulatorStart
<1>2. AccumulatorTypeOK /\ [AccumulatorNext]_value => [Machine!Next]_(getArithmetic(value))
  BY AccumulatorStep
<1> QED
  BY <1>1, <1>2, AccumulatorTyped, PTL DEF AccumulatorSpec, ImplementsLinkAC, Machine!Spec
-----------------------------------------------------------------------------
(* The counters and flags keep their types.                                *)
LEMMA ClockTyped == ClockSessionSpec => []ClockSessionTypeOK
<1> USE DEF ClockSessionTypeOK, ClockTypeOK
<1>1. ClockSessionInit => ClockSessionTypeOK
  <2>1. ClockSessionInit => ClockTypeOK
    BY Zenon DEF ClockSessionInit, ClockInit
  <2>2. ClockSessionInit => ticks \in 0 .. MaxTicks /\ skips \in Nat /\ merged \in Nat /\ raced \in Nat
    BY MaxTicksAssumption DEF ClockSessionInit
  <2> QED
    BY <2>1, <2>2
<1>2. ClockSessionTypeOK /\ [ClockSessionNext]_clockSessionVars => ClockSessionTypeOK'
  <2> SUFFICES ASSUME ClockSessionTypeOK, [ClockSessionNext]_clockSessionVars
               PROVE  ClockSessionTypeOK'
    OBVIOUS
  <2>1. CASE ClockThread
    BY <2>1, MaxTicksAssumption DEF ClockThread, Tick
  <2>2. CASE Test
    BY <2>2 DEF Test, TestClockFlag
  <2>3. CASE Clear
    BY <2>3 DEF Clear, ClearClockFlag, tickHistory
  <2>4. CASE Enable
    BY <2>4 DEF Enable, CLEI, CLDI, tickHistory
  <2>5. CASE UNCHANGED clockSessionVars
    BY <2>5 DEF clockSessionVars, clockVars, tickHistory
  <2> QED
    BY <2>1, <2>2, <2>3, <2>4, <2>5 DEF ClockSessionNext
<1> QED
  BY <1>1, <1>2, PTL DEF ClockSessionSpec

(* The accounting is inductive as it stands.  The only delicate step is    *)
(* the test of CLSK: a tick that was pending becomes a skip.               *)
THEOREM ClockAccounts == ClockSessionSpec => []TicksAccounted
<1> USE DEF TicksAccounted, Pending, BitOf
<1>1. ClockSessionInit => TicksAccounted
  BY DEF ClockSessionInit, ClockInit
<1>2. ClockSessionTypeOK /\ TicksAccounted /\ [ClockSessionNext]_clockSessionVars => TicksAccounted'
  <2> SUFFICES ASSUME ClockSessionTypeOK, TicksAccounted, [ClockSessionNext]_clockSessionVars
               PROVE  TicksAccounted'
    OBVIOUS
  <2> USE DEF ClockSessionTypeOK, ClockTypeOK
  <2>1. CASE ClockThread
    BY <2>1 DEF ClockThread, Tick
  <2>2. CASE Test
    BY <2>2 DEF Test, TestClockFlag, ClockSkip
  <2>3. CASE Clear
    BY <2>3 DEF Clear, ClearClockFlag, tickHistory
  <2>4. CASE Enable
    BY <2>4 DEF Enable, CLEI, CLDI, tickHistory
  <2>5. CASE UNCHANGED clockSessionVars
    BY <2>5 DEF clockSessionVars, clockVars, tickHistory
  <2> QED
    BY <2>1, <2>2, <2>3, <2>4, <2>5 DEF ClockSessionNext
<1> QED
  BY <1>1, <1>2, ClockTyped, PTL DEF ClockSessionSpec
-----------------------------------------------------------------------------
(* The device's invariant holds whatever the CPU and the person at the     *)
(* window do.                                                              *)
LEMMA DeviceInvariant == Spec => []DeviceInv
<1>1. Init => DeviceInv
  BY DeviceStart, Zenon DEF Init
<1>2. DeviceInv /\ [Next]_vars => DeviceInv'
  <2> SUFFICES ASSUME DeviceInv, [Next]_vars PROVE DeviceInv'
    OBVIOUS
  <2>1. ASSUME NEW acc \in AccValues, NEW op \in KeyboardOps, Keyboard(op, acc)
        PROVE  DeviceInv'
    BY <2>1, SessionAssumption, KeyboardStep, Zenon DEF Keyboard
  <2>2. ASSUME NEW acc \in AccValues, NEW op \in PrinterOps, Printer(op, acc)
        PROVE  DeviceInv'
    BY <2>2, SessionAssumption, PrinterStep, Zenon DEF Printer
  <2>3. ASSUME NEW chars \in Typed, Type(chars)
        PROVE  DeviceInv'
    BY <2>3, TypedLines, SelectedStep, Zenon DEF Type
  <2>4. CASE Close
    BY <2>4, DisconnectStep, Zenon DEF Close
  <2>5. CASE UNCHANGED vars
    BY <2>5, Zenon DEF vars, decVars, keyboardVars, printerVars, DeviceInv,
                       DECWriterTypeOK, NoStrandedInput, PrinterAlwaysReady
  <2> QED
    BY <2>1, <2>2, <2>3, <2>4, <2>5, Zenon DEF Next
<1> QED
  BY <1>1, <1>2, PTL DEF Spec

(* Every register of the DECWriter keeps its type.                         *)
THEOREM DeviceTyped == Spec => []DECWriterTypeOK
BY DeviceInvariant, PTL DEF DeviceInv

(* Characters wait in the window only behind one in the keyboard buffer,   *)
(* so none is left without a flag that announces it.                       *)
THEOREM NothingStranded == Spec => []NoStrandedInput
BY DeviceInvariant, PTL DEF DeviceInv

(* The printer is ready between any two operations.                        *)
THEOREM PrinterReady == Spec => []PrinterAlwaysReady
BY DeviceInvariant, PTL DEF DeviceInv

-----------------------------------------------------------------------------
HistoryInv == typed \in Seq(Byte) /\ taken \in Seq(Byte) /\ TakenInOrder

LEMMA CharsAreBytes == ASSUME NEW s \in Seq(Chars) PROVE s \in Seq(Byte)
<1>1. Chars \subseteq Byte
  BY DECWriterAssumption DEF Byte
<1> QED
  BY <1>1, SeqMonotonic

LEMMA InBufferType == DeviceInv => InBuffer \in Seq(Byte) /\ inputLineBuffer \in Seq(Byte)
<1> SUFFICES ASSUME DeviceInv PROVE InBuffer \in Seq(Byte) /\ inputLineBuffer \in Seq(Byte)
  OBVIOUS
<1>1. keyboardBuffer \in Byte /\ inputLineBuffer \in Seq(Chars)
  BY Zenon DEF DeviceInv, DECWriterTypeOK, Byte
<1>2. InBuffer \in Seq(Byte)
  <2>1. <<keyboardBuffer>> \in Seq(Byte) /\ << >> \in Seq(Byte)
    BY <1>1
  <2> QED
    BY <2>1, Zenon DEF InBuffer
<1> QED
  BY <1>1, <1>2, CharsAreBytes

(* Every character typed reaches the CPU once and in order.                *)
THEOREM NothingLost == Spec => []TakenInOrder
<1>1. Init => HistoryInv
  <2> SUFFICES ASSUME Init PROVE HistoryInv
    OBVIOUS
  <2>1. typed = << >> /\ taken = << >> /\ inputLineBuffer = << >> /\ InBuffer = << >>
    BY Zenon DEF Init, DECWriterInit, InBuffer
  <2>2. << >> \in Seq(Byte) /\ << >> \o << >> = << >>
    BY EmptySeq, ConcatEmptySeq
  <2> QED
    BY <2>1, <2>2, Zenon DEF HistoryInv, TakenInOrder
<1>2. DeviceInv /\ HistoryInv /\ [Next]_vars => HistoryInv'
  <2> SUFFICES ASSUME DeviceInv, HistoryInv, [Next]_vars PROVE HistoryInv'
    OBVIOUS
  <2>1. /\ InBuffer \in Seq(Byte) /\ inputLineBuffer \in Seq(Byte)
        /\ typed \in Seq(Byte) /\ taken \in Seq(Byte)
    BY InBufferType, Zenon DEF HistoryInv
  <2>2. typed = taken \o Held
    BY <2>1, Reassociate, Zenon DEF HistoryInv, TakenInOrder, Held
  <2>3. Held \in Seq(Byte)
    BY <2>1, ConcatProperties DEF Held
  <2>4. ASSUME typed' \in Seq(Byte), taken' \in Seq(Byte), DeviceInv', typed' = taken' \o Held'
        PROVE  HistoryInv'
    <3>0. (InBuffer \in Seq(Byte) /\ inputLineBuffer \in Seq(Byte))'
      <4>1. DeviceInv'
        BY <2>4
      <4> QED
        BY <4>1, InBufferType, PTL
    <3>1. InBuffer' \in Seq(Byte) /\ inputLineBuffer' \in Seq(Byte)
      BY <3>0
    <3>2. (taken' \o InBuffer') \o inputLineBuffer' = taken' \o (InBuffer' \o inputLineBuffer')
      BY <2>4, <3>1, Reassociate
    <3> QED
      BY <2>4, <3>2, Zenon DEF HistoryInv, TakenInOrder, Held
  <2>5. ASSUME UNCHANGED history, Held' = Held, DeviceInv'
        PROVE  HistoryInv'
    BY <2>1, <2>2, <2>4, <2>5, Zenon DEF history
  <2>6. ASSUME NEW acc \in AccValues, NEW op \in KeyboardOps, Keyboard(op, acc)
        PROVE  HistoryInv'
    <3>1. DeviceInv'
      BY <2>6, SessionAssumption, KeyboardStep, Zenon DEF Keyboard
    <3>2. CASE op \in {0, 6}
      <4>1. performInputOutput(FALSE, printerFlag, printerBuffer)
        <5>1. op # 5 /\ op \notin {1, 4}
          BY <3>2
        <5> QED
          BY <2>6, <5>1, Zenon DEF Keyboard, KeyboardOperation, KCF, KRB
      <4>2. Held' = inputLineBuffer
        <5>1. Held' = << >> \o inputLineBuffer
          BY <4>1, InputOutputHolds, Zenon
        <5> QED
          BY <2>1, <5>1, ConcatEmptySeq
      <4>3. CASE keyboardFlag
        <5>1. taken' = Append(taken, keyboardBuffer) /\ typed' = typed
          BY <2>6, <3>2, <4>3, Zenon DEF Keyboard
        <5>2. keyboardBuffer \in Byte
          BY Zenon DEF DeviceInv, DECWriterTypeOK, Byte
        <5>3. taken' = taken \o InBuffer
          <6>1. Append(taken, keyboardBuffer) = taken \o <<keyboardBuffer>>
            BY <5>2, <2>1, AppendIsConcat
          <6> QED
            BY <5>1, <6>1, <4>3, Zenon DEF InBuffer
        <5>4. taken' \in Seq(Byte)
          BY <5>3, <2>1, ConcatProperties
        <5>5. typed' = taken' \o Held'
          BY <5>1, <5>3, <4>2, Zenon DEF HistoryInv, TakenInOrder
        <5> QED
          BY <2>1, <2>4, <3>1, <5>1, <5>4, <5>5, Zenon
      <4>4. CASE ~keyboardFlag
        <5>1. UNCHANGED history
          BY <2>6, <4>4, Zenon DEF Keyboard, history
        <5>2. Held = inputLineBuffer
          BY <4>4, <2>1, ConcatEmptySeq DEF Held, InBuffer
        <5> QED
          BY <2>5, <3>1, <4>2, <5>1, <5>2, Zenon
      <4> QED
        BY <4>3, <4>4
    <3>3. CASE op \notin {0, 6}
      <4>1. UNCHANGED history
        BY <2>6, <3>3, Zenon DEF Keyboard, history
      <4>2. UNCHANGED keyboardVars
        BY <2>6, <3>3, Zenon DEF Keyboard, KeyboardOperation, KIE, decVars
      <4>3. Held' = Held
        BY <4>2, Zenon DEF keyboardVars, Held, InBuffer
      <4> QED
        BY <2>5, <3>1, <4>1, <4>3
    <3> QED
      BY <3>2, <3>3
  <2>7. ASSUME NEW acc \in AccValues, NEW op \in PrinterOps, Printer(op, acc)
        PROVE  HistoryInv'
    <3>1. DeviceInv' /\ UNCHANGED history
      BY <2>7, SessionAssumption, PrinterStep, Zenon DEF Printer
    <3>2. CASE UNCHANGED keyboardVars
      BY <2>5, <3>1, <3>2, Zenon DEF keyboardVars, Held, InBuffer
    <3>3. ASSUME NEW buffer, performInputOutput(keyboardFlag, FALSE, buffer)
          PROVE  Held' = Held
      <4>1. keyboardFlag \in BOOLEAN
        BY Zenon DEF DeviceInv, DECWriterTypeOK
      <4> QED
        BY <3>3, <4>1, InputOutputHolds, Zenon DEF Held, InBuffer
    <3> QED
      BY <2>5, <2>7, <3>1, <3>2, <3>3, Zenon
         DEF Printer, PrinterOperation, TFL, TCF, TPC, TLS, decVars
  <2>8. ASSUME NEW chars \in Typed, Type(chars)
        PROVE  HistoryInv'
    <3>1. DeviceInv' /\ chars \in Seq(Chars)
      BY <2>8, TypedLines, SelectedStep, Zenon DEF Type
    <3>2. chars \in Seq(Byte)
      BY <3>1, CharsAreBytes
    <3>3. Held' = Held \o chars
      <4>1. inputLineBuffer \in Seq(Chars) /\ keyboardFlag \in BOOLEAN
        BY Zenon DEF DeviceInv, DECWriterTypeOK
      <4>2. inputLineBuffer \o chars \in Seq(Chars)
        BY <3>1, <4>1, ConcatProperties
      <4>3. Held' = InBuffer \o (inputLineBuffer \o chars)
        BY <2>8, <4>1, <4>2, NextCharHolds, Zenon DEF Type, selected, InBuffer
      <4> QED
        BY <2>1, <3>2, <4>3, Reassociate, ZenonT(40) DEF Held
    <3>4. typed' = typed \o chars /\ taken' = taken
      BY <2>8, Zenon DEF Type
    <3>5. typed' = taken' \o Held'
      BY <2>1, <2>2, <2>3, <3>2, <3>3, <3>4, Reassociate, ZenonT(40)
    <3>6. typed' \in Seq(Byte)
      BY <2>1, <3>2, <3>4, ConcatProperties
    <3> QED
      BY <2>1, <2>4, <3>1, <3>4, <3>5, <3>6, Zenon
  <2>9. CASE Close
    <3>1. DeviceInv'
      BY <2>9, DisconnectStep, Zenon DEF Close
    <3> DEFINE kept == taken \o InBuffer
    <3>2. kept \in Seq(Byte) /\ typed = kept \o inputLineBuffer
      BY <2>1, ConcatProperties DEF HistoryInv, TakenInOrder
    <3>3. typed' = SubSeq(typed, 1, Len(typed) - Len(inputLineBuffer)) /\ taken' = taken
      BY <2>9, Zenon DEF Close
    <3>4. Held' = InBuffer
      <4>1. Held' = InBuffer \o << >>
        BY <2>9, Zenon DEF Close, disconnectCallback, Held, InBuffer
      <4> QED
        BY <2>1, <4>1, ConcatEmptySeq
    <3> HIDE DEF kept
    <3>5. typed' = kept
      <4>1. Len(typed) - Len(inputLineBuffer) = Len(kept) /\ Len(kept) \in Nat
        BY <2>1, <3>2, ConcatProperties, LenProperties
      <4>2. SubSeq(kept \o inputLineBuffer, 1, Len(kept)) = kept
        <5>1. CASE Len(kept) = 0
          <6>1. kept = << >>
            BY <3>2, <5>1, EmptySeq
          <6>2. SubSeq(kept \o inputLineBuffer, 1, Len(kept)) = << >>
            BY <5>1, SubSeqEmpty
          <6> QED
            BY <6>1, <6>2
        <5>2. CASE Len(kept) # 0
          <6>1. 1 \in 1 .. Len(kept) /\ Len(kept) \in 1 .. Len(kept)
            BY <4>1, <5>2
          <6>2. SubSeq(kept \o inputLineBuffer, 1, Len(kept)) = SubSeq(kept, 1, Len(kept))
            BY <2>1, <3>2, <6>1, SubSeqOfConcat1
          <6> QED
            BY <3>2, <6>2, SubSeqFull
        <5> QED
          BY <5>1, <5>2
      <4> QED
        BY <3>2, <3>3, <4>1, <4>2
    <3>6. typed' = taken' \o Held'
      BY <3>3, <3>4, <3>5 DEF kept
    <3> QED
      BY <2>1, <2>4, <3>1, <3>2, <3>3, <3>5, <3>6, Zenon
  <2>10. CASE UNCHANGED vars
    <3>1. DeviceInv' /\ Held' = Held /\ UNCHANGED history
      BY <2>10, Zenon DEF vars, decVars, keyboardVars, printerVars, DeviceInv, Held,
           InBuffer, history, DECWriterTypeOK, NoStrandedInput, PrinterAlwaysReady
    <3> QED
      BY <2>5, <3>1
  <2> QED
    BY <2>6, <2>7, <2>8, <2>9, <2>10, Zenon DEF Next
<1>3. HistoryInv => TakenInOrder
  BY DEF HistoryInv
<1> QED
  BY <1>1, <1>2, <1>3, DeviceInvariant, PTL DEF Spec
=============================================================================
