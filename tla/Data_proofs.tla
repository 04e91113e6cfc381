----------------------------- MODULE Data_proofs -----------------------------
(***************************************************************************)
(* Facts about the data of several modules: induction over the numbers,    *)
(* words and the operators on them, and what FlattenSeq is by its          *)
(* definition as a recursive function.                                     *)
(***************************************************************************)
EXTENDS PdpWord, SequencesExt, SequenceTheorems, WellFoundedInduction, TLAPS

(* Induction over the naturals, said of a set.                             *)
LEMMA SetInduction ==
  ASSUME NEW S, 0 \in S, \A n \in Nat : n \in S => n + 1 \in S
  PROVE  \A n \in Nat : n \in S
<1> DEFINE Less == OpToRel(<, Nat)
           T == Nat \ S
<1>1. \A i, j \in Nat : <<i, j>> \in Less <=> i < j
  BY DEF OpToRel
<1>2. IsWellFoundedOn(Less, Nat)
  BY NatLessThanWellFounded
<1>3. SUFFICES ASSUME T # {} PROVE FALSE
  OBVIOUS
<1> HIDE DEF Less
<1>4. \E x \in T : \A y \in T : ~(<<y, x>> \in Less)
  <2>1. T \subseteq Nat
    OBVIOUS
  <2> HIDE DEF T
  <2> QED
    BY <1>2, <1>3, <2>1, WFMin
<1>5. PICK x \in T : \A y \in T : ~(<<y, x>> \in Less)
  BY <1>4
<1>6. x \in Nat /\ x # 0 /\ x - 1 \in Nat /\ x - 1 < x /\ (x - 1) + 1 = x
  OBVIOUS
<1>7. x - 1 \in T
  BY <1>6
<1> QED
  BY <1>1, <1>5, <1>6, <1>7

-----------------------------------------------------------------------------
(* Words: the operators of PdpWord stay inside 12 bits.                    *)
LEMMA ToWordType == ASSUME NEW n \in Int PROVE ToWord(n) \in Word
BY DEF ToWord, Word, WordSize

LEMMA IncType == ASSUME NEW w \in Word PROVE Inc(w) \in Word
BY DEF Inc, Word, WordSize

LEMMA WordIsInt == ASSUME NEW w \in Word PROVE w \in Int
BY DEF Word

LEMMA ZeroWord == 0 \in Word
BY DEF Word

LEMMA BitOfType == ASSUME NEW b PROVE BitOf(b) \in {0, 1}
BY DEF BitOf

-----------------------------------------------------------------------------
(* One octal digit of a & b, and what remains of a + b for a | b.          *)
LEMMA AndDigitType ==
  ASSUME NEW a \in Nat, NEW b \in Nat
  PROVE  AndDigit(a, b) \in 0 .. 7 /\ AndDigit(a, b) <= a % 8
         /\ (a % 8) + (b % 8) - AndDigit(a, b) \in 0 .. 7
<1> DEFINE a0 == a % 2  a1 == (a \div 2) % 2  a2 == (a \div 4) % 2
           b0 == b % 2  b1 == (b \div 2) % 2  b2 == (b \div 4) % 2
<1>1. a % 8 = a0 + 2 * a1 + 4 * a2 /\ a0 \in 0 .. 1 /\ a1 \in 0 .. 1 /\ a2 \in 0 .. 1
  OBVIOUS
<1>2. b % 8 = b0 + 2 * b1 + 4 * b2 /\ b0 \in 0 .. 1 /\ b1 \in 0 .. 1 /\ b2 \in 0 .. 1
  OBVIOUS
<1>3. AndDigit(a, b) = (IF a0 = 1 /\ b0 = 1 THEN 1 ELSE 0)
                         + (IF a1 = 1 /\ b1 = 1 THEN 2 ELSE 0)
                         + (IF a2 = 1 /\ b2 = 1 THEN 4 ELSE 0)
  <2>1. a \div 1 = a /\ b \div 1 = b
    OBVIOUS
  <2> QED
    BY <2>1 DEF AndDigit, Both, Bit
<1> HIDE DEF a0, a1, a2, b0, b1, b2
<1> QED
  BY <1>1, <1>2, <1>3

(* The digits of a word.                                                   *)
LEMMA Digits ==
  ASSUME NEW a \in Word
  PROVE  /\ a \div 8 \in Nat /\ a \div 64 \in Nat /\ a \div 512 \in Nat
         /\ a = (a % 8) + 8 * ((a \div 8) % 8) + 64 * ((a \div 64) % 8)
                  + 512 * ((a \div 512) % 8)
<1>1. a \div 8 \in Nat
  BY DEF Word
<1>2. a \div 64 \in Nat
  BY DEF Word
<1>3. a \div 512 \in Nat
  BY DEF Word
<1>4. a = (a % 8) + 8 * ((a \div 8) % 8) + 64 * ((a \div 64) % 8) + 512 * ((a \div 512) % 8)
  BY SMTT(60) DEF Word
<1> QED
  BY <1>1, <1>2, <1>3, <1>4

LEMMA DigitsMakeWord ==
  \A i, j, k, l \in 0 .. 7 : i + 8 * j + 64 * k + 512 * l \in Word
BY DEF Word

(* a & b and a | b are words.                                              *)
LEMMA AndOrType ==
  ASSUME NEW a \in Word, NEW b \in Word
  PROVE  And(a, b) \in Word /\ Or(a, b) \in Word
<1> DEFINE d0 == AndDigit(a, b)
           d1 == AndDigit(a \div 8, b \div 8)
           d2 == AndDigit(a \div 64, b \div 64)
           d3 == AndDigit(a \div 512, b \div 512)
           r0 == (a % 8) + (b % 8) - d0
           r1 == ((a \div 8) % 8) + ((b \div 8) % 8) - d1
           r2 == ((a \div 64) % 8) + ((b \div 64) % 8) - d2
           r3 == ((a \div 512) % 8) + ((b \div 512) % 8) - d3
<1>1. d0 \in 0 .. 7 /\ r0 \in 0 .. 7
  <2>1. a \in Nat /\ b \in Nat
    BY DEF Word
  <2> QED
    BY <2>1, AndDigitType
<1>2. d1 \in 0 .. 7 /\ r1 \in 0 .. 7
  BY Digits, AndDigitType
<1>3. d2 \in 0 .. 7 /\ r2 \in 0 .. 7
  BY Digits, AndDigitType
<1>4. d3 \in 0 .. 7 /\ r3 \in 0 .. 7
  BY Digits, AndDigitType
<1>5. And(a, b) = d0 + 8 * d1 + 64 * d2 + 512 * d3
  BY DEF And
<1>6. a + b - (d0 + 8 * d1 + 64 * d2 + 512 * d3) = r0 + 8 * r1 + 64 * r2 + 512 * r3
  <2> HIDE DEF d0, d1, d2, d3
  <2>1. d0 \in Int /\ d1 \in Int /\ d2 \in Int /\ d3 \in Int
    BY <1>1, <1>2, <1>3, <1>4
  <2> DEFINE A0 == a % 8  A1 == (a \div 8) % 8  A2 == (a \div 64) % 8  A3 == (a \div 512) % 8
             B0 == b % 8  B1 == (b \div 8) % 8  B2 == (b \div 64) % 8  B3 == (b \div 512) % 8
  <2>2. a = A0 + 8 * A1 + 64 * A2 + 512 * A3
    BY Digits
  <2>3. b = B0 + 8 * B1 + 64 * B2 + 512 * B3
    BY Digits
  <2>4. A0 \in Int /\ A1 \in Int /\ A2 \in Int /\ A3 \in Int
    BY DEF Word
  <2>5. B0 \in Int /\ B1 \in Int /\ B2 \in Int /\ B3 \in Int
    BY DEF Word
  <2>6. r0 = A0 + B0 - d0 /\ r1 = A1 + B1 - d1 /\ r2 = A2 + B2 - d2 /\ r3 = A3 + B3 - d3
    OBVIOUS
  <2> HIDE DEF A0, A1, A2, A3, B0, B1, B2, B3, r0, r1, r2, r3
  <2> QED
    BY <2>1, <2>2, <2>3, <2>4, <2>5, <2>6
<1> HIDE DEF d0, d1, d2, d3, r0, r1, r2, r3
<1>7. And(a, b) \in Word
  BY <1>1, <1>2, <1>3, <1>4, <1>5, DigitsMakeWord
<1>8. Or(a, b) = r0 + 8 * r1 + 64 * r2 + 512 * r3
  BY <1>5, <1>6 DEF Or
<1> QED
  BY <1>1, <1>2, <1>3, <1>4, <1>7, <1>8, DigitsMakeWord

-----------------------------------------------------------------------------
(* What flatten[i] is, given the array itself: the definition's right side. *)
Flattened(s, f) ==
  [i \in 1 .. Len(s) |-> IF i = 1 THEN s[i] ELSE f[i - 1] \o s[i]]

LEMMA FlattenExists ==
  ASSUME NEW X, NEW s \in Seq(Seq(X))
  PROVE  \E f : f = Flattened(s, f)
<1>1. Len(s) \in Nat /\ \A i \in 1 .. Len(s) : s[i] \in Seq(X)
  BY LenProperties, ElementOfSeq
<1> DEFINE Upto(n, f) == \A i \in 1 .. n : f[i] = IF i = 1 THEN s[i] ELSE f[i - 1] \o s[i]
           Reached(n) == n <= Len(s) => \E f \in [1 .. n -> Seq(X)] : Upto(n, f)
           S == {n \in Nat : Reached(n)}
<1>2. Reached(0)
  <2>1. [i \in 1 .. 0 |-> <<>>] \in [1 .. 0 -> Seq(X)] /\ Upto(0, [i \in 1 .. 0 |-> <<>>])
    OBVIOUS
  <2> QED
    BY <2>1
<1>3. ASSUME NEW n \in Nat, Reached(n) PROVE Reached(n + 1)
  <2> SUFFICES ASSUME n + 1 <= Len(s)
               PROVE  \E f \in [1 .. n + 1 -> Seq(X)] : Upto(n + 1, f)
    OBVIOUS
  <2>1. PICK f \in [1 .. n -> Seq(X)] : Upto(n, f)
    <3>1. n <= Len(s)
      BY <1>1
    <3> QED
      BY <1>3, <3>1, Zenon
  <2> DEFINE last == IF n = 0 THEN s[n + 1] ELSE f[n] \o s[n + 1]
             g == [i \in 1 .. n + 1 |-> IF i = n + 1 THEN last ELSE f[i]]
  <2>2. last \in Seq(X)
    <3>1. s[n + 1] \in Seq(X)
      BY <1>1
    <3>2. CASE n = 0
      BY <3>1, <3>2
    <3>3. CASE n # 0
      <4>1. f[n] \in Seq(X)
        BY <3>3
      <4> QED
        BY <3>1, <3>3, <4>1, ConcatProperties
    <3> QED
      BY <3>2, <3>3
  <2>3. g \in [1 .. n + 1 -> Seq(X)]
    <3> HIDE DEF last
    <3> QED
      BY <2>2
  <2>4. ASSUME NEW i \in 1 .. n + 1
        PROVE  g[i] = IF i = 1 THEN s[i] ELSE g[i - 1] \o s[i]
    <3>1. CASE i = n + 1
      <4>1. g[i] = last
        BY <3>1
      <4>2. i # 1 => g[i - 1] = f[n] /\ n # 0
        BY <3>1
      <4> QED
        BY <3>1, <4>1, <4>2
    <3>2. CASE i \in 1 .. n
      <4>1. g[i] = f[i]
        <5>1. i \in 1 .. n + 1 /\ i # n + 1
          BY <3>2
        <5> QED
          BY <5>1
      <4>2. ASSUME i # 1 PROVE g[i - 1] = f[i - 1]
        <5>1. i - 1 \in 1 .. n + 1 /\ i - 1 # n + 1
          BY <3>2, <4>2
        <5> QED
          BY <5>1
      <4> QED
        BY <2>1, <3>2, <4>1, <4>2
    <3> QED
      BY <3>1, <3>2
  <2> QED
    BY <2>3, <2>4
<1>4. Len(s) \in S
  <2> HIDE DEF Reached
  <2>1. 0 \in S /\ \A n \in Nat : n \in S => n + 1 \in S
    BY <1>2, <1>3
  <2> HIDE DEF S
  <2> QED
    BY <1>1, <2>1, SetInduction
<1>5. PICK f \in [1 .. Len(s) -> Seq(X)] : Upto(Len(s), f)
  BY <1>1, <1>4
<1>6. f = Flattened(s, f)
  BY <1>1, <1>5 DEF Flattened
<1> QED
  BY <1>6

LEMMA FlattenIs ==
  ASSUME NEW X, NEW s \in Seq(Seq(X)), s # <<>>
  PROVE  \E f : f = Flattened(s, f) /\ FlattenSeq(s) = f[Len(s)]
<1> DEFINE g == CHOOSE f : f = Flattened(s, f)
<1>1. g = Flattened(s, g)
  BY FlattenExists, Zenon
<1>2. Len(s) # 0
  BY EmptySeq
<1>3. FlattenSeq(s) = g[Len(s)]
  BY <1>2 DEF FlattenSeq, Flattened
<1> QED
  BY <1>1, <1>3

(* The array holds sequences, and is the same for a longer sequence as far *)
(* as this one goes.                                                       *)
Longer(s, t) == Len(s) <= Len(t) /\ \A i \in 1 .. Len(s) : t[i] = s[i]

LEMMA FlattenedAre ==
  ASSUME NEW X, NEW s \in Seq(Seq(X)), NEW t \in Seq(Seq(X)), Longer(s, t),
         NEW f, NEW g, f = Flattened(s, f), g = Flattened(t, g)
  PROVE  \A i \in 1 .. Len(s) : f[i] \in Seq(X) /\ g[i] = f[i]
<1> USE DEF Longer
<1>1. Len(s) \in Nat /\ Len(t) \in Nat /\ \A i \in 1 .. Len(s) : s[i] \in Seq(X)
  BY LenProperties, ElementOfSeq
<1>2. \A i \in 1 .. Len(s) : f[i] = IF i = 1 THEN s[i] ELSE f[i - 1] \o s[i]
  BY <1>1 DEF Flattened
<1>3. \A i \in 1 .. Len(s) : g[i] = IF i = 1 THEN s[i] ELSE g[i - 1] \o s[i]
  <2>1. \A i \in 1 .. Len(t) : g[i] = IF i = 1 THEN t[i] ELSE g[i - 1] \o t[i]
    BY <1>1 DEF Flattened
  <2>2. ASSUME NEW i \in 1 .. Len(s) PROVE i \in 1 .. Len(t) /\ t[i] = s[i]
    BY <1>1
  <2> QED
    BY <2>1, <2>2
<1> DEFINE Same(n) == n \in 1 .. Len(s) => f[n] \in Seq(X) /\ g[n] = f[n]
           S == {n \in Nat : Same(n)}
<1>4. Same(0)
  OBVIOUS
<1>5. ASSUME NEW n \in Nat, Same(n) PROVE Same(n + 1)
  <2> SUFFICES ASSUME n + 1 \in 1 .. Len(s)
               PROVE  f[n + 1] \in Seq(X) /\ g[n + 1] = f[n + 1]
    OBVIOUS
  <2>1. s[n + 1] \in Seq(X)
    BY <1>1
  <2>2. CASE n = 0
    BY <1>1, <1>2, <1>3, <2>1, <2>2
  <2>3. CASE n # 0
    <3>1. n \in 1 .. Len(s)
      BY <1>1, <2>3
    <3>2. f[n] \in Seq(X) /\ g[n] = f[n]
      BY <1>5, <3>1, Zenon
    <3>3. f[n + 1] = f[n] \o s[n + 1] /\ g[n + 1] = g[n] \o s[n + 1]
      <4>1. n + 1 # 1 /\ (n + 1) - 1 = n
        BY <2>3
      <4> QED
        BY <1>2, <1>3, <4>1
    <3> QED
      BY <2>1, <3>2, <3>3, ConcatProperties
  <2> QED
    BY <2>2, <2>3
<1>6. \A n \in Nat : Same(n)
  <2> HIDE DEF Same
  <2>1. 0 \in S /\ \A n \in Nat : n \in S => n + 1 \in S
    BY <1>4, <1>5
  <2>2. \A n \in Nat : n \in S
    <3> HIDE DEF S
    <3> QED
      BY <2>1, SetInduction
  <2> QED
    BY <2>2
<1> QED
  BY <1>1, <1>6

LEMMA FlattenEmpty == FlattenSeq(<<>>) = <<>>
BY DEF FlattenSeq

LEMMA FlattenType ==
  ASSUME NEW X, NEW s \in Seq(Seq(X))
  PROVE  FlattenSeq(s) \in Seq(X)
<1>1. CASE s = <<>>
  BY <1>1, FlattenEmpty, EmptySeq
<1>2. CASE s # <<>>
  <2>1. PICK f : f = Flattened(s, f) /\ FlattenSeq(s) = f[Len(s)]
    BY <1>2, FlattenIs
  <2>2. Len(s) \in 1 .. Len(s)
    BY <1>2, EmptySeq, LenProperties
  <2>3. Longer(s, s)
    BY <2>2 DEF Longer
  <2>4. \A i \in 1 .. Len(s) : f[i] \in Seq(X)
    BY <2>1, <2>3, FlattenedAre, ZenonT(40)
  <2> QED
    BY <2>1, <2>2, <2>4
<1> QED
  BY <1>1, <1>2

LEMMA FlattenAppend ==
  ASSUME NEW X, NEW s \in Seq(Seq(X)), NEW x \in Seq(X)
  PROVE  FlattenSeq(Append(s, x)) = FlattenSeq(s) \o x
<1> DEFINE t == Append(s, x)
<1>1. /\ t \in Seq(Seq(X)) /\ t # <<>> /\ Len(t) = Len(s) + 1 /\ Len(s) \in Nat
      /\ t[Len(s) + 1] = x /\ \A i \in 1 .. Len(s) : t[i] = s[i]
  BY AppendProperties, LenProperties
<1> HIDE DEF t
<1>2. PICK g : g = Flattened(t, g) /\ FlattenSeq(t) = g[Len(t)]
  BY <1>1, FlattenIs
<1>3. g[Len(t)] = IF Len(t) = 1 THEN x ELSE g[Len(s)] \o x
  <2>1. \A i \in 1 .. Len(t) : g[i] = IF i = 1 THEN t[i] ELSE g[i - 1] \o t[i]
    BY <1>1, <1>2 DEF Flattened
  <2>2. Len(t) \in 1 .. Len(t) /\ Len(t) - 1 = Len(s)
    BY <1>1
  <2> QED
    BY <1>1, <2>1, <2>2
<1>4. CASE s = <<>>
  <2>1. FlattenSeq(s) = <<>> /\ Len(t) = 1
    BY <1>1, <1>4, FlattenEmpty
  <2> QED
    BY <1>2, <1>3, <2>1, ConcatEmptySeq DEF t
<1>5. CASE s # <<>>
  <2>1. PICK f : f = Flattened(s, f) /\ FlattenSeq(s) = f[Len(s)]
    BY <1>5, FlattenIs
  <2>2. Len(s) \in 1 .. Len(s) /\ Len(t) # 1 /\ Len(s) <= Len(t)
    BY <1>1, <1>5, EmptySeq
  <2>3. \A i \in 1 .. Len(s) : g[i] = f[i]
    <3>1. f = Flattened(s, f)
      BY <2>1
    <3>2. g = Flattened(t, g)
      BY <1>2
    <3>3. t \in Seq(Seq(X)) /\ Longer(s, t)
      BY <1>1, <2>2 DEF Longer
    <3> QED
      BY <3>1, <3>2, <3>3, FlattenedAre
  <2> QED
    BY <1>2, <1>3, <2>1, <2>2, <2>3 DEF t
<1> QED
  BY <1>4, <1>5

-----------------------------------------------------------------------------
(* The flattened sequence, one element after the other.                    *)
LEMMA FlattenPrefix ==
  ASSUME NEW X, NEW s \in Seq(Seq(X)), NEW i \in 1 .. Len(s)
  PROVE  FlattenSeq(SubSeq(s, 1, i)) = FlattenSeq(SubSeq(s, 1, i - 1)) \o s[i]
<1> DEFINE u == SubSeq(s, 1, i - 1)
<1>1. Len(s) \in Nat /\ i \in Nat /\ 1 \in 1 .. Len(s) /\ i \in 1 .. Len(s)
  BY LenProperties
<1>2. s[i] \in Seq(X)
  BY ElementOfSeq
<1>3. \A j \in 1 .. i - 1 : s[j] \in Seq(X)
  BY <1>1, ElementOfSeq
<1>4. u \in Seq(Seq(X))
  BY <1>1, <1>3, SubSeqProperties
<1>5. SubSeq(s, 1, i) = u \o <<s[i]>>
  BY <1>1, SubSeqRecursiveSecond
<1>6. SubSeq(s, 1, i) = Append(u, s[i])
  <2> HIDE DEF u
  <2> QED
    BY <1>2, <1>4, <1>5, AppendIsConcat
<1> HIDE DEF u
<1>7. FlattenSeq(Append(u, s[i])) = FlattenSeq(u) \o s[i]
  BY <1>2, <1>4, FlattenAppend
<1> QED
  BY <1>6, <1>7 DEF u

LEMMA FlattenWhole ==
  ASSUME NEW X, NEW s \in Seq(Seq(X))
  PROVE  /\ FlattenSeq(SubSeq(s, 1, 0)) = <<>>
         /\ FlattenSeq(SubSeq(s, 1, Len(s))) = FlattenSeq(s)
         /\ \A n \in 0 .. Len(s) : FlattenSeq(SubSeq(s, 1, n)) \in Seq(X)
<1>1. SubSeq(s, 1, 0) = <<>> /\ SubSeq(s, 1, Len(s)) = s
  BY SubSeqEmpty, SubSeqFull
<1>2. ASSUME NEW n \in 0 .. Len(s) PROVE FlattenSeq(SubSeq(s, 1, n)) \in Seq(X)
  <2>1. Len(s) \in Nat /\ n \in Int
    BY LenProperties
  <2>2. \A j \in 1 .. n : s[j] \in Seq(X)
    BY <2>1, ElementOfSeq
  <2>3. SubSeq(s, 1, n) \in Seq(Seq(X))
    BY <2>1, <2>2, SubSeqProperties
  <2> QED
    BY <2>3, FlattenType
<1> QED
  BY <1>1, <1>2, FlattenEmpty

LEMMA Associated ==
  ASSUME NEW X
  PROVE  \A a, b, e \in Seq(X) : (a \o b) \o e = a \o (b \o e)
<1> TAKE a, b, e \in Seq(X)
<1> QED
  BY ConcatAssociative

LEMMA FlattenSplit ==
  ASSUME NEW X, NEW s \in Seq(Seq(X)), NEW n \in 0 .. Len(s)
  PROVE  \E rest \in Seq(X) : FlattenSeq(s) = FlattenSeq(SubSeq(s, 1, n)) \o rest
<1> DEFINE P(m) == FlattenSeq(SubSeq(s, 1, m))
           Split(d) == d <= Len(s) => \E rest \in Seq(X) : FlattenSeq(s) = P(Len(s) - d) \o rest
           S == {d \in Nat : Split(d)}
<1>0. \A a, b, e \in Seq(X) : (a \o b) \o e = a \o (b \o e)
  BY Associated, SMTT(40)
<1>1. Len(s) \in Nat
  BY LenProperties
<1>2. Split(0)
  <2>1. FlattenSeq(s) = P(Len(s)) /\ FlattenSeq(s) \in Seq(X) /\ Len(s) - 0 = Len(s)
    BY <1>1, FlattenWhole, FlattenType
  <2>2. FlattenSeq(s) = P(Len(s)) \o <<>>
    BY <2>1, ConcatEmptySeq
  <2> HIDE DEF P
  <2> QED
    BY <2>1, <2>2, EmptySeq
<1>3. ASSUME NEW d \in Nat, Split(d) PROVE Split(d + 1)
  <2> SUFFICES ASSUME d + 1 <= Len(s)
               PROVE  \E rest \in Seq(X) : FlattenSeq(s) = P(Len(s) - (d + 1)) \o rest
    OBVIOUS
  <2>1. d <= Len(s) /\ Len(s) - d \in 1 .. Len(s) /\ (Len(s) - d) - 1 = Len(s) - (d + 1)
        /\ Len(s) - (d + 1) \in 0 .. Len(s)
    BY <1>1
  <2>2. PICK rest \in Seq(X) : FlattenSeq(s) = P(Len(s) - d) \o rest
    BY <1>3, <2>1, Zenon
  <2>3. P(Len(s) - d) = P((Len(s) - d) - 1) \o s[Len(s) - d]
    BY <2>1, FlattenPrefix
  <2>4. P(Len(s) - (d + 1)) \in Seq(X)
    BY <2>1, FlattenWhole
  <2>5. s[Len(s) - d] \in Seq(X)
    BY <2>1, ElementOfSeq
  <2> HIDE DEF P
  <2>6. FlattenSeq(s) = P(Len(s) - (d + 1)) \o (s[Len(s) - d] \o rest)
    <3>1. P(Len(s) - d) = P(Len(s) - (d + 1)) \o s[Len(s) - d]
      BY <2>1, <2>3, Zenon
    <3>2. (P(Len(s) - (d + 1)) \o s[Len(s) - d]) \o rest
            = P(Len(s) - (d + 1)) \o (s[Len(s) - d] \o rest)
      BY <1>0, <2>4, <2>5, Zenon
    <3> QED
      BY <2>2, <3>1, <3>2, Zenon
  <2>7. s[Len(s) - d] \o rest \in Seq(X)
    BY <2>5, ConcatProperties
  <2> QED
    BY <2>6, <2>7, Zenon
<1>4. \A d \in Nat : Split(d)
  <2> HIDE DEF Split
  <2>1. 0 \in S /\ \A d \in Nat : d \in S => d + 1 \in S
    BY <1>2, <1>3
  <2>2. \A d \in Nat : d \in S
    <3> HIDE DEF S
    <3> QED
      BY <2>1, SetInduction
  <2> QED
    BY <2>2
<1>5. Len(s) - n \in Nat /\ Len(s) - n <= Len(s) /\ Len(s) - (Len(s) - n) = n
  BY <1>1
<1>6. Split(Len(s) - n)
  <2> HIDE DEF Split
  <2> QED
    BY <1>4, <1>5
<1> HIDE DEF P
<1> QED
  BY <1>5, <1>6 DEF P
=============================================================================
