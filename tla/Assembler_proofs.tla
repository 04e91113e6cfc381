-------------------------- MODULE Assembler_proofs --------------------------
(***************************************************************************)
(* What the assembler makes of a source, for every source.                 *)
(***************************************************************************)
EXTENDS Assembler, Data_proofs

-----------------------------------------------------------------------------
(* Loops.  The states of a loop, given themselves: the right side of their *)
(* definition.                                                             *)
Turned(turn, start, n, f) == [k \in 0 .. n |-> IF k = 0 THEN start ELSE turn[f[k - 1]]]

LEMMA TurnedExists ==
  ASSUME NEW turn, NEW start, NEW n \in Nat
  PROVE  \E f : f = Turned(turn, start, n, f)
<1> DEFINE S == {m \in Nat : \E f : f = Turned(turn, start, m, f)}
<1>1. 0 \in S
  <2>1. [k \in 0 .. 0 |-> start] = Turned(turn, start, 0, [k \in 0 .. 0 |-> start])
    BY DEF Turned
  <2> QED
    BY <2>1
<1>2. ASSUME NEW m \in Nat, m \in S PROVE m + 1 \in S
  <2>1. PICK f : f = Turned(turn, start, m, f)
    BY <1>2
  <2> DEFINE g == [k \in 0 .. m + 1 |-> IF k = m + 1 THEN turn[f[m]] ELSE f[k]]
  <2>2. ASSUME NEW k \in 0 .. m + 1 PROVE g[k] = IF k = 0 THEN start ELSE turn[g[k - 1]]
    <3>1. CASE k = m + 1
      <4>1. g[k] = turn[f[m]] /\ k # 0 /\ k - 1 = m /\ m \in 0 .. m + 1 /\ m # m + 1
        BY <3>1
      <4> QED
        BY <4>1
    <3>2. CASE k # m + 1
      <4>1. k \in 0 .. m /\ g[k] = f[k]
        BY <3>2
      <4>2. f[k] = IF k = 0 THEN start ELSE turn[f[k - 1]]
        BY <2>1, <4>1 DEF Turned
      <4>3. k # 0 => k - 1 \in 0 .. m + 1 /\ k - 1 # m + 1
        BY <4>1
      <4> QED
        BY <4>1, <4>2, <4>3
    <3> QED
      BY <3>1, <3>2
  <2>3. g = Turned(turn, start, m + 1, g)
    <3>1. g = [k \in 0 .. m + 1 |-> g[k]]
      OBVIOUS
    <3> HIDE DEF g
    <3> QED
      BY <2>2, <3>1, Zenon DEF Turned
  <2> QED
    BY <2>3
<1> HIDE DEF S
<1>3. n \in S
  BY <1>1, <1>2, SetInduction
<1> QED
  BY <1>3 DEF S

LEMMA AfterIs ==
  ASSUME NEW turn, NEW start, NEW n \in Nat
  PROVE  \E f : f = Turned(turn, start, n, f) /\ After(turn, start, n) = f[n]
<1> DEFINE g == CHOOSE f : f = Turned(turn, start, n, f)
<1>1. g = Turned(turn, start, n, g)
  BY TurnedExists, Zenon
<1>2. After(turn, start, n) = g[n]
  BY DEF After, Turned
<1> QED
  BY <1>1, <1>2

LEMMA AfterTurns ==
  ASSUME NEW turn, NEW start, NEW n \in Nat
  PROVE  /\ After(turn, start, 0) = start
         /\ After(turn, start, n + 1) = turn[After(turn, start, n)]
<1>1. After(turn, start, 0) = start
  <2>1. PICK f : f = Turned(turn, start, 0, f) /\ After(turn, start, 0) = f[0]
    BY AfterIs
  <2> QED
    BY <2>1 DEF Turned
<1>2. PICK f : f = Turned(turn, start, n, f) /\ After(turn, start, n) = f[n]
  BY AfterIs
<1>3. PICK g : g = Turned(turn, start, n + 1, g) /\ After(turn, start, n + 1) = g[n + 1]
  BY AfterIs
<1> DEFINE S == {m \in Nat : m <= n => f[m] = g[m]}
<1>4. 0 \in S
  BY <1>2, <1>3 DEF Turned
<1>5. ASSUME NEW m \in Nat, m \in S PROVE m + 1 \in S
  <2> SUFFICES ASSUME m + 1 <= n PROVE f[m + 1] = g[m + 1]
    OBVIOUS
  <2>1. f[m] = g[m]
    BY <1>5
  <2>2. m + 1 \in 0 .. n /\ m + 1 \in 0 .. n + 1 /\ m + 1 # 0 /\ (m + 1) - 1 = m
    OBVIOUS
  <2>3. f[m + 1] = turn[f[m]]
    BY <1>2, <2>2 DEF Turned
  <2>4. g[m + 1] = turn[g[m]]
    BY <1>3, <2>2 DEF Turned
  <2> QED
    BY <2>1, <2>3, <2>4
<1>6. f[n] = g[n]
  <2>1. n \in S
    <3> HIDE DEF S
    <3> QED
      BY <1>4, <1>5, SetInduction
  <2> QED
    BY <2>1
<1>7. g[n + 1] = turn[g[n]]
  <2>1. n + 1 \in 0 .. n + 1 /\ n + 1 # 0 /\ (n + 1) - 1 = n
    OBVIOUS
  <2> QED
    BY <1>3, <2>1 DEF Turned
<1> QED
  BY <1>1, <1>2, <1>3, <1>6, <1>7

(* What every turn keeps holds after any number of them.                   *)
LEMMA AfterKeeps ==
  ASSUME NEW turn, NEW start, NEW I, start \in I, \A s \in I : turn[s] \in I, NEW n \in Nat
  PROVE  After(turn, start, n) \in I
<1> DEFINE S == {m \in Nat : After(turn, start, m) \in I}
<1>1. 0 \in S
  BY AfterTurns
<1>2. ASSUME NEW m \in Nat, m \in S PROVE m + 1 \in S
  <2>1. After(turn, start, m + 1) = turn[After(turn, start, m)]
    BY AfterTurns
  <2> QED
    BY <1>2, <2>1
<1> HIDE DEF S
<1>3. n \in S
  BY <1>1, <1>2, SetInduction
<1> QED
  BY <1>3 DEF S

(* A loop whose every turn takes a token or ends has ended after as many   *)
(* turns as there are tokens.                                              *)
LEMMA AfterEnds ==
  ASSUME NEW turn, NEW start, NEW I, NEW Ended, NEW n \in Nat,
         start \in I, start.first \in Nat \ {0},
         \A s \in I : s.first \in Nat,
         \A s \in I : turn[s] \in I,
         \A s \in I : s \in Ended => turn[s] \in Ended,
         \A s \in I : s \notin Ended => /\ s.first <= n
                                        /\ turn[s] \in Ended \/ turn[s].first > s.first
  PROVE  After(turn, start, n) \in Ended
<1> DEFINE at(m) == After(turn, start, m)
           S == {m \in Nat : at(m) \in I /\ (at(m) \in Ended \/ at(m).first > m)}
<1>1. 0 \in S
  <2>1. at(0) = start
    BY AfterTurns
  <2> HIDE DEF at
  <2> QED
    BY <2>1
<1>2. ASSUME NEW m \in Nat, m \in S PROVE m + 1 \in S
  <2>1. at(m + 1) = turn[at(m)]
    BY AfterTurns
  <2> HIDE DEF at
  <2>2. at(m) \in I /\ at(m + 1) \in I
    BY <1>2, <2>1
  <2>3. at(m).first \in Nat /\ at(m + 1).first \in Nat
    BY <2>2
  <2>4. CASE at(m) \in Ended
    BY <2>1, <2>2, <2>4
  <2>5. CASE at(m) \notin Ended
    <3>1. at(m).first > m
      BY <1>2, <2>5
    <3>2. at(m + 1) \in Ended \/ at(m + 1).first > at(m).first
      BY <2>1, <2>2, <2>5
    <3> QED
      BY <2>2, <2>3, <3>1, <3>2
  <2> QED
    BY <2>4, <2>5
<1>3. n \in S
  <2> HIDE DEF S
  <2> QED
    BY <1>1, <1>2, SetInduction
<1> HIDE DEF at
<1>4. at(n) \in Ended \/ at(n).first > n
  BY <1>3
<1>5. at(n) \in I /\ at(n).first \in Nat
  BY <1>3
<1>6. at(n) \in Ended
  BY <1>4, <1>5
<1> QED
  BY <1>6 DEF at

-----------------------------------------------------------------------------
(* The greatest and the least member of a set of numbers.                  *)
LEMMA MaxIsMember ==
  ASSUME NEW T, T \subseteq Int, T # {}, NEW b \in Int, \A n \in T : n <= b
  PROVE  Max(T) \in T /\ \A n \in T : n <= Max(T)
<1> DEFINE S == {m \in Nat : b - m \in T}
<1>1. PICK t \in T : TRUE
  OBVIOUS
<1>2. \E x \in T : \A y \in T : x >= y
  <2> SUFFICES ASSUME \A x \in T : \E y \in T : ~(x >= y) PROVE FALSE
    OBVIOUS
  <2> DEFINE N == {m \in Nat : \A x \in T : x <= b - m}
  <2>1. 0 \in N
    OBVIOUS
  <2>2. ASSUME NEW m \in Nat, m \in N PROVE m + 1 \in N
    <3>1. ASSUME NEW x \in T PROVE x <= b - (m + 1)
      <4>1. PICK y \in T : ~(x >= y)
        OBVIOUS
      <4>2. x \in Int /\ y \in Int /\ y <= b - m
        BY <2>2
      <4> QED
        BY <4>1, <4>2
    <3> QED
      BY <3>1
  <2>3. t \in Int /\ t <= b
    BY <1>1
  <2>4. b - t + 1 \in Nat
    BY <2>3
  <2>5. b - t + 1 \in N
    <3> HIDE DEF N
    <3> QED
      BY <2>1, <2>2, <2>4, SetInduction
  <2>6. t <= b - (b - t + 1)
    BY <1>1, <2>5
  <2> QED
    BY <2>3, <2>6
<1>3. Max(T) = CHOOSE x \in T : \A y \in T : x >= y
  BY Zenon DEF Max
<1>4. Max(T) \in T /\ \A y \in T : Max(T) >= y
  BY <1>2, <1>3, Zenon
<1> QED
  BY <1>4

LEMMA MinIsMember ==
  ASSUME NEW T, T \subseteq Nat, T # {}
  PROVE  Min(T) \in T /\ \A n \in T : Min(T) <= n
<1>1. \E x \in T : \A y \in T : x <= y
  <2> SUFFICES ASSUME \A x \in T : \E y \in T : ~(x <= y) PROVE FALSE
    OBVIOUS
  <2> DEFINE N == {m \in Nat : \A x \in T : x >= m}
  <2>1. 0 \in N
    OBVIOUS
  <2>2. ASSUME NEW m \in Nat, m \in N PROVE m + 1 \in N
    <3>1. ASSUME NEW x \in T PROVE x >= m + 1
      <4>1. PICK y \in T : ~(x <= y)
        OBVIOUS
      <4>2. x \in Int /\ y \in Int /\ y >= m
        BY <2>2
      <4> QED
        BY <4>1, <4>2
    <3> QED
      BY <3>1
  <2>3. PICK t \in T : TRUE
    OBVIOUS
  <2>4. t + 1 \in N
    <3> HIDE DEF N
    <3>1. t + 1 \in Nat
      OBVIOUS
    <3> QED
      BY <2>1, <2>2, <3>1, SetInduction
  <2> QED
    BY <2>4
<1>2. Min(T) = CHOOSE x \in T : \A y \in T : x <= y
  BY Zenon DEF Min
<1> QED
  BY <1>1, <1>2, Zenon

-----------------------------------------------------------------------------
(* What the assembler computes with: 16-bit numbers, and symbols with such *)
(* values.                                                                 *)
Short  == {n \in Nat : n < 65536}
Symbol == [value : Short, status : {"Defined", "Undefined"}]
SymbolNames == Literals \cup DOMAIN PreDefinedSymbols
Tables == UNION {[names -> Symbol] : names \in SUBSET SymbolNames}
Assemblers ==
  [symbolTable : Tables, radix : Directives, programCounter : Short, assemblerPass : {1, 2}]

LEMMA Bits16Type == ASSUME NEW n \in Int PROVE Bits16(n) \in Short
BY DEF Bits16, Short

(* The number that the first digits make, given the numbers themselves.    *)
Reading(digits, base, f) ==
  [n \in 0 .. Len(digits) |-> IF n = 0 THEN 0 ELSE f[n - 1] * base + digits[n]]

LEMMA ReadingExists ==
  ASSUME NEW digits \in Seq(0 .. 9), NEW base
  PROVE  \E f : f = Reading(digits, base, f)
<1>0. Len(digits) \in Nat
  BY LenProperties
<1> DEFINE From(n, f) == [k \in 0 .. n |-> IF k = 0 THEN 0 ELSE f[k - 1] * base + digits[k]]
           S == {m \in Nat : \E f : f = From(m, f)}
<1>1. 0 \in S
  <2>1. [k \in 0 .. 0 |-> 0] = From(0, [k \in 0 .. 0 |-> 0])
    OBVIOUS
  <2> QED
    BY <2>1
<1>2. ASSUME NEW m \in Nat, m \in S PROVE m + 1 \in S
  <2>1. PICK f : f = From(m, f)
    BY <1>2
  <2> DEFINE g == [k \in 0 .. m + 1 |-> IF k = m + 1 THEN f[m] * base + digits[m + 1] ELSE f[k]]
  <2>2. ASSUME NEW k \in 0 .. m + 1
        PROVE  g[k] = IF k = 0 THEN 0 ELSE g[k - 1] * base + digits[k]
    <3>1. CASE k = m + 1
      <4>1. /\ g[k] = f[m] * base + digits[m + 1] /\ k # 0 /\ k - 1 = m /\ m \in 0 .. m + 1
            /\ m # m + 1
        BY <3>1
      <4>2. g[m] = f[m]
        BY <4>1
      <4> HIDE DEF g
      <4> QED
        BY <3>1, <4>1, <4>2, Zenon
    <3>2. CASE k # m + 1
      <4>1. k \in 0 .. m /\ g[k] = f[k]
        BY <3>2
      <4>2. f[k] = IF k = 0 THEN 0 ELSE f[k - 1] * base + digits[k]
        BY <2>1, <4>1, Zenon
      <4>3. k # 0 => g[k - 1] = f[k - 1]
        <5>1. k # 0 => k - 1 \in 0 .. m + 1 /\ k - 1 # m + 1
          BY <4>1
        <5> QED
          BY <5>1
      <4> HIDE DEF g
      <4> QED
        BY <4>1, <4>2, <4>3, Zenon
    <3> QED
      BY <3>1, <3>2
  <2>3. g = From(m + 1, g)
    <3>1. g = [k \in 0 .. m + 1 |-> g[k]]
      OBVIOUS
    <3> HIDE DEF g
    <3> QED
      BY <2>2, <3>1, Zenon
  <2>4. \E f1 : f1 = From(m + 1, f1)
    <3> HIDE DEF g, From
    <3> QED
      BY <2>3
  <2> HIDE DEF From
  <2> QED
    BY <2>4
<1> HIDE DEF S
<1>3. Len(digits) \in S
  BY <1>0, <1>1, <1>2, SetInduction
<1>4. PICK f : f = From(Len(digits), f)
  BY <1>3 DEF S
<1> QED
  BY <1>4, Zenon DEF Reading

LEMMA ReadingType ==
  ASSUME NEW digits \in Seq(0 .. 9), NEW base \in {8, 10}, NEW f, f = Reading(digits, base, f),
         NEW n \in 0 .. Len(digits)
  PROVE  f[n] \in Nat
<1>0. Len(digits) \in Nat /\ \A m \in 1 .. Len(digits) : digits[m] \in 0 .. 9
  BY LenProperties, ElementOfSeq
<1> DEFINE S == {m \in Nat : m <= Len(digits) => f[m] \in Nat}
<1>1. 0 \in S
  BY <1>0 DEF Reading
<1>2. ASSUME NEW m \in Nat, m \in S PROVE m + 1 \in S
  <2> SUFFICES ASSUME m + 1 <= Len(digits) PROVE f[m + 1] \in Nat
    OBVIOUS
  <2>1. f[m] \in Nat /\ digits[m + 1] \in Nat
    BY <1>0, <1>2
  <2>2. f[m + 1] = f[m] * base + digits[m + 1]
    <3>1. m + 1 \in 0 .. Len(digits) /\ m + 1 # 0 /\ (m + 1) - 1 = m
      BY <1>0
    <3> QED
      BY <3>1, Zenon DEF Reading
  <2>3. CASE base = 8
    BY <2>1, <2>2, <2>3
  <2>4. CASE base = 10
    BY <2>1, <2>2, <2>4
  <2> QED
    BY <2>3, <2>4
<1> HIDE DEF S
<1>3. n \in Nat
  BY <1>0
<1>4. n \in S
  BY <1>1, <1>2, <1>3, SetInduction
<1> QED
  BY <1>0, <1>4 DEF S

(* convertNumber yields a number of 16 bits or refuses.                    *)
LEMMA ConvertNumberType ==
  ASSUME NEW a, NEW digits \in Seq(0 .. 9)
  PROVE  convertNumber(a, digits) \in Short \cup {Refused}
<1> DEFINE base == CASE a.radix = "OCTAL" -> 8
                     [] a.radix = "DECIMAL" -> 10
                     [] OTHER -> IF digits[1] = 0 THEN 8 ELSE 10
           goods == {n \in 0 .. Len(digits) : \A m \in 1 .. n : digits[m] < base}
           good == Max(goods)
           f == CHOOSE g : g = Reading(digits, base, g)
<1>0. Len(digits) \in Nat
  BY LenProperties
<1>1. base \in {8, 10}
  BY Zenon
<1>2. f = Reading(digits, base, f)
  BY ReadingExists, Zenon
<1>3. convertNumber(a, digits) = IF good = 0 THEN Refused ELSE Bits16(f[good])
  BY Zenon DEF convertNumber, Reading
<1> HIDE DEF base, f
<1>4. good \in 0 .. Len(digits)
  <2>1. goods \subseteq Int /\ 0 \in goods /\ \A n \in goods : n <= Len(digits)
    BY <1>0
  <2>3. goods # {} /\ Len(digits) \in Int
    BY <1>0, <2>1
  <2>2. good \in goods
    <3> HIDE DEF goods
    <3> QED
      BY <2>1, <2>3, MaxIsMember
  <2> QED
    BY <2>2
<1> HIDE DEF good
<1>5. f[good] \in Nat
  BY <1>1, <1>2, <1>4, ReadingType
<1> QED
  BY <1>3, <1>5, Bits16Type

-----------------------------------------------------------------------------
(* A program that was read, or a line of one: its last token ends the      *)
(* line, and every op code is one of the instruction set.                  *)
Class == TokenClass \cup Directives \cup {"LABEL", "OP_CODE"}
Token == [tokenClass : Class, literal : Literals, digits : Seq(0 .. 9)]

Readable(prog) ==
  /\ prog \in Seq(Token) /\ Len(prog) \in Nat \ {0}
  /\ isEndOfLine(prog[Len(prog)].tokenClass)
  /\ \A n \in 1 .. Len(prog) :
       prog[n].tokenClass = "OP_CODE" => prog[n].literal \in DOMAIN InstructionSet

LEMMA TokenAt ==
  ASSUME NEW prog, Readable(prog), NEW n \in 1 .. Len(prog)
  PROVE  /\ prog[n] \in Token
         /\ ~isEndOfLine(prog[n].tokenClass) => n + 1 \in 1 .. Len(prog)
<1>1. prog[n] \in Token
  BY ElementOfSeq DEF Readable
<1>2. n = Len(prog) => isEndOfLine(prog[n].tokenClass)
  BY DEF Readable
<1>3. n # Len(prog) => n + 1 \in 1 .. Len(prog)
  BY DEF Readable
<1> QED
  BY <1>1, <1>2, <1>3

LEMMA LabelType ==
  ASSUME NEW a \in Assemblers, NEW name
  PROVE  convertLabel(a, name) \in Short \cup {Refused}
<1>1. a.symbolTable \in Tables
  BY DEF Assemblers
<1>2. PICK names \in SUBSET SymbolNames : a.symbolTable \in [names -> Symbol]
  BY <1>1 DEF Tables
<1>3. name \in DOMAIN a.symbolTable => a.symbolTable[name].value \in Short
  BY <1>2 DEF Symbol
<1>4. 0 \in Short
  BY DEF Short
<1> QED
  BY <1>3, <1>4, Zenon DEF convertLabel

LEMMA OperandType ==
  ASSUME NEW a \in Assemblers, NEW token \in Token
  PROVE  Operand(a, token) \in Short \cup {Refused}
<1>1. token.digits \in Seq(0 .. 9) /\ a.programCounter \in Short
  BY Zenon DEF Token, Assemblers
<1>2. convertNumber(a, token.digits) \in Short \cup {Refused}
  BY <1>1, ConvertNumberType
<1>3. convertLabel(a, token.literal) \in Short \cup {Refused}
  BY LabelType
<1> QED
  BY <1>1, <1>2, <1>3, Zenon DEF Operand

LEMMA CombinedType ==
  ASSUME NEW s, s.left \in Short \cup {Unset}, NEW value \in Short
  PROVE  Combined(s, value) \in Short
<1>1. s.left # Unset => s.left + value \in Int /\ s.left - value \in Int
  BY DEF Short, Unset
<1>2. s.left # Unset => Bits16(s.left + value) \in Short /\ Bits16(s.left - value) \in Short
  BY <1>1, Bits16Type
<1> QED
  BY <1>2, Zenon DEF Combined

-----------------------------------------------------------------------------
(* Expressions.  Where the loop of evaluateExpression is on its way from   *)
(* token at: something is in left unless nothing was read, an operator in  *)
(* opCode is the token before, and the loop stops where it must.           *)
Expressions ==
  [left : Short \cup {Unset}, opCode : {"", "ADDITION", "SUBTRACTION"}, first : Nat,
   end : {"", "value", "refused", "looping", "terminated"}]

ExpressionAt(prog, at) ==
  {s \in Expressions :
     /\ s.first \in at .. Len(prog)
     /\ s.left = Unset <=> s.first = at
     /\ s.opCode # "" => s.first # at /\ prog[s.first - 1].tokenClass = s.opCode
     /\ s.end = "value" => s.left \in Word /\ s.first # at
     /\ s.end = "looping" => /\ ~isValue(prog[s.first].tokenClass)
                             /\ s.opCode # "" \/ s.first = at
     /\ s.end = "terminated" => /\ s.opCode # ""
                                /\ prog[s.first].tokenClass = "PROGRAM_COUNTER"}

LEMMA Ahead ==
  \A last \in Nat : \A at \in 1 .. last : \A n \in at .. last :
    /\ at \in Nat /\ n \in Nat /\ n \in 1 .. last
    /\ n + 1 \in 1 .. last => /\ (n + 1) - 1 = n /\ n + 1 \in at .. last /\ n + 1 # at
                              /\ n + 1 > n /\ n + 1 \in Nat
OBVIOUS

LEMMA ShortToWord ==
  \A n \in Short : ToWord(n) \in Word /\ ToWord(n) \in Short /\ ToWord(n) # Unset /\ n # Unset
BY DEF ToWord, Word, WordSize, Short, Unset

LEMMA ExpressionIs ==
  \A left \in Short \cup {Unset}, opCode \in {"", "ADDITION", "SUBTRACTION"}, n \in Nat,
     end \in {"", "value", "refused", "looping", "terminated"} :
    [left |-> left, opCode |-> opCode, first |-> n, end |-> end] \in Expressions
BY DEF Expressions

LEMMA ExpressionRecords ==
  \A left \in Short \cup {Unset}, end \in {"", "value", "refused", "looping", "terminated"} :
    left \in Int /\ end \in Ends
<1>1. \A left \in Short \cup {Unset} : left \in Int
  BY DEF Short, Unset
<1> QED
  BY <1>1, Zenon DEF Ends

LEMMA TurnKeeps ==
  ASSUME NEW prog, Readable(prog), NEW a \in Assemblers, NEW at \in 1 .. Len(prog),
         NEW s \in ExpressionAt(prog, at), s.end = ""
  PROVE  LET t == Turn(a, s, prog[s.first])
         IN  t \in ExpressionAt(prog, at) /\ (t.end # "" \/ t.first > s.first)
<1> DEFINE token == prog[s.first]
           class == token.tokenClass
           value == Operand(a, token)
           complete == s.left # Unset /\ s.opCode = ""
           stop(end) == [s EXCEPT !.end = end]
           go(left, opCode) == [s EXCEPT !.left = left, !.opCode = opCode, !.first = @ + 1]
           t == Turn(a, s, token)
           Right == t \in ExpressionAt(prog, at) /\ (t.end # "" \/ t.first > s.first)
<1>1. /\ s \in Expressions /\ s.first \in at .. Len(prog)
      /\ s.left = Unset <=> s.first = at
      /\ s.opCode # "" => s.first # at /\ prog[s.first - 1].tokenClass = s.opCode
  BY DEF ExpressionAt
<1>2. Len(prog) \in Nat /\ at \in Nat /\ s.first \in 1 .. Len(prog) /\ s.first \in Nat
  <2>1. Len(prog) \in Nat
    BY DEF Readable
  <2>2. s.first \in at .. Len(prog)
    BY <1>1
  <2> QED
    BY <2>1, <2>2, Ahead, Zenon
<1>3. /\ s = [left |-> s.left, opCode |-> s.opCode, first |-> s.first, end |-> s.end]
      /\ s.left \in Short \cup {Unset} /\ s.opCode \in {"", "ADDITION", "SUBTRACTION"}
  BY <1>1 DEF Expressions
<1>4. token \in Token /\ (~isEndOfLine(class) => s.first + 1 \in 1 .. Len(prog))
  BY <1>2, TokenAt
<1>5. value \in Short \cup {Refused}
  BY <1>4, OperandType
<1>6. t = CASE complete /\ isOperator(class) -> go(s.left, class)
            [] complete /\ ~isOperator(class) -> [stop("value") EXCEPT !.left = ToWord(@)]
            [] ~complete /\ ~isValue(class) -> stop("looping")
            [] s.opCode # "" /\ class = "PROGRAM_COUNTER" -> stop("terminated")
            [] OTHER -> IF value = Refused THEN stop("refused") ELSE go(Combined(s, value), "")
  BY Zenon DEF Turn
<1>12. complete <=> s.left # Unset /\ s.opCode = ""
  OBVIOUS
<1> HIDE DEF complete
<1>7. ASSUME complete, isOperator(class) PROVE Right
  <2>1. t = go(s.left, class)
    BY <1>6, <1>7, <1>12, Zenon
  <2>2. t = [left |-> s.left, opCode |-> class, first |-> s.first + 1, end |-> ""]
    BY <1>3, <2>1, Zenon
  <2>3. class \in {"ADDITION", "SUBTRACTION"} /\ s.first + 1 \in 1 .. Len(prog)
    BY <1>4, <1>7 DEF isOperator, isEndOfLine
  <2>4. (s.first + 1) - 1 = s.first /\ s.first + 1 \in at .. Len(prog) /\ s.first + 1 # at
        /\ s.first + 1 > s.first /\ s.first + 1 \in Nat
    <3>1. s.first \in at .. Len(prog) /\ s.first + 1 \in 1 .. Len(prog)
      BY <1>1, <2>3
    <3> QED
      BY <1>2, <3>1, Ahead, Zenon
  <2>5. t \in Expressions
    BY <1>3, <2>2, <2>3, <2>4, ExpressionIs
  <2> HIDE DEF t
  <2>6. t.left = s.left /\ t.opCode = class /\ t.first = s.first + 1 /\ t.end = ""
    BY <2>2, Zenon
  <2> QED
    BY <1>1, <1>7, <1>12, <2>4, <2>5, <2>6, Zenon DEF ExpressionAt
<1>8. ASSUME complete, ~isOperator(class) PROVE Right
  <2>1. t = [stop("value") EXCEPT !.left = ToWord(@)]
    BY <1>6, <1>8, <1>12, Zenon
  <2>2. t = [left |-> ToWord(s.left), opCode |-> s.opCode, first |-> s.first, end |-> "value"]
    BY <1>3, <2>1, Zenon
  <2>3. s.left \in Short
    BY <1>3, <1>8, <1>12
  <2>4. ToWord(s.left) \in Word /\ ToWord(s.left) \in Short /\ ToWord(s.left) # Unset
    BY <2>3, ShortToWord, Zenon
  <2>5. t \in Expressions
    <3>1. /\ ToWord(s.left) \in Short \cup {Unset} /\ s.opCode \in {"", "ADDITION", "SUBTRACTION"}
          /\ s.first \in Nat /\ "value" \in {"", "value", "refused", "looping", "terminated"}
      BY <1>2, <1>3, <2>4
    <3> QED
      BY <2>2, <3>1, ExpressionIs, Zenon
  <2> HIDE DEF t
  <2>6. /\ t.left = ToWord(s.left) /\ t.opCode = s.opCode /\ t.first = s.first
        /\ t.end = "value"
    BY <2>2, Zenon
  <2> QED
    BY <1>1, <1>8, <1>12, <2>4, <2>5, <2>6, Zenon DEF ExpressionAt
<1>9. ASSUME ~complete, ~isValue(class) PROVE Right
  <2>1. t = stop("looping")
    BY <1>6, <1>9, Zenon DEF isValue
  <2>2. t = [left |-> s.left, opCode |-> s.opCode, first |-> s.first, end |-> "looping"]
    BY <1>3, <2>1, Zenon
  <2>3. t \in Expressions
    BY <1>2, <1>3, <2>2, ExpressionIs
  <2> HIDE DEF t
  <2>4. t.left = s.left /\ t.opCode = s.opCode /\ t.first = s.first /\ t.end = "looping"
    BY <2>2, Zenon
  <2> QED
    BY <1>1, <1>9, <1>12, <2>3, <2>4, Zenon DEF ExpressionAt
<1>10. ASSUME ~complete, isValue(class), s.opCode # "", class = "PROGRAM_COUNTER" PROVE Right
  <2>1. t = stop("terminated")
    BY <1>6, <1>10, Zenon
  <2>2. t = [left |-> s.left, opCode |-> s.opCode, first |-> s.first, end |-> "terminated"]
    BY <1>3, <2>1, Zenon
  <2>3. t \in Expressions
    BY <1>2, <1>3, <2>2, ExpressionIs
  <2> HIDE DEF t
  <2>4. t.left = s.left /\ t.opCode = s.opCode /\ t.first = s.first /\ t.end = "terminated"
    BY <2>2, Zenon
  <2> QED
    BY <1>1, <1>10, <2>3, <2>4, Zenon DEF ExpressionAt
<1>11. ASSUME ~complete, isValue(class), ~(s.opCode # "" /\ class = "PROGRAM_COUNTER") PROVE Right
  <2>1. t = IF value = Refused THEN stop("refused") ELSE go(Combined(s, value), "")
    BY <1>6, <1>11, Zenon
  <2>2. CASE value = Refused
    <3>1. t = [left |-> s.left, opCode |-> s.opCode, first |-> s.first, end |-> "refused"]
      BY <1>3, <2>1, <2>2, Zenon
    <3>2. t \in Expressions
      BY <1>2, <1>3, <3>1, ExpressionIs
    <3> HIDE DEF t
    <3>3. t.left = s.left /\ t.opCode = s.opCode /\ t.first = s.first /\ t.end = "refused"
      BY <3>1, Zenon
    <3> QED
      BY <1>1, <3>2, <3>3, Zenon DEF ExpressionAt
  <2>3. CASE value # Refused
    <3>1. t = [left |-> Combined(s, value), opCode |-> "", first |-> s.first + 1, end |-> ""]
      BY <1>3, <2>1, <2>3, Zenon
    <3>2. Combined(s, value) \in Short
      BY <1>3, <1>5, <2>3, CombinedType, Zenon
    <3>3. Combined(s, value) # Unset
      BY <3>2, ShortToWord, Zenon
    <3>4. s.first + 1 \in 1 .. Len(prog)
      BY <1>4, <1>11 DEF isValue, isEndOfLine
    <3>5. s.first + 1 \in at .. Len(prog) /\ s.first + 1 # at /\ s.first + 1 > s.first
          /\ s.first + 1 \in Nat
      <4>1. s.first \in at .. Len(prog)
        BY <1>1
      <4> QED
        BY <1>2, <3>4, <4>1, Ahead, Zenon
    <3>6. t \in Expressions
      BY <3>1, <3>2, <3>5, ExpressionIs
    <3> HIDE DEF t
    <3>7. t.left = Combined(s, value) /\ t.opCode = "" /\ t.first = s.first + 1 /\ t.end = ""
      BY <3>1, Zenon
    <3> QED
      BY <3>3, <3>5, <3>6, <3>7, Zenon DEF ExpressionAt
  <2> QED
    BY <2>2, <2>3
<1> QED
  BY <1>7, <1>8, <1>9, <1>10, <1>11, Zenon

(* The expression at a token: a word, or the reason why there is none; it  *)
(* ends, and where it loops or terminates the program is malformed, unless *)
(* it was evaluated where no value stands.                                 *)
MalformedSomewhere(prog) == \E n \in 1 .. Len(prog) - 1 : Malformed(prog, n)

LEMMA ExpressionEnds ==
  ASSUME NEW prog, Readable(prog), NEW a \in Assemblers, NEW at \in 1 .. Len(prog)
  PROVE  evaluateExpression(prog, a, at) \in ExpressionAt(prog, at)
         /\ evaluateExpression(prog, a, at).end # ""
<1> DEFINE all == [left : Int, opCode : {"", "ADDITION", "SUBTRACTION"}, first : Nat, end : Ends]
           turn == [s \in all |-> IF s.end # "" THEN s ELSE Turn(a, s, prog[s.first])]
           start == [left |-> Unset, opCode |-> "", first |-> at, end |-> ""]
           I == ExpressionAt(prog, at)
           Ended == {s \in I : s.end # ""}
<1>1. evaluateExpression(prog, a, at) = After(turn, start, Len(prog))
  BY Zenon DEF evaluateExpression
<1>2. Len(prog) \in Nat /\ at \in Nat /\ at \in at .. Len(prog) /\ at # 0
  BY DEF Readable
<1>3. start \in I /\ start.first \in Nat \ {0}
  <2>1. start \in Expressions
    BY <1>2, ExpressionIs
  <2> QED
    BY <1>2, <2>1, Zenon DEF ExpressionAt
<1>4. ASSUME NEW s \in I
      PROVE  /\ s \in all /\ s.first \in Nat
             /\ s.end # "" => turn[s] = s
             /\ s.end = "" => turn[s] = Turn(a, s, prog[s.first]) /\ s.first <= Len(prog)
  <2>1. s \in Expressions /\ s.first \in at .. Len(prog)
    BY Zenon DEF ExpressionAt
  <2>2. s \in all /\ s.first \in Nat
    BY <2>1, ExpressionRecords, Zenon DEF Expressions
  <2>3. s.first <= Len(prog)
    <3>1. \A n \in at .. Len(prog) : n <= Len(prog)
      BY <1>2
    <3> QED
      BY <2>1, <3>1, Zenon
  <2> QED
    BY <2>2, <2>3, Zenon
<1> HIDE DEF all, turn, start
<1>5. ASSUME NEW s \in I
      PROVE  /\ turn[s] \in I
             /\ s \in Ended => turn[s] \in Ended
             /\ s \notin Ended => s.first <= Len(prog)
                                 /\ (turn[s] \in Ended \/ turn[s].first > s.first)
  <2>1. CASE s.end # ""
    BY <1>4, <2>1, Zenon
  <2>2. CASE s.end = ""
    <3>1. turn[s] = Turn(a, s, prog[s.first]) /\ s.first <= Len(prog)
      BY <1>4, <2>2, Zenon
    <3>2. turn[s] \in I /\ (turn[s].end # "" \/ turn[s].first > s.first)
      BY <2>2, <3>1, TurnKeeps
    <3> QED
      BY <2>2, <3>1, <3>2, Zenon
  <2> QED
    BY <2>1, <2>2
<1>6. After(turn, start, Len(prog)) \in I
  <2> HIDE DEF I
  <2> QED
    BY <1>2, <1>3, <1>5, AfterKeeps, Zenon
<1>7. After(turn, start, Len(prog)) \in Ended
  <2>1. \A s \in I : s.first \in Nat
    BY <1>4, Zenon
  <2> HIDE DEF I, Ended
  <2> QED
    BY <1>2, <1>3, <1>5, <2>1, AfterEnds
<1> QED
  BY <1>1, <1>6, <1>7, Zenon

LEMMA ExpressionHangs ==
  ASSUME NEW prog, Readable(prog), NEW at \in 1 .. Len(prog), NEW e \in ExpressionAt(prog, at),
         e.end \in {"looping", "terminated"},
         \/ isValue(prog[at].tokenClass)
         \/ at # 1 /\ prog[at - 1].tokenClass \in {"LOCATION", "LABEL_ASSIGN"}
  PROVE  MalformedSomewhere(prog)
<1>1. Len(prog) \in Nat /\ at \in Nat
  BY DEF Readable
<1>2. /\ e.first \in at .. Len(prog)
      /\ e.opCode # "" => e.first # at /\ prog[e.first - 1].tokenClass = e.opCode
      /\ e.end = "looping" => /\ ~isValue(prog[e.first].tokenClass)
                              /\ e.opCode # "" \/ e.first = at
      /\ e.end = "terminated" => e.opCode # "" /\ prog[e.first].tokenClass = "PROGRAM_COUNTER"
      /\ e.opCode \in {"", "ADDITION", "SUBTRACTION"}
  BY Zenon DEF ExpressionAt, Expressions
<1>3. \A n \in 1 .. Len(prog) : n # 1 => n - 1 \in 1 .. Len(prog) - 1 /\ (n - 1) + 1 = n
  BY <1>1
<1>4. CASE e.opCode # ""
  <2>1. e.first \in 1 .. Len(prog) /\ e.first # 1
    <3>1. \A n \in at .. Len(prog) : n # at => n \in 1 .. Len(prog) /\ n # 1
      BY <1>1
    <3> QED
      BY <1>2, <1>4, <3>1, Zenon
  <2>2. e.first - 1 \in 1 .. Len(prog) - 1 /\ (e.first - 1) + 1 = e.first
    BY <1>3, <2>1
  <2>3. prog[e.first - 1].tokenClass \in {"ADDITION", "SUBTRACTION"}
    BY <1>2, <1>4, Zenon
  <2>4. prog[e.first].tokenClass \notin {"NUMBER", "LABEL", "PROGRAM_COUNTER"}
        \/ prog[e.first].tokenClass = "PROGRAM_COUNTER"
    BY <1>2, Zenon DEF isValue
  <2>5. Malformed(prog, e.first - 1)
    BY <2>2, <2>3, <2>4, Zenon DEF Malformed, isOperator
  <2> QED
    BY <2>2, <2>5, Zenon DEF MalformedSomewhere
<1>5. CASE e.opCode = ""
  <2>1. e.first = at /\ ~isValue(prog[at].tokenClass)
    BY <1>2, <1>5, Zenon
  <2>2. at - 1 \in 1 .. Len(prog) - 1 /\ (at - 1) + 1 = at
    BY <1>3, <2>1
  <2>3. Malformed(prog, at - 1)
    BY <2>1, <2>2, Zenon DEF Malformed, isValue
  <2> QED
    BY <2>2, <2>3, Zenon DEF MalformedSomewhere
<1> QED
  BY <1>4, <1>5

-----------------------------------------------------------------------------
(* Op codes.  The bits of the constants that instructions are made with.   *)
LEMMA SmallDigits ==
  ASSUME NEW a \in Nat
  PROVE  /\ AndDigit(a, 0) = 0 /\ AndDigit(a, 7) = a % 8 /\ AndDigit(a, 1) = a % 2
         /\ AndDigit(a, 2) = 2 * ((a \div 2) % 2) /\ AndDigit(a, 4) = 4 * ((a \div 4) % 2)
<1> DEFINE a0 == a % 2  a1 == (a \div 2) % 2  a2 == (a \div 4) % 2
<1>1. a % 8 = a0 + 2 * a1 + 4 * a2 /\ a0 \in 0 .. 1 /\ a1 \in 0 .. 1 /\ a2 \in 0 .. 1
  OBVIOUS
<1>2. (Bit(a, 1) <=> a0 = 1) /\ (Bit(a, 2) <=> a1 = 1) /\ (Bit(a, 4) <=> a2 = 1)
  <2>1. a \div 1 = a
    OBVIOUS
  <2> QED
    BY <2>1 DEF Bit
<1>3. /\ ~Bit(0, 1) /\ ~Bit(0, 2) /\ ~Bit(0, 4) /\ Bit(7, 1) /\ Bit(7, 2) /\ Bit(7, 4)
      /\ Bit(1, 1) /\ ~Bit(1, 2) /\ ~Bit(1, 4) /\ ~Bit(2, 1) /\ Bit(2, 2) /\ ~Bit(2, 4)
      /\ ~Bit(4, 1) /\ ~Bit(4, 2) /\ Bit(4, 4)
  BY DEF Bit
<1> HIDE DEF a0, a1, a2
<1>4. AndDigit(a, 0) = 0
  BY <1>3 DEF AndDigit, Both
<1>5. AndDigit(a, 7) = a % 8
  BY <1>1, <1>2, <1>3 DEF AndDigit, Both
<1>6. AndDigit(a, 1) = a0
  BY <1>1, <1>2, <1>3 DEF AndDigit, Both
<1>7. AndDigit(a, 2) = 2 * a1
  BY <1>1, <1>2, <1>3 DEF AndDigit, Both
<1>8. AndDigit(a, 4) = 4 * a2
  BY <1>1, <1>2, <1>3 DEF AndDigit, Both
<1> QED
  BY <1>4, <1>5, <1>6, <1>7, <1>8 DEF a0, a1, a2

LEMMA SomeBits ==
  ASSUME NEW a \in Word
  PROVE  /\ And(a, 127) = a % 128
         /\ And(a, 128) = 128 * ((a \div 128) % 2)
         /\ And(a, 256) = 256 * ((a \div 256) % 2)
<1>1. a \in Nat /\ a \div 8 \in Nat /\ a \div 64 \in Nat /\ a \div 512 \in Nat
  BY Digits DEF Word
<1>2. /\ 127 \div 8 = 15 /\ 127 \div 64 = 1 /\ 127 \div 512 = 0
      /\ 128 \div 8 = 16 /\ 128 \div 64 = 2 /\ 128 \div 512 = 0
      /\ 256 \div 8 = 32 /\ 256 \div 64 = 4 /\ 256 \div 512 = 0
  OBVIOUS
<1>3. \A x \in Nat : /\ AndDigit(x, 127) = x % 8 /\ AndDigit(x, 15) = x % 8
                     /\ AndDigit(x, 128) = 0 /\ AndDigit(x, 16) = 0
                     /\ AndDigit(x, 256) = 0 /\ AndDigit(x, 32) = 0
  <2> TAKE x \in Nat
  <2>1. /\ Bit(127, 1) /\ Bit(127, 2) /\ Bit(127, 4) /\ Bit(15, 1) /\ Bit(15, 2) /\ Bit(15, 4)
        /\ Bit(7, 1) /\ Bit(7, 2) /\ Bit(7, 4)
    BY DEF Bit
  <2>2. /\ ~Bit(128, 1) /\ ~Bit(128, 2) /\ ~Bit(128, 4) /\ ~Bit(16, 1) /\ ~Bit(16, 2) /\ ~Bit(16, 4)
        /\ ~Bit(256, 1) /\ ~Bit(256, 2) /\ ~Bit(256, 4) /\ ~Bit(32, 1) /\ ~Bit(32, 2) /\ ~Bit(32, 4)
    BY DEF Bit
  <2>3. AndDigit(x, 127) = AndDigit(x, 7) /\ AndDigit(x, 15) = AndDigit(x, 7)
    BY <2>1 DEF AndDigit, Both
  <2>4. AndDigit(x, 128) = 0 /\ AndDigit(x, 16) = 0 /\ AndDigit(x, 256) = 0 /\ AndDigit(x, 32) = 0
    BY <2>2 DEF AndDigit, Both
  <2> QED
    BY <2>3, <2>4, SmallDigits
<1>4. And(a, 127) = (a % 8) + 8 * ((a \div 8) % 8) + 64 * ((a \div 64) % 2)
  <2>1. AndDigit(a, 127) = a % 8 /\ AndDigit(a \div 8, 15) = (a \div 8) % 8
        /\ AndDigit(a \div 64, 1) = (a \div 64) % 2 /\ AndDigit(a \div 512, 0) = 0
    BY <1>1, <1>3, SmallDigits, SMTT(30)
  <2> QED
    BY <1>1, <1>2, <2>1 DEF And
<1>5. And(a, 128) = 64 * (2 * (((a \div 64) \div 2) % 2))
  <2>1. AndDigit(a, 128) = 0 /\ AndDigit(a \div 8, 16) = 0
        /\ AndDigit(a \div 64, 2) = 2 * (((a \div 64) \div 2) % 2) /\ AndDigit(a \div 512, 0) = 0
    BY <1>1, <1>3, SmallDigits
  <2> QED
    BY <1>1, <1>2, <2>1 DEF And
<1>6. And(a, 256) = 64 * (4 * (((a \div 64) \div 4) % 2))
  <2>1. AndDigit(a, 256) = 0 /\ AndDigit(a \div 8, 32) = 0
        /\ AndDigit(a \div 64, 4) = 4 * (((a \div 64) \div 4) % 2) /\ AndDigit(a \div 512, 0) = 0
    BY <1>1, <1>3, SmallDigits, SMTT(30)
  <2> QED
    BY <1>1, <1>2, <2>1 DEF And
<1>7. (a \div 64) \div 2 = a \div 128 /\ (a \div 64) \div 4 = a \div 256
  BY <1>1
<1>8. a % 128 = (a % 8) + 8 * ((a \div 8) % 8) + 64 * ((a \div 64) % 2)
  BY <1>1
<1>9. /\ 64 * (2 * ((a \div 128) % 2)) = 128 * ((a \div 128) % 2)
      /\ 64 * (4 * ((a \div 256) % 2)) = 256 * ((a \div 256) % 2)
  BY <1>1
<1>10. And(a, 127) = a % 128
  BY <1>4, <1>8, Zenon
<1>11. And(a, 128) = 128 * ((a \div 128) % 2)
  BY <1>5, <1>7, <1>9
<1>12. And(a, 256) = 256 * ((a \div 256) % 2)
  BY <1>6, <1>7, <1>9
<1> QED
  BY <1>10, <1>11, <1>12, Zenon

(* a & b is no greater than a, and no greater than b.                      *)
LEMMA AndLess ==
  ASSUME NEW a \in Word, NEW b \in Word
  PROVE  And(a, b) <= a /\ And(a, b) <= b
<1>1. ASSUME NEW x \in Word, NEW y \in Word PROVE And(x, y) <= x
  <2> DEFINE d0 == AndDigit(x, y)
             d1 == AndDigit(x \div 8, y \div 8)
             d2 == AndDigit(x \div 64, y \div 64)
             d3 == AndDigit(x \div 512, y \div 512)
             X0 == x % 8  X1 == (x \div 8) % 8  X2 == (x \div 64) % 8  X3 == (x \div 512) % 8
  <2>1. x \in Nat /\ y \in Nat
    BY DEF Word
  <2>2. d0 \in 0 .. 7 /\ d0 <= X0
    BY <2>1, AndDigitType
  <2>3. d1 \in 0 .. 7 /\ d1 <= X1
    BY Digits, AndDigitType
  <2>4. d2 \in 0 .. 7 /\ d2 <= X2
    BY Digits, AndDigitType
  <2>5. d3 \in 0 .. 7 /\ d3 <= X3
    BY Digits, AndDigitType
  <2>6. x = X0 + 8 * X1 + 64 * X2 + 512 * X3
    BY Digits
  <2>7. And(x, y) = d0 + 8 * d1 + 64 * d2 + 512 * d3
    BY DEF And
  <2>8. X0 \in Nat /\ X1 \in Nat /\ X2 \in Nat /\ X3 \in Nat
    BY <2>1
  <2> HIDE DEF d0, d1, d2, d3, X0, X1, X2, X3
  <2> QED
    BY <2>2, <2>3, <2>4, <2>5, <2>6, <2>7, <2>8
<1>2. And(a, b) = And(b, a)
  <2>1. \A x, y : AndDigit(x, y) = AndDigit(y, x)
    BY Zenon DEF AndDigit, Both
  <2>2. /\ AndDigit(a, b) = AndDigit(b, a)
        /\ AndDigit(a \div 8, b \div 8) = AndDigit(b \div 8, a \div 8)
        /\ AndDigit(a \div 64, b \div 64) = AndDigit(b \div 64, a \div 64)
        /\ AndDigit(a \div 512, b \div 512) = AndDigit(b \div 512, a \div 512)
    BY <2>1
  <2> QED
    BY <2>2 DEF And
<1> QED
  BY <1>1, <1>2

LEMMA OrMore ==
  ASSUME NEW a \in Word, NEW b \in Word
  PROVE  Or(a, b) \in Word /\ Or(a, b) >= a /\ Or(a, b) >= b
<1>1. Or(a, b) \in Word /\ And(a, b) \in Word
  BY AndOrType
<1>2. Or(a, b) = a + b - And(a, b)
  BY DEF Or
<1>3. And(a, b) <= a /\ And(a, b) <= b
  BY AndLess
<1>4. a \in Int /\ b \in Int /\ And(a, b) \in Int
  BY <1>1, WordIsInt
<1> QED
  BY <1>1, <1>2, <1>3, <1>4

(* Codes with zeroes where the operand goes, but for those that are not of *)
(* a memory instruction, and those of the operate instructions among them. *)
Blank == {code \in Word : code >= 3072 \/ code % 256 = 0}
Operates == {code \in Word : code >= 3584}

LEMMA WordIsNat == ASSUME NEW w \in Word PROVE w \in Nat
BY DEF Word

LEMMA BlankIs ==
  \A code : code \in Blank <=> code \in Word /\ (code >= 3072 \/ code % 256 = 0)
BY Zenon DEF Blank

LEMMA OrFlag == ASSUME NEW code \in Blank PROVE Or(code, 256) \in Blank
<1>1. code \in Word /\ (code >= 3072 \/ code % 256 = 0)
  BY BlankIs
<1>2. 256 \in Word
  BY DEF Word
<1>3. Or(code, 256) \in Word /\ Or(code, 256) >= code
  BY <1>1, <1>2, OrMore
<1>4. And(code, 256) = 256 * ((code \div 256) % 2)
  BY <1>1, SomeBits
<1>5. Or(code, 256) = code + 256 - 256 * ((code \div 256) % 2)
  BY <1>4 DEF Or
<1>6. code \in Nat
  BY <1>1 DEF Word
<1>7. Or(code, 256) % 256 = code % 256
  <2>1. (code \div 256) % 2 = 0 \/ (code \div 256) % 2 = 1
    BY <1>6
  <2>2. (code + 256) % 256 = code % 256
    BY <1>6
  <2> QED
    BY <1>5, <1>6, <2>1, <2>2
<1>8. code >= 3072 => Or(code, 256) >= 3072
  <2>1. Or(code, 256) \in Int
    BY <1>3, WordIsInt
  <2> QED
    BY <1>3, <1>6, <2>1
<1>9. Or(code, 256) >= 3072 \/ Or(code, 256) % 256 = 0
  BY <1>1, <1>7, <1>8
<1> QED
  BY <1>3, <1>9, BlankIs

(* A code with an operand on page zero, and with one on the current page.  *)
LEMMA OrOperand ==
  ASSUME NEW code \in Blank, NEW v \in Nat, v < 128
  PROVE  /\ Or(code, v) \in Word /\ Or(Or(code, v), 128) \in Word
         /\ code < 3072 => /\ Or(code, v) = code + v
                           /\ Or(Or(code, v), 128) = code + v + 128
         /\ code >= 3072 => /\ Or(code, v) >= 3072
                            /\ Or(Or(code, v), 128) >= 3072
<1> DEFINE w == Or(code, v)
           u == Or(w, 128)
<1>1. code \in Word /\ (code >= 3072 \/ code % 256 = 0)
  BY BlankIs
<1>2. v \in Word /\ 128 \in Word
  BY DEF Word
<1>3. w \in Word /\ w >= code
  BY <1>1, <1>2, OrMore
<1>4. u \in Word /\ u >= w /\ u = w + 128 - 128 * ((w \div 128) % 2)
  <2>1. And(w, 128) = 128 * ((w \div 128) % 2)
    BY <1>3, SomeBits
  <2>2. u = w + 128 - And(w, 128)
    BY DEF Or
  <2>3. u \in Word /\ u >= w
    BY <1>2, <1>3, OrMore
  <2> HIDE DEF w, u
  <2> QED
    BY <2>1, <2>2, <2>3
<1>5. code \in Nat /\ w \in Nat /\ u \in Nat
  BY <1>1, <1>3, <1>4, WordIsNat
<1>6. code >= 3072 => w >= 3072 /\ u >= 3072
  <2> HIDE DEF w, u
  <2> QED
    BY <1>3, <1>4, <1>5
<1>7. ASSUME code < 3072 PROVE w = code + v /\ u = code + v + 128
  <2> DEFINE d0 == AndDigit(code, v)
             d1 == AndDigit(code \div 8, v \div 8)
             d2 == AndDigit(code \div 64, v \div 64)
             d3 == AndDigit(code \div 512, v \div 512)
  <2>1. code % 256 = 0
    BY <1>1, <1>5, <1>7
  <2>2. code % 8 = 0 /\ (code \div 8) % 8 = 0 /\ (code \div 64) % 2 = 0
    BY <1>5, <2>1
  <2>3. v \in Nat /\ v \div 8 \in Nat /\ v \div 64 \in {0, 1} /\ v \div 512 = 0
    OBVIOUS
  <2>4. code \div 8 \in Nat /\ code \div 64 \in Nat /\ code \div 512 \in Nat
    BY <1>1, Digits
  <2>5. d0 = 0
    <3>1. d0 \in 0 .. 7 /\ d0 <= code % 8
      BY <1>5, <2>3, AndDigitType
    <3> HIDE DEF d0
    <3> QED
      BY <2>2, <3>1
  <2>6. d1 = 0
    <3>1. d1 \in 0 .. 7 /\ d1 <= (code \div 8) % 8
      BY <2>3, <2>4, AndDigitType
    <3> HIDE DEF d1
    <3> QED
      BY <2>2, <3>1
  <2>7. d2 = 0
    <3>1. AndDigit(code \div 64, 0) = 0 /\ AndDigit(code \div 64, 1) = (code \div 64) % 2
      BY <2>4, SmallDigits
    <3> QED
      BY <2>2, <2>3, <3>1
  <2>8. d3 = 0
    BY <2>3, <2>4, SmallDigits
  <2>9. And(code, v) = d0 + 8 * d1 + 64 * d2 + 512 * d3
    BY DEF And
  <2>10. And(code, v) = 0
    <3> HIDE DEF d0, d1, d2, d3
    <3> QED
      BY <2>5, <2>6, <2>7, <2>8, <2>9
  <2>11. w = code + v
    BY <1>5, <2>3, <2>10 DEF Or
  <2>12. (w \div 128) % 2 = 0
    <3> HIDE DEF w
    <3> QED
      BY <1>5, <2>1, <2>3, <2>11
  <2> HIDE DEF w, u
  <2> QED
    BY <1>4, <1>5, <2>3, <2>11, <2>12
<1> QED
  BY <1>3, <1>4, <1>6, <1>7

-----------------------------------------------------------------------------
(* What is true of every instruction of the table.                         *)
Types == {"Flag", "Mask", "Memory", "Gr"} \cup DOMAIN Combines

(* What is true of the op codes of one kind.                               *)
Right(code, type) ==
  /\ code \in Word
  /\ type = "Flag" => code = 256
  /\ type \in {"Memory", "Iot"} => code \in Blank
  /\ type \notin {"Flag", "Mask", "Memory", "Iot"} => code \in Operates

LEMMA KindsAre ==
  Types = {"Flag", "Mask", "Memory", "Gr", "Gr1", "Gr2", "Gr2Or", "Gr2And", "Gr3", "Iot"}
BY DEF Types, Combines

LEMMA GroupRight ==
  ASSUME NEW g, NEW codes, NEW type \in Types, g = Combining(codes, type),
         \A x \in DOMAIN codes : Right(codes[x], type)
  PROVE  \A m \in DOMAIN g.codes : Right(g.codes[m], g.orCombination) /\ g.orCombination \in Types
<1>1. g.codes = codes /\ g.orCombination = type
  BY DEF Combining
<1> QED
  BY <1>1, Zenon

(* References to memory, without an operand, and device instructions.      *)
References == {0, 512, 1024, 1536, 2048, 2560}
Devices    == {code \in Nat : 3072 <= code /\ code <= 4095}

LEMMA RightCodes ==
  /\ \A code \in References : Right(code, "Memory")
  /\ \A code \in Devices : Right(code, "Memory") /\ Right(code, "Iot")
  /\ \A code \in Operates : \A type \in {"Gr", "Gr1", "Gr2", "Gr2Or", "Gr2And", "Gr3"} : Right(code, type)
<1>1. \A code \in References : code \in Word /\ code \in Blank
  BY DEF References, Word, Blank
<1>2. \A code \in Devices : code \in Word /\ code \in Blank
  BY DEF Devices, Word, Blank
<1>3. \A code \in Operates : code \in Word
  BY DEF Operates
<1>4. "Memory" # "Flag" /\ "Iot" # "Flag"
  OBVIOUS
<1>5. \A type \in {"Gr", "Gr1", "Gr2", "Gr2Or", "Gr2And", "Gr3"} :
        type # "Flag" /\ type \notin {"Flag", "Mask", "Memory", "Iot"} /\ type \notin {"Memory", "Iot"}
  BY Zenon
<1>6. \A code \in References : Right(code, "Memory")
  BY <1>1, <1>4, Zenon DEF Right
<1>7. \A code \in Devices : Right(code, "Memory") /\ Right(code, "Iot")
  BY <1>2, <1>4, Zenon DEF Right
<1>8. \A code \in Operates : \A type \in {"Gr", "Gr1", "Gr2", "Gr2Or", "Gr2And", "Gr3"} : Right(code, type)
  BY <1>3, <1>5, Zenon DEF Right
<1> QED
  BY <1>6, <1>7, <1>8

LEMMA GroupsRight ==
  ASSUME NEW n \in DOMAIN Groups, NEW m \in DOMAIN Groups[n].codes
  PROVE  Right(Groups[n].codes[m], Groups[n].orCombination) /\ Groups[n].orCombination \in Types
<1>1. n \in 1 .. 15
  BY DEF Groups
<1>2. CASE n = 1
  <2>1. Groups[n] = Combining(Flags, "Flag")
    BY <1>2 DEF Groups
  <2>2. \A x \in DOMAIN Flags : Right(Flags[x], "Flag")
    BY DEF Flags, Word, Right, Blank, Operates
  <2>3. "Flag" \in Types
    BY KindsAre, Zenon
  <2> QED
    BY <2>1, <2>2, <2>3, GroupRight
<1>3. CASE n = 2
  <2>1. Groups[n] = Combining(Masks, "Mask")
    BY <1>3 DEF Groups
  <2>2. \A x \in DOMAIN Masks : Right(Masks[x], "Mask")
    BY DEF Masks, Word, Right, Blank, Operates
  <2>3. "Mask" \in Types
    BY KindsAre, Zenon
  <2> QED
    BY <2>1, <2>2, <2>3, GroupRight
<1>4. CASE n = 3
  <2>1. Groups[n] = Combining(MemoryAccess, "Memory")
    BY <1>4 DEF Groups
  <2>2. \A x \in DOMAIN MemoryAccess : Right(MemoryAccess[x], "Memory")
    <3>1. \A x \in DOMAIN MemoryAccess : MemoryAccess[x] \in References
      BY DEF MemoryAccess, References
    <3> QED
      BY <3>1, RightCodes, Zenon
  <2>3. "Memory" \in Types
    BY KindsAre, Zenon
  <2> QED
    BY <2>1, <2>2, <2>3, GroupRight
<1>5. CASE n = 4
  <2>1. Groups[n] = Combining(GroupAgnostic, "Gr")
    BY <1>5 DEF Groups
  <2>2. \A x \in DOMAIN GroupAgnostic : Right(GroupAgnostic[x], "Gr")
    <3>1. \A x \in DOMAIN GroupAgnostic : GroupAgnostic[x] \in Operates
      BY DEF GroupAgnostic, Operates, Word
    <3> QED
      BY <3>1, RightCodes, Zenon
  <2>3. "Gr" \in Types
    BY KindsAre, Zenon
  <2> QED
    BY <2>1, <2>2, <2>3, GroupRight
<1>6. CASE n = 5
  <2>1. Groups[n] = Combining(Group1, "Gr1")
    BY <1>6 DEF Groups
  <2>2. \A x \in DOMAIN Group1 : Right(Group1[x], "Gr1")
    <3>1. \A x \in DOMAIN Group1 : Group1[x] \in Operates
      BY DEF Group1, Operates, Word
    <3> QED
      BY <3>1, RightCodes, Zenon
  <2>3. "Gr1" \in Types
    BY KindsAre, Zenon
  <2> QED
    BY <2>1, <2>2, <2>3, GroupRight
<1>7. CASE n = 6
  <2>1. Groups[n] = Combining(Group2Or, "Gr2Or")
    BY <1>7 DEF Groups
  <2>2. \A x \in DOMAIN Group2Or : Right(Group2Or[x], "Gr2Or")
    <3>1. \A x \in DOMAIN Group2Or : Group2Or[x] \in Operates
      BY DEF Group2Or, Operates, Word
    <3> QED
      BY <3>1, RightCodes, Zenon
  <2>3. "Gr2Or" \in Types
    BY KindsAre, Zenon
  <2> QED
    BY <2>1, <2>2, <2>3, GroupRight
<1>8. CASE n = 7
  <2>1. Groups[n] = Combining(Group2And, "Gr2And")
    BY <1>8 DEF Groups
  <2>2. \A x \in DOMAIN Group2And : Right(Group2And[x], "Gr2And")
    <3>1. \A x \in DOMAIN Group2And : Group2And[x] \in Operates
      BY DEF Group2And, Operates, Word
    <3> QED
      BY <3>1, RightCodes, Zenon
  <2>3. "Gr2And" \in Types
    BY KindsAre, Zenon
  <2> QED
    BY <2>1, <2>2, <2>3, GroupRight
<1>9. CASE n = 8
  <2>1. Groups[n] = Combining(Group2, "Gr2")
    BY <1>9 DEF Groups
  <2>2. \A x \in DOMAIN Group2 : Right(Group2[x], "Gr2")
    <3>1. \A x \in DOMAIN Group2 : Group2[x] \in Operates
      BY DEF Group2, Operates, Word
    <3> QED
      BY <3>1, RightCodes, Zenon
  <2>3. "Gr2" \in Types
    BY KindsAre, Zenon
  <2> QED
    BY <2>1, <2>2, <2>3, GroupRight
<1>10. CASE n = 9
  <2>1. Groups[n] = Combining(Group3, "Gr3")
    BY <1>10 DEF Groups
  <2>2. \A x \in DOMAIN Group3 : Right(Group3[x], "Gr3")
    <3>1. \A x \in DOMAIN Group3 : Group3[x] \in Operates
      BY DEF Group3, Operates, Word
    <3> QED
      BY <3>1, RightCodes, Zenon
  <2>3. "Gr3" \in Types
    BY KindsAre, Zenon
  <2> QED
    BY <2>1, <2>2, <2>3, GroupRight
<1>11. CASE n = 10
  <2>1. Groups[n] = Combining(Interrupts, "Iot")
    BY <1>11 DEF Groups
  <2>2. \A x \in DOMAIN Interrupts : Right(Interrupts[x], "Iot")
    <3>1. \A x \in DOMAIN Interrupts : Interrupts[x] \in Devices
      BY DEF Interrupts, Devices
    <3> QED
      BY <3>1, RightCodes, Zenon
  <2>3. "Iot" \in Types
    BY KindsAre, Zenon
  <2> QED
    BY <2>1, <2>2, <2>3, GroupRight
<1>12. CASE n = 11
  <2>1. Groups[n] = Combining(MemoryManagement, "Memory")
    BY <1>12 DEF Groups
  <2>2. \A x \in DOMAIN MemoryManagement : Right(MemoryManagement[x], "Memory")
    <3>1. \A x \in DOMAIN MemoryManagement : MemoryManagement[x] \in Devices
      BY DEF MemoryManagement, Devices
    <3> QED
      BY <3>1, RightCodes, Zenon
  <2>3. "Memory" \in Types
    BY KindsAre, Zenon
  <2> QED
    BY <2>1, <2>2, <2>3, GroupRight
<1>13. CASE n = 12
  <2>1. Groups[n] = Combining(PaperTape, "Memory")
    BY <1>13 DEF Groups
  <2>2. \A x \in DOMAIN PaperTape : Right(PaperTape[x], "Memory")
    <3>1. \A x \in DOMAIN PaperTape : PaperTape[x] \in Devices
      BY DEF PaperTape, Devices
    <3> QED
      BY <3>1, RightCodes, Zenon
  <2>3. "Memory" \in Types
    BY KindsAre, Zenon
  <2> QED
    BY <2>1, <2>2, <2>3, GroupRight
<1>14. CASE n = 13
  <2>1. Groups[n] = Combining(DecWriterLA30, "Memory")
    BY <1>14 DEF Groups
  <2>2. \A x \in DOMAIN DecWriterLA30 : Right(DecWriterLA30[x], "Memory")
    <3>1. \A x \in DOMAIN DecWriterLA30 : DecWriterLA30[x] \in Devices
      BY DEF DecWriterLA30, Devices
    <3> QED
      BY <3>1, RightCodes, Zenon
  <2>3. "Memory" \in Types
    BY KindsAre, Zenon
  <2> QED
    BY <2>1, <2>2, <2>3, GroupRight
<1>15. CASE n = 14
  <2>1. Groups[n] = Combining(DK8EA, "Memory")
    BY <1>15 DEF Groups
  <2>2. \A x \in DOMAIN DK8EA : Right(DK8EA[x], "Memory")
    <3>1. \A x \in DOMAIN DK8EA : DK8EA[x] \in Devices
      BY DEF DK8EA, Devices
    <3> QED
      BY <3>1, RightCodes, Zenon
  <2>3. "Memory" \in Types
    BY KindsAre, Zenon
  <2> QED
    BY <2>1, <2>2, <2>3, GroupRight
<1>16. CASE n = 15
  <2>1. Groups[n] = Combining(DK8EP, "Memory")
    BY <1>16 DEF Groups
  <2>2. \A x \in DOMAIN DK8EP : Right(DK8EP[x], "Memory")
    <3>1. \A x \in DOMAIN DK8EP : DK8EP[x] \in Devices
      BY DEF DK8EP, Devices
    <3> QED
      BY <3>1, RightCodes, Zenon
  <2>3. "Memory" \in Types
    BY KindsAre, Zenon
  <2> QED
    BY <2>1, <2>2, <2>3, GroupRight
<1> QED
  BY <1>1, <1>2, <1>3, <1>4, <1>5, <1>6, <1>7, <1>8, <1>9, <1>10, <1>11, <1>12, <1>13, <1>14, <1>15, <1>16

LEMMA InstructionsRight ==
  ASSUME NEW name \in DOMAIN InstructionSet
  PROVE  /\ Right(InstructionSet[name].opCode, InstructionSet[name].orCombination)
         /\ InstructionSet[name].orCombination \in Types
<1> DEFINE named == {n \in DOMAIN Groups : name \in DOMAIN Groups[n].codes}
           group == Groups[Min(named)]
<1>1. /\ name \in UNION {DOMAIN Groups[n].codes : n \in DOMAIN Groups}
      /\ InstructionSet[name].opCode = group.codes[name]
      /\ InstructionSet[name].orCombination = group.orCombination
  BY Zenon DEF InstructionSet
<1>2. named # {}
  BY <1>1
<1>3. named \subseteq Nat
  BY DEF Groups
<1>4. Min(named) \in named
  <2> HIDE DEF named
  <2> QED
    BY <1>2, <1>3, MinIsMember
<1> QED
  BY <1>1, <1>4, GroupsRight, Zenon

-----------------------------------------------------------------------------
(* Where the loop of evaluateOpCode is on its way from token at: unless it *)
(* was refused it has an argument, and as long as the code is that of a    *)
(* memory instruction there are zeroes where its operand goes.             *)
Restrictions == {"Gr"} \cup DOMAIN Combines

OpCodes ==
  [code : Word, arg : Short \cup {Unset}, memoryOpr : BOOLEAN, zeroFlag : BOOLEAN,
   restrict : Restrictions, first : Nat, end : Ends]

OpCodeAt(prog, at) ==
  {s \in OpCodes :
     /\ s.first \in at .. Len(prog)
     /\ s.end \in {"", "value", "code"} => s.arg \in Word
     /\ s.memoryOpr => s.code \in Blank
     /\ s.end \in {"looping", "terminated"} => MalformedSomewhere(prog)}

LEMMA OpCodeIs ==
  \A code \in Word, arg \in Short \cup {Unset}, memoryOpr, zeroFlag \in BOOLEAN,
     restrict \in Restrictions, n \in Nat, end \in Ends :
    [code |-> code, arg |-> arg, memoryOpr |-> memoryOpr, zeroFlag |-> zeroFlag,
     restrict |-> restrict, first |-> n, end |-> end] \in OpCodes
BY Zenon DEF OpCodes

LEMMA OpCodeFields ==
  ASSUME NEW s \in OpCodes
  PROVE  /\ s = [code |-> s.code, arg |-> s.arg, memoryOpr |-> s.memoryOpr, zeroFlag |-> s.zeroFlag,
                 restrict |-> s.restrict, first |-> s.first, end |-> s.end]
         /\ s.code \in Word /\ s.arg \in Short \cup {Unset} /\ s.memoryOpr \in BOOLEAN
         /\ s.zeroFlag \in BOOLEAN /\ s.restrict \in Restrictions /\ s.first \in Nat /\ s.end \in Ends
BY Zenon DEF OpCodes

LEMMA OpCodeEnding ==
  ASSUME NEW s \in OpCodes, NEW end
  PROVE  [s EXCEPT !.end = end] =
           [code |-> s.code, arg |-> s.arg, memoryOpr |-> s.memoryOpr, zeroFlag |-> s.zeroFlag,
            restrict |-> s.restrict, first |-> s.first, end |-> end]
<1>1. \A c, g, m, z, r, n, e :
        [[code |-> c, arg |-> g, memoryOpr |-> m, zeroFlag |-> z, restrict |-> r, first |-> n,
          end |-> e] EXCEPT !.end = end]
          = [code |-> c, arg |-> g, memoryOpr |-> m, zeroFlag |-> z, restrict |-> r, first |-> n,
             end |-> end]
  OBVIOUS
<1>2. s = [code |-> s.code, arg |-> s.arg, memoryOpr |-> s.memoryOpr, zeroFlag |-> s.zeroFlag,
           restrict |-> s.restrict, first |-> s.first, end |-> s.end]
  BY OpCodeFields
<1> QED
  BY <1>1, <1>2

LEMMA OrOperates ==
  ASSUME NEW a \in Word, NEW b \in Operates
  PROVE  Or(a, b) \in Blank
<1>1. b \in Word /\ b >= 3584
  BY DEF Operates
<1>2. Or(a, b) \in Word /\ Or(a, b) >= b
  BY <1>1, OrMore
<1>3. b \in Nat /\ Or(a, b) \in Nat
  BY <1>1, <1>2, WordIsNat
<1>4. Or(a, b) >= 3072
  BY <1>1, <1>2, <1>3
<1> QED
  BY <1>2, <1>4, BlankIs

LEMMA CombineKeeps ==
  ASSUME NEW s \in OpCodes, s.memoryOpr => s.code \in Blank, s.end = "",
         NEW i, Right(i.opCode, i.orCombination), i.orCombination \in Types
  PROVE  LET t == Combine(s, i)
         IN  /\ t \in OpCodes /\ t.end \in {"", "refused"}
             /\ t.arg = s.arg /\ t.first = s.first
             /\ t.memoryOpr => t.code \in Blank
<1> DEFINE t == Combine(s, i)
           opCode == i.opCode
           type == i.orCombination
           made(code, memoryOpr, zeroFlag, restrict, end) ==
             [code |-> code, arg |-> s.arg, memoryOpr |-> memoryOpr, zeroFlag |-> zeroFlag,
              restrict |-> restrict, first |-> s.first, end |-> end]
           Kept == /\ t \in OpCodes /\ t.end \in {"", "refused"}
                   /\ t.arg = s.arg /\ t.first = s.first
                   /\ t.memoryOpr => t.code \in Blank
<1>1. /\ s = made(s.code, s.memoryOpr, s.zeroFlag, s.restrict, s.end)
      /\ s.code \in Word /\ s.arg \in Short \cup {Unset} /\ s.memoryOpr \in BOOLEAN
      /\ s.zeroFlag \in BOOLEAN /\ s.restrict \in Restrictions /\ s.first \in Nat
  BY OpCodeFields, Zenon
<1>2. opCode \in Word /\ type \in Types
  BY Zenon DEF Right
<1>3. ASSUME NEW code \in Word, NEW memoryOpr \in BOOLEAN, NEW zeroFlag \in BOOLEAN,
             NEW restrict \in Restrictions, NEW end \in {"", "refused"},
             t = made(code, memoryOpr, zeroFlag, restrict, end), memoryOpr => code \in Blank
      PROVE  Kept
  <2>1. end \in Ends
    BY <1>3, Zenon DEF Ends
  <2> HIDE DEF t
  <2>2. t \in OpCodes
    BY <1>1, <1>3, <2>1, Zenon DEF OpCodes
  <2>3. /\ t.end = end /\ t.arg = s.arg /\ t.first = s.first /\ t.memoryOpr = memoryOpr
        /\ t.code = code
    BY <1>3, Zenon
  <2> HIDE DEF made
  <2> QED
    BY <1>3, <2>2, <2>3, Zenon
<1>4. Or(s.code, opCode) \in Word /\ And(s.code, opCode) \in Word
  BY <1>1, <1>2, AndOrType
<1>5. opCode \in Operates => Or(s.code, opCode) \in Blank
  BY <1>1, OrOperates
<1>6. ASSUME type = "Memory" PROVE Kept
  <2>1. t = made(opCode, TRUE, s.zeroFlag, s.restrict, "")
    BY <1>1, <1>6, Zenon DEF Combine
  <2>2. opCode \in Blank
    BY <1>2, <1>6, Zenon DEF Right
  <2> HIDE DEF t, made
  <2> QED
    BY <1>1, <1>2, <1>3, <2>1, <2>2, Zenon
<1>7. ASSUME type = "Flag" PROVE Kept
  <2>1. t = made(Or(s.code, opCode), s.memoryOpr, s.zeroFlag, s.restrict, "")
    BY <1>1, <1>7, Zenon DEF Combine
  <2>2. s.memoryOpr => Or(s.code, opCode) \in Blank
    BY <1>7, OrFlag, Zenon DEF Right
  <2> HIDE DEF t, made
  <2> QED
    BY <1>1, <1>3, <1>4, <2>1, <2>2, Zenon
<1>8. ASSUME type = "Gr" PROVE Kept
  <2>1. t = made(Or(s.code, opCode), s.memoryOpr, s.zeroFlag, s.restrict, "")
    BY <1>1, <1>8, Zenon DEF Combine
  <2>2. Or(s.code, opCode) \in Blank
    BY <1>5, <1>8, Zenon DEF Right
  <2> HIDE DEF t, made
  <2> QED
    BY <1>1, <1>3, <1>4, <2>1, <2>2, Zenon
<1>9. ASSUME type = "Mask" PROVE Kept
  <2>1. ASSUME s.memoryOpr PROVE Kept
    <3>1. t = made(s.code, s.memoryOpr, TRUE, s.restrict, "")
      BY <1>1, <1>9, <2>1, Zenon DEF Combine
    <3> HIDE DEF t, made
    <3> QED
      BY <1>1, <1>3, <3>1, Zenon
  <2>2. CASE ~s.memoryOpr
    <3>1. t = made(And(s.code, opCode), s.memoryOpr, s.zeroFlag, s.restrict, "")
      BY <1>1, <1>9, <2>2, Zenon DEF Combine
    <3> HIDE DEF t, made
    <3> QED
      BY <1>1, <1>3, <1>4, <2>2, <3>1, Zenon
  <2> QED
    BY <2>1, <2>2
<1>10. ASSUME type \notin {"Memory", "Flag", "Gr", "Mask"} PROVE Kept
  <2>1. type \in DOMAIN Combines
    BY <1>2, <1>10, Zenon DEF Types
  <2>2. ASSUME s.restrict \notin Combines[type] PROVE Kept
    <3>1. t = made(s.code, s.memoryOpr, s.zeroFlag, s.restrict, "refused")
      BY <1>1, <1>10, <2>2, Zenon DEF Combine
    <3> HIDE DEF t, made
    <3> QED
      BY <1>1, <1>3, <3>1, Zenon
  <2>3. ASSUME s.restrict \in Combines[type] PROVE Kept
    <3>1. t = made(IF type = "Iot" THEN opCode ELSE Or(s.code, opCode), s.memoryOpr, s.zeroFlag, type, "")
      BY <1>1, <1>10, <2>3, Zenon DEF Combine
    <3>2. type = "Iot" => opCode \in Blank
      BY <1>2, Zenon DEF Right
    <3>3. type # "Iot" => Or(s.code, opCode) \in Blank
      BY <1>5, <1>10, Zenon DEF Right
    <3>4. type \in Restrictions
      BY <2>1, Zenon DEF Restrictions
    <3> HIDE DEF t, made
    <3> QED
      BY <1>1, <1>2, <1>3, <1>4, <3>1, <3>2, <3>3, <3>4, Zenon
  <2> QED
    BY <2>2, <2>3
<1>11. Kept
  <2> HIDE DEF Kept
  <2> QED
    BY <1>6, <1>7, <1>8, <1>9, <1>10
<1> QED
  BY <1>11, Zenon

LEMMA Farther ==
  \A last \in Nat : \A at \in 1 .. last : \A n \in at .. last : \A m \in n .. last :
    /\ m \in at .. last /\ m \in Nat /\ n \in 1 .. last /\ m \in 1 .. last
    /\ n <= last /\ (m # n => m > n)
OBVIOUS

LEMMA OpCodeTurnKeeps ==
  ASSUME NEW prog, Readable(prog), NEW a \in Assemblers, NEW at \in 1 .. Len(prog),
         NEW s \in OpCodeAt(prog, at), s.end \in {"", "value"}
  PROVE  LET t == OpCodeTurn(prog, a, s)
         IN  t \in OpCodeAt(prog, at) /\ (t.end \notin {"", "value"} \/ t.first > s.first)
<1> DEFINE token == prog[s.first]
           class == token.tokenClass
           next(u) == [u EXCEPT !.first = @ + 1]
           t == OpCodeTurn(prog, a, s)
           Kept == t \in OpCodeAt(prog, at) /\ (t.end \notin {"", "value"} \/ t.first > s.first)
<1>1. /\ s \in OpCodes /\ s.first \in at .. Len(prog) /\ s.arg \in Word
      /\ s.memoryOpr => s.code \in Blank
  BY Zenon DEF OpCodeAt
<1>2. Len(prog) \in Nat /\ s.first \in 1 .. Len(prog) /\ s.first \in Nat
  <2>1. Len(prog) \in Nat
    BY DEF Readable
  <2> QED
    BY <1>1, <2>1, Ahead, Zenon
<1>3. token \in Token /\ (~isEndOfLine(class) => s.first + 1 \in 1 .. Len(prog))
  BY <1>2, TokenAt
<1>4. s.first + 1 \in 1 .. Len(prog) =>
        s.first + 1 \in at .. Len(prog) /\ s.first + 1 > s.first /\ s.first + 1 \in Nat
  BY <1>1, <1>2, Ahead, Zenon
<1>5. ASSUME NEW u \in OpCodes, u.first = s.first, u.arg = s.arg, u.memoryOpr => u.code \in Blank,
             u.end \in {"", "refused"}, ~isEndOfLine(class), t = next(u)
      PROVE  Kept
  <2>1. s.first + 1 \in at .. Len(prog) /\ s.first + 1 > s.first /\ s.first + 1 \in Nat
    BY <1>3, <1>4, <1>5
  <2>2. t = [code |-> u.code, arg |-> u.arg, memoryOpr |-> u.memoryOpr, zeroFlag |-> u.zeroFlag,
             restrict |-> u.restrict, first |-> s.first + 1, end |-> u.end]
    BY <1>5, OpCodeFields, Zenon
  <2> HIDE DEF t
  <2>3. t \in OpCodes
    BY <1>5, <2>1, <2>2, OpCodeFields, Zenon DEF OpCodes
  <2>4. /\ t.first = s.first + 1 /\ t.arg = s.arg /\ t.memoryOpr = u.memoryOpr /\ t.code = u.code
        /\ t.end = u.end
    BY <1>5, <2>2, Zenon
  <2> QED
    BY <1>1, <1>5, <2>1, <2>3, <2>4, Zenon DEF OpCodeAt
<1>6. ASSUME s.end = "", isValue(class) PROVE Kept
  <2> DEFINE e == evaluateExpression(prog, a, s.first)
  <2>0. class # "OP_CODE" /\ ~isEndOfCodeLine(class)
    BY <1>6, Zenon DEF isValue, isEndOfCodeLine, isEndOfLine
  <2>1. t = [s EXCEPT !.arg = e.left, !.first = e.first, !.end = e.end]
    BY <1>6, <2>0, Zenon DEF OpCodeTurn
  <2>2. e \in ExpressionAt(prog, s.first) /\ e.end # ""
    BY <1>2, ExpressionEnds
  <2> HIDE DEF e
  <2>3. t = [code |-> s.code, arg |-> e.left, memoryOpr |-> s.memoryOpr, zeroFlag |-> s.zeroFlag,
             restrict |-> s.restrict, first |-> e.first, end |-> e.end]
    BY <1>1, <2>1, OpCodeFields, Zenon
  <2>4. /\ e \in Expressions /\ e.first \in s.first .. Len(prog)
        /\ e.end = "value" => e.left \in Word /\ e.first # s.first
    BY <2>2, Zenon DEF ExpressionAt
  <2>5. /\ e.first \in at .. Len(prog) /\ (e.first # s.first => e.first > s.first)
    BY <1>1, <1>2, <2>4, Farther, Zenon
  <2>6. /\ e.left \in Short \cup {Unset} /\ e.first \in Nat
        /\ e.end \in {"", "value", "refused", "looping", "terminated"} /\ e.end \in Ends
    BY <2>4, Zenon DEF Expressions, Ends
  <2>7. e.end \in {"looping", "terminated"} => MalformedSomewhere(prog)
    BY <1>2, <1>6, <2>2, ExpressionHangs, Zenon
  <2> HIDE DEF t
  <2>8. t \in OpCodes
    BY <1>1, <2>3, <2>6, OpCodeFields, Zenon DEF OpCodes
  <2>9. /\ t.first = e.first /\ t.arg = e.left /\ t.memoryOpr = s.memoryOpr /\ t.code = s.code
        /\ t.end = e.end
    BY <2>3, Zenon
  <2> QED
    BY <1>1, <2>2, <2>4, <2>5, <2>6, <2>7, <2>8, <2>9, Zenon DEF OpCodeAt
<1>7. ASSUME s.end = "", ~isValue(class), class = "OP_CODE" PROVE Kept
  <2> DEFINE i == InstructionSet[token.literal]
  <2>0. ~isEndOfCodeLine(class)
    BY <1>7, Zenon DEF isEndOfCodeLine, isEndOfLine
  <2>1. t = next(Combine(s, i))
    BY <1>7, <2>0, Zenon DEF OpCodeTurn
  <2>2. Right(i.opCode, i.orCombination) /\ i.orCombination \in Types
    <3>1. token.literal \in DOMAIN InstructionSet
      BY <1>2, <1>7, Zenon DEF Readable
    <3> QED
      BY <3>1, InstructionsRight
  <2> HIDE DEF i
  <2>3. /\ Combine(s, i) \in OpCodes /\ Combine(s, i).end \in {"", "refused"}
        /\ Combine(s, i).arg = s.arg /\ Combine(s, i).first = s.first
        /\ Combine(s, i).memoryOpr => Combine(s, i).code \in Blank
    BY <1>1, <1>7, <2>2, CombineKeeps
  <2>4. ~isEndOfLine(class)
    BY <1>7, Zenon DEF isEndOfLine
  <2> HIDE DEF t, next, Kept, class
  <2> QED
    BY <1>5, <2>1, <2>3, <2>4, Zenon
<1>8. ASSUME ~(s.end = "" /\ isValue(class)), ~(s.end = "" /\ class = "OP_CODE"), isEndOfCodeLine(class)
      PROVE  Kept
  <2>1. t = [s EXCEPT !.end = "code"]
    BY <1>8, Zenon DEF OpCodeTurn
  <2>2. t = [code |-> s.code, arg |-> s.arg, memoryOpr |-> s.memoryOpr, zeroFlag |-> s.zeroFlag,
             restrict |-> s.restrict, first |-> s.first, end |-> "code"]
    BY <1>1, <2>1, OpCodeFields, Zenon
  <2> HIDE DEF t
  <2>3. t \in OpCodes
    BY <1>1, <2>2, OpCodeFields, Zenon DEF OpCodes, Ends
  <2>4. /\ t.first = s.first /\ t.arg = s.arg /\ t.memoryOpr = s.memoryOpr /\ t.code = s.code
        /\ t.end = "code"
    BY <2>2, Zenon
  <2> QED
    BY <1>1, <2>3, <2>4, Zenon DEF OpCodeAt
<1>9. ASSUME ~(s.end = "" /\ isValue(class)), ~(s.end = "" /\ class = "OP_CODE"), ~isEndOfCodeLine(class)
      PROVE  Kept
  <2> DEFINE u == [s EXCEPT !.end = ""]
  <2>1. t = next(u)
    BY <1>9, Zenon DEF OpCodeTurn
  <2>2. u = [code |-> s.code, arg |-> s.arg, memoryOpr |-> s.memoryOpr, zeroFlag |-> s.zeroFlag,
             restrict |-> s.restrict, first |-> s.first, end |-> ""]
    BY <1>1, OpCodeEnding
  <2>3. ~isEndOfLine(class)
    BY <1>9, Zenon DEF isEndOfCodeLine
  <2> HIDE DEF u
  <2>4. u \in OpCodes
    BY <1>1, <2>2, OpCodeFields, Zenon DEF OpCodes, Ends
  <2>5. /\ u.first = s.first /\ u.arg = s.arg /\ u.memoryOpr = s.memoryOpr /\ u.code = s.code
        /\ u.end = ""
    BY <2>2, Zenon
  <2> HIDE DEF t, next, Kept, class
  <2> QED
    BY <1>1, <1>5, <2>1, <2>3, <2>4, <2>5, Zenon
<1>10. Kept
  <2> HIDE DEF Kept, class
  <2> QED
    BY <1>6, <1>7, <1>8, <1>9, Zenon
<1> QED
  BY <1>10, Zenon

(* The instruction at a token: a word, with an operand that the CPU will   *)
(* read from it if it is a memory instruction; or the reason why there is  *)
(* none.                                                                   *)
Meant(word, operand) ==
  /\ operand \in Word
  /\ word < 3072 => /\ Address(word) = operand % 128
                    /\ ZeroPage(word) <=> operand <= 127

CodeAt(prog, at, e) ==
  /\ e.first \in at .. Len(prog)
  /\ e.end \in {"value", "refused", "looping", "terminated"}
  /\ e.end = "value" => /\ e.left \in Word \cup {Unset}
                        /\ e.operand # Unset => e.left \in Word /\ Meant(e.left, e.operand)
  /\ e.end \in {"looping", "terminated"} => MalformedSomewhere(prog)

OpCodeLoop(prog, a) ==
  [s \in [code : Nat, arg : Int, memoryOpr : BOOLEAN, zeroFlag : BOOLEAN,
          restrict : Restrictions, first : Nat, end : Ends] |->
     IF s.end \in {"", "value"} THEN OpCodeTurn(prog, a, s) ELSE s]

OpCodeStart(at) ==
  [code |-> 0, arg |-> 0, memoryOpr |-> FALSE, zeroFlag |-> FALSE, restrict |-> "Gr", first |-> at, end |-> ""]

LEMMA OpCodeRuns ==
  ASSUME NEW prog, Readable(prog), NEW a \in Assemblers, NEW at \in 1 .. Len(prog)
  PROVE  LET last == After(OpCodeLoop(prog, a), OpCodeStart(at), Len(prog))
         IN  /\ last \in OpCodeAt(prog, at) /\ last.end \notin {"", "value"}
             /\ evaluateOpCode(prog, a, at) = Encoded(a, last)
<1> DEFINE all == [code : Nat, arg : Int, memoryOpr : BOOLEAN, zeroFlag : BOOLEAN,
                   restrict : Restrictions, first : Nat, end : Ends]
           turn == OpCodeLoop(prog, a)
           start == OpCodeStart(at)
           I == OpCodeAt(prog, at)
           Ended == {s \in I : s.end \notin {"", "value"}}
           last == After(turn, start, Len(prog))
<1>0. turn = [s \in all |-> IF s.end \in {"", "value"} THEN OpCodeTurn(prog, a, s) ELSE s]
  BY Zenon DEF OpCodeLoop
<1>1. evaluateOpCode(prog, a, at) = Encoded(a, last)
  BY Zenon DEF evaluateOpCode, Restrictions, OpCodeLoop, OpCodeStart
<1>2. Len(prog) \in Nat /\ at \in Nat /\ at \in at .. Len(prog) /\ at # 0
  BY DEF Readable
<1>3. start \in I /\ start.first \in Nat \ {0}
  <2>1. 0 \in Word /\ 0 \in Short
    BY DEF Word, Short
  <2>2. "Gr" \in Restrictions /\ "" \in Ends
    BY Zenon DEF Restrictions, Ends
  <2>3. start \in OpCodes
    BY <1>2, <2>1, <2>2, Zenon DEF OpCodes, OpCodeStart
  <2> QED
    BY <1>2, <2>1, <2>3, Zenon DEF OpCodeAt, OpCodeStart
<1>4. ASSUME NEW s \in I
      PROVE  /\ s \in all /\ s.first \in Nat
             /\ s.end \notin {"", "value"} => turn[s] = s
             /\ s.end \in {"", "value"} => turn[s] = OpCodeTurn(prog, a, s) /\ s.first <= Len(prog)
  <2>1. s \in OpCodes /\ s.first \in at .. Len(prog)
    BY Zenon DEF OpCodeAt
  <2>2. s.code \in Nat /\ s.arg \in Int
    <3>1. s.code \in Word /\ s.arg \in Short \cup {Unset}
      BY <2>1, OpCodeFields
    <3> QED
      BY <3>1, WordIsNat, ExpressionRecords
  <2>3. s \in all /\ s.first \in Nat
    BY <2>1, <2>2, Zenon DEF OpCodes
  <2>4. s.first <= Len(prog)
    <3>1. \A n \in at .. Len(prog) : n <= Len(prog)
      BY <1>2
    <3> QED
      BY <2>1, <3>1, Zenon
  <2> QED
    BY <1>0, <2>3, <2>4, Zenon
<1> HIDE DEF all, turn, start
<1>5. ASSUME NEW s \in I
      PROVE  /\ turn[s] \in I
             /\ s \in Ended => turn[s] \in Ended
             /\ s \notin Ended => s.first <= Len(prog)
                                 /\ (turn[s] \in Ended \/ turn[s].first > s.first)
  <2>1. CASE s.end \notin {"", "value"}
    BY <1>4, <2>1, Zenon
  <2>2. CASE s.end \in {"", "value"}
    <3>1. turn[s] = OpCodeTurn(prog, a, s) /\ s.first <= Len(prog)
      BY <1>4, <2>2, Zenon
    <3>2. turn[s] \in I /\ (turn[s].end \notin {"", "value"} \/ turn[s].first > s.first)
      BY <2>2, <3>1, OpCodeTurnKeeps
    <3> QED
      BY <2>2, <3>1, <3>2, Zenon
  <2> QED
    BY <2>1, <2>2
<1>6. last \in Ended
  <2>1. \A s \in I : s.first \in Nat
    BY <1>4, Zenon
  <2> HIDE DEF I, Ended
  <2> QED
    BY <1>2, <1>3, <1>5, <2>1, AfterEnds
<1> QED
  BY <1>1, <1>6, Zenon DEF turn, start

LEMMA OpCodeEnds ==
  ASSUME NEW prog, Readable(prog), NEW a \in Assemblers, NEW at \in 1 .. Len(prog)
  PROVE  \E s \in OpCodeAt(prog, at) :
           s.end \notin {"", "value"} /\ evaluateOpCode(prog, a, at) = Encoded(a, s)
BY OpCodeRuns

(* The operand of a memory instruction, put where the CPU finds it.        *)
Placed(code, arg) ==
  IF arg <= 127 THEN Or(code, And(arg, 127)) ELSE Or(Or(code, And(arg, 127)), 128)

LEMMA PlacedIsMeant ==
  ASSUME NEW code \in Blank, NEW arg \in Word
  PROVE  Placed(code, arg) \in Word /\ Meant(Placed(code, arg), arg)
<1> DEFINE v == arg % 128
           w == Placed(code, arg)
<1>1. arg \in Nat /\ code \in Nat
  BY BlankIs, WordIsNat
<1>2. v \in Nat /\ v < 128 /\ (arg <= 127 => arg = v)
  BY <1>1
<1>3. And(arg, 127) = v
  BY SomeBits
<1> HIDE DEF v
<1>4. w = IF arg <= 127 THEN Or(code, v) ELSE Or(Or(code, v), 128)
  BY <1>3 DEF Placed
<1> HIDE DEF w
<1>5. /\ Or(code, v) \in Word /\ Or(Or(code, v), 128) \in Word
      /\ code < 3072 => Or(code, v) = code + v /\ Or(Or(code, v), 128) = code + v + 128
      /\ code >= 3072 => Or(code, v) >= 3072 /\ Or(Or(code, v), 128) >= 3072
  BY <1>2, OrOperand
<1>6. w \in Word /\ w \in Nat
  <2>1. w \in Word
    BY <1>4, <1>5
  <2> QED
    BY <2>1, WordIsNat
<1>7. ASSUME w < 3072 PROVE Address(w) = v /\ (ZeroPage(w) <=> arg <= 127)
  <2>1. code < 3072
    <3> SUFFICES ASSUME code >= 3072 PROVE FALSE
      BY <1>1
    <3>1. w >= 3072
      BY <1>4, <1>5
    <3> QED
      BY <1>6, <1>7, <3>1
  <2>2. code % 256 = 0
    <3>1. code >= 3072 \/ code % 256 = 0
      BY BlankIs
    <3> QED
      BY <1>1, <2>1, <3>1
  <2>3. w = IF arg <= 127 THEN code + v ELSE code + v + 128
    BY <1>4, <1>5, <2>1
  <2>4. code % 256 = 0 => /\ (code + v) % 128 = v /\ ((code + v) \div 128) % 2 = 0
                         /\ (code + v + 128) % 128 = v /\ ((code + v + 128) \div 128) % 2 = 1
    BY <1>1, <1>2
  <2> QED
    BY <1>1, <2>2, <2>3, <2>4 DEF Address, ZeroPage, Bit
<1> QED
  BY <1>6, <1>7 DEF Meant, v, w

LEMMA OpCodeMeans ==
  ASSUME NEW prog, Readable(prog), NEW a \in Assemblers, NEW at \in 1 .. Len(prog)
  PROVE  /\ CodeAt(prog, at, evaluateOpCode(prog, a, at))
         /\ evaluateOpCode(prog, a, at).end = "value" => evaluateOpCode(prog, a, at).left \in Word
<1>1. PICK s \in OpCodeAt(prog, at) :
        s.end \notin {"", "value"} /\ evaluateOpCode(prog, a, at) = Encoded(a, s)
  BY OpCodeEnds
<1> DEFINE e == Encoded(a, s)
           code == IF s.memoryOpr THEN CurrentPage(a, s) ELSE s.code
           cut == And(code, \o7577)
<1>2. /\ s \in OpCodes /\ s.first \in at .. Len(prog)
      /\ s.end = "code" => s.arg \in Word
      /\ s.memoryOpr => s.code \in Blank
      /\ s.end \in {"looping", "terminated"} => MalformedSomewhere(prog)
  BY Zenon DEF OpCodeAt
<1>3. s.code \in Word /\ s.end \in Ends
  BY <1>2, OpCodeFields
<1>4. /\ e.left = IF s.memoryOpr /\ s.zeroFlag THEN cut ELSE code
      /\ e.operand = IF s.memoryOpr /\ ~s.zeroFlag THEN s.arg ELSE Unset
      /\ e.first = s.first
      /\ e.end = IF s.end = "code" THEN IF code = Refused THEN "refused" ELSE "value" ELSE s.end
  BY DEF Encoded
<1>5. s.memoryOpr => code \in {Refused, Placed(s.code, s.arg)}
  BY DEF CurrentPage, Placed
<1> HIDE DEF e
<1>6. e.end \in {"value", "refused", "looping", "terminated"}
  BY <1>1, <1>3, <1>4, Zenon DEF Ends
<1>7. ASSUME e.end = "value"
      PROVE  e.left \in Word /\ (e.operand # Unset => Meant(e.left, e.operand))
  <2>1. s.end = "code" /\ code # Refused
    BY <1>1, <1>4, <1>7, Zenon
  <2>2. s.memoryOpr => code = Placed(s.code, s.arg) /\ code \in Word /\ Meant(code, s.arg)
    BY <1>2, <1>5, <2>1, PlacedIsMeant, Zenon
  <2>3. code \in Word
    BY <1>3, <2>2
  <2>4. cut \in Word
    <3>1. \o7577 \in Word
      BY DEF Word
    <3> HIDE DEF code
    <3> QED
      BY <2>3, <3>1, AndOrType
  <2> HIDE DEF cut
  <2>5. CASE s.memoryOpr /\ s.zeroFlag
    <3>1. e.left = cut /\ e.operand = Unset
      BY <1>4, <2>5, Zenon
    <3> QED
      BY <2>4, <3>1, Zenon
  <2>6. CASE s.memoryOpr /\ ~s.zeroFlag
    <3>1. e.left = code /\ e.operand = s.arg
      BY <1>4, <2>6, Zenon
    <3> HIDE DEF code
    <3> QED
      BY <2>2, <2>6, <3>1, Zenon
  <2>7. CASE ~s.memoryOpr
    <3>1. e.left = code /\ e.operand = Unset
      BY <1>4, <2>7, Zenon
    <3> HIDE DEF code
    <3> QED
      BY <2>3, <3>1, Zenon
  <2> QED
    BY <2>5, <2>6, <2>7
<1>8. CodeAt(prog, at, e)
  BY <1>1, <1>2, <1>4, <1>6, <1>7, Zenon DEF CodeAt
<1>9. e.end = "value" => e.left \in Word
  BY <1>7
<1> QED
  BY <1>1, <1>8, <1>9 DEF e

-----------------------------------------------------------------------------
(* Lines.                                                                  *)
LEMMA SetLabelType ==
  ASSUME NEW a \in Assemblers, NEW literal \in Literals, NEW value \in Short
  PROVE  /\ setLabelValue(a, literal, value) \in Assemblers
         /\ setLabelValue(a, literal, value).assemblerPass = a.assemblerPass
         /\ setLabelValue(a, literal, value).programCounter = a.programCounter
<1> DEFINE table == [name \in DOMAIN a.symbolTable \cup {literal} |->
                       IF name = literal THEN [value |-> value, status |-> "Defined"]
                       ELSE a.symbolTable[name]]
           b == setLabelValue(a, literal, value)
<1>1. PICK names \in SUBSET SymbolNames : a.symbolTable \in [names -> Symbol]
  BY Zenon DEF Assemblers, Tables
<1>2. table \in [names \cup {literal} -> Symbol]
  <2>1. [value |-> value, status |-> "Defined"] \in Symbol
    BY Zenon DEF Symbol
  <2> QED
    BY <1>1, <2>1
<1>3. names \cup {literal} \in SUBSET SymbolNames
  BY DEF SymbolNames
<1>4. table \in Tables
  BY <1>2, <1>3, Zenon DEF Tables
<1>5. b = [a EXCEPT !.symbolTable = table]
  BY Zenon DEF setLabelValue
<1> HIDE DEF table, b
<1>6. b \in Assemblers /\ b.assemblerPass = a.assemblerPass /\ b.programCounter = a.programCounter
  BY <1>4, <1>5, Zenon DEF Assemblers
<1> QED
  BY <1>6 DEF b

LEMMA SetLabelKeeps ==
  ASSUME NEW a \in Assemblers, NEW literal, NEW value
  PROVE  setLabelValue(a, literal, value).programCounter = a.programCounter
BY Zenon DEF setLabelValue, Assemblers

LEMMA OriginType ==
  ASSUME NEW a \in Assemblers, NEW address \in Short
  PROVE  /\ [a EXCEPT !.programCounter = address] \in Assemblers
         /\ [a EXCEPT !.programCounter = address].assemblerPass = a.assemblerPass
BY Zenon DEF Assemblers

LEMMA RadixType ==
  ASSUME NEW a \in Assemblers, NEW radix \in Directives
  PROVE  /\ [a EXCEPT !.radix = radix] \in Assemblers
         /\ [a EXCEPT !.radix = radix].assemblerPass = a.assemblerPass
         /\ [a EXCEPT !.radix = radix].programCounter = a.programCounter
BY Zenon DEF Assemblers

(* What a line begins with: an assembler of the same pass and the token    *)
(* after it, or the reason why there is none.  Only an origin moves the    *)
(* program counter.                                                        *)
PrefixAt(prog, a, at, p) ==
  /\ p.first \in 1 .. Len(prog)
  /\ p.end \in {"value", "refused", "looping", "terminated"}
  /\ p.end = "value" => p.a \in Assemblers /\ p.a.assemblerPass = a.assemblerPass
  /\ prog[at].tokenClass # "LOCATION" => p.a.programCounter = a.programCounter
  /\ p.end \in {"looping", "terminated"} => MalformedSomewhere(prog)

LEMMA ExpressionResult ==
  ASSUME NEW prog, Readable(prog), NEW a \in Assemblers, NEW at \in 1 .. Len(prog),
         \/ isValue(prog[at].tokenClass)
         \/ at # 1 /\ prog[at - 1].tokenClass \in {"LOCATION", "LABEL_ASSIGN"}
  PROVE  LET e == evaluateExpression(prog, a, at)
         IN  /\ e.first \in at .. Len(prog) /\ e.first \in 1 .. Len(prog)
             /\ e.end \in {"value", "refused", "looping", "terminated"}
             /\ e.end = "value" => e.left \in Word /\ e.left \in Short /\ e.left # Unset
             /\ e.end \in {"looping", "terminated"} => MalformedSomewhere(prog)
<1> DEFINE e == evaluateExpression(prog, a, at)
<1>1. e \in ExpressionAt(prog, at) /\ e.end # ""
  BY ExpressionEnds
<1> HIDE DEF e
<1>2. /\ e \in Expressions /\ e.first \in at .. Len(prog)
      /\ e.end = "value" => e.left \in Word /\ e.first # at
      /\ (e.left = Unset) <=> (e.first = at)
  BY <1>1, Zenon DEF ExpressionAt
<1>3. e.first \in 1 .. Len(prog)
  <2>1. Len(prog) \in Nat
    BY DEF Readable
  <2> QED
    BY <1>2, <2>1, Ahead, Zenon
<1>4. e.end \in {"value", "refused", "looping", "terminated"}
  BY <1>1, <1>2, Zenon DEF Expressions
<1>5. e.end = "value" => e.left \in Short /\ e.left # Unset
  <2>1. e.left \in Short \cup {Unset}
    BY <1>2, Zenon DEF Expressions
  <2> QED
    BY <1>2, <2>1, Zenon
<1>6. e.end \in {"looping", "terminated"} => MalformedSomewhere(prog)
  BY <1>1, ExpressionHangs, Zenon
<1> QED
  BY <1>2, <1>3, <1>4, <1>5, <1>6, Zenon DEF e

LEMMA PrefixType ==
  ASSUME NEW prog, Readable(prog), NEW a \in Assemblers, NEW at \in 1 .. Len(prog)
  PROVE  PrefixAt(prog, a, at, Prefix(prog, a, at))
<1> DEFINE class == prog[at].tokenClass
           next  == IF at < Len(prog) THEN prog[at + 1].tokenClass ELSE ""
           p == Prefix(prog, a, at)
<1>1. Len(prog) \in Nat /\ at \in Nat /\ prog[at].literal \in Literals
  <2>1. prog[at] \in Token
    BY TokenAt
  <2> QED
    BY <2>1 DEF Readable, Token
<1>2. ~isEndOfLine(class) => at + 1 \in 1 .. Len(prog) /\ (at + 1) - 1 = at /\ at + 1 # 1
  BY <1>1, TokenAt
<1>3. next \in {"LABEL_ASSIGN", "LABEL_DEFINE"} =>
        at + 2 \in 1 .. Len(prog) /\ (at + 2) - 1 = at + 1 /\ prog[at + 1].tokenClass = next /\ at + 2 # 1
  <2> SUFFICES ASSUME next \in {"LABEL_ASSIGN", "LABEL_DEFINE"}
               PROVE  at + 2 \in 1 .. Len(prog) /\ (at + 2) - 1 = at + 1
                      /\ prog[at + 1].tokenClass = next /\ at + 2 # 1
    OBVIOUS
  <2>1. at < Len(prog) /\ prog[at + 1].tokenClass = next
    BY Zenon
  <2>2. at + 1 \in 1 .. Len(prog)
    BY <1>1, <2>1
  <2>3. ~isEndOfLine(prog[at + 1].tokenClass)
    BY <2>1, Zenon DEF isEndOfLine
  <2>4. (at + 1) + 1 \in 1 .. Len(prog)
    BY <2>2, <2>3, TokenAt
  <2> HIDE DEF next
  <2> QED
    BY <1>1, <2>1, <2>4
<1> HIDE DEF next
<1>4. p = CASE class \in Directives -> [a |-> [a EXCEPT !.radix = class], first |-> at + 1, end |-> "value"]
            [] class = "LABEL" /\ next = "LABEL_ASSIGN" ->
                 [a |-> setLabelValue(a, prog[at].literal, evaluateExpression(prog, a, at + 2).left),
                  first |-> evaluateExpression(prog, a, at + 2).first,
                  end |-> evaluateExpression(prog, a, at + 2).end]
            [] class = "LABEL" /\ next = "LABEL_DEFINE" ->
                 [a |-> setLabelValue(a, prog[at].literal, a.programCounter), first |-> at + 2, end |-> "value"]
            [] class = "LOCATION" ->
                 [a |-> [a EXCEPT !.programCounter = evaluateExpression(prog, a, at + 1).left],
                  first |-> evaluateExpression(prog, a, at + 1).first,
                  end |-> evaluateExpression(prog, a, at + 1).end]
            [] OTHER -> [a |-> a, first |-> at, end |-> "value"]
  BY Zenon DEF Prefix, next
<1> HIDE DEF p
<1>5. /\ "LABEL" \notin Directives /\ "LOCATION" \notin Directives
      /\ \A c \in Directives \cup {"LOCATION"} : ~isEndOfLine(c)
  BY Zenon DEF Directives, isEndOfLine
<1>6. ASSUME class \in Directives PROVE PrefixAt(prog, a, at, p)
  <2>1. p = [a |-> [a EXCEPT !.radix = class], first |-> at + 1, end |-> "value"]
    BY <1>4, <1>5, <1>6, Zenon
  <2>2. at + 1 \in 1 .. Len(prog)
    BY <1>2, <1>5, <1>6, Zenon
  <2> QED
    BY <1>6, <2>1, <2>2, RadixType, Zenon DEF PrefixAt
<1>7. ASSUME class = "LABEL" /\ next = "LABEL_ASSIGN" PROVE PrefixAt(prog, a, at, p)
  <2> DEFINE e == evaluateExpression(prog, a, at + 2)
  <2>1. p = [a |-> setLabelValue(a, prog[at].literal, e.left), first |-> e.first, end |-> e.end]
    BY <1>4, <1>5, <1>7, Zenon
  <2>2. /\ e.first \in 1 .. Len(prog) /\ e.end \in {"value", "refused", "looping", "terminated"}
        /\ e.end = "value" => e.left \in Short
        /\ e.end \in {"looping", "terminated"} => MalformedSomewhere(prog)
    <3>1. at + 2 \in 1 .. Len(prog) /\ at + 2 # 1 /\ prog[(at + 2) - 1].tokenClass = "LABEL_ASSIGN"
      BY <1>3, <1>7, Zenon
    <3> QED
      BY <3>1, ExpressionResult, Zenon
  <2> HIDE DEF e
  <2>3. p.first = e.first /\ p.end = e.end /\ p.a = setLabelValue(a, prog[at].literal, e.left)
    BY <2>1, Zenon
  <2>4. p.a.programCounter = a.programCounter
    <3>1. setLabelValue(a, prog[at].literal, e.left).programCounter = a.programCounter
      BY SetLabelKeeps
    <3> QED
      BY <2>3, <3>1, Zenon
  <2>5. e.end = "value" => p.a \in Assemblers /\ p.a.assemblerPass = a.assemblerPass
    BY <1>1, <2>2, <2>3, SetLabelType, ZenonT(30)
  <2> HIDE DEF p
  <2> QED
    BY <2>2, <2>3, <2>4, <2>5, Zenon DEF PrefixAt
<1>8. ASSUME class = "LABEL" /\ next = "LABEL_DEFINE" PROVE PrefixAt(prog, a, at, p)
  <2>1. p = [a |-> setLabelValue(a, prog[at].literal, a.programCounter), first |-> at + 2, end |-> "value"]
    BY <1>4, <1>5, <1>8, Zenon
  <2>2. at + 2 \in 1 .. Len(prog) /\ a.programCounter \in Short
    BY <1>3, <1>8, Zenon DEF Assemblers
  <2> QED
    BY <1>1, <2>1, <2>2, SetLabelType, SetLabelKeeps, Zenon DEF PrefixAt
<1>9. ASSUME class = "LOCATION" PROVE PrefixAt(prog, a, at, p)
  <2> DEFINE e == evaluateExpression(prog, a, at + 1)
  <2>1. p = [a |-> [a EXCEPT !.programCounter = e.left], first |-> e.first, end |-> e.end]
    BY <1>4, <1>5, <1>9, Zenon
  <2>2. /\ e.first \in 1 .. Len(prog) /\ e.end \in {"value", "refused", "looping", "terminated"}
        /\ e.end = "value" => e.left \in Short
        /\ e.end \in {"looping", "terminated"} => MalformedSomewhere(prog)
    <3>1. at + 1 \in 1 .. Len(prog) /\ at + 1 # 1 /\ prog[(at + 1) - 1].tokenClass = "LOCATION"
      BY <1>2, <1>5, <1>9, Zenon
    <3> QED
      BY <3>1, ExpressionResult, Zenon
  <2> HIDE DEF e
  <2> QED
    BY <1>9, <2>1, <2>2, OriginType, Zenon DEF PrefixAt
<1>10. ASSUME class \notin Directives, class # "LOCATION",
              ~(class = "LABEL" /\ next \in {"LABEL_ASSIGN", "LABEL_DEFINE"})
       PROVE  PrefixAt(prog, a, at, p)
  <2>1. p = [a |-> a, first |-> at, end |-> "value"]
    BY <1>4, <1>10, Zenon
  <2> QED
    BY <2>1, Zenon DEF PrefixAt
<1>11. PrefixAt(prog, a, at, p)
  <2> HIDE DEF class
  <2> QED
    BY <1>6, <1>7, <1>8, <1>9, <1>10, Zenon
<1> QED
  BY <1>11 DEF p

LEMMA CodeMeans ==
  ASSUME NEW prog, Readable(prog), NEW a \in Assemblers, NEW at \in 1 .. Len(prog)
  PROVE  CodeAt(prog, at, Code(prog, a, at))
<1> DEFINE class == prog[at].tokenClass
           c == Code(prog, a, at)
<1>1. at \in at .. Len(prog)
  BY DEF Readable
<1>2. ASSUME isValue(class) PROVE CodeAt(prog, at, c)
  <2> DEFINE e == evaluateExpression(prog, a, at)
  <2>1. c = [left |-> e.left, operand |-> Unset, first |-> e.first, end |-> e.end]
    BY <1>2, Zenon DEF Code, isValue
  <2>2. /\ e.first \in at .. Len(prog) /\ e.end \in {"value", "refused", "looping", "terminated"}
        /\ e.end = "value" => e.left \in Word
        /\ e.end \in {"looping", "terminated"} => MalformedSomewhere(prog)
    BY <1>2, ExpressionResult, Zenon
  <2> HIDE DEF e, c
  <2> QED
    BY <2>1, <2>2, Zenon DEF CodeAt
<1>3. ASSUME class = "OP_CODE" PROVE CodeAt(prog, at, c)
  <2>1. c = evaluateOpCode(prog, a, at)
    BY <1>3, Zenon DEF Code, isValue
  <2> QED
    BY <2>1, OpCodeMeans
<1>4. ASSUME ~isValue(class), class # "OP_CODE" PROVE CodeAt(prog, at, c)
  <2>1. c = [left |-> Unset, operand |-> Unset, first |-> at, end |-> "value"]
    BY <1>4, Zenon DEF Code
  <2> HIDE DEF c
  <2> QED
    BY <1>1, <2>1, Zenon DEF CodeAt
<1>5. CodeAt(prog, at, c)
  <2> HIDE DEF class, c
  <2> QED
    BY <1>2, <1>3, <1>4, Zenon
<1> QED
  BY <1>5

LEMMA EndOfLineIs ==
  ASSUME NEW prog, Readable(prog), NEW at \in 1 .. Len(prog)
  PROVE  EndOfLineAfter(prog, at) \in at .. Len(prog)
<1> DEFINE ends == {n \in at .. Len(prog) : isEndOfLine(prog[n].tokenClass)}
<1>1. Len(prog) \in Nat /\ at \in Nat /\ Len(prog) \in at .. Len(prog)
  BY DEF Readable
<1>2. Len(prog) \in ends
  <2>1. isEndOfLine(prog[Len(prog)].tokenClass)
    BY Zenon DEF Readable, isEndOfLine
  <2> QED
    BY <1>1, <2>1
<1>3. ends \subseteq Nat
  BY <1>1
<1>4. EndOfLineAfter(prog, at) = Min(ends)
  BY Zenon DEF EndOfLineAfter
<1>5. Min(ends) \in ends
  <2> HIDE DEF ends
  <2> QED
    BY <1>2, <1>3, MinIsMember
<1> QED
  BY <1>4, <1>5

(* A source that is read is readable.                                      *)
LEMMA ReadProgram ==
  ASSUME NEW source \in Sources
  PROVE  Readable(Classified(source)) /\ readProgram(source) \in Assemblers
<1> DEFINE raw == [tokenClass : TokenClass, literal : Literals, digits : Seq(0 .. 9)]
           prog == Classified(source)
           assigned(n) == n < Len(source) /\ source[n + 1].tokenClass = "LABEL_ASSIGN"
           class(n) == CASE assigned(n) -> "LABEL"
                         [] ~assigned(n) /\ source[n].tokenClass # "LITERAL" -> source[n].tokenClass
                         [] ~assigned(n) /\ source[n].tokenClass = "LITERAL"
                              /\ source[n].literal \in Directives -> source[n].literal
                         [] ~assigned(n) /\ source[n].tokenClass = "LITERAL"
                              /\ source[n].literal \in DOMAIN InstructionSet -> "OP_CODE"
                         [] OTHER -> "LABEL"
<1>1. /\ source \in Seq(raw) /\ source # <<>>
      /\ source[Len(source)].tokenClass = "END_OF_FILE"
  BY SourcesAssumption
<1>2. Len(source) \in Nat \ {0} /\ DOMAIN source = 1 .. Len(source) /\ \A n \in 1 .. Len(source) : source[n] \in raw
  BY <1>1, LenProperties, ElementOfSeq, EmptySeq
<1>3. prog = [n \in 1 .. Len(source) |-> [source[n] EXCEPT !.tokenClass = class(n)]]
  BY <1>2, Zenon DEF Classified
<1>4. "OP_CODE" \notin TokenClass /\ "OP_CODE" \notin Directives
  BY Zenon DEF TokenClass, Directives
<1>5. ASSUME NEW n \in 1 .. Len(source)
      PROVE  /\ class(n) \in Class
             /\ class(n) = "OP_CODE" => source[n].literal \in DOMAIN InstructionSet
             /\ n = Len(source) => class(n) = "END_OF_FILE"
  <2>1. source[n].tokenClass \in TokenClass
    BY <1>2, Zenon
  <2>2. n = Len(source) => ~assigned(n)
    BY <1>2
  <2> HIDE DEF assigned
  <2>3. CASE assigned(n)
    BY <2>2, <2>3, Zenon DEF Class
  <2>4. CASE ~assigned(n) /\ source[n].tokenClass # "LITERAL"
    BY <1>1, <1>4, <2>1, <2>4, Zenon DEF Class
  <2>5. CASE ~assigned(n) /\ source[n].tokenClass = "LITERAL" /\ source[n].literal \in Directives
    BY <1>1, <1>4, <2>5, Zenon DEF Class
  <2>6. CASE ~assigned(n) /\ source[n].tokenClass = "LITERAL" /\ source[n].literal \notin Directives
    BY <1>1, <1>4, <2>6, Zenon DEF Class
  <2> QED
    BY <2>3, <2>4, <2>5, <2>6, Zenon
<1> HIDE DEF class, prog
<1>6. ASSUME NEW n \in 1 .. Len(source)
      PROVE  /\ prog[n] \in Token /\ prog[n].tokenClass = class(n)
             /\ prog[n].literal = source[n].literal
  <2>1. source[n] \in raw
    BY <1>2
  <2>2. prog[n] = [source[n] EXCEPT !.tokenClass = class(n)]
    BY <1>3, Zenon
  <2> QED
    BY <1>5, <2>1, <2>2, Zenon DEF Token
<1>7. prog \in Seq(Token) /\ Len(prog) = Len(source)
  <2>1. prog \in [1 .. Len(source) -> Token]
    BY <1>3, <1>6, Zenon
  <2> QED
    BY <1>2, <2>1
<1>8. Readable(prog)
  <2>1. Len(source) \in 1 .. Len(source)
    BY <1>2
  <2>2. prog[Len(source)].tokenClass = "END_OF_FILE"
    BY <1>5, <1>6, <2>1, Zenon
  <2>3. isEndOfLine("END_OF_FILE")
    BY Zenon DEF isEndOfLine
  <2> QED
    BY <1>2, <1>5, <1>6, <1>7, <2>2, <2>3, Zenon DEF Readable
<1>9. readProgram(source) \in Assemblers
  <2> DEFINE table == [name \in DOMAIN PreDefinedSymbols \cup Names(source) |->
                         IF name \in DOMAIN PreDefinedSymbols THEN PreDefinedSymbols[name]
                         ELSE [value |-> 0, status |-> "Undefined"]]
  <2>1. Names(source) \subseteq Literals
    <3>1. ASSUME NEW name \in Names(source) PROVE name \in Literals
      <4>1. PICK n \in DOMAIN source : name = source[n].literal
        BY Zenon DEF Names
      <4>2. name \in {source[m].literal : m \in DOMAIN source}
        BY <4>1, Zenon
      <4> QED
        BY <4>2, Zenon DEF Literals
    <3> QED
      BY <3>1, Zenon
  <2>2. \A name \in DOMAIN PreDefinedSymbols : PreDefinedSymbols[name] \in Symbol
    BY DEF PreDefinedSymbols, Symbol, Short
  <2>3. [value |-> 0, status |-> "Undefined"] \in Symbol
    BY DEF Symbol, Short
  <2>4. table \in [DOMAIN PreDefinedSymbols \cup Names(source) -> Symbol]
    BY <2>2, <2>3, Zenon
  <2>5. table \in Tables
    BY <2>1, <2>4, Zenon DEF Tables, SymbolNames
  <2>6. readProgram(source) = [symbolTable |-> table, radix |-> "OCTAL", programCounter |-> 0, assemblerPass |-> 1]
    BY Zenon DEF readProgram
  <2>7. 0 \in Short /\ "OCTAL" \in Directives
    BY DEF Short, Directives
  <2> HIDE DEF table
  <2> QED
    BY <2>5, <2>6, <2>7 DEF Assemblers
<1> QED
  BY <1>8, <1>9 DEF prog

-----------------------------------------------------------------------------
(* What parseLine starts from: a program that was read, an assembler whose *)
(* symbols and program counter are 16-bit numbers, and the first token of  *)
(* a line, or the place after the last.                                    *)
Assembling ==
  /\ Readable(program) /\ assembler \in Assemblers
  /\ first \in Nat \ {0} /\ first <= Len(program) + 1

LEMMA InitAssembling == Init => Assembling
<1> SUFFICES ASSUME Init PROVE Assembling
  OBVIOUS
<1>1. PICK source \in Sources :
        program = Classified(source) /\ assembler = readProgram(source) /\ first = 1
  BY Zenon DEF Init
<1>2. Readable(program) /\ assembler \in Assemblers
  BY <1>1, ReadProgram
<1>3. Len(program) \in Nat \ {0}
  BY <1>2, Zenon DEF Readable
<1>4. first \in Nat \ {0} /\ first <= Len(program) + 1
  BY <1>1, <1>3
<1> QED
  BY <1>2, <1>4 DEF Assembling

(* parseLine: a line that stops it, or one that is assembled.              *)
LEMMA LineParsed ==
  ASSUME Assembling, parseLine
  PROVE  LET prefix == Prefix(program, assembler, first)
             code == Code(program, prefix.a, prefix.first)
         IN  /\ status = "assembling" /\ first \in 1 .. Len(program)
             /\ PrefixAt(program, assembler, first, prefix)
             /\ prefix.end = "value" => CodeAt(program, prefix.first, code)
             /\ \/ Stopped(prefix.end)
                \/ /\ prefix.end = "value"
                   /\ Stopped(code.end) \/ Line(prefix, code)
<1> DEFINE prefix == Prefix(program, assembler, first)
           code == Code(program, prefix.a, prefix.first)
<1>1. status = "assembling" /\ first <= Len(program)
  BY Zenon DEF parseLine
<1>2. first \in 1 .. Len(program)
  BY <1>1 DEF Assembling, Readable
<1>3. PrefixAt(program, assembler, first, prefix)
  BY <1>2, PrefixType DEF Assembling
<1>4. prefix.end = "value" => CodeAt(program, prefix.first, code)
  <2>1. prefix.end = "value" => prefix.a \in Assemblers /\ prefix.first \in 1 .. Len(program)
    BY <1>3, Zenon DEF PrefixAt
  <2> HIDE DEF prefix
  <2> QED
    BY <2>1, CodeMeans DEF Assembling
<1>5. \/ Stopped(prefix.end)
      \/ prefix.end = "value" /\ (Stopped(code.end) \/ Line(prefix, code))
  BY Zenon DEF parseLine
<1> QED
  BY <1>1, <1>2, <1>3, <1>4, <1>5, Zenon

(* The entries of the listing: what the CPU makes of an operand is meant.  *)
Entries ==
  {e \in [address : Short, word : Word, operand : Word \cup {Unset}, line : Nat] :
     e.operand # Unset => Meant(e.word, e.operand)}

LEMMA AdvancedType ==
  ASSUME NEW a \in Assemblers, NEW hasCode
  PROVE  /\ Advanced(a, hasCode) \in Assemblers
         /\ Advanced(a, hasCode).assemblerPass = a.assemblerPass
         /\ Advanced(a, hasCode).programCounter =
              IF hasCode THEN Bits16(a.programCounter + 1) ELSE a.programCounter
<1> DEFINE pc == IF hasCode THEN Bits16(a.programCounter + 1) ELSE a.programCounter
           b == Advanced(a, hasCode)
<1>1. a.programCounter \in Short
  BY Zenon DEF Assemblers
<1>2. pc \in Short
  <2>1. a.programCounter + 1 \in Int
    BY <1>1 DEF Short
  <2> QED
    BY <1>1, <2>1, Bits16Type
<1>3. b = [a EXCEPT !.programCounter = pc]
  BY Zenon DEF Advanced
<1> HIDE DEF pc, b
<1>4. b \in Assemblers /\ b.assemblerPass = a.assemblerPass /\ b.programCounter = pc
  BY <1>2, <1>3, Zenon DEF Assemblers
<1> QED
  BY <1>4 DEF b, pc

(* The line that is assembled, with its address and its word.              *)
LEMMA LineIs ==
  ASSUME Assembling, NEW prefix, NEW code, PrefixAt(program, assembler, first, prefix), prefix.end = "value",
         CodeAt(program, prefix.first, code), first \in 1 .. Len(program), Line(prefix, code)
  PROVE  /\ Assembling'
         /\ assembler'.assemblerPass = assembler.assemblerPass
         /\ UNCHANGED <<status, program, labels>>
         /\ prefix.a.programCounter \in Short
         /\ code.left # Unset =>
              [address |-> prefix.a.programCounter, word |-> code.left, operand |-> code.operand,
               line |-> first] \in Entries
<1>1. /\ Readable(program) /\ assembler \in Assemblers /\ first \in Nat
      /\ prefix.a \in Assemblers /\ prefix.a.assemblerPass = assembler.assemblerPass
      /\ prefix.first \in 1 .. Len(program)
  BY Zenon DEF Assembling, PrefixAt
<1>2. /\ code.end = "value" /\ code.first \in prefix.first .. Len(program)
      /\ code.left \in Word \cup {Unset}
      /\ code.operand # Unset => code.left \in Word /\ Meant(code.left, code.operand)
  BY Zenon DEF Line, CodeAt
<1>3. /\ assembler' = Advanced(prefix.a, code.left # Unset)
      /\ first' = EndOfLineAfter(program, code.first) + 1
      /\ UNCHANGED <<status, program, labels>>
  BY Zenon DEF Line
<1>4. assembler' \in Assemblers /\ assembler'.assemblerPass = assembler.assemblerPass
  BY <1>1, <1>3, AdvancedType
<1>5. first' \in Nat \ {0} /\ first' <= Len(program) + 1
  <2>1. Len(program) \in Nat
    BY <1>1, Zenon DEF Readable
  <2>2. code.first \in 1 .. Len(program)
    BY <1>1, <1>2, <2>1, Ahead, Zenon
  <2>3. EndOfLineAfter(program, code.first) \in code.first .. Len(program)
    BY <1>1, <2>2, EndOfLineIs
  <2>4. \A at \in 1 .. Len(program) : \A n \in at .. Len(program) :
          n + 1 \in Nat \ {0} /\ n + 1 <= Len(program) + 1
    BY <2>1
  <2> QED
    BY <1>3, <2>2, <2>3, <2>4, Zenon
<1>6. Assembling'
  BY <1>1, <1>3, <1>4, <1>5, Zenon DEF Assembling
<1>7. prefix.a.programCounter \in Short
  BY <1>1, Zenon DEF Assemblers
<1>8. ASSUME code.left # Unset
      PROVE  [address |-> prefix.a.programCounter, word |-> code.left, operand |-> code.operand,
              line |-> first] \in Entries
  <2>1. code.left \in Word
    BY <1>2, <1>8
  <2>2. code.operand \in Word \cup {Unset}
    BY <1>2, Zenon DEF Meant
  <2> DEFINE e == [address |-> prefix.a.programCounter, word |-> code.left, operand |-> code.operand,
                   line |-> first]
  <2>3. e.operand = code.operand /\ e.word = code.left
    BY Zenon
  <2>4. e \in [address : Short, word : Word, operand : Word \cup {Unset}, line : Nat]
    BY <1>1, <1>7, <2>1, <2>2, Zenon
  <2> HIDE DEF e
  <2>5. e \in Entries
    BY <1>2, <2>3, <2>4, Zenon DEF Entries
  <2> QED
    BY <2>5, Zenon DEF e
<1> QED
  BY <1>3, <1>4, <1>6, <1>7, <1>8, Zenon

-----------------------------------------------------------------------------
(* The end of a pass.                                                      *)
LEMMA PassEnds ==
  ASSUME Assembling, pass2
  PROVE  /\ Assembling' /\ first' = 1 /\ status' = "assembling"
         /\ assembler'.programCounter = assembler.programCounter
         /\ assembler.assemblerPass = 1 /\ assembler'.assemblerPass = 2
         /\ UNCHANGED <<program, tape, listing>>
<1>1. /\ status = "assembling" /\ assembler.assemblerPass = 1 /\ first' = 1
      /\ assembler' = [assembler EXCEPT !.assemblerPass = 2]
      /\ UNCHANGED <<program, status, tape, listing>>
  BY Zenon DEF pass2
<1>2. Readable(program) /\ assembler \in Assemblers
  BY Zenon DEF Assembling
<1>3. assembler' \in Assemblers /\ assembler'.assemblerPass = 2
      /\ assembler'.programCounter = assembler.programCounter
  BY <1>1, <1>2, Zenon DEF Assemblers
<1>4. first' \in Nat \ {0} /\ first' <= Len(program) + 1
  <2>1. Len(program) \in Nat \ {0}
    BY <1>2, Zenon DEF Readable
  <2> QED
    BY <1>1, <2>1
<1>5. Assembling'
  BY <1>1, <1>2, <1>3, <1>4, Zenon DEF Assembling
<1> QED
  BY <1>1, <1>3, <1>5, Zenon

(* A step that leaves program, assembler and first alone.                  *)
LEMMA StillAssembling ==
  ASSUME Assembling, UNCHANGED <<program, assembler, first>>
  PROVE  Assembling'
BY Zenon DEF Assembling

(* The assembler hangs or ends the program only on an expression without a *)
(* value where one must be, or with a . to the right of an operator.       *)
THEOREM HangsOnMalformedLines == Spec => []HangsOnlyWhenMalformed
<1> DEFINE Inv == Assembling /\ HangsOnlyWhenMalformed
<1>1. Init => Inv
  <2>1. Init => status = "assembling"
    BY Zenon DEF Init
  <2> QED
    BY <2>1, InitAssembling, Zenon DEF HangsOnlyWhenMalformed
<1>2. Inv /\ [Next]_vars => Inv'
  <2> SUFFICES ASSUME Inv, [Next]_vars PROVE Inv'
    OBVIOUS
  <2>1. ASSUME NEW end, Stopped(end), end \in {"looping", "terminated"} => MalformedSomewhere(program)
        PROVE  Inv'
    <3>1. UNCHANGED <<program, assembler, first>> /\ status' = end
      BY <2>1, Zenon DEF Stopped
    <3>2. HangsOnlyWhenMalformed'
      BY <2>1, <3>1, Zenon DEF HangsOnlyWhenMalformed, MalformedSomewhere
    <3> QED
      BY <3>1, <3>2, StillAssembling, Zenon
  <2>2. ASSUME parseLine PROVE Inv'
    <3> DEFINE prefix == Prefix(program, assembler, first)
               code == Code(program, prefix.a, prefix.first)
    <3>1. /\ status = "assembling" /\ first \in 1 .. Len(program)
          /\ PrefixAt(program, assembler, first, prefix)
          /\ prefix.end = "value" => CodeAt(program, prefix.first, code)
          /\ \/ Stopped(prefix.end)
             \/ /\ prefix.end = "value"
                /\ Stopped(code.end) \/ Line(prefix, code)
      BY <2>2, LineParsed
    <3> HIDE DEF prefix, code
    <3>2. CASE Stopped(prefix.end)
      BY <2>1, <3>1, <3>2, Zenon DEF PrefixAt
    <3>3. CASE prefix.end = "value" /\ Stopped(code.end)
      BY <2>1, <3>1, <3>3, Zenon DEF CodeAt
    <3>4. CASE prefix.end = "value" /\ Line(prefix, code)
      <4>1. Assembling' /\ status' = status
        BY <3>1, <3>4, LineIs, Zenon
      <4> QED
        BY <3>1, <4>1, Zenon DEF HangsOnlyWhenMalformed
    <3> QED
      BY <3>1, <3>2, <3>3, <3>4, Zenon
  <2>3. CASE pass2
    BY <2>3, PassEnds, Zenon DEF HangsOnlyWhenMalformed
  <2>4. CASE finish
    <3>1. UNCHANGED <<program, assembler, first>> /\ status' = "done"
      BY <2>4, Zenon DEF finish
    <3> QED
      BY <3>1, StillAssembling, Zenon DEF HangsOnlyWhenMalformed
  <2>5. CASE UNCHANGED vars
    <3>1. UNCHANGED <<program, assembler, first, status>>
      BY <2>5, Zenon DEF vars
    <3> QED
      BY <3>1, StillAssembling, Zenon DEF HangsOnlyWhenMalformed
  <2> QED
    BY <2>2, <2>3, <2>4, <2>5, Zenon DEF Next
<1>3. Inv => HangsOnlyWhenMalformed
  OBVIOUS
<1> QED
  BY <1>1, <1>2, <1>3, PTL DEF Spec

-----------------------------------------------------------------------------
(* The listing: a line that is assembled in the second pass adds its entry *)
(* or, without a word, nothing.                                            *)
Listing == Assembling /\ listing \in Seq(Entries)

Entry(prefix, code) ==
  [address |-> prefix.a.programCounter, word |-> code.left, operand |-> code.operand, line |-> first]

LEMMA LineListed ==
  ASSUME Listing, NEW prefix, NEW code, PrefixAt(program, assembler, first, prefix), prefix.end = "value",
         CodeAt(program, prefix.first, code), first \in 1 .. Len(program), Line(prefix, code)
  PROVE  /\ Listing'
         /\ assembler.assemblerPass = 1 => UNCHANGED <<tape, listing>>
         /\ assembler.assemblerPass # 1 =>
              /\ tape' = tape \o Written(program[first].tokenClass = "LOCATION", prefix.a.programCounter, code.left)
              /\ listing' = IF code.left # Unset THEN Append(listing, Entry(prefix, code)) ELSE listing
<1>1. /\ Assembling' /\ (code.left # Unset => Entry(prefix, code) \in Entries)
  BY LineIs, Zenon DEF Listing, Entry
<1>2. prefix.a.assemblerPass = assembler.assemblerPass
  BY Zenon DEF PrefixAt
<1>3. /\ assembler.assemblerPass = 1 => UNCHANGED <<tape, listing>>
      /\ assembler.assemblerPass # 1 =>
           /\ tape' = tape \o Written(program[first].tokenClass = "LOCATION", prefix.a.programCounter, code.left)
           /\ listing' = IF code.left # Unset THEN Append(listing, Entry(prefix, code)) ELSE listing
  BY <1>2, Zenon DEF Line, Entry
<1>4. listing' \in Seq(Entries)
  <2>1. listing \in Seq(Entries)
    BY Zenon DEF Listing
  <2>2. \A e \in Entries : Append(listing, e) \in Seq(Entries)
    BY <2>1
  <2> QED
    BY <1>1, <1>3, <2>1, <2>2, Zenon
<1> QED
  BY <1>1, <1>3, <1>4, Zenon DEF Listing

LEMMA ListingRight == Spec => []Listing
<1>1. Init => Listing
  <2>1. Init => listing = <<>>
    BY Zenon DEF Init
  <2>2. <<>> \in Seq(Entries)
    OBVIOUS
  <2> QED
    BY <2>1, <2>2, InitAssembling, Zenon DEF Listing
<1>2. Listing /\ [Next]_vars => Listing'
  <2> SUFFICES ASSUME Listing, [Next]_vars PROVE Listing'
    OBVIOUS
  <2>1. ASSUME UNCHANGED <<program, assembler, first, listing>> PROVE Listing'
    BY <2>1, StillAssembling, Zenon DEF Listing
  <2>2. ASSUME parseLine PROVE Listing'
    <3> DEFINE prefix == Prefix(program, assembler, first)
               code == Code(program, prefix.a, prefix.first)
    <3>1. /\ first \in 1 .. Len(program)
          /\ PrefixAt(program, assembler, first, prefix)
          /\ prefix.end = "value" => CodeAt(program, prefix.first, code)
          /\ \/ Stopped(prefix.end)
             \/ /\ prefix.end = "value"
                /\ Stopped(code.end) \/ Line(prefix, code)
      BY <2>2, LineParsed DEF Listing
    <3> HIDE DEF prefix, code
    <3>2. CASE Stopped(prefix.end) \/ Stopped(code.end)
      BY <2>1, <3>2, Zenon DEF Stopped
    <3>3. CASE prefix.end = "value" /\ Line(prefix, code)
      BY <3>1, <3>3, LineListed, Zenon
    <3> QED
      BY <3>1, <3>2, <3>3, Zenon
  <2>3. CASE pass2
    BY <2>3, PassEnds, Zenon DEF Listing
  <2>4. CASE finish
    BY <2>1, <2>4, Zenon DEF finish
  <2>5. CASE UNCHANGED vars
    BY <2>1, <2>5, Zenon DEF vars
  <2> QED
    BY <2>2, <2>3, <2>4, <2>5, Zenon DEF Next
<1> QED
  BY <1>1, <1>2, PTL DEF Spec

(* What is meant of an operand is what ImmediateAddress computes.          *)
LEMMA MeantIsReferred ==
  ASSUME NEW word \in Word, NEW operand \in Word, Meant(word, operand), NEW address \in Short,
         IsMemoryInstruction(word), operand \div \o200 \in {0, ToWord(address) \div \o200}
  PROVE  ImmediateAddress(ToWord(address), word) = operand
<1> DEFINE at == ToWord(address)
<1>1. word \in Nat /\ operand \in Nat /\ at \in Nat
  BY WordIsNat, ShortToWord
<1>2. word < 3072
  <2>1. word < 4096
    BY DEF Word
  <2> QED
    BY <1>1, <2>1 DEF IsMemoryInstruction, OpCode, IOT, OPR
<1>3. Address(word) = operand % 128 /\ (ZeroPage(word) <=> operand <= 127)
  BY <1>2 DEF Meant
<1>4. operand \div 128 \in {0, at \div 128}
  OBVIOUS
<1> HIDE DEF at
<1>5. ASSUME operand <= 127 PROVE ImmediateAddress(at, word) = operand
  BY <1>1, <1>3, <1>5 DEF ImmediateAddress
<1>6. ASSUME ~(operand <= 127) PROVE ImmediateAddress(at, word) = operand
  <2>1. operand \div 128 = at \div 128
    BY <1>1, <1>4, <1>6
  <2>2. (operand % 128) + (at - (at % 128)) = operand
    BY <1>1, <2>1
  <2>3. ImmediateAddress(at, word) = (operand % 128) + (at - (at % 128))
    BY <1>1, <1>3, <1>6 DEF ImmediateAddress
  <2> QED
    BY <2>2, <2>3
<1>7. ImmediateAddress(at, word) = operand
  BY <1>5, <1>6
<1> QED
  BY <1>7 DEF at

(* The operand of a listed memory instruction, on page zero or on the page *)
(* of the instruction, is the address the CPU will make of its word.       *)
THEOREM OperandsAreMeant == Spec => []OperandsMeant
<1>1. Listing => OperandsMeant
  <2> SUFFICES ASSUME Listing, NEW entry \in MemoryReferences, OnPage(entry)
               PROVE  ImmediateAddress(ToWord(entry.address), entry.word) = entry.operand
    BY Zenon DEF OperandsMeant
  <2>1. PICK n \in DOMAIN listing :
          /\ entry = listing[n] /\ listing[n].operand # Unset /\ IsMemoryInstruction(listing[n].word)
    BY Zenon DEF MemoryReferences
  <2>2. entry \in Entries
    <3>1. listing \in Seq(Entries)
      BY Zenon DEF Listing
    <3>2. listing[n] \in Entries
      BY <3>1
    <3> QED
      BY <2>1, <3>2, Zenon
  <2>3. /\ entry.word \in Word /\ entry.operand \in Word /\ entry.address \in Short
        /\ Meant(entry.word, entry.operand)
    BY <2>1, <2>2, Zenon DEF Entries
  <2>4. entry.operand \div \o200 \in {0, ToWord(entry.address) \div \o200}
    BY DEF OnPage
  <2>5. IsMemoryInstruction(entry.word)
    BY <2>1, Zenon
  <2> QED
    BY <2>3, <2>4, <2>5, MeantIsReferred
<1> QED
  BY <1>1, ListingRight, PTL

-----------------------------------------------------------------------------
(* The tape.  Of the words with a key, the last one with each.             *)
LastOf(S, key, val) == [x \in {key[n] : n \in S} |-> val[Max({n \in S : key[n] = x})]]

Extended(f, x, v) == [y \in DOMAIN f \cup {x} |-> IF y = x THEN v ELSE f[y]]

LEMMA MaxIs ==
  ASSUME NEW S \in SUBSET Nat, NEW m \in S, \A n \in S : n <= m
  PROVE  Max(S) = m
<1>1. S \subseteq Int /\ S # {} /\ m \in Int
  OBVIOUS
<1>2. Max(S) \in S /\ m <= Max(S)
  BY <1>1, MaxIsMember
<1>3. Max(S) <= m /\ Max(S) \in Int
  BY <1>1, <1>2, Zenon
<1> QED
  BY <1>1, <1>2, <1>3

LEMMA MaxOfSome ==
  ASSUME NEW N \in Nat, NEW T, T \subseteq 1 .. N, T # {}
  PROVE  Max(T) \in T
<1>1. T \subseteq Int /\ N \in Int /\ \A n \in T : n <= N
  OBVIOUS
<1> QED
  BY <1>1, MaxIsMember

LEMMA LastSame ==
  ASSUME NEW N \in Nat, NEW S, S \subseteq 1 .. N, NEW key, NEW val, NEW key2, NEW val2,
         \A n \in S : key2[n] = key[n] /\ val2[n] = val[n]
  PROVE  LastOf(S, key2, val2) = LastOf(S, key, val)
<1>1. {key2[n] : n \in S} = {key[n] : n \in S}
  BY Zenon
<1>2. ASSUME NEW x \in {key[n] : n \in S}
      PROVE  val2[Max({n \in S : key2[n] = x})] = val[Max({n \in S : key[n] = x})]
  <2> DEFINE T == {n \in S : key[n] = x}
  <2>1. {n \in S : key2[n] = x} = T
    BY Zenon
  <2>2. Max(T) \in T
    <3>1. PICK n \in S : x = key[n]
      OBVIOUS
    <3>2. n \in T
      BY <3>1
    <3>3. T \subseteq S
      OBVIOUS
    <3> HIDE DEF T
    <3>4. T \subseteq 1 .. N /\ T # {}
      BY <3>2, <3>3, Zenon
    <3> QED
      BY <3>4, MaxOfSome, Zenon
  <2>3. Max(T) \in S
    BY <2>2
  <2> HIDE DEF T
  <2> QED
    BY <2>1, <2>3, Zenon DEF T
<1> QED
  BY <1>1, <1>2, Zenon DEF LastOf

(* A number M beyond those of S, and words that go on from other words.    *)
GoesOn(S, M, key, val, key2, val2) ==
  /\ M \in Nat /\ \E N \in Nat : N < M /\ S \subseteq 1 .. N
  /\ \A n \in S : key2[n] = key[n] /\ val2[n] = val[n]

LEMMA LastExtended ==
  ASSUME NEW S, NEW M, NEW key, NEW val, NEW key2, NEW val2, GoesOn(S, M, key, val, key2, val2)
  PROVE  LastOf(S \cup {M}, key2, val2) = Extended(LastOf(S, key, val), key2[M], val2[M])
<1>1. PICK N \in Nat : N < M /\ S \subseteq 1 .. N
  BY Zenon DEF GoesOn
<1>2. M \in Nat /\ \A n \in S : key2[n] = key[n] /\ val2[n] = val[n]
  BY Zenon DEF GoesOn
<1> DEFINE old == LastOf(S, key, val)
           new == LastOf(S \cup {M}, key2, val2)
<1>3. M \notin S /\ \A n \in S : n \in Nat /\ n <= M
  BY <1>1, <1>2
<1>4. DOMAIN old = {key[n] : n \in S} /\ DOMAIN new = {key2[n] : n \in S \cup {M}}
  BY Zenon DEF LastOf
<1>5. {key2[n] : n \in S \cup {M}} = {key[n] : n \in S} \cup {key2[M]}
  <2>1. \A x \in {key2[n] : n \in S \cup {M}} : x \in {key[n] : n \in S} \cup {key2[M]}
    <3> SUFFICES ASSUME NEW n \in S \cup {M} PROVE key2[n] \in {key[k] : k \in S} \cup {key2[M]}
      BY Zenon
    <3> QED
      BY <1>2, Zenon
  <2>2. \A x \in {key[n] : n \in S} \cup {key2[M]} : x \in {key2[n] : n \in S \cup {M}}
    <3>1. \A n \in S : key[n] \in {key2[k] : k \in S \cup {M}}
      BY <1>2, Zenon
    <3>2. key2[M] \in {key2[k] : k \in S \cup {M}}
      BY Zenon
    <3> QED
      BY <3>1, <3>2, Zenon
  <2> QED
    BY <2>1, <2>2, Zenon
<1>6. ASSUME NEW x \in DOMAIN old \cup {key2[M]}
      PROVE  new[x] = IF x = key2[M] THEN val2[M] ELSE old[x]
  <2> DEFINE T == {n \in S \cup {M} : key2[n] = x}
  <2>1. new[x] = val2[Max(T)]
    BY <1>4, <1>5, Zenon DEF LastOf
  <2>2. CASE x = key2[M]
    <3>1. T \subseteq S \cup {M} /\ M \in T
      BY <2>2
    <3>2. \A n \in S \cup {M} : n \in Nat /\ n <= M
      BY <1>2, <1>3
    <3> HIDE DEF T
    <3>3. T \in SUBSET Nat /\ \A n \in T : n <= M
      BY <3>1, <3>2, Zenon
    <3>4. Max(T) = M
      BY <3>1, <3>3, MaxIs
    <3> QED
      BY <2>1, <2>2, <3>4, Zenon
  <2>3. CASE x # key2[M]
    <3>1. T = {n \in S : key[n] = x}
      BY <1>2, <2>3, Zenon
    <3>2. x \in DOMAIN old
      BY <2>3, Zenon
    <3>3. old[x] = val[Max(T)]
      BY <1>4, <3>1, <3>2, Zenon DEF LastOf
    <3>4. Max(T) \in T
      <4>1. PICK n \in S : x = key[n]
        BY <1>4, <3>2, Zenon
      <4>2. n \in T /\ T \subseteq S
        BY <3>1, <4>1, Zenon
      <4> HIDE DEF T
      <4>3. T \subseteq 1 .. N /\ T # {}
        BY <1>1, <4>2, Zenon
      <4> QED
        BY <4>3, MaxOfSome, Zenon
    <3>5. Max(T) \in S
      BY <3>1, <3>4, Zenon
    <3> HIDE DEF T
    <3> QED
      BY <1>2, <2>1, <2>3, <3>3, <3>5, Zenon
  <2> QED
    BY <2>2, <2>3
<1>7. DOMAIN new = DOMAIN old \cup {key2[M]}
  BY <1>4, <1>5, Zenon
<1>8. new = [x \in DOMAIN new |-> new[x]]
  BY Zenon DEF LastOf
<1> HIDE DEF old, new
<1>9. new = [x \in DOMAIN old \cup {key2[M]} |-> IF x = key2[M] THEN val2[M] ELSE old[x]]
  BY <1>6, <1>7, <1>8, Zenon
<1> QED
  BY <1>9, Zenon DEF Extended, old, new

-----------------------------------------------------------------------------
(* What is loaded, from the words of the tape.                             *)
Words(bytes) == [n \in 1 .. Len(bytes) \div 2 |-> (bytes[2 * n - 1] % 128) * 64 + (bytes[2 * n] % 64)]

Marked(x)       == x >= \o10000
Origins(w)      == {n \in DOMAIN w : Marked(w[n])}
OriginOf(w, n)  == Max({m \in Origins(w) : m <= n})
AddressOf(w, n) == ToWord(w[OriginOf(w, n)] + n - OriginOf(w, n) - 1)
DataOf(w)       == {n \in DOMAIN w \ Origins(w) : \E m \in Origins(w) : m <= n}
Addresses(w)    == [n \in DOMAIN w |-> AddressOf(w, n)]
CoreOf(w)       == LastOf(DataOf(w), Addresses(w), w)
CounterOf(w)    == IF Origins(w) = {} THEN 0 ELSE ToWord(AddressOf(w, Len(w)) + 1)

LEMMA LoadedIs ==
  ASSUME NEW bytes
  PROVE  readBinaryFormat(bytes) =
           [core |-> CoreOf(Words(bytes)), programCounter |-> CounterOf(Words(bytes))]
<1> DEFINE word == [n \in 1 .. Len(bytes) \div 2 |-> (bytes[2 * n - 1] % 128) * 64 + (bytes[2 * n] % 64)]
           origins == {n \in DOMAIN word : word[n] >= \o10000}
           origin(n)  == Max({m \in origins : m <= n})
           address(n) == ToWord(word[origin(n)] + n - origin(n) - 1)
           data == {n \in DOMAIN word \ origins : \E m \in origins : m <= n}
           core == [x \in {address(n) : n \in data} |-> word[Max({n \in data : address(n) = x})]]
           w == Words(bytes)
<1>1. readBinaryFormat(bytes) =
        [core |-> core, programCounter |-> IF origins = {} THEN 0 ELSE ToWord(address(Len(word)) + 1)]
  BY DEF readBinaryFormat
<1>2. word = w
  BY DEF Words
<1> HIDE DEF word, w
<1>3. origins = Origins(w)
  BY <1>2 DEF Origins, Marked
<1> HIDE DEF origins
<1>4. \A n : origin(n) = OriginOf(w, n)
  BY <1>3, Zenon DEF OriginOf
<1> HIDE DEF origin
<1>5. \A n : address(n) = AddressOf(w, n)
  BY <1>2, <1>4, Zenon DEF AddressOf
<1> HIDE DEF address
<1>6. data = DataOf(w) /\ \A n \in DataOf(w) : Addresses(w)[n] = address(n)
  BY <1>2, <1>3, <1>5, Zenon DEF DataOf, Addresses
<1> HIDE DEF data
<1>7. {address(n) : n \in data} = {Addresses(w)[n] : n \in DataOf(w)}
  BY <1>6, Zenon
<1>8. \A x : {n \in data : address(n) = x} = {n \in DataOf(w) : Addresses(w)[n] = x}
  BY <1>6, Zenon
<1>9. core = CoreOf(w)
  BY <1>2, <1>7, <1>8, Zenon DEF CoreOf, LastOf
<1> HIDE DEF core
<1>10. (IF origins = {} THEN 0 ELSE ToWord(address(Len(word)) + 1)) = CounterOf(w)
  BY <1>2, <1>3, <1>5, Zenon DEF CounterOf
<1> QED
  BY <1>1, <1>9, <1>10, Zenon DEF w

(* One more word leaves those before it what they are.                     *)
LEMMA WordsBefore ==
  ASSUME NEW w \in Seq(Nat), NEW x \in Nat
  PROVE  LET v == Append(w, x)
         IN  /\ Origins(v) = Origins(w) \cup (IF Marked(x) THEN {Len(w) + 1} ELSE {})
             /\ DataOf(w) \subseteq 1 .. Len(w)
             /\ \A n \in DataOf(w) : n \in DataOf(v) /\ Addresses(v)[n] = Addresses(w)[n] /\ v[n] = w[n]
             /\ \A n \in DataOf(v) : n # Len(w) + 1 => n \in DataOf(w)
<1> DEFINE v == Append(w, x)
           N == Len(w)
<1>1. /\ N \in Nat /\ DOMAIN w = 1 .. N /\ DOMAIN v = 1 .. N + 1 /\ v[N + 1] = x
      /\ \A n \in 1 .. N : v[n] = w[n] /\ n \in 1 .. N + 1
  OBVIOUS
<1> HIDE DEF v, N
<1>2. Origins(v) = Origins(w) \cup (IF Marked(x) THEN {N + 1} ELSE {})
  BY <1>1 DEF Origins
<1>3. Origins(w) \subseteq 1 .. N /\ Origins(w) \subseteq Origins(v) /\ Origins(v) \subseteq Origins(w) \cup {N + 1}
  BY <1>1, <1>2 DEF Origins
<1>4. DataOf(w) \subseteq 1 .. N
  BY <1>1 DEF DataOf
<1>5. ASSUME NEW n \in DataOf(w)
      PROVE  n \in DataOf(v) /\ Addresses(v)[n] = Addresses(w)[n] /\ v[n] = w[n]
  <2>1. n \in 1 .. N /\ n \in Nat /\ n # N + 1 /\ ~(N + 1 <= n)
    BY <1>1, <1>4
  <2>2. n \in DataOf(v)
    <3>1. n \notin Origins(w) /\ \E m \in Origins(w) : m <= n
      BY Zenon DEF DataOf
    <3>2. n \in DOMAIN v /\ n \notin Origins(v) /\ \E m \in Origins(v) : m <= n
      BY <1>1, <1>3, <2>1, <3>1, Zenon
    <3> QED
      BY <3>2, Zenon DEF DataOf
  <2>3. {m \in Origins(v) : m <= n} = {m \in Origins(w) : m <= n}
    BY <1>3, <2>1, Zenon
  <2>4. OriginOf(w, n) \in 1 .. N
    <3> DEFINE T == {m \in Origins(w) : m <= n}
    <3>1. PICK m \in Origins(w) : m <= n
      BY Zenon DEF DataOf
    <3>2. T \subseteq 1 .. N /\ T # {}
      BY <1>3, <3>1, Zenon
    <3> HIDE DEF T
    <3>3. Max(T) \in 1 .. N
      BY <1>1, <3>2, MaxOfSome, Zenon
    <3> QED
      BY <3>3, Zenon DEF OriginOf, T
  <2>5. OriginOf(v, n) = OriginOf(w, n)
    BY <2>3, Zenon DEF OriginOf
  <2>6. AddressOf(v, n) = AddressOf(w, n)
    BY <1>1, <2>4, <2>5, Zenon DEF AddressOf
  <2> QED
    BY <1>1, <2>1, <2>2, <2>6, Zenon DEF Addresses
<1>6. ASSUME NEW n \in DataOf(v), n # N + 1 PROVE n \in DataOf(w)
  <2>1. n \in 1 .. N /\ ~(N + 1 <= n)
    <3>1. n \in 1 .. N + 1
      BY <1>1 DEF DataOf
    <3> QED
      BY <1>1, <1>6, <3>1
  <2>2. n \notin Origins(v) /\ \E m \in Origins(v) : m <= n
    BY Zenon DEF DataOf
  <2>3. n \in DOMAIN w /\ n \notin Origins(w) /\ \E m \in Origins(w) : m <= n
    BY <1>1, <1>3, <2>1, <2>2, Zenon
  <2> QED
    BY <2>3, Zenon DEF DataOf
<1> QED
  BY <1>2, <1>4, <1>5, <1>6 DEF v, N

(* An origin is not loaded: it says where the next word goes.              *)
LEMMA OriginRead ==
  ASSUME NEW w \in Seq(Nat), NEW x \in Nat, Marked(x)
  PROVE  CoreOf(Append(w, x)) = CoreOf(w) /\ CounterOf(Append(w, x)) = ToWord(x)
<1> DEFINE v == Append(w, x)
           N == Len(w)
<1>1. /\ N \in Nat /\ N + 1 \in Nat /\ Len(v) = N + 1 /\ DOMAIN v = 1 .. N + 1 /\ v[N + 1] = x
  OBVIOUS
<1>2. /\ N + 1 \in Origins(v)
      /\ DataOf(w) \subseteq 1 .. N
      /\ \A n \in DataOf(w) : n \in DataOf(v) /\ Addresses(v)[n] = Addresses(w)[n] /\ v[n] = w[n]
      /\ \A n \in DataOf(v) : n # N + 1 => n \in DataOf(w)
  BY WordsBefore
<1> HIDE DEF v, N
<1>3. DataOf(v) = DataOf(w)
  <2>1. N + 1 \notin DataOf(v)
    BY <1>2, Zenon DEF DataOf
  <2> QED
    BY <1>2, <2>1, Zenon
<1>4. CoreOf(v) = CoreOf(w)
  <2>1. DataOf(w) \subseteq 1 .. N /\ N \in Nat
    BY <1>1, <1>2, Zenon
  <2>2. \A n \in DataOf(w) : Addresses(v)[n] = Addresses(w)[n] /\ v[n] = w[n]
    BY <1>2, Zenon
  <2>3. LastOf(DataOf(w), Addresses(v), v) = LastOf(DataOf(w), Addresses(w), w)
    BY <2>1, <2>2, LastSame
  <2> QED
    BY <1>3, <2>3, Zenon DEF CoreOf
<1>5. OriginOf(v, N + 1) = N + 1
  <2> DEFINE T == {m \in Origins(v) : m <= N + 1}
  <2>1. T \in SUBSET Nat /\ N + 1 \in T /\ \A m \in T : m <= N + 1
    BY <1>1, <1>2 DEF Origins
  <2> HIDE DEF T
  <2>2. Max(T) = N + 1
    BY <2>1, MaxIs
  <2> QED
    BY <2>2, Zenon DEF OriginOf, T
<1>6. CounterOf(v) = ToWord(x)
  <2>1. CounterOf(v) = ToWord(AddressOf(v, N + 1) + 1)
    BY <1>1, <1>2, Zenon DEF CounterOf
  <2>2. AddressOf(v, N + 1) = ToWord(x + (N + 1) - (N + 1) - 1)
    BY <1>1, <1>5, Zenon DEF AddressOf
  <2>3. ToWord(ToWord(x + (N + 1) - (N + 1) - 1) + 1) = ToWord(x)
    BY <1>1 DEF ToWord, WordSize
  <2> QED
    BY <2>1, <2>2, <2>3, Zenon
<1> QED
  BY <1>4, <1>6 DEF v

(* A word after an origin is loaded there.                                 *)
LEMMA DataRead ==
  ASSUME NEW w \in Seq(Nat), w # <<>>, NEW x \in Nat, ~Marked(x), Marked(w[Len(w)])
  PROVE  LET address == w[Len(w)]
         IN  /\ CoreOf(Append(w, x)) = Extended(CoreOf(w), ToWord(address), x)
             /\ CounterOf(Append(w, x)) = ToWord(address + 1)
<1> DEFINE v == Append(w, x)
           N == Len(w)
           o == w[Len(w)]
<1>1. /\ N \in Nat \ {0} /\ N + 1 \in Nat /\ N + 1 > N /\ Len(v) = N + 1 /\ DOMAIN v = 1 .. N + 1
      /\ v[N + 1] = x /\ v[N] = o /\ o \in Nat /\ DOMAIN w = 1 .. N
  BY LenProperties, EmptySeq
<1>2. /\ Origins(v) = Origins(w) \cup (IF Marked(x) THEN {N + 1} ELSE {})
      /\ DataOf(w) \subseteq 1 .. N
      /\ \A n \in DataOf(w) : n \in DataOf(v) /\ Addresses(v)[n] = Addresses(w)[n] /\ v[n] = w[n]
      /\ \A n \in DataOf(v) : n # N + 1 => n \in DataOf(w)
  BY WordsBefore
<1> HIDE DEF v
<1>3. Origins(v) = Origins(w)
  BY <1>2
<1>4. N \in 1 .. N /\ Marked(w[N])
  BY <1>1
<1> HIDE DEF N, o
<1>5. N \in Origins(w) /\ Origins(w) \subseteq 1 .. N
  BY <1>1, <1>4, Zenon DEF Origins
<1>6. DataOf(v) = DataOf(w) \cup {N + 1}
  <2>1. N + 1 \notin Origins(v) /\ N <= N + 1 /\ N + 1 \in DOMAIN v
    BY <1>1, <1>2, <1>5
  <2>2. N + 1 \in DataOf(v)
    BY <1>2, <1>5, <2>1, Zenon DEF DataOf
  <2> QED
    BY <1>2, <2>2, Zenon
<1>7. OriginOf(v, N + 1) = N
  <2> DEFINE T == {m \in Origins(v) : m <= N + 1}
  <2>1. T \in SUBSET Nat /\ N \in T /\ \A m \in T : m <= N
    BY <1>1, <1>2, <1>5
  <2> HIDE DEF T
  <2>2. Max(T) = N
    BY <2>1, MaxIs
  <2> QED
    BY <2>2, Zenon DEF OriginOf, T
<1>8. AddressOf(v, N + 1) = ToWord(o)
  <2>1. AddressOf(v, N + 1) = ToWord(o + (N + 1) - N - 1)
    BY <1>1, <1>7, Zenon DEF AddressOf
  <2>2. o + (N + 1) - N - 1 = o
    BY <1>1
  <2> QED
    BY <2>1, <2>2, Zenon
<1>9. CoreOf(v) = Extended(CoreOf(w), ToWord(o), x)
  <2>1. DataOf(w) \subseteq 1 .. N /\ N \in Nat /\ N + 1 \in Nat /\ N + 1 > N /\ N + 1 \in DOMAIN v
    BY <1>1, <1>2
  <2>2. \A n \in DataOf(w) : Addresses(v)[n] = Addresses(w)[n] /\ v[n] = w[n]
    BY <1>2, Zenon
  <2>3. LastOf(DataOf(w) \cup {N + 1}, Addresses(v), v)
          = Extended(LastOf(DataOf(w), Addresses(w), w), Addresses(v)[N + 1], v[N + 1])
    <3>1. GoesOn(DataOf(w), N + 1, Addresses(w), w, Addresses(v), v)
      <4>1. N < N + 1
        BY <2>1
      <4> QED
        BY <2>1, <2>2, <4>1, Zenon DEF GoesOn
    <3> QED
      BY <3>1, LastExtended
  <2>4. Addresses(v)[N + 1] = ToWord(o)
    BY <1>8, <2>1, Zenon DEF Addresses
  <2> QED
    BY <1>1, <1>6, <2>3, <2>4, Zenon DEF CoreOf
<1>10. CounterOf(v) = ToWord(o + 1)
  <2>1. CounterOf(v) = ToWord(ToWord(o) + 1)
    BY <1>1, <1>2, <1>5, <1>8, Zenon DEF CounterOf
  <2>2. ToWord(ToWord(o) + 1) = ToWord(o + 1)
    BY <1>1 DEF ToWord, WordSize
  <2> QED
    BY <2>1, <2>2
<1> QED
  BY <1>9, <1>10 DEF v, o

(* Two more bytes are one more word.                                       *)
Pairs(bytes) == bytes \in Seq(Nat) /\ \E k \in Nat : Len(bytes) = 2 * k

LEMMA WordsAppended ==
  ASSUME NEW bytes, Pairs(bytes), NEW a \in Nat, NEW b \in Nat
  PROVE  /\ Pairs(bytes \o <<a, b>>) /\ Words(bytes) \in Seq(Nat)
         /\ Words(bytes \o <<a, b>>) = Append(Words(bytes), (a % 128) * 64 + (b % 64))
<1> DEFINE more == bytes \o <<a, b>>
           word(c, d) == (c % 128) * 64 + (d % 64)
<1>1. PICK k \in Nat : Len(bytes) = 2 * k
  BY DEF Pairs
<1>2. bytes \in Seq(Nat)
  BY DEF Pairs
<1>3. /\ more \in Seq(Nat) /\ Len(more) = 2 * (k + 1)
      /\ \A n \in 1 .. Len(bytes) : more[n] = bytes[n] /\ bytes[n] \in Nat
      /\ more[Len(bytes) + 1] = a /\ more[Len(bytes) + 2] = b
  BY <1>1, <1>2, SMTT(30)
<1>4. Pairs(more)
  <2>1. k + 1 \in Nat
    OBVIOUS
  <2> QED
    BY <1>3, <2>1, Zenon DEF Pairs
<1>5. Len(bytes) \div 2 = k /\ Len(more) \div 2 = k + 1
  BY <1>1, <1>3
<1> HIDE DEF more
<1>6. \A c \in Nat, d \in Nat : word(c, d) \in Nat
  OBVIOUS
<1>7. \A n \in 1 .. k : 2 * n - 1 \in 1 .. Len(bytes) /\ 2 * n \in 1 .. Len(bytes)
  BY <1>1
<1> HIDE DEF word
<1>8. /\ Words(bytes) = [n \in 1 .. k |-> word(bytes[2 * n - 1], bytes[2 * n])]
      /\ Words(more) = [n \in 1 .. k + 1 |-> word(more[2 * n - 1], more[2 * n])]
  BY <1>5 DEF Words, word
<1>9. Words(bytes) \in Seq(Nat) /\ Len(Words(bytes)) = k
  <2>1. \A n \in 1 .. k : word(bytes[2 * n - 1], bytes[2 * n]) \in Nat
    BY <1>3, <1>6, <1>7, Zenon
  <2> QED
    BY <1>8, <2>1
<1>10. \A n \in 1 .. k : Words(more)[n] = Words(bytes)[n]
  <2>1. \A n \in 1 .. k : n \in 1 .. k + 1
    OBVIOUS
  <2> QED
    BY <1>3, <1>7, <1>8, <2>1, Zenon
<1>11. Words(more)[k + 1] = word(a, b)
  <2>1. 2 * (k + 1) - 1 = Len(bytes) + 1 /\ 2 * (k + 1) = Len(bytes) + 2 /\ k + 1 \in 1 .. k + 1
    BY <1>1
  <2> QED
    BY <1>3, <1>8, <2>1, Zenon
<1>12. Words(more) = Append(Words(bytes), word(a, b))
  <2>1. Words(more) = [n \in 1 .. k + 1 |-> Words(more)[n]]
    BY <1>8, Zenon
  <2> DEFINE old == Words(bytes)
             new == Words(more)
  <2> HIDE DEF old, new
  <2>2. Append(old, word(a, b)) = [n \in 1 .. k + 1 |-> IF n <= k THEN old[n] ELSE word(a, b)]
    <3>1. old \in Seq(Nat) /\ Len(old) = k /\ word(a, b) \in Nat
      BY <1>6, <1>9 DEF old
    <3> DEFINE x == word(a, b)
    <3> HIDE DEF x
    <3>2. /\ Append(old, x) \in Seq(Nat) /\ Len(Append(old, x)) = k + 1
          /\ \A n \in 1 .. k + 1 : Append(old, x)[n] = IF n <= k THEN old[n] ELSE x
      BY <3>1, AppendProperties DEF x
    <3> DEFINE longer == Append(old, x)
    <3>3. longer \in [1 .. k + 1 -> Nat]
      BY <3>2, LenProperties
    <3> HIDE DEF longer
    <3>4. longer = [n \in 1 .. k + 1 |-> longer[n]]
      BY <3>3
    <3> QED
      BY <3>2, <3>4, Zenon DEF x, longer
  <2>3. \A n \in 1 .. k + 1 : new[n] = IF n <= k THEN old[n] ELSE word(a, b)
    <3>1. \A n \in 1 .. k + 1 : IF n <= k THEN n \in 1 .. k ELSE n = k + 1
      OBVIOUS
    <3> QED
      BY <1>10, <1>11, <3>1, Zenon DEF old, new
  <2>4. new = Append(old, word(a, b))
    BY <2>1, <2>2, <2>3, Zenon DEF new
  <2> QED
    BY <2>4 DEF old, new
<1> QED
  BY <1>4, <1>9, <1>12 DEF more, word

Mark(address) == \o10000 + ToWord(address)

LEMMA MarkIs ==
  ASSUME NEW address \in Short
  PROVE  /\ Mark(address) \in Nat /\ Marked(Mark(address))
         /\ ToWord(Mark(address)) = ToWord(address)
         /\ ToWord(Mark(address) + 1) = ToWord(address + 1)
BY DEF Mark, Marked, ToWord, WordSize, Short

(* The two bytes of an origin and the two bytes of a word.                 *)
LEMMA BytesOfOrigin ==
  ASSUME NEW address \in Short
  PROVE  \E a, b \in Nat : Origin(address) = <<a, b>> /\ (a % 128) * 64 + (b % 64) = Mark(address)
<1> DEFINE h == address \div 64
<1>1. address \in Nat /\ h \in Nat /\ address = 64 * h + (address % 64)
  BY DEF Short
<1>2. (64 + (h % 64)) % 128 = 64 + (h % 64)
  BY <1>1
<1>3. address % 4096 = 64 * (h % 64) + (address % 64)
  <2> DEFINE q == h \div 64
  <2>1. q \in Nat /\ h = 64 * q + (h % 64)
    BY <1>1
  <2>2. h % 64 \in 0 .. 63 /\ address % 64 \in 0 .. 63
    BY <1>1
  <2> HIDE DEF q, h
  <2>3. address = 4096 * q + (64 * (h % 64) + (address % 64))
    BY <1>1, <2>1
  <2> DEFINE r == 64 * (h % 64) + (address % 64)
  <2>4. r \in 0 .. 4095
    <3>1. \A i, j \in Nat : i <= 63 /\ j <= 63 => 64 * i + j \in Nat /\ 64 * i + j <= 4095
      OBVIOUS
    <3>2. h % 64 \in Nat /\ h % 64 <= 63 /\ address % 64 \in Nat /\ address % 64 <= 63
      BY <2>2
    <3>3. r \in Nat /\ r <= 4095
      BY <3>1, <3>2
    <3> HIDE DEF r
    <3> QED
      BY <3>3
  <2> HIDE DEF r
  <2> QED
    BY <1>1, <2>1, <2>3, <2>4 DEF r
<1>4. (address % 64) % 64 = address % 64
  BY <1>1
<1> HIDE DEF h
<1>5. ((64 + (h % 64)) % 128) * 64 + ((address % 64) % 64) = Mark(address)
  BY <1>1, <1>2, <1>3, <1>4 DEF Mark, ToWord, WordSize
<1>6. 64 + (h % 64) \in Nat /\ address % 64 \in Nat
  BY <1>1
<1>7. Origin(address) = <<64 + (h % 64), address % 64>>
  BY DEF Origin, h
<1> QED
  BY <1>5, <1>6, <1>7

LEMMA BytesOfData ==
  ASSUME NEW word \in Word
  PROVE  \E a, b \in Nat : Data(word) = <<a, b>> /\ (a % 128) * 64 + (b % 64) = word
<1> DEFINE h == word \div 64
<1>1. word \in Nat /\ h \in Nat /\ h < 64 /\ word = 64 * h + (word % 64)
  BY DEF Word
<1>2. h % 64 = h /\ h % 128 = h /\ (word % 64) % 64 = word % 64 /\ word % 64 \in Nat
  BY <1>1
<1>3. Data(word) = <<h % 64, word % 64>>
  BY DEF Data
<1> HIDE DEF h
<1> QED
  BY <1>1, <1>2, <1>3

LEMMA BytesAre ==
  /\ \A address \in Short : Origin(address) \in Seq(Nat)
  /\ \A word \in Word : Data(word) \in Seq(Nat)
<1>1. \A a, b \in Nat : <<a, b>> \in Seq(Nat)
  OBVIOUS
<1>2. ASSUME NEW address \in Short PROVE Origin(address) \in Seq(Nat)
  <2>1. PICK a, b \in Nat : Origin(address) = <<a, b>>
    BY BytesOfOrigin
  <2> QED
    BY <1>1, <2>1, Zenon
<1>3. ASSUME NEW word \in Word PROVE Data(word) \in Seq(Nat)
  <2>1. PICK a, b \in Nat : Data(word) = <<a, b>>
    BY BytesOfData
  <2> QED
    BY <1>1, <2>1, Zenon
<1> QED
  BY <1>2, <1>3, Zenon

LEMMA OriginLoaded ==
  ASSUME NEW bytes, Pairs(bytes), NEW address \in Short
  PROVE  LET more == bytes \o Origin(address)
         IN  /\ Pairs(more) /\ Words(bytes) \in Seq(Nat)
             /\ Words(more) = Append(Words(bytes), Mark(address))
             /\ readBinaryFormat(more).core = readBinaryFormat(bytes).core
             /\ readBinaryFormat(more).programCounter = ToWord(address)
<1>1. PICK a, b \in Nat : Origin(address) = <<a, b>> /\ (a % 128) * 64 + (b % 64) = Mark(address)
  BY BytesOfOrigin
<1> DEFINE more == bytes \o <<a, b>>
<1>2. /\ Pairs(more) /\ Words(bytes) \in Seq(Nat)
      /\ Words(more) = Append(Words(bytes), (a % 128) * 64 + (b % 64))
  BY WordsAppended
<1> HIDE DEF more
<1>3. Words(more) = Append(Words(bytes), Mark(address))
  BY <1>1, <1>2
<1>4. /\ readBinaryFormat(more).core = CoreOf(Words(more))
      /\ readBinaryFormat(more).programCounter = CounterOf(Words(more))
      /\ readBinaryFormat(bytes).core = CoreOf(Words(bytes))
  BY LoadedIs
<1>5. CoreOf(Words(more)) = CoreOf(Words(bytes)) /\ CounterOf(Words(more)) = ToWord(address)
  <2>1. Mark(address) \in Nat /\ Marked(Mark(address)) /\ ToWord(Mark(address)) = ToWord(address)
    BY MarkIs
  <2> DEFINE w == Words(bytes)
  <2> HIDE DEF w
  <2>2. w \in Seq(Nat)
    BY <1>2 DEF w
  <2>3. CoreOf(Append(w, Mark(address))) = CoreOf(w) /\ CounterOf(Append(w, Mark(address))) = ToWord(address)
    BY <2>1, <2>2, OriginRead, Zenon
  <2> QED
    BY <1>3, <2>3, Zenon DEF w
<1>6. bytes \o Origin(address) = more
  BY <1>1, Zenon DEF more
<1> QED
  BY <1>2, <1>3, <1>4, <1>5, <1>6, Zenon

LEMMA WordLoaded ==
  ASSUME NEW bytes, Pairs(bytes), NEW address \in Short, NEW word \in Word
  PROVE  LET more == (bytes \o Origin(address)) \o Data(word)
         IN  /\ Pairs(more)
             /\ readBinaryFormat(more).core = Extended(readBinaryFormat(bytes).core, ToWord(address), word)
             /\ readBinaryFormat(more).programCounter = ToWord(address + 1)
<1> DEFINE sited == bytes \o Origin(address)
           w == Words(bytes)
           v == Words(sited)
<1>1. /\ Pairs(sited) /\ w \in Seq(Nat) /\ v = Append(w, Mark(address))
      /\ readBinaryFormat(sited).core = readBinaryFormat(bytes).core
  BY OriginLoaded
<1> HIDE DEF sited, w, v
<1>2. PICK a, b \in Nat : Data(word) = <<a, b>> /\ (a % 128) * 64 + (b % 64) = word
  BY BytesOfData
<1> DEFINE more == sited \o <<a, b>>
<1>3. Pairs(more) /\ v \in Seq(Nat) /\ Words(more) = Append(v, (a % 128) * 64 + (b % 64))
  BY <1>1, WordsAppended DEF v
<1> HIDE DEF more
<1>4. Words(more) = Append(v, word)
  BY <1>2, <1>3
<1>5. /\ Mark(address) \in Nat /\ Marked(Mark(address)) /\ ToWord(Mark(address)) = ToWord(address)
      /\ ToWord(Mark(address) + 1) = ToWord(address + 1)
  BY MarkIs
<1>6. v # <<>> /\ v[Len(v)] = Mark(address)
  BY <1>1, <1>5
<1>7. word \in Nat /\ ~Marked(word)
  BY DEF Word, Marked
<1>8. /\ CoreOf(Append(v, word)) = Extended(CoreOf(v), ToWord(address), word)
      /\ CounterOf(Append(v, word)) = ToWord(address + 1)
  <2>1. Marked(v[Len(v)])
    BY <1>5, <1>6, Zenon
  <2>2. /\ CoreOf(Append(v, word)) = Extended(CoreOf(v), ToWord(v[Len(v)]), word)
        /\ CounterOf(Append(v, word)) = ToWord(v[Len(v)] + 1)
    BY <1>3, <1>6, <1>7, <2>1, DataRead
  <2> QED
    BY <1>5, <1>6, <2>2, Zenon
<1>9. /\ readBinaryFormat(more).core = CoreOf(Words(more))
      /\ readBinaryFormat(more).programCounter = CounterOf(Words(more))
      /\ readBinaryFormat(sited).core = CoreOf(v)
  BY LoadedIs DEF v
<1>10. (bytes \o Origin(address)) \o Data(word) = more
  BY <1>2, Zenon DEF more, sited
<1> QED
  BY <1>1, <1>3, <1>4, <1>8, <1>9, <1>10, Zenon

-----------------------------------------------------------------------------
(* The listing, as a memory.                                               *)
ListedOf(l) == LastOf(DOMAIN l, [n \in DOMAIN l |-> ToWord(l[n].address)], [n \in DOMAIN l |-> ToWord(l[n].word)])

LEMMA ListedIs ==
  ASSUME NEW l \in Seq(Entries)
  PROVE  [x \in {ToWord(l[n].address) : n \in DOMAIN l} |->
            ToWord(l[Max({n \in DOMAIN l : ToWord(l[n].address) = x})].word)] = ListedOf(l)
<1> DEFINE S == DOMAIN l
           key == [n \in S |-> ToWord(l[n].address)]
           val == [n \in S |-> ToWord(l[n].word)]
           at(x) == {n \in S : ToWord(l[n].address) = x}
           addresses == {ToWord(l[n].address) : n \in S}
<1>1. addresses = {key[n] : n \in S}
  BY Zenon
<1>2. \A x : at(x) = {n \in S : key[n] = x}
  BY Zenon
<1>3. ASSUME NEW x \in addresses PROVE val[Max(at(x))] = ToWord(l[Max(at(x))].word)
  <2>1. Max(at(x)) \in S
    <3>1. PICK n \in S : x = ToWord(l[n].address)
      BY Zenon
    <3>2. Len(l) \in Nat /\ S = 1 .. Len(l)
      OBVIOUS
    <3>3. n \in at(x) /\ at(x) \subseteq S
      BY <3>1, Zenon
    <3> DEFINE T == at(x)
    <3> HIDE DEF at, T, S
    <3>4. T \subseteq 1 .. Len(l) /\ T # {}
      BY <3>2, <3>3, Zenon DEF T
    <3>5. Max(T) \in T
      BY <3>2, <3>4, MaxOfSome
    <3> QED
      BY <3>3, <3>5, Zenon DEF T
  <2> HIDE DEF at, S
  <2> QED
    BY <2>1, Zenon
<1>4. ListedOf(l) = [x \in {key[n] : n \in S} |-> val[Max({n \in S : key[n] = x})]]
  BY Zenon DEF ListedOf, LastOf
<1> HIDE DEF key, val, S
<1>5. ListedOf(l) = [x \in addresses |-> val[Max(at(x))]]
  BY <1>1, <1>2, <1>4, Zenon
<1>6. ListedOf(l) = [x \in addresses |-> ToWord(l[Max(at(x))].word)]
  <2> HIDE DEF at, addresses
  <2> QED
    BY <1>3, <1>5, Zenon
<1> QED
  BY <1>6 DEF S

LEMMA ListedMore ==
  ASSUME NEW l \in Seq(Entries), NEW e \in Entries
  PROVE  ListedOf(Append(l, e)) = Extended(ListedOf(l), ToWord(e.address), e.word)
<1> DEFINE m == Append(l, e)
           S == DOMAIN l
           M == Len(l) + 1
           key(k) == [n \in DOMAIN k |-> ToWord(k[n].address)]
           val(k) == [n \in DOMAIN k |-> ToWord(k[n].word)]
<1>1. /\ Len(l) \in Nat /\ M \in Nat /\ Len(l) < M /\ S \subseteq 1 .. Len(l)
      /\ DOMAIN m = S \cup {M} /\ m[M] = e /\ \A n \in S : m[n] = l[n]
  OBVIOUS
<1> HIDE DEF m, S, M
<1>2. GoesOn(S, M, key(l), val(l), key(m), val(m))
  <2>1. \A n \in S : key(m)[n] = key(l)[n] /\ val(m)[n] = val(l)[n]
    BY <1>1, Zenon DEF S
  <2> HIDE DEF key, val
  <2> QED
    BY <1>1, <2>1, Zenon DEF GoesOn
<1>3. key(m)[M] = ToWord(e.address) /\ val(m)[M] = e.word
  <2>1. M \in DOMAIN m
    BY <1>1
  <2>2. key(m)[M] = ToWord(e.address) /\ val(m)[M] = ToWord(e.word)
    BY <1>1, <2>1, Zenon
  <2>3. \A word \in Word : ToWord(word) = word
    BY DEF Word, ToWord, WordSize
  <2>4. e.word \in Word
    BY Zenon DEF Entries
  <2> QED
    BY <2>2, <2>3, <2>4, Zenon
<1>4. /\ ListedOf(m) = LastOf(S \cup {M}, key(m), val(m))
      /\ ListedOf(l) = LastOf(S, key(l), val(l))
  BY <1>1, Zenon DEF ListedOf, S
<1> HIDE DEF key, val
<1>5. LastOf(S \cup {M}, key(m), val(m)) = Extended(LastOf(S, key(l), val(l)), key(m)[M], val(m)[M])
  BY <1>2, LastExtended
<1> QED
  BY <1>3, <1>4, <1>5, Zenon DEF m

LEMMA NothingLoaded ==
  /\ Pairs(<<>>) /\ readBinaryFormat(<<>>).core = ListedOf(<<>>)
<1> DEFINE w == Words(<<>>)
<1>1. Pairs(<<>>)
  <2>1. <<>> \in Seq(Nat) /\ Len(<<>>) = 2 * 0 /\ 0 \in Nat
    OBVIOUS
  <2> QED
    BY <2>1, Zenon DEF Pairs
<1>2. DOMAIN w = {}
  BY DEF Words
<1> HIDE DEF w
<1>3. DataOf(w) = {}
  BY <1>2 DEF DataOf
<1>4. DOMAIN <<>> = {}
  OBVIOUS
<1>5. \A k, v, k2, v2 : LastOf({}, k, v) = LastOf({}, k2, v2)
  <2>1. \A k, v : LastOf({}, k, v) = [x \in {} |-> x]
    BY DEF LastOf
  <2> QED
    BY <2>1
<1>6. readBinaryFormat(<<>>).core = CoreOf(w)
  BY LoadedIs DEF w
<1>7. CoreOf(w) = ListedOf(<<>>)
  BY <1>3, <1>4, <1>5, Zenon DEF CoreOf, ListedOf
<1> QED
  BY <1>1, <1>6, <1>7

-----------------------------------------------------------------------------
(* The tape is a row of whole words; before the second pass there is none, *)
(* and no listing.                                                         *)
Loading ==
  /\ Listing /\ Pairs(tape)
  /\ assembler.assemblerPass = 1 => tape = <<>> /\ listing = <<>>
  /\ TapeLoadsListing

(* What TapeLoadsListing says of a tape, a listing and a program counter.  *)
Loads(bytes, l, counter) ==
  /\ readBinaryFormat(bytes).core = ListedOf(l)
  /\ bytes # <<>> => readBinaryFormat(bytes).programCounter = ToWord(counter)

LEMMA TapeLoads ==
  /\ listing \in Seq(Entries) => (TapeLoadsListing <=> Loads(tape, listing, assembler.programCounter))
  /\ listing' \in Seq(Entries) => (TapeLoadsListing' <=> Loads(tape', listing', assembler'.programCounter))
<1>1. ASSUME listing \in Seq(Entries) PROVE Listed = ListedOf(listing)
  BY <1>1, ListedIs DEF Listed
<1>2. ASSUME listing' \in Seq(Entries) PROVE Listed' = ListedOf(listing')
  BY <1>2, ListedIs DEF Listed
<1>3. /\ listing \in Seq(Entries) => (TapeLoadsListing <=> Loads(tape, listing, assembler.programCounter))
      /\ listing' \in Seq(Entries) => (TapeLoadsListing' <=> Loads(tape', listing', assembler'.programCounter))
  BY <1>1, <1>2, Zenon DEF TapeLoadsListing, Loads
<1> QED
  BY <1>3

(* What a line of the second pass writes.                                  *)
LEMMA WrittenLoads ==
  ASSUME NEW bytes, Pairs(bytes), NEW l \in Seq(Entries), NEW counter, Loads(bytes, l, counter),
         NEW located \in BOOLEAN, NEW address \in Short, ~located => address = counter,
         NEW word, NEW e, word # Unset => e \in Entries /\ e.address = address /\ e.word = word
  PROVE  LET more == bytes \o Written(located, address, word)
         IN  /\ Pairs(more)
             /\ Loads(more, IF word # Unset THEN Append(l, e) ELSE l,
                      IF word # Unset THEN Bits16(address + 1) ELSE address)
<1> DEFINE more == bytes \o Written(located, address, word)
<1>1. bytes \in Seq(Nat)
  BY Zenon DEF Pairs
<1>2. ASSUME word # Unset
      PROVE  Pairs(more) /\ Loads(more, Append(l, e), Bits16(address + 1))
  <2>1. e \in Entries /\ e.address = address /\ e.word = word
    BY <1>2
  <2>2. word \in Word
    BY <2>1, Zenon DEF Entries
  <2>3. more = (bytes \o Origin(address)) \o Data(word)
    <3>1. Written(located, address, word) = Origin(address) \o Data(word)
      BY <1>2, Zenon DEF Written
    <3>2. Origin(address) \in Seq(Nat) /\ Data(word) \in Seq(Nat)
      BY <2>2, BytesAre, Zenon
    <3>3. (bytes \o Origin(address)) \o Data(word) = bytes \o (Origin(address) \o Data(word))
      <4>1. \A a, b, c \in Seq(Nat) : (a \o b) \o c = a \o (b \o c)
        BY Associated, SMTT(30)
      <4> QED
        BY <1>1, <3>2, <4>1, Zenon
    <3> QED
      BY <3>1, <3>3, Zenon
  <2> HIDE DEF more
  <2>4. /\ Pairs(more)
        /\ readBinaryFormat(more).core = Extended(readBinaryFormat(bytes).core, ToWord(address), word)
        /\ readBinaryFormat(more).programCounter = ToWord(address + 1)
    BY <2>2, <2>3, WordLoaded
  <2>5. readBinaryFormat(more).core = ListedOf(Append(l, e))
    <3>1. ListedOf(Append(l, e)) = Extended(ListedOf(l), ToWord(e.address), e.word)
      BY <2>1, ListedMore, Zenon
    <3> QED
      BY <2>1, <2>4, <3>1, Zenon DEF Loads
  <2>6. ToWord(address + 1) = ToWord(Bits16(address + 1))
    BY DEF ToWord, WordSize, Bits16, Short
  <2> QED
    BY <2>4, <2>5, <2>6, Zenon DEF Loads
<1>3. ASSUME word = Unset, located
      PROVE  Pairs(more) /\ Loads(more, l, address)
  <2>1. more = bytes \o Origin(address)
    <3>1. Written(located, address, word) = Origin(address) \o <<>>
      BY <1>3, Zenon DEF Written
    <3>2. Origin(address) \in Seq(Nat)
      BY BytesAre, Zenon
    <3>3. Origin(address) \o <<>> = Origin(address)
      BY <3>2
    <3> QED
      BY <3>1, <3>3, Zenon
  <2> HIDE DEF more
  <2>2. /\ Pairs(more)
        /\ readBinaryFormat(more).core = readBinaryFormat(bytes).core
        /\ readBinaryFormat(more).programCounter = ToWord(address)
    BY <2>1, OriginLoaded
  <2> QED
    BY <2>2, Zenon DEF Loads
<1>4. ASSUME word = Unset, ~located
      PROVE  Pairs(more) /\ Loads(more, l, address)
  <2>1. more = bytes
    <3>1. Written(located, address, word) = <<>> \o <<>>
      BY <1>4, Zenon DEF Written
    <3>2. <<>> \o <<>> = <<>> /\ bytes \o <<>> = bytes
      BY <1>1
    <3> QED
      BY <3>1, <3>2, Zenon
  <2> QED
    BY <1>4, <2>1, Zenon
<1> HIDE DEF more
<1> QED
  BY <1>2, <1>3, <1>4, Zenon DEF more

LEMMA LineLoads ==
  ASSUME Loading, NEW prefix, NEW code, PrefixAt(program, assembler, first, prefix), prefix.end = "value",
         CodeAt(program, prefix.first, code), first \in 1 .. Len(program), Line(prefix, code)
  PROVE  Loading'
<1> DEFINE located == program[first].tokenClass = "LOCATION"
           address == prefix.a.programCounter
           e == Entry(prefix, code)
<1>1. /\ Listing /\ Listing' /\ Pairs(tape)
      /\ assembler'.assemblerPass = assembler.assemblerPass
      /\ assembler.assemblerPass = 1 => tape = <<>> /\ listing = <<>> /\ UNCHANGED <<tape, listing>>
      /\ assembler.assemblerPass # 1 =>
           /\ tape' = tape \o Written(located, address, code.left)
           /\ listing' = IF code.left # Unset THEN Append(listing, e) ELSE listing
  <2>1. Listing /\ Pairs(tape) /\ (assembler.assemblerPass = 1 => tape = <<>> /\ listing = <<>>)
    BY Zenon DEF Loading
  <2>2. assembler'.assemblerPass = assembler.assemblerPass
    BY <2>1, LineIs, Zenon DEF Listing
  <2> QED
    BY <2>1, <2>2, LineListed, Zenon
<1>2. /\ assembler \in Assemblers /\ listing \in Seq(Entries) /\ listing' \in Seq(Entries)
      /\ prefix.a \in Assemblers
  BY <1>1, Zenon DEF Listing, Assembling, PrefixAt
<1>3. Loads(tape, listing, assembler.programCounter)
  BY <1>2, TapeLoads, Zenon DEF Loading
<1>4. address \in Short /\ (code.left # Unset => e \in Entries /\ e.address = address /\ e.word = code.left)
  BY <1>1, LineIs, Zenon DEF Entry, Listing
<1>5. /\ ~located => address = assembler.programCounter
      /\ assembler'.programCounter = IF code.left # Unset THEN Bits16(address + 1) ELSE address
  <2>1. assembler' = Advanced(prefix.a, code.left # Unset)
    BY Zenon DEF Line
  <2>2. assembler'.programCounter = IF code.left # Unset THEN Bits16(address + 1) ELSE address
    BY <1>2, <2>1, AdvancedType
  <2> QED
    BY <2>2, Zenon DEF PrefixAt
<1> HIDE DEF e, address
<1>6. Pairs(tape') /\ (assembler'.assemblerPass = 1 => tape' = <<>> /\ listing' = <<>>)
      /\ Loads(tape', listing', assembler'.programCounter)
  <2>1. CASE assembler.assemblerPass = 1
    <3>1. tape' = <<>> /\ tape' = tape /\ listing' = <<>> /\ listing' = listing
      BY <1>1, <2>1, Zenon
    <3> QED
      BY <1>1, <1>3, <3>1, Zenon DEF Loads
  <2>2. CASE assembler.assemblerPass # 1
    <3>1. located \in BOOLEAN
      OBVIOUS
    <3> HIDE DEF located
    <3> DEFINE more == tape \o Written(located, address, code.left)
    <3>2. /\ Pairs(more)
          /\ Loads(more, IF code.left # Unset THEN Append(listing, e) ELSE listing,
                   IF code.left # Unset THEN Bits16(address + 1) ELSE address)
      BY <1>1, <1>2, <1>3, <1>4, <1>5, <3>1, WrittenLoads
    <3>3. tape' = more /\ listing' = (IF code.left # Unset THEN Append(listing, e) ELSE listing)
      BY <1>1, <2>2, Zenon
    <3> HIDE DEF more
    <3> QED
      BY <1>1, <1>5, <2>2, <3>2, <3>3, Zenon
  <2> QED
    BY <2>1, <2>2
<1>7. TapeLoadsListing'
  BY <1>2, <1>6, TapeLoads, Zenon
<1> QED
  BY <1>1, <1>6, <1>7, Zenon DEF Loading

(* The tape is the listing: loading it puts every listed word where the    *)
(* listing has it, writes nothing else and leaves the program counter      *)
(* where the assembler left it.                                            *)
THEOREM TapeIsListing == Spec => []TapeLoadsListing
<1>1. Init => Loading
  <2> SUFFICES ASSUME Init PROVE Loading
    OBVIOUS
  <2>1. Listing /\ tape = <<>> /\ listing = <<>>
    <3>1. tape = <<>> /\ listing = <<>>
      BY Zenon DEF Init
    <3>2. <<>> \in Seq(Entries)
      OBVIOUS
    <3> QED
      BY <3>1, <3>2, InitAssembling, Zenon DEF Listing
  <2>2. Loads(tape, listing, assembler.programCounter)
    BY <2>1, NothingLoaded, Zenon DEF Loads
  <2>3. TapeLoadsListing
    BY <2>1, <2>2, TapeLoads, Zenon DEF Listing
  <2> QED
    BY <2>1, <2>3, NothingLoaded, Zenon DEF Loading
<1>2. Loading /\ [Next]_vars => Loading'
  <2> SUFFICES ASSUME Loading, [Next]_vars PROVE Loading'
    OBVIOUS
  <2>1. Listing /\ listing \in Seq(Entries) /\ Loads(tape, listing, assembler.programCounter)
    BY TapeLoads, Zenon DEF Loading, Listing
  <2>2. ASSUME Listing', UNCHANGED <<tape, listing>>,
               assembler'.programCounter = assembler.programCounter,
               assembler'.assemblerPass = 1 => assembler.assemblerPass = 1
        PROVE  Loading'
    <3>1. listing' \in Seq(Entries) /\ Loads(tape', listing', assembler'.programCounter)
      BY <2>1, <2>2, Zenon
    <3>2. TapeLoadsListing'
      BY <3>1, TapeLoads, Zenon
    <3> QED
      BY <2>2, <3>2, Zenon DEF Loading
  <2>3. ASSUME UNCHANGED <<program, assembler, first, tape, listing>> PROVE Loading'
    <3>1. Listing'
      BY <2>1, <2>3, StillAssembling, Zenon DEF Listing
    <3> QED
      BY <2>2, <2>3, <3>1, Zenon
  <2>4. ASSUME parseLine PROVE Loading'
    <3> DEFINE prefix == Prefix(program, assembler, first)
               code == Code(program, prefix.a, prefix.first)
    <3>1. /\ first \in 1 .. Len(program)
          /\ PrefixAt(program, assembler, first, prefix)
          /\ prefix.end = "value" => CodeAt(program, prefix.first, code)
          /\ \/ Stopped(prefix.end)
             \/ /\ prefix.end = "value"
                /\ Stopped(code.end) \/ Line(prefix, code)
      BY <2>1, <2>4, LineParsed DEF Listing
    <3> HIDE DEF prefix, code
    <3>2. CASE Stopped(prefix.end) \/ Stopped(code.end)
      BY <2>3, <3>2, Zenon DEF Stopped
    <3>3. CASE prefix.end = "value" /\ Line(prefix, code)
      BY <3>1, <3>3, LineLoads, Zenon
    <3> QED
      BY <3>1, <3>2, <3>3, Zenon
  <2>5. CASE pass2
    <3>1. /\ Assembling' /\ assembler'.programCounter = assembler.programCounter
          /\ assembler.assemblerPass = 1 /\ UNCHANGED <<tape, listing>>
      BY <2>1, <2>5, PassEnds, Zenon DEF Listing
    <3> QED
      BY <2>1, <2>2, <3>1, Zenon DEF Listing
  <2>6. CASE finish
    BY <2>3, <2>6, Zenon DEF finish
  <2>7. CASE UNCHANGED vars
    BY <2>3, <2>7, Zenon DEF vars
  <2> QED
    BY <2>4, <2>5, <2>6, <2>7, Zenon DEF Next
<1>3. Loading => TapeLoadsListing
  BY Zenon DEF Loading
<1> QED
  BY <1>1, <1>2, <1>3, PTL DEF Spec

-----------------------------------------------------------------------------
(* Loops that run alike: what one turn of both keeps related is related    *)
(* after any number of turns.                                              *)
LEMMA AfterRelated ==
  ASSUME NEW turn, NEW start, NEW turn2, NEW start2, NEW R, <<start, start2>> \in R,
         \A s, t : <<s, t>> \in R => <<turn[s], turn2[t]>> \in R, NEW n \in Nat
  PROVE  <<After(turn, start, n), After(turn2, start2, n)>> \in R
<1> DEFINE at(m) == After(turn, start, m)
           at2(m) == After(turn2, start2, m)
           S == {m \in Nat : <<at(m), at2(m)>> \in R}
<1>1. at(0) = start /\ at2(0) = start2
  BY AfterTurns
<1>2. \A m \in Nat : at(m + 1) = turn[at(m)] /\ at2(m + 1) = turn2[at2(m)]
  BY AfterTurns
<1> HIDE DEF at, at2
<1>3. 0 \in S
  BY <1>1
<1>4. ASSUME NEW m \in Nat, m \in S PROVE m + 1 \in S
  <2>1. <<turn[at(m)], turn2[at2(m)]>> \in R
    BY <1>4
  <2>2. <<at(m + 1), at2(m + 1)>> \in R
    BY <1>2, <2>1, Zenon
  <2> QED
    BY <2>2
<1>5. n \in S
  <2> HIDE DEF S
  <2> QED
    BY <1>3, <1>4, SetInduction
<1>6. <<at(n), at2(n)>> \in R
  BY <1>5
<1> QED
  BY <1>6 DEF at, at2

(* A loop that has ended stays where it is.                                *)
LEMMA AfterStays ==
  ASSUME NEW turn, NEW start, NEW n \in Nat, NEW m \in Nat, n <= m,
         turn[After(turn, start, n)] = After(turn, start, n)
  PROVE  After(turn, start, m) = After(turn, start, n)
<1> DEFINE at(k) == After(turn, start, k)
           S == {k \in Nat : at(n + k) = at(n)}
<1>1. \A k \in Nat : at(k + 1) = turn[at(k)]
  BY AfterTurns
<1>2. turn[at(n)] = at(n)
  OBVIOUS
<1> HIDE DEF at
<1>3. 0 \in S
  <2>1. n + 0 = n
    OBVIOUS
  <2> QED
    BY <2>1
<1>4. ASSUME NEW k \in Nat, k \in S PROVE k + 1 \in S
  <2>1. n + k \in Nat /\ n + (k + 1) = (n + k) + 1
    OBVIOUS
  <2>2. at(n + k) = at(n)
    BY <1>4
  <2>3. at((n + k) + 1) = turn[at(n + k)]
    BY <1>1, <2>1
  <2>4. at(n + (k + 1)) = at(n)
    BY <1>2, <2>1, <2>2, <2>3, Zenon
  <2> QED
    BY <2>4
<1>5. m - n \in S
  <2>1. m - n \in Nat
    OBVIOUS
  <2> HIDE DEF S
  <2> QED
    BY <1>3, <1>4, <2>1, SetInduction
<1>6. at(n + (m - n)) = at(n) /\ n + (m - n) = m
  BY <1>5
<1>7. at(m) = at(n)
  BY <1>6, Zenon
<1> QED
  BY <1>7 DEF at

(* A line is assembled alone as it is in its program: a loop that runs on  *)
(* a part of a program, d tokens into it, takes the same turns as the one  *)
(* that runs on the program, as long as the operands have the same values. *)
Slice(prog, line, d) ==
  /\ Readable(prog) /\ Readable(line) /\ d \in Nat /\ Len(line) + d <= Len(prog)
  /\ \A k \in 1 .. Len(line) : line[k] = prog[k + d]

SameOperands(line, from, a, b) ==
  \A k \in from .. Len(line) :
    isValue(line[k].tokenClass) => Operand(a, line[k]) = Operand(b, line[k])

LEMMA SliceAt ==
  ASSUME NEW prog, NEW line, NEW d, Slice(prog, line, d), NEW n \in 1 .. Len(line)
  PROVE  /\ n \in Nat /\ n + d \in 1 .. Len(prog) /\ line[n] = prog[n + d]
         /\ (n + 1) + d = (n + d) + 1 /\ Len(line) <= Len(prog)
<1>1. Len(line) \in Nat /\ Len(prog) \in Nat /\ d \in Nat /\ Len(line) + d <= Len(prog)
  BY Zenon DEF Slice, Readable
<1>2. line[n] = prog[n + d]
  BY Zenon DEF Slice
<1> QED
  BY <1>1, <1>2

Moved(t, d) == [left |-> t.left, opCode |-> t.opCode, first |-> t.first + d, end |-> t.end]

LEMMA TurnMoved ==
  ASSUME NEW prog, NEW line, NEW d, Slice(prog, line, d), NEW a, NEW b, NEW from \in 1 .. Len(line),
         SameOperands(line, from, a, b), NEW t \in ExpressionAt(line, from)
  PROVE  Turn(a, Moved(t, d), prog[t.first + d]) = Moved(Turn(b, t, line[t.first]), d)
<1> DEFINE s == Moved(t, d)
           token == line[t.first]
           class == token.tokenClass
           value == Operand(a, token)
           complete == t.left # Unset /\ t.opCode = ""
           left == Combined(t, value)
           u == Turn(a, s, token)
           v == Turn(b, t, token)
           Same == u = Moved(v, d)
<1>1. t \in Expressions /\ t.first \in from .. Len(line)
  BY Zenon DEF ExpressionAt
<1>2. t = [left |-> t.left, opCode |-> t.opCode, first |-> t.first, end |-> t.end]
  BY <1>1, Zenon DEF Expressions
<1>3. s = [left |-> t.left, opCode |-> t.opCode, first |-> t.first + d, end |-> t.end]
  BY Zenon DEF Moved
<1>4. s.left = t.left /\ s.opCode = t.opCode /\ s.first = t.first + d /\ s.end = t.end
  <2> HIDE DEF s
  <2> QED
    BY <1>3, Zenon
<1>5. t.first \in 1 .. Len(line)
  <2>1. Len(line) \in Nat
    BY Zenon DEF Slice, Readable
  <2> QED
    BY <1>1, <2>1, Ahead, Zenon
<1>6. token = prog[t.first + d] /\ (t.first + 1) + d = (t.first + d) + 1
  BY <1>5, SliceAt
<1>7. isValue(class) => Operand(b, token) = value
  BY <1>1, Zenon DEF SameOperands
<1>8. Combined(s, value) = left
  BY <1>4, Zenon DEF Combined
<1> HIDE DEF value, left, u, v
<1>9. ASSUME NEW l, NEW o, NEW n, NEW e,
             u = [left |-> l, opCode |-> o, first |-> n + d, end |-> e],
             v = [left |-> l, opCode |-> o, first |-> n, end |-> e]
      PROVE  Same
  <2>1. v.left = l /\ v.opCode = o /\ v.first = n /\ v.end = e
    BY <1>9, Zenon
  <2> QED
    BY <1>9, <2>1, Zenon DEF Moved
<1> HIDE DEF s, Same
<1>10. ASSUME complete, isOperator(class) PROVE Same
  <2>1. /\ u = [s EXCEPT !.left = s.left, !.opCode = class, !.first = @ + 1]
        /\ v = [t EXCEPT !.left = t.left, !.opCode = class, !.first = @ + 1]
    BY <1>4, <1>10, Zenon DEF Turn, u, v
  <2>2. u = [left |-> t.left, opCode |-> class, first |-> (t.first + 1) + d, end |-> t.end]
    <3>1. u = [left |-> t.left, opCode |-> class, first |-> (t.first + d) + 1, end |-> t.end]
      BY <1>3, <2>1, Zenon
    <3> QED
      BY <1>6, <3>1, Zenon
  <2>3. v = [left |-> t.left, opCode |-> class, first |-> t.first + 1, end |-> t.end]
    BY <1>2, <2>1, Zenon
  <2> QED
    BY <1>9, <2>2, <2>3, Zenon
<1>11. ASSUME complete, ~isOperator(class) PROVE Same
  <2>1. /\ u = [[s EXCEPT !.end = "value"] EXCEPT !.left = ToWord(@)]
        /\ v = [[t EXCEPT !.end = "value"] EXCEPT !.left = ToWord(@)]
    BY <1>4, <1>11, Zenon DEF Turn, u, v
  <2>2. u = [left |-> ToWord(t.left), opCode |-> t.opCode, first |-> t.first + d, end |-> "value"]
    BY <1>3, <2>1, Zenon
  <2>3. v = [left |-> ToWord(t.left), opCode |-> t.opCode, first |-> t.first, end |-> "value"]
    BY <1>2, <2>1, Zenon
  <2> QED
    BY <1>9, <2>2, <2>3, Zenon
<1>12. ASSUME NEW end, u = [s EXCEPT !.end = end], v = [t EXCEPT !.end = end] PROVE Same
  <2>1. u = [left |-> t.left, opCode |-> t.opCode, first |-> t.first + d, end |-> end]
    BY <1>3, <1>12, Zenon
  <2>2. v = [left |-> t.left, opCode |-> t.opCode, first |-> t.first, end |-> end]
    BY <1>2, <1>12, Zenon
  <2> QED
    BY <1>9, <2>1, <2>2, Zenon
<1>13. ASSUME ~complete, ~isValue(class) PROVE Same
  <2>1. u = [s EXCEPT !.end = "looping"]
    BY <1>4, <1>13, Zenon DEF Turn, u, isValue
  <2>2. v = [t EXCEPT !.end = "looping"]
    BY <1>13, Zenon DEF Turn, v, isValue
  <2> QED
    BY <1>12, <2>1, <2>2, Zenon
<1>14. ASSUME ~complete, isValue(class), t.opCode # "", class = "PROGRAM_COUNTER" PROVE Same
  <2>1. u = [s EXCEPT !.end = "terminated"] /\ v = [t EXCEPT !.end = "terminated"]
    BY <1>4, <1>14, Zenon DEF Turn, u, v
  <2> QED
    BY <1>12, <2>1, Zenon
<1>15. ASSUME ~complete, isValue(class), ~(t.opCode # "" /\ class = "PROGRAM_COUNTER") PROVE Same
  <2>1. u = IF value = Refused THEN [s EXCEPT !.end = "refused"]
            ELSE [s EXCEPT !.left = left, !.opCode = "", !.first = @ + 1]
    BY <1>4, <1>8, <1>15, Zenon DEF Turn, u, value
  <2>2. v = IF value = Refused THEN [t EXCEPT !.end = "refused"]
            ELSE [t EXCEPT !.left = left, !.opCode = "", !.first = @ + 1]
    BY <1>7, <1>15, Zenon DEF Turn, v, left
  <2>3. ASSUME value = Refused PROVE Same
    BY <1>12, <2>1, <2>2, <2>3, Zenon
  <2>4. ASSUME value # Refused PROVE Same
    <3>1. u = [left |-> left, opCode |-> "", first |-> (t.first + d) + 1, end |-> t.end]
      BY <1>3, <2>1, <2>4, Zenon
    <3>2. v = [left |-> left, opCode |-> "", first |-> t.first + 1, end |-> t.end]
      BY <1>2, <2>2, <2>4, Zenon
    <3>3. u = [left |-> left, opCode |-> "", first |-> (t.first + 1) + d, end |-> t.end]
      BY <1>6, <3>1, Zenon
    <3> QED
      BY <1>9, <3>2, <3>3, Zenon
  <2> QED
    BY <2>3, <2>4
<1>16. Same
  BY <1>10, <1>11, <1>13, <1>14, <1>15, Zenon
<1> QED
  BY <1>6, <1>16, Zenon DEF s, u, v, Same

LEMMA ExpressionMoved ==
  ASSUME NEW prog, NEW line, NEW d, Slice(prog, line, d), NEW a \in Assemblers, NEW b \in Assemblers,
         NEW from \in 1 .. Len(line), SameOperands(line, from, a, b)
  PROVE  evaluateExpression(prog, a, from + d) = Moved(evaluateExpression(line, b, from), d)
<1> DEFINE all == [left : Int, opCode : {"", "ADDITION", "SUBTRACTION"}, first : Nat, end : Ends]
           turn == [s \in all |-> IF s.end # "" THEN s ELSE Turn(a, s, prog[s.first])]
           turn2 == [s \in all |-> IF s.end # "" THEN s ELSE Turn(b, s, line[s.first])]
           start == [left |-> Unset, opCode |-> "", first |-> from + d, end |-> ""]
           start2 == [left |-> Unset, opCode |-> "", first |-> from, end |-> ""]
           I == ExpressionAt(line, from)
           R == {<<Moved(t, d), t>> : t \in I}
           e == After(turn, start, Len(line))
           e2 == After(turn2, start2, Len(line))
<1>1. /\ evaluateExpression(prog, a, from + d) = After(turn, start, Len(prog))
      /\ evaluateExpression(line, b, from) = e2
  BY Zenon DEF evaluateExpression
<1>2. /\ Readable(line) /\ Len(line) \in Nat /\ Len(prog) \in Nat /\ d \in Nat /\ Len(line) <= Len(prog)
      /\ from \in Nat /\ from \in from .. Len(line) /\ from # 0
  <2>1. Readable(line) /\ Len(line) \in Nat /\ Len(prog) \in Nat /\ d \in Nat
    BY Zenon DEF Slice, Readable
  <2>2. Len(line) <= Len(prog)
    BY SliceAt
  <2> QED
    BY <2>1, <2>2
<1>3. ASSUME NEW t \in I
      PROVE  /\ t \in all /\ Moved(t, d) \in all /\ Moved(t, d).end = t.end /\ Moved(t, d).first = t.first + d
  <2>1. t \in Expressions
    BY Zenon DEF ExpressionAt
  <2>2. t.left \in Int /\ t.first \in Nat /\ t.end \in Ends /\ t.opCode \in {"", "ADDITION", "SUBTRACTION"} /\ t \in all
    BY <2>1, ExpressionRecords, Zenon DEF Expressions
  <2>3. t.first + d \in Nat
    <3>1. \A n \in Nat : n + d \in Nat
      BY <1>2
    <3> QED
      BY <2>2, <3>1, Zenon
  <2> DEFINE m == Moved(t, d)
  <2>4. m = [left |-> t.left, opCode |-> t.opCode, first |-> t.first + d, end |-> t.end]
    BY Zenon DEF Moved
  <2> HIDE DEF m
  <2>5. m \in all /\ m.end = t.end /\ m.first = t.first + d
    BY <2>2, <2>3, <2>4, Zenon
  <2> QED
    BY <2>2, <2>5 DEF m
<1>4. start2 \in I /\ start = Moved(start2, d) /\ start2.first \in Nat \ {0}
  <2>1. start2 \in Expressions
    BY <1>2, ExpressionIs
  <2> QED
    BY <1>2, <2>1, Zenon DEF ExpressionAt, Moved
<1> HIDE DEF all, start, start2
<1>5. ASSUME NEW t \in I
      PROVE  turn2[t] \in I /\ turn[Moved(t, d)] = Moved(turn2[t], d)
  <2>1. CASE t.end # ""
    BY <1>3, <2>1, Zenon
  <2>2. CASE t.end = ""
    <3>1. turn2[t] = Turn(b, t, line[t.first]) /\ turn[Moved(t, d)] = Turn(a, Moved(t, d), prog[t.first + d])
      BY <1>3, <2>2, Zenon
    <3>2. turn2[t] \in I
      BY <1>2, <2>2, <3>1, TurnKeeps
    <3>3. Turn(a, Moved(t, d), prog[t.first + d]) = Moved(Turn(b, t, line[t.first]), d)
      BY TurnMoved
    <3> QED
      BY <3>1, <3>2, <3>3, Zenon
  <2> QED
    BY <2>1, <2>2
<1>6. <<start, start2>> \in R /\ \A s, t : <<s, t>> \in R => <<turn[s], turn2[t]>> \in R
  <2> HIDE DEF I, turn, turn2
  <2>1. <<start, start2>> \in R
    BY <1>4, Zenon
  <2>2. ASSUME NEW s, NEW t, <<s, t>> \in R PROVE <<turn[s], turn2[t]>> \in R
    <3>1. t \in I /\ s = Moved(t, d)
      BY <2>2
    <3> QED
      BY <1>5, <3>1, Zenon
  <2> QED
    BY <2>1, <2>2
<1>7. e2 \in I /\ e = Moved(e2, d)
  <2>1. <<e, e2>> \in R
    <3> HIDE DEF R, turn, turn2
    <3> QED
      BY <1>2, <1>6, AfterRelated
  <2> HIDE DEF I, e, e2
  <2> QED
    BY <2>1
<1>8. e2.end # ""
  BY <1>1, <1>2, ExpressionEnds, Zenon
<1>9. turn[e] = e
  <2> HIDE DEF e2, e
  <2> QED
    BY <1>3, <1>7, <1>8, Zenon
<1>10. After(turn, start, Len(prog)) = e
  <2> HIDE DEF turn
  <2> QED
    BY <1>2, <1>9, AfterStays
<1> QED
  BY <1>1, <1>7, <1>10, Zenon

Placing(t, n) ==
  [code |-> t.code, arg |-> t.arg, memoryOpr |-> t.memoryOpr, zeroFlag |-> t.zeroFlag,
   restrict |-> t.restrict, first |-> n, end |-> t.end]

LEMMA PlacingIs ==
  ASSUME NEW t, NEW n
  PROVE  LET s == Placing(t, n)
         IN  /\ s.code = t.code /\ s.arg = t.arg /\ s.memoryOpr = t.memoryOpr /\ s.zeroFlag = t.zeroFlag
             /\ s.restrict = t.restrict /\ s.first = n /\ s.end = t.end
<1> DEFINE s == Placing(t, n)
<1>1. s = [code |-> t.code, arg |-> t.arg, memoryOpr |-> t.memoryOpr, zeroFlag |-> t.zeroFlag,
           restrict |-> t.restrict, first |-> n, end |-> t.end]
  BY Zenon DEF Placing
<1> HIDE DEF s
<1>2. /\ s.code = t.code /\ s.arg = t.arg /\ s.memoryOpr = t.memoryOpr /\ s.zeroFlag = t.zeroFlag
      /\ s.restrict = t.restrict /\ s.first = n /\ s.end = t.end
  BY <1>1, Zenon
<1> QED
  BY <1>2 DEF s

LEMMA CombineMoved ==
  ASSUME NEW t \in OpCodes, NEW i, NEW n
  PROVE  Combine(Placing(t, n), i) = Placing(Combine(t, i), n) /\ Combine(t, i).first = t.first
<1> DEFINE s == Placing(t, n)
           u == Combine(s, i)
           v == Combine(t, i)
           type == i.orCombination
           made(code, memoryOpr, zeroFlag, restrict, end, m) ==
             [code |-> code, arg |-> t.arg, memoryOpr |-> memoryOpr, zeroFlag |-> zeroFlag,
              restrict |-> restrict, first |-> m, end |-> end]
           Same == u = Placing(v, n) /\ v.first = t.first
<1>1. t = made(t.code, t.memoryOpr, t.zeroFlag, t.restrict, t.end, t.first)
  BY OpCodeFields
<1>2. s = made(t.code, t.memoryOpr, t.zeroFlag, t.restrict, t.end, n)
  BY Zenon DEF Placing
<1>3. s.memoryOpr = t.memoryOpr /\ s.code = t.code /\ s.restrict = t.restrict
  BY PlacingIs
<1> HIDE DEF s
<1>4. ASSUME NEW code, NEW memoryOpr, NEW zeroFlag, NEW restrict, NEW end,
             u = made(code, memoryOpr, zeroFlag, restrict, end, n),
             v = made(code, memoryOpr, zeroFlag, restrict, end, t.first)
      PROVE  Same
  <2> HIDE DEF u, v
  <2>1. /\ v.code = code /\ v.arg = t.arg /\ v.memoryOpr = memoryOpr /\ v.zeroFlag = zeroFlag
        /\ v.restrict = restrict /\ v.end = end /\ v.first = t.first
    BY <1>4, Zenon
  <2> QED
    BY <1>4, <2>1, Zenon DEF Placing
<1>5. ASSUME type = "Memory" PROVE Same
  <2>1. u = made(i.opCode, TRUE, t.zeroFlag, t.restrict, t.end, n)
    BY <1>2, <1>5, Zenon DEF Combine
  <2>2. v = made(i.opCode, TRUE, t.zeroFlag, t.restrict, t.end, t.first)
    BY <1>1, <1>5, Zenon DEF Combine
  <2> HIDE DEF u, v, made, Same
  <2> QED
    BY <1>4, <2>1, <2>2, Zenon
<1>6. ASSUME type \in {"Flag", "Gr"} PROVE Same
  <2>1. u = made(Or(t.code, i.opCode), t.memoryOpr, t.zeroFlag, t.restrict, t.end, n)
    BY <1>2, <1>6, Zenon DEF Combine
  <2>2. v = made(Or(t.code, i.opCode), t.memoryOpr, t.zeroFlag, t.restrict, t.end, t.first)
    BY <1>1, <1>6, Zenon DEF Combine
  <2> HIDE DEF u, v, made, Same
  <2> QED
    BY <1>4, <2>1, <2>2, Zenon
<1>7. ASSUME type = "Mask" PROVE Same
  <2>1. ASSUME t.memoryOpr PROVE Same
    <3>1. u = made(t.code, t.memoryOpr, TRUE, t.restrict, t.end, n)
      BY <1>2, <1>3, <1>7, <2>1, Zenon DEF Combine
    <3>2. v = made(t.code, t.memoryOpr, TRUE, t.restrict, t.end, t.first)
      BY <1>1, <1>7, <2>1, Zenon DEF Combine
    <3> HIDE DEF u, v, made, Same
    <3> QED
      BY <1>4, <3>1, <3>2, Zenon
  <2>2. ASSUME ~t.memoryOpr PROVE Same
    <3>1. u = made(And(t.code, i.opCode), t.memoryOpr, t.zeroFlag, t.restrict, t.end, n)
      BY <1>2, <1>3, <1>7, <2>2, Zenon DEF Combine
    <3>2. v = made(And(t.code, i.opCode), t.memoryOpr, t.zeroFlag, t.restrict, t.end, t.first)
      BY <1>1, <1>7, <2>2, Zenon DEF Combine
    <3> HIDE DEF u, v, made, Same
    <3> QED
      BY <1>4, <3>1, <3>2, Zenon
  <2> QED
    BY <2>1, <2>2
<1>8. ASSUME type \notin {"Memory", "Flag", "Gr", "Mask"} PROVE Same
  <2>1. ASSUME t.restrict \notin Combines[type] PROVE Same
    <3>1. u = made(t.code, t.memoryOpr, t.zeroFlag, t.restrict, "refused", n)
      BY <1>2, <1>3, <1>8, <2>1, Zenon DEF Combine
    <3>2. v = made(t.code, t.memoryOpr, t.zeroFlag, t.restrict, "refused", t.first)
      BY <1>1, <1>8, <2>1, Zenon DEF Combine
    <3> HIDE DEF u, v, made, Same
    <3> QED
      BY <1>4, <3>1, <3>2, Zenon
  <2>2. ASSUME t.restrict \in Combines[type] PROVE Same
    <3> DEFINE code == IF type = "Iot" THEN i.opCode ELSE Or(t.code, i.opCode)
    <3>1. u = made(code, t.memoryOpr, t.zeroFlag, type, t.end, n)
      BY <1>2, <1>3, <1>8, <2>2, Zenon DEF Combine
    <3>2. v = made(code, t.memoryOpr, t.zeroFlag, type, t.end, t.first)
      BY <1>1, <1>8, <2>2, Zenon DEF Combine
    <3> HIDE DEF u, v, made, Same, code
    <3> QED
      BY <1>4, <3>1, <3>2, Zenon
  <2> QED
    BY <2>1, <2>2
<1>9. Same
  <2> HIDE DEF Same
  <2> QED
    BY <1>5, <1>6, <1>7, <1>8
<1> QED
  BY <1>9 DEF s

LEMMA OpCodeTurnMoved ==
  ASSUME NEW prog, NEW line, NEW d, Slice(prog, line, d), NEW a \in Assemblers, NEW b \in Assemblers,
         NEW from \in 1 .. Len(line), SameOperands(line, from, a, b), NEW t \in OpCodeAt(line, from)
  PROVE  LET v == OpCodeTurn(line, b, t)
         IN  OpCodeTurn(prog, a, Placing(t, t.first + d)) = Placing(v, v.first + d)
<1> DEFINE s == Placing(t, t.first + d)
           token == line[t.first]
           class == token.tokenClass
           next(w) == [w EXCEPT !.first = @ + 1]
           u == OpCodeTurn(prog, a, s)
           v == OpCodeTurn(line, b, t)
           made(code, arg, memoryOpr, zeroFlag, restrict, end, m) ==
             [code |-> code, arg |-> arg, memoryOpr |-> memoryOpr, zeroFlag |-> zeroFlag,
              restrict |-> restrict, first |-> m, end |-> end]
           Same == u = Placing(v, v.first + d)
<1>1. t \in OpCodes /\ t.first \in from .. Len(line)
  BY Zenon DEF OpCodeAt
<1>2. t = made(t.code, t.arg, t.memoryOpr, t.zeroFlag, t.restrict, t.end, t.first)
  BY <1>1, OpCodeFields
<1>3. s = made(t.code, t.arg, t.memoryOpr, t.zeroFlag, t.restrict, t.end, t.first + d)
  BY Zenon DEF Placing
<1>4. s.first = t.first + d /\ s.end = t.end
  BY PlacingIs
<1>5. t.first \in 1 .. Len(line) /\ from \in Nat /\ Len(line) \in Nat
  <2>1. Len(line) \in Nat /\ from \in Nat
    BY DEF Slice, Readable
  <2> QED
    BY <1>1, <2>1, Ahead, Zenon
<1>6. token = prog[s.first] /\ (t.first + 1) + d = s.first + 1
  <2>1. token = prog[t.first + d] /\ (t.first + 1) + d = (t.first + d) + 1
    BY <1>5, SliceAt
  <2> QED
    BY <1>4, <2>1, Zenon
<1> HIDE DEF s
<1>7. ASSUME NEW code, NEW arg, NEW memoryOpr, NEW zeroFlag, NEW restrict, NEW end, NEW m,
             u = made(code, arg, memoryOpr, zeroFlag, restrict, end, m + d),
             v = made(code, arg, memoryOpr, zeroFlag, restrict, end, m)
      PROVE  Same
  <2> HIDE DEF u, v
  <2>1. /\ v.code = code /\ v.arg = arg /\ v.memoryOpr = memoryOpr /\ v.zeroFlag = zeroFlag
        /\ v.restrict = restrict /\ v.end = end /\ v.first = m
    BY <1>7, Zenon
  <2> QED
    BY <1>7, <2>1, Zenon DEF Placing
<1>8. ASSUME t.end = "", isValue(class) PROVE Same
  <2> DEFINE e == evaluateExpression(prog, a, s.first)
             f == evaluateExpression(line, b, t.first)
  <2>1. u = [s EXCEPT !.arg = e.left, !.first = e.first, !.end = e.end]
    BY <1>4, <1>6, <1>8, Zenon DEF OpCodeTurn, isValue, isEndOfCodeLine, isEndOfLine
  <2>2. v = [t EXCEPT !.arg = f.left, !.first = f.first, !.end = f.end]
    BY <1>8, Zenon DEF OpCodeTurn, isValue, isEndOfCodeLine, isEndOfLine
  <2>3. SameOperands(line, t.first, a, b)
    <3>1. \A k \in t.first .. Len(line) : k \in from .. Len(line)
      <4>1. \A n \in from .. Len(line) : \A k \in n .. Len(line) : k \in from .. Len(line)
        BY <1>5
      <4> QED
        BY <1>1, <4>1, Zenon
    <3> QED
      BY <3>1, Zenon DEF SameOperands
  <2>4. e = Moved(f, d)
    <3>1. evaluateExpression(prog, a, t.first + d) = Moved(f, d)
      BY <1>5, <2>3, ExpressionMoved
    <3> QED
      BY <1>4, <3>1, Zenon
  <2> HIDE DEF e, f
  <2>5. e.left = f.left /\ e.first = f.first + d /\ e.end = f.end
    BY <2>4, Zenon DEF Moved
  <2>6. u = made(t.code, f.left, t.memoryOpr, t.zeroFlag, t.restrict, f.end, f.first + d)
    BY <1>3, <2>1, <2>5, Zenon
  <2>7. v = made(t.code, f.left, t.memoryOpr, t.zeroFlag, t.restrict, f.end, f.first)
    BY <1>2, <2>2, Zenon
  <2> HIDE DEF u, v, made, Same
  <2> QED
    BY <1>7, <2>6, <2>7, Zenon
<1>9. ASSUME NEW w, w \in OpCodes, w.first = t.first, u = next(Placing(w, s.first)), v = next(w) PROVE Same
  <2>1. w = made(w.code, w.arg, w.memoryOpr, w.zeroFlag, w.restrict, w.end, w.first)
    BY <1>9, OpCodeFields
  <2>2. v = made(w.code, w.arg, w.memoryOpr, w.zeroFlag, w.restrict, w.end, w.first + 1)
    BY <1>9, <2>1, Zenon
  <2>3. Placing(w, s.first) = made(w.code, w.arg, w.memoryOpr, w.zeroFlag, w.restrict, w.end, s.first)
    BY Zenon DEF Placing
  <2>4. u = made(w.code, w.arg, w.memoryOpr, w.zeroFlag, w.restrict, w.end, s.first + 1)
    <3> DEFINE p == Placing(w, s.first)
    <3>1. u = next(p) /\ p = made(w.code, w.arg, w.memoryOpr, w.zeroFlag, w.restrict, w.end, s.first)
      BY <1>9, <2>3
    <3> HIDE DEF p, u
    <3> QED
      BY <3>1, Zenon
  <2>5. u = made(w.code, w.arg, w.memoryOpr, w.zeroFlag, w.restrict, w.end, (w.first + 1) + d)
    BY <1>6, <1>9, <2>4, Zenon
  <2> HIDE DEF u, v, made, Same
  <2> QED
    BY <1>7, <2>2, <2>5, Zenon
<1>10. ASSUME t.end = "", class = "OP_CODE" PROVE Same
  <2> DEFINE i == InstructionSet[token.literal]
             w == Combine(t, i)
  <2>1. u = next(Combine(s, i))
    BY <1>4, <1>6, <1>10, Zenon DEF OpCodeTurn, isValue, isEndOfCodeLine, isEndOfLine
  <2>2. v = next(w)
    BY <1>10, Zenon DEF OpCodeTurn, isValue, isEndOfCodeLine, isEndOfLine
  <2>3. w.first = t.first /\ Combine(s, i) = Placing(w, s.first)
    <3>1. Combine(Placing(t, t.first + d), i) = Placing(w, t.first + d) /\ w.first = t.first
      BY <1>1, CombineMoved, Zenon
    <3> QED
      BY <1>4, <3>1, Zenon DEF s
  <2>4. w \in OpCodes
    <3>1. token.literal \in DOMAIN InstructionSet
      BY <1>5, <1>10, Zenon DEF Slice, Readable
    <3>2. Right(i.opCode, i.orCombination) /\ i.orCombination \in Types
      BY <3>1, InstructionsRight
    <3>3. t.memoryOpr => t.code \in Blank
      BY Zenon DEF OpCodeAt
    <3> HIDE DEF i
    <3> QED
      BY <1>1, <1>10, <3>2, <3>3, CombineKeeps
  <2> HIDE DEF u, v, w, Same
  <2> QED
    BY <1>9, <2>1, <2>2, <2>3, <2>4, Zenon
<1>11. ASSUME ~(t.end = "" /\ isValue(class)), ~(t.end = "" /\ class = "OP_CODE"), isEndOfCodeLine(class)
       PROVE  Same
  <2>1. u = [s EXCEPT !.end = "code"]
    BY <1>4, <1>6, <1>11, Zenon DEF OpCodeTurn
  <2>2. v = [t EXCEPT !.end = "code"]
    BY <1>11, Zenon DEF OpCodeTurn
  <2>3. u = made(t.code, t.arg, t.memoryOpr, t.zeroFlag, t.restrict, "code", t.first + d)
    BY <1>3, <2>1, Zenon
  <2>4. v = made(t.code, t.arg, t.memoryOpr, t.zeroFlag, t.restrict, "code", t.first)
    BY <1>2, <2>2, Zenon
  <2> HIDE DEF u, v, made, Same
  <2> QED
    BY <1>7, <2>3, <2>4, Zenon
<1>12. ASSUME ~(t.end = "" /\ isValue(class)), ~(t.end = "" /\ class = "OP_CODE"), ~isEndOfCodeLine(class)
       PROVE  Same
  <2> DEFINE w == [t EXCEPT !.end = ""]
  <2>1. u = next([s EXCEPT !.end = ""])
    BY <1>4, <1>6, <1>12, Zenon DEF OpCodeTurn
  <2>2. v = next(w)
    BY <1>12, Zenon DEF OpCodeTurn
  <2>3. w = made(t.code, t.arg, t.memoryOpr, t.zeroFlag, t.restrict, "", t.first)
    BY <1>1, OpCodeEnding
  <2>4. [s EXCEPT !.end = ""] = made(t.code, t.arg, t.memoryOpr, t.zeroFlag, t.restrict, "", t.first + d)
    <3>1. ASSUME NEW x, x = [s EXCEPT !.end = ""]
          PROVE  x = made(t.code, t.arg, t.memoryOpr, t.zeroFlag, t.restrict, "", t.first + d)
      BY <1>3, <3>1, Zenon
    <3> HIDE DEF made
    <3> QED
      BY <3>1, Zenon
  <2> HIDE DEF w
  <2>5. w.first = t.first /\ w \in OpCodes
    BY <1>1, <2>3, OpCodeFields, Zenon DEF OpCodes, Ends
  <2>6. /\ w.code = t.code /\ w.arg = t.arg /\ w.memoryOpr = t.memoryOpr /\ w.zeroFlag = t.zeroFlag
        /\ w.restrict = t.restrict /\ w.end = ""
    BY <2>3, Zenon
  <2>7. [s EXCEPT !.end = ""] = Placing(w, s.first)
    BY <1>4, <2>4, <2>6, Zenon DEF Placing
  <2> HIDE DEF u, v, Same
  <2> QED
    BY <1>9, <2>1, <2>2, <2>5, <2>7, Zenon
<1>13. Same
  <2> HIDE DEF Same, class
  <2> QED
    BY <1>8, <1>10, <1>11, <1>12, Zenon
<1> QED
  BY <1>13, Zenon DEF s

(* An instruction of the line, assembled by either assembler: but for the  *)
(* page of the program counter they make the same of it.                   *)
SameRun(prog, line, d, a, b, from) ==
  \E t \in OpCodeAt(line, from) :
    /\ t.end \notin {"", "value"}
    /\ evaluateOpCode(line, b, from) = Encoded(b, t)
    /\ evaluateOpCode(prog, a, from + d) = Encoded(a, Placing(t, t.first + d))

LEMMA OpCodeMoved ==
  ASSUME NEW prog, NEW line, NEW d, Slice(prog, line, d), NEW a \in Assemblers, NEW b \in Assemblers,
         NEW from \in 1 .. Len(line), SameOperands(line, from, a, b)
  PROVE  SameRun(prog, line, d, a, b, from)
<1> DEFINE all == [code : Nat, arg : Int, memoryOpr : BOOLEAN, zeroFlag : BOOLEAN,
                   restrict : Restrictions, first : Nat, end : Ends]
           turn == OpCodeLoop(prog, a)
           turn2 == OpCodeLoop(line, b)
           start == OpCodeStart(from + d)
           start2 == OpCodeStart(from)
           I == OpCodeAt(line, from)
           P(t) == Placing(t, t.first + d)
           R == {<<P(t), t>> : t \in I}
           e == After(turn, start, Len(line))
           e2 == After(turn2, start2, Len(line))
<1>1. /\ turn = [s \in all |-> IF s.end \in {"", "value"} THEN OpCodeTurn(prog, a, s) ELSE s]
      /\ turn2 = [s \in all |-> IF s.end \in {"", "value"} THEN OpCodeTurn(line, b, s) ELSE s]
      /\ evaluateOpCode(prog, a, from + d) = Encoded(a, After(turn, start, Len(prog)))
  BY Zenon DEF evaluateOpCode, Restrictions, OpCodeLoop, OpCodeStart
<1>2. /\ Readable(line) /\ Len(line) \in Nat /\ Len(prog) \in Nat /\ d \in Nat /\ Len(line) <= Len(prog)
      /\ from \in Nat /\ from \in from .. Len(line)
  <2>1. Readable(line) /\ Len(line) \in Nat /\ Len(prog) \in Nat /\ d \in Nat
    BY Zenon DEF Slice, Readable
  <2>2. Len(line) <= Len(prog)
    BY SliceAt
  <2> QED
    BY <2>1, <2>2
<1>3. e2 \in I /\ e2.end \notin {"", "value"} /\ evaluateOpCode(line, b, from) = Encoded(b, e2)
  BY <1>2, OpCodeRuns
<1>4. ASSUME NEW t \in I
      PROVE  t \in all /\ P(t) \in all /\ P(t).end = t.end
  <2>1. t \in OpCodes
    BY Zenon DEF OpCodeAt
  <2>2. /\ t.code \in Nat /\ t.arg \in Int /\ t.memoryOpr \in BOOLEAN /\ t.zeroFlag \in BOOLEAN
        /\ t.restrict \in Restrictions /\ t.first \in Nat /\ t.end \in Ends
    <3>1. t.code \in Word /\ t.arg \in Short \cup {Unset}
      BY <2>1, OpCodeFields
    <3> QED
      BY <2>1, <3>1, WordIsNat, ExpressionRecords, OpCodeFields
  <2>3. t.first + d \in Nat
    <3>1. \A n \in Nat : n + d \in Nat
      BY <1>2
    <3> QED
      BY <2>2, <3>1, Zenon
  <2>4. t \in all
    BY <2>1, <2>2, Zenon DEF OpCodes
  <2>5. P(t) \in all
    BY <2>2, <2>3, Zenon DEF Placing
  <2>6. P(t).end = t.end
    BY PlacingIs
  <2> QED
    BY <2>4, <2>5, <2>6
<1>5. start2 \in I /\ start = P(start2)
  <2>1. 0 \in Word /\ 0 \in Short
    BY DEF Word, Short
  <2>2. "Gr" \in Restrictions /\ "" \in Ends
    BY Zenon DEF Restrictions, Ends
  <2>3. start2 \in OpCodes
    BY <1>2, <2>1, <2>2, Zenon DEF OpCodes, OpCodeStart
  <2>4. start2 \in I
    BY <1>2, <2>1, <2>3, Zenon DEF OpCodeAt, OpCodeStart
  <2>5. start = P(start2)
    BY Zenon DEF OpCodeStart, Placing
  <2> QED
    BY <2>4, <2>5
<1> HIDE DEF all, start, start2, turn, turn2
<1>6. ASSUME NEW t \in I
      PROVE  turn2[t] \in I /\ turn[P(t)] = P(turn2[t])
  <2> DEFINE p == P(t)
  <2>1. t \in all /\ p \in all /\ p.end = t.end
    BY <1>4
  <2>2. OpCodeTurn(prog, a, p) = P(OpCodeTurn(line, b, t))
    BY OpCodeTurnMoved
  <2> HIDE DEF p
  <2>3. CASE t.end \notin {"", "value"}
    <3>1. turn2[t] = t /\ turn[p] = p
      BY <1>1, <2>1, <2>3, Zenon
    <3> QED
      BY <3>1, Zenon DEF p
  <2>4. CASE t.end \in {"", "value"}
    <3>1. turn2[t] = OpCodeTurn(line, b, t) /\ turn[p] = OpCodeTurn(prog, a, p)
      BY <1>1, <2>1, <2>4, Zenon
    <3>2. turn2[t] \in I
      BY <1>2, <2>4, <3>1, OpCodeTurnKeeps
    <3> HIDE DEF P
    <3> QED
      BY <2>2, <3>1, <3>2, Zenon DEF p
  <2> QED
    BY <2>3, <2>4
<1> HIDE DEF P
<1>7. <<start, start2>> \in R /\ \A s, t : <<s, t>> \in R => <<turn[s], turn2[t]>> \in R
  <2> HIDE DEF I
  <2>1. <<start, start2>> \in R
    BY <1>5, Zenon
  <2>2. ASSUME NEW s, NEW t, <<s, t>> \in R PROVE <<turn[s], turn2[t]>> \in R
    <3>1. t \in I /\ s = P(t)
      BY <2>2
    <3> QED
      BY <1>6, <3>1, Zenon
  <2> QED
    BY <2>1, <2>2
<1>8. e = P(e2)
  <2>1. <<e, e2>> \in R
    <3> HIDE DEF R
    <3> QED
      BY <1>2, <1>7, AfterRelated
  <2> HIDE DEF I, e, e2
  <2> QED
    BY <2>1
<1>9. turn[e] = e
  <2> HIDE DEF e2, e
  <2> QED
    BY <1>1, <1>3, <1>4, <1>8, Zenon
<1>10. After(turn, start, Len(prog)) = e
  BY <1>2, <1>9, AfterStays
<1> QED
  BY <1>1, <1>3, <1>8, <1>10, Zenon DEF P, SameRun

(* The line that begins at a token, and its last token.                    *)
LineAt(prog, at) == SubSeq(prog, at, EndOfLineAfter(prog, at))

LEMMA LineEnds ==
  ASSUME NEW prog, Readable(prog), NEW at \in 1 .. Len(prog)
  PROVE  /\ EndOfLineAfter(prog, at) \in at .. Len(prog)
         /\ isEndOfLine(prog[EndOfLineAfter(prog, at)].tokenClass)
         /\ \A n \in at .. Len(prog) : isEndOfLine(prog[n].tokenClass) => EndOfLineAfter(prog, at) <= n
<1> DEFINE ends == {n \in at .. Len(prog) : isEndOfLine(prog[n].tokenClass)}
<1>1. EndOfLineAfter(prog, at) = Min(ends)
  BY Zenon DEF EndOfLineAfter
<1>2. Len(prog) \in Nat /\ at \in Nat /\ Len(prog) \in at .. Len(prog)
  BY DEF Readable
<1>3. Len(prog) \in ends
  BY <1>2, Zenon DEF Readable
<1>4. ends \subseteq Nat
  BY <1>2
<1>5. Min(ends) \in ends /\ \A n \in ends : Min(ends) <= n
  <2> HIDE DEF ends
  <2> QED
    BY <1>3, <1>4, MinIsMember
<1> QED
  BY <1>1, <1>5

LEMMA LineIsSlice ==
  ASSUME NEW prog, Readable(prog), NEW at \in 1 .. Len(prog)
  PROVE  LET line == LineAt(prog, at)
         IN  /\ Slice(prog, line, at - 1) /\ Len(line) = EndOfLineAfter(prog, at) - at + 1
             /\ 1 \in 1 .. Len(line) /\ 1 + (at - 1) = at
             /\ \A k \in 1 .. Len(line) : line[k] = prog[k + (at - 1)] /\ k + (at - 1) \in at .. Len(prog)
<1> DEFINE last == EndOfLineAfter(prog, at)
           line == LineAt(prog, at)
<1>1. last \in at .. Len(prog) /\ isEndOfLine(prog[last].tokenClass)
  BY LineEnds
<1>2. Len(prog) \in Nat \ {0} /\ at \in Nat \ {0} /\ prog \in Seq(Token)
  BY DEF Readable
<1>3. line = SubSeq(prog, at, last)
  BY Zenon DEF LineAt
<1> HIDE DEF last, line
<1>4. last \in Nat /\ at <= last /\ last <= Len(prog)
  BY <1>1, <1>2
<1>5. line \in Seq(Token) /\ Len(line) = last - at + 1
      /\ \A k \in 1 .. Len(line) : line[k] = prog[k + (at - 1)]
  <2>1. \A n \in at .. last : prog[n] \in Token
    BY <1>2, <1>4
  <2> QED
    BY <1>2, <1>3, <1>4, <2>1
<1>6. \A k \in 1 .. Len(line) : k + (at - 1) \in at .. Len(prog) /\ k + (at - 1) \in 1 .. Len(prog)
  BY <1>2, <1>4, <1>5
<1>7. Len(line) \in Nat \ {0} /\ 1 \in 1 .. Len(line) /\ 1 + (at - 1) = at
      /\ Len(line) \in 1 .. Len(line) /\ Len(line) + (at - 1) = last /\ at - 1 \in Nat
  BY <1>2, <1>4, <1>5
<1>8. Readable(line)
  <2>1. isEndOfLine(line[Len(line)].tokenClass)
    BY <1>1, <1>5, <1>7, Zenon
  <2>2. \A n \in 1 .. Len(line) :
          line[n].tokenClass = "OP_CODE" => line[n].literal \in DOMAIN InstructionSet
    BY <1>5, <1>6, Zenon DEF Readable
  <2> QED
    BY <1>5, <1>7, <2>1, <2>2, Zenon DEF Readable
<1>9. Len(line) + (at - 1) <= Len(prog)
  BY <1>4, <1>7
<1> QED
  BY <1>5, <1>6, <1>7, <1>8, <1>9, Zenon DEF Slice, last, line

-----------------------------------------------------------------------------
(* The command d.  A number is what its digits and the radix make of it.   *)
NumberIn(base, digits) ==
  LET good == Max({n \in 0 .. Len(digits) : \A m \in 1 .. n : digits[m] < base})
      read[n \in 0 .. Len(digits)] == IF n = 0 THEN 0 ELSE read[n - 1] * base + digits[n]
  IN  IF good = 0 THEN Refused ELSE Bits16(read[good])

Base(radix, digits) ==
  CASE radix = "OCTAL" -> 8
    [] radix = "DECIMAL" -> 10
    [] OTHER -> IF digits[1] = 0 THEN 8 ELSE 10

LEMMA RadixDecides ==
  ASSUME NEW a, NEW b, a.radix = b.radix, NEW digits
  PROVE  convertNumber(a, digits) = convertNumber(b, digits)
<1>1. \A c : convertNumber(c, digits) = NumberIn(Base(c.radix, digits), digits)
  BY Zenon DEF convertNumber, NumberIn, Base
<1> QED
  BY <1>1, Zenon

LEMMA NextPage ==
  ASSUME NEW address \in Nat, address % 64 # 63
  PROVE  Page(address + 1) = Page(address)
<1>1. (address + 1) \div 64 = address \div 64 /\ (address + 1) \div 512 = address \div 512
  OBVIOUS
<1>2. \A n \in Nat : AndDigit(n, 3776) = 0 /\ AndDigit(n, 3776 \div 8) = 0
  <2>1. 3776 % 2 = 0 /\ ~Bit(3776, 1) /\ ~Bit(3776, 2) /\ ~Bit(3776, 4)
    BY DEF Bit
  <2>2. ~Bit(3776 \div 8, 1) /\ ~Bit(3776 \div 8, 2) /\ ~Bit(3776 \div 8, 4)
    BY DEF Bit
  <2> QED
    BY <2>1, <2>2 DEF AndDigit, Both
<1>3. ASSUME NEW n \in Nat
      PROVE  Page(n) = 64 * AndDigit(n \div 64, 3776 \div 64) + 512 * AndDigit(n \div 512, 3776 \div 512)
  <2> DEFINE x == AndDigit(n \div 64, 3776 \div 64)
             y == AndDigit(n \div 512, 3776 \div 512)
  <2>1. n \div 8 \in Nat /\ n \div 64 \in Nat /\ n \div 512 \in Nat
    OBVIOUS
  <2>2. AndDigit(n, 3776) = 0 /\ AndDigit(n \div 8, 3776 \div 8) = 0
    BY <1>2, <2>1
  <2>3. 3776 \div 64 \in Nat /\ 3776 \div 512 \in Nat
    OBVIOUS
  <2>4. x \in Int /\ y \in Int
    <3>1. x \in 0 .. 7 /\ y \in 0 .. 7
      BY <2>1, <2>3, AndDigitType
    <3> QED
      BY <3>1
  <2>5. Page(n) = AndDigit(n, 3776) + 8 * AndDigit(n \div 8, 3776 \div 8) + 64 * x + 512 * y
    BY DEF Page, And
  <2> HIDE DEF x, y
  <2>6. Page(n) = 64 * x + 512 * y
    BY <2>2, <2>4, <2>5
  <2> QED
    BY <2>6 DEF x, y
<1>4. address + 1 \in Nat
  OBVIOUS
<1> QED
  BY <1>1, <1>3, <1>4

(* Only the page of the program counter has a part in the word.            *)
LEMMA EncodedMoved ==
  ASSUME NEW a, NEW b, NEW t, NEW n, Page(a.programCounter) = Page(b.programCounter)
  PROVE  /\ Encoded(a, Placing(t, n)).left = Encoded(b, t).left
         /\ Encoded(a, Placing(t, n)).end = Encoded(b, t).end
<1> DEFINE s == Placing(t, n)
<1>1. /\ s.code = t.code /\ s.arg = t.arg /\ s.memoryOpr = t.memoryOpr /\ s.zeroFlag = t.zeroFlag
      /\ s.end = t.end
  BY PlacingIs
<1> HIDE DEF s
<1>2. CurrentPage(a, s) = CurrentPage(b, t)
  BY <1>1, Zenon DEF CurrentPage
<1>3. Encoded(a, s).left = Encoded(b, t).left /\ Encoded(a, s).end = Encoded(b, t).end
  BY <1>1, <1>2 DEF Encoded
<1> QED
  BY <1>3 DEF s

(* The assembler that the command makes.                                   *)
LEMMA FreshType ==
  ASSUME NEW line, Readable(line), NEW address \in Short
  PROVE  /\ Fresh(line, address) \in Assemblers /\ Fresh(line, address).radix = "OCTAL"
         /\ Fresh(line, address).programCounter = address
<1> DEFINE table == [name \in DOMAIN PreDefinedSymbols \cup Names(line) |->
                       IF name \in DOMAIN PreDefinedSymbols THEN PreDefinedSymbols[name]
                       ELSE [value |-> 0, status |-> "Undefined"]]
           b == Fresh(line, address)
<1>1. Names(line) \subseteq SymbolNames
  <2>1. DOMAIN line = 1 .. Len(line) /\ \A n \in 1 .. Len(line) : line[n].literal \in Literals
    <3>1. line \in Seq(Token) /\ DOMAIN line = 1 .. Len(line)
      BY LenProperties DEF Readable
    <3>2. \A n \in 1 .. Len(line) : line[n] \in Token
      BY <3>1, ElementOfSeq
    <3> QED
      BY <3>1, <3>2, Zenon DEF Token
  <2>2. ASSUME NEW name \in Names(line) PROVE name \in Literals
    <3>1. PICK n \in DOMAIN line : name = line[n].literal
      BY Zenon DEF Names
    <3> QED
      BY <2>1, <3>1, Zenon
  <2> QED
    BY <2>2, Zenon DEF SymbolNames
<1>2. \A name \in DOMAIN PreDefinedSymbols : PreDefinedSymbols[name] \in Symbol
  BY DEF PreDefinedSymbols, Symbol, Short
<1>3. [value |-> 0, status |-> "Undefined"] \in Symbol
  BY DEF Symbol, Short
<1>4. table \in [DOMAIN PreDefinedSymbols \cup Names(line) -> Symbol]
  BY <1>2, <1>3, Zenon
<1>5. DOMAIN PreDefinedSymbols \cup Names(line) \in SUBSET SymbolNames
  BY <1>1, Zenon DEF SymbolNames
<1>6. table \in Tables
  BY <1>4, <1>5, Zenon DEF Tables
<1>7. b = [[symbolTable |-> table, radix |-> "OCTAL", programCounter |-> 0, assemblerPass |-> 1]
             EXCEPT !.programCounter = address]
  BY Zenon DEF Fresh, readProgram
<1>8. "OCTAL" \in Directives
  BY DEF Directives
<1> HIDE DEF table, b
<1>9. b = [symbolTable |-> table, radix |-> "OCTAL", programCounter |-> address, assemblerPass |-> 1]
  BY <1>7, Zenon
<1>10. b \in Assemblers /\ b.radix = "OCTAL" /\ b.programCounter = address
  BY <1>6, <1>8, <1>9, Zenon DEF Assemblers
<1> QED
  BY <1>10 DEF b

(* A line that begins with an instruction and names no label and no        *)
(* program counter is assembled alone, one address on, as it is in its     *)
(* program.                                                                *)
LEMMA DepositIs ==
  ASSUME NEW prog, Readable(prog), NEW a \in Assemblers, NEW at \in 1 .. Len(prog),
         a.radix = "OCTAL", a.programCounter % 64 # 63,
         \A k \in 1 .. Len(LineAt(prog, at)) :
           LineAt(prog, at)[k].tokenClass \notin {"LABEL", "PROGRAM_COUNTER"},
         evaluateOpCode(prog, a, at).end = "value"
  PROVE  generateOpCode(LineAt(prog, at), a.programCounter).left = evaluateOpCode(prog, a, at).left
<1> DEFINE line == LineAt(prog, at)
           address == a.programCounter
           b == Fresh(line, address)
           c == [b EXCEPT !.programCounter = @ + 1, !.assemblerPass = 2]
           word == evaluateOpCode(prog, a, at)
<1>1. /\ Slice(prog, line, at - 1) /\ Readable(line) /\ 1 \in 1 .. Len(line) /\ 1 + (at - 1) = at
  BY LineIsSlice DEF Slice
<1>2. address \in Short /\ address \in Nat /\ address + 1 \in Short
  <2>1. address \in Short
    BY Zenon DEF Assemblers
  <2>2. \A n \in Short : n \in Nat /\ (n % 64 # 63 => n + 1 \in Short)
    BY DEF Short
  <2> QED
    BY <2>1, <2>2, Zenon
<1>3. b \in Assemblers /\ b.radix = "OCTAL" /\ b.programCounter = address
  BY <1>1, <1>2, FreshType
<1>4. generateOpCode(line, address) =
        IF evaluateOpCode(line, b, 1).end # "value" THEN evaluateOpCode(line, b, 1)
        ELSE evaluateOpCode(line, c, 1)
  BY Zenon DEF generateOpCode
<1> HIDE DEF line, b
<1>5. c \in Assemblers /\ c.radix = "OCTAL" /\ c.programCounter = address + 1
  <2>1. c = [b EXCEPT !.programCounter = address + 1, !.assemblerPass = 2]
    BY <1>3, Zenon
  <2> HIDE DEF c, address
  <2> QED
    BY <1>2, <1>3, <2>1, Zenon DEF Assemblers
<1> HIDE DEF c, address, word
<1>6. ASSUME NEW d \in Assemblers, d.radix = "OCTAL", Page(a.programCounter) = Page(d.programCounter)
      PROVE  evaluateOpCode(line, d, 1).left = word.left /\ evaluateOpCode(line, d, 1).end = word.end
  <2>1. SameOperands(line, 1, a, d)
    <3>1. \A digits : convertNumber(a, digits) = convertNumber(d, digits)
      BY <1>6, RadixDecides
    <3>2. \A k \in 1 .. Len(line) : isValue(line[k].tokenClass) => line[k].tokenClass = "NUMBER"
      BY Zenon DEF isValue, line
    <3> QED
      BY <3>1, <3>2, Zenon DEF SameOperands, Operand
  <2>2. PICK t \in OpCodeAt(line, 1) :
          /\ evaluateOpCode(line, d, 1) = Encoded(d, t)
          /\ evaluateOpCode(prog, a, at) = Encoded(a, Placing(t, t.first + (at - 1)))
    <3> DEFINE m == at - 1
    <3>1. Slice(prog, line, m) /\ 1 + m = at /\ 1 \in 1 .. Len(line)
      BY <1>1
    <3> HIDE DEF m
    <3>2. SameRun(prog, line, m, a, d, 1)
      BY <1>6, <2>1, <3>1, OpCodeMoved
    <3> QED
      BY <3>1, <3>2, Zenon DEF m, SameRun
  <2> DEFINE s == Placing(t, t.first + (at - 1))
  <2>3. Encoded(a, s).left = Encoded(d, t).left /\ Encoded(a, s).end = Encoded(d, t).end
    BY <1>6, EncodedMoved
  <2> QED
    BY <2>2, <2>3, Zenon DEF word
<1>7. Page(address + 1) = Page(address)
  BY <1>2, NextPage DEF address
<1>8. evaluateOpCode(line, b, 1).end = "value"
  BY <1>3, <1>6, Zenon DEF word, address
<1>9. evaluateOpCode(line, c, 1).left = word.left
  BY <1>5, <1>6, <1>7, Zenon DEF address
<1> QED
  BY <1>4, <1>8, <1>9, Zenon DEF line, address, word

(* A line without a directive leaves the radix as it is, and one that      *)
(* begins with an op code is its instruction.                              *)
LEMMA PrefixRadix ==
  ASSUME NEW prog, NEW a \in Assemblers, NEW at, prog[at].tokenClass \notin Directives
  PROVE  Prefix(prog, a, at).a.radix = a.radix
<1> DEFINE class == prog[at].tokenClass
           next  == IF at < Len(prog) THEN prog[at + 1].tokenClass ELSE ""
           p == Prefix(prog, a, at)
<1>1. a = [symbolTable |-> a.symbolTable, radix |-> a.radix, programCounter |-> a.programCounter,
           assemblerPass |-> a.assemblerPass]
  BY Zenon DEF Assemblers
<1>2. \A name, value : setLabelValue(a, name, value).radix = a.radix
  BY <1>1, Zenon DEF setLabelValue
<1>3. CASE class = "LABEL" /\ next = "LABEL_ASSIGN"
  <2>1. p.a = setLabelValue(a, prog[at].literal, evaluateExpression(prog, a, at + 2).left)
    BY <1>3, Zenon DEF Prefix
  <2> QED
    BY <1>2, <2>1, Zenon
<1>4. CASE class = "LABEL" /\ next = "LABEL_DEFINE"
  <2>1. p.a = setLabelValue(a, prog[at].literal, a.programCounter)
    BY <1>4, Zenon DEF Prefix
  <2> QED
    BY <1>2, <2>1, Zenon
<1>5. CASE class = "LOCATION"
  <2> DEFINE n == evaluateExpression(prog, a, at + 1).left
  <2>1. p.a = [a EXCEPT !.programCounter = n]
    BY <1>5, Zenon DEF Prefix
  <2> HIDE DEF n, p
  <2>2. p.a.radix = a.radix
    BY <1>1, <2>1, Zenon
  <2> QED
    BY <2>2 DEF p
<1>6. CASE ~(class = "LABEL" /\ next = "LABEL_ASSIGN") /\ ~(class = "LABEL" /\ next = "LABEL_DEFINE")
           /\ class # "LOCATION"
  <2>1. p.a = a
    BY <1>6, Zenon DEF Prefix
  <2> QED
    BY <2>1, Zenon
<1> QED
  BY <1>3, <1>4, <1>5, <1>6, Zenon

LEMMA AdvancedRadix ==
  ASSUME NEW a \in Assemblers, NEW hasCode
  PROVE  Advanced(a, hasCode).radix = a.radix /\ Advanced(a, hasCode).symbolTable = a.symbolTable
<1> DEFINE n == IF hasCode THEN Bits16(a.programCounter + 1) ELSE a.programCounter
<1>1. Advanced(a, hasCode) = [a EXCEPT !.programCounter = n]
  BY Zenon DEF Advanced
<1> HIDE DEF n
<1> QED
  BY <1>1, Zenon DEF Assemblers

LEMMA OpCodeLine ==
  ASSUME NEW prog, NEW a, NEW at, prog[at].tokenClass = "OP_CODE"
  PROVE  /\ Prefix(prog, a, at) = [a |-> a, first |-> at, end |-> "value"]
         /\ Code(prog, a, at) = evaluateOpCode(prog, a, at)
<1>1. Prefix(prog, a, at) = [a |-> a, first |-> at, end |-> "value"]
  BY Zenon DEF Prefix, Directives
<1>2. Code(prog, a, at) = evaluateOpCode(prog, a, at)
  BY Zenon DEF Code, isValue
<1> QED
  BY <1>1, <1>2

-----------------------------------------------------------------------------
(* A listed word that is deposited as it is listed, if its line is one     *)
(* that can be.                                                            *)
Undirected(prog) == \A k \in DOMAIN prog : prog[k].tokenClass \notin Directives

Deposited(prog, e) ==
  LET line == LineAt(prog, e.line)
  IN  /\ line[1].tokenClass = "OP_CODE"
      /\ \A k \in DOMAIN line : line[k].tokenClass \notin {"LABEL", "PROGRAM_COUNTER"}
      /\ Undirected(prog)
      /\ e.address % 64 # 63
      => generateOpCode(line, e.address).left = e.word

Depositing ==
  /\ Listing
  /\ \A n \in DOMAIN listing : Deposited(program, listing[n])
  /\ Undirected(program) => assembler.radix = "OCTAL"

LEMMA LineDeposited ==
  ASSUME Depositing, first \in 1 .. Len(program), NEW prefix, NEW code,
         prefix = Prefix(program, assembler, first), code = Code(program, prefix.a, prefix.first),
         code.end = "value"
  PROVE  Deposited(program, Entry(prefix, code))
<1> DEFINE line == LineAt(program, first)
           e == Entry(prefix, code)
<1>1. e.line = first /\ e.address = prefix.a.programCounter /\ e.word = code.left
  BY Zenon DEF Entry
<1>2. Readable(program) /\ assembler \in Assemblers
  BY Zenon DEF Depositing, Listing, Assembling
<1>3. line[1] = program[first] /\ DOMAIN line = 1 .. Len(line)
  <2>1. /\ \A k \in 1 .. Len(line) : line[k] = program[k + (first - 1)]
        /\ 1 \in 1 .. Len(line) /\ 1 + (first - 1) = first /\ Readable(line)
    BY <1>2, LineIsSlice DEF Slice
  <2>2. line \in Seq(Token)
    BY <2>1, Zenon DEF Readable
  <2> HIDE DEF line
  <2>3. DOMAIN line = 1 .. Len(line)
    BY <2>2
  <2> QED
    BY <2>1, <2>3, Zenon
<1> HIDE DEF e, line
<1> SUFFICES ASSUME line[1].tokenClass = "OP_CODE",
                    \A k \in DOMAIN line : line[k].tokenClass \notin {"LABEL", "PROGRAM_COUNTER"},
                    Undirected(program), e.address % 64 # 63
             PROVE  generateOpCode(line, e.address).left = e.word
  BY <1>1, Zenon DEF Deposited, line, e
<1>4. program[first].tokenClass = "OP_CODE"
  BY <1>3, Zenon
<1>5. prefix.a = assembler /\ prefix.first = first /\ code = evaluateOpCode(program, assembler, first)
  <2>1. prefix = [a |-> assembler, first |-> first, end |-> "value"]
    BY <1>4, OpCodeLine, Zenon
  <2>2. ASSUME NEW p, p = [a |-> assembler, first |-> first, end |-> "value"]
        PROVE  p.a = assembler /\ p.first = first
    BY <2>2, Zenon
  <2>3. prefix.a = assembler /\ prefix.first = first
    BY <2>1, <2>2, Zenon
  <2> QED
    BY <1>4, <2>3, OpCodeLine, Zenon
<1>6. assembler.radix = "OCTAL"
  BY Zenon DEF Depositing
<1>7. e.address = assembler.programCounter
  BY <1>1, <1>5, Zenon
<1>8. assembler.programCounter % 64 # 63
  BY <1>7
<1>9. \A k \in 1 .. Len(LineAt(program, first)) :
        LineAt(program, first)[k].tokenClass \notin {"LABEL", "PROGRAM_COUNTER"}
  BY <1>3, Zenon DEF line
<1>10. evaluateOpCode(program, assembler, first).end = "value"
  BY <1>5, Zenon
<1>11. generateOpCode(LineAt(program, first), assembler.programCounter).left
         = evaluateOpCode(program, assembler, first).left
  BY <1>2, <1>6, <1>8, <1>9, <1>10, DepositIs
<1> QED
  BY <1>1, <1>5, <1>7, <1>11, Zenon DEF line

(* An instruction that names no label and no program counter is deposited  *)
(* as the word that the second pass lists for it, in a program without a   *)
(* directive, but for the last of each 0100 words: d is the assembler.     *)
THEOREM DepositsAreListed == Spec => []DepositAgrees
<1>1. Depositing => DepositAgrees
  BY Zenon DEF Depositing, Deposited, Undirected, DepositAgrees, LineOf, LineAt
<1>2. Init => Depositing
  <2> SUFFICES ASSUME Init PROVE Depositing
    OBVIOUS
  <2>1. listing = <<>> /\ \E source \in Sources : assembler = readProgram(source)
    BY Zenon DEF Init
  <2>2. assembler.radix = "OCTAL"
    <3>1. ASSUME NEW source PROVE readProgram(source).radix = "OCTAL"
      BY Zenon DEF readProgram
    <3> QED
      BY <2>1, <3>1, Zenon
  <2>3. listing \in Seq(Entries) /\ DOMAIN listing = {}
    BY <2>1
  <2> QED
    BY <2>2, <2>3, InitAssembling, Zenon DEF Depositing, Listing
<1>3. Depositing /\ [Next]_vars => Depositing'
  <2> SUFFICES ASSUME Depositing, [Next]_vars PROVE Depositing'
    OBVIOUS
  <2>1. ASSUME UNCHANGED <<program, assembler, first, listing>> PROVE Depositing'
    <3>1. Listing'
      BY <2>1, StillAssembling, Zenon DEF Listing, Depositing
    <3> QED
      BY <2>1, <3>1, Zenon DEF Depositing
  <2>2. ASSUME parseLine PROVE Depositing'
    <3> DEFINE prefix == Prefix(program, assembler, first)
               code == Code(program, prefix.a, prefix.first)
    <3>1. /\ first \in 1 .. Len(program)
          /\ PrefixAt(program, assembler, first, prefix)
          /\ prefix.end = "value" => CodeAt(program, prefix.first, code)
          /\ \/ Stopped(prefix.end)
             \/ /\ prefix.end = "value"
                /\ Stopped(code.end) \/ Line(prefix, code)
      BY <2>2, LineParsed DEF Depositing, Listing
    <3>2. code.end = "value" => Deposited(program, Entry(prefix, code))
      BY <3>1, LineDeposited
    <3>3. Undirected(program) => prefix.a.radix = "OCTAL"
      <4>1. program \in Seq(Token) /\ DOMAIN program = 1 .. Len(program)
        BY DEF Depositing, Listing, Assembling, Readable
      <4>2. Undirected(program) => program[first].tokenClass \notin Directives
        BY <3>1, <4>1, Zenon DEF Undirected
      <4>3. assembler \in Assemblers /\ (Undirected(program) => assembler.radix = "OCTAL")
        BY Zenon DEF Depositing, Listing, Assembling
      <4> QED
        BY <4>2, <4>3, PrefixRadix, Zenon
    <3> HIDE DEF prefix, code
    <3>4. CASE Stopped(prefix.end) \/ Stopped(code.end)
      BY <2>1, <3>4, Zenon DEF Stopped
    <3>5. CASE prefix.end = "value" /\ Line(prefix, code)
      <4>1. /\ Listing'
            /\ \/ listing' = listing
               \/ listing' = Append(listing, Entry(prefix, code))
        BY <3>1, <3>5, LineListed, Zenon DEF Depositing
      <4>2. /\ code.end = "value" /\ program' = program
            /\ assembler' = Advanced(prefix.a, code.left # Unset)
        BY <3>5, Zenon DEF Line
      <4>3. assembler'.radix = prefix.a.radix
        <5>1. prefix.a \in Assemblers
          BY <3>1, <3>5, Zenon DEF PrefixAt
        <5> QED
          BY <4>2, <5>1, AdvancedRadix, Zenon
      <4>4. \A n \in DOMAIN listing' : Deposited(program, listing'[n])
        <5> DEFINE e == Entry(prefix, code)
        <5>1. listing \in Seq(Entries) /\ \A n \in DOMAIN listing : Deposited(program, listing[n])
          BY Zenon DEF Depositing, Listing
        <5>2. Deposited(program, e)
          BY <3>2, <4>2, Zenon
        <5> HIDE DEF e
        <5>3. ASSUME listing' = Append(listing, e), NEW n \in DOMAIN listing'
              PROVE  (n \in DOMAIN listing /\ listing'[n] = listing[n]) \/ listing'[n] = e
          BY <5>1, <5>3
        <5> QED
          BY <4>1, <5>1, <5>2, <5>3, Zenon DEF e
      <4> QED
        BY <3>3, <4>1, <4>2, <4>3, <4>4, Zenon DEF Depositing
    <3> QED
      BY <3>1, <3>4, <3>5, Zenon
  <2>3. CASE pass2
    <3>1. Listing' /\ UNCHANGED <<program, listing>>
      BY <2>3, PassEnds, Zenon DEF Listing, Depositing
    <3>2. assembler'.radix = assembler.radix
      <4>1. assembler' = [assembler EXCEPT !.assemblerPass = 2] /\ assembler \in Assemblers
        BY <2>3, Zenon DEF pass2, Depositing, Listing, Assembling
      <4> QED
        BY <4>1, Zenon DEF Assemblers
    <3> QED
      BY <3>1, <3>2, Zenon DEF Depositing
  <2>4. CASE finish
    BY <2>1, <2>4, Zenon DEF finish
  <2>5. CASE UNCHANGED vars
    BY <2>1, <2>5, Zenon DEF vars
  <2> QED
    BY <2>2, <2>3, <2>4, <2>5, Zenon DEF Next
<1> QED
  BY <1>1, <1>2, <1>3, PTL DEF Spec

-----------------------------------------------------------------------------
(* The two passes.  The line that begins at a token, in its program: where *)
(* the next one begins, and that no line begins in between.                *)
NextLine(prog, at) == EndOfLineAfter(prog, at) + 1

LEMMA LinesInOrder ==
  ASSUME NEW prog, Readable(prog), NEW at \in 1 .. Len(prog)
  PROVE  /\ NextLine(prog, at) \in 1 .. Len(prog) + 1 /\ NextLine(prog, at) > at
         /\ LineStart(prog, NextLine(prog, at))
         /\ \A n \in 1 .. Len(prog) + 1 : LineStart(prog, n) /\ n > at => NextLine(prog, at) <= n
<1> DEFINE last == EndOfLineAfter(prog, at)
<1>1. /\ last \in at .. Len(prog) /\ isEndOfLine(prog[last].tokenClass)
      /\ \A n \in at .. Len(prog) : isEndOfLine(prog[n].tokenClass) => last <= n
  BY LineEnds
<1>2. Len(prog) \in Nat /\ NextLine(prog, at) = last + 1
  BY DEF Readable, NextLine
<1> HIDE DEF last
<1>3. last \in Nat /\ last + 1 \in 1 .. Len(prog) + 1 /\ last + 1 > at /\ (last + 1) - 1 = last
  BY <1>1, <1>2
<1>4. LineStart(prog, last + 1)
  BY <1>1, <1>3 DEF LineStart
<1>5. ASSUME NEW n \in 1 .. Len(prog) + 1, LineStart(prog, n), n > at PROVE last + 1 <= n
  <2>1. n # 1 /\ n - 1 \in at .. Len(prog)
    BY <1>2, <1>5
  <2>2. isEndOfLine(prog[n - 1].tokenClass)
    BY <1>5, <2>1 DEF LineStart
  <2>3. last <= n - 1
    BY <1>1, <2>1, <2>2
  <2> QED
    BY <1>3, <2>3
<1> QED
  BY <1>2, <1>3, <1>4, <1>5

LEMMA InLine ==
  ASSUME NEW prog, Readable(prog), NEW at \in 1 .. Len(prog), NEW k \in at .. EndOfLineAfter(prog, at)
  PROVE  /\ k \in 1 .. Len(prog) /\ NextLine(prog, k) = NextLine(prog, at)
         /\ ~isEndOfLine(prog[k].tokenClass) => k + 1 \in at .. EndOfLineAfter(prog, at)
<1> DEFINE last == EndOfLineAfter(prog, at)
           last2 == EndOfLineAfter(prog, k)
<1>1. /\ last \in at .. Len(prog) /\ isEndOfLine(prog[last].tokenClass)
      /\ \A n \in at .. Len(prog) : isEndOfLine(prog[n].tokenClass) => last <= n
  BY LineEnds
<1>2. Len(prog) \in Nat
  BY DEF Readable
<1>3. k \in 1 .. Len(prog)
  BY <1>1, <1>2
<1>4. /\ last2 \in k .. Len(prog) /\ isEndOfLine(prog[last2].tokenClass)
      /\ \A n \in k .. Len(prog) : isEndOfLine(prog[n].tokenClass) => last2 <= n
  BY <1>3, LineEnds
<1>5. k \in at .. last
  OBVIOUS
<1> HIDE DEF last, last2
<1>6. last \in k .. Len(prog) /\ last2 \in at .. Len(prog)
  BY <1>1, <1>2, <1>4, <1>5
<1>7. last2 <= last /\ last <= last2
  BY <1>1, <1>4, <1>6
<1>8. last2 = last
  BY <1>1, <1>4, <1>6, <1>7, <1>2
<1>9. ~isEndOfLine(prog[k].tokenClass) => k # last
  BY <1>1
<1>10. ~isEndOfLine(prog[k].tokenClass) => k + 1 \in at .. last
  BY <1>1, <1>2, <1>5, <1>9
<1> QED
  BY <1>3, <1>8, <1>10 DEF last, last2, NextLine

(* The operands of a line, after its first token, have the same values for *)
(* two assemblers: so have its expressions.                                *)
OperandsAgree(prog, at, a, b) ==
  \A k \in at + 1 .. EndOfLineAfter(prog, at) :
    isValue(prog[k].tokenClass) => Operand(a, prog[k]) = Operand(b, prog[k])

LEMMA ExpressionOfLine ==
  ASSUME NEW prog, Readable(prog), NEW a \in Assemblers, NEW at \in 1 .. Len(prog),
         NEW k \in at .. EndOfLineAfter(prog, at)
  PROVE  /\ evaluateExpression(prog, a, k).first \in at .. EndOfLineAfter(prog, at)
         /\ \A b \in Assemblers : OperandsAgree(prog, at, a, b) /\ k # at =>
              evaluateExpression(prog, b, k) = evaluateExpression(prog, a, k)
<1> DEFINE line == LineAt(prog, at)
           last == EndOfLineAfter(prog, at)
           d == at - 1
           from == k - d
           e == evaluateExpression(line, a, from)
<1>1. /\ Slice(prog, line, d) /\ Len(line) = last - at + 1
      /\ \A n \in 1 .. Len(line) : line[n] = prog[n + d]
  BY LineIsSlice
<1>2. last \in at .. Len(prog) /\ Len(prog) \in Nat
  BY LineEnds DEF Readable
<1> HIDE DEF line, last
<1>3. k \in at .. last
  BY DEF last
<1>4. from \in 1 .. Len(line) /\ from + d = k /\ (k # at => from # 1)
      /\ \A n \in 1 .. Len(line) : n + d \in at .. last /\ (n # 1 => n + d \in at + 1 .. last)
  BY <1>1, <1>2, <1>3
<1>5. Readable(line) /\ Len(line) \in Nat
  BY <1>1, Zenon DEF Slice, Readable
<1>6. e.first \in from .. Len(line)
  <2>1. e \in ExpressionAt(line, from)
    BY <1>4, <1>5, ExpressionEnds
  <2> HIDE DEF e, from
  <2> QED
    BY <2>1, Zenon DEF ExpressionAt
<1> HIDE DEF e, d, from
<1>7. ASSUME NEW b \in Assemblers, SameOperands(line, from, b, a)
      PROVE  evaluateExpression(prog, b, k) = Moved(e, d)
  <2>1. evaluateExpression(prog, b, from + d) = Moved(e, d)
    BY <1>1, <1>4, <1>7, ExpressionMoved DEF e
  <2> QED
    BY <1>4, <2>1
<1>8. evaluateExpression(prog, a, k) = Moved(e, d)
  BY <1>7, Zenon DEF SameOperands
<1>9. Moved(e, d).first \in at .. last
  <2>1. \A n \in from .. Len(line) : n + d \in at .. last
    BY <1>4, <1>5
  <2> QED
    BY <1>6, <2>1, Zenon DEF Moved
<1>10. ASSUME NEW b \in Assemblers, OperandsAgree(prog, at, a, b), k # at
       PROVE  evaluateExpression(prog, b, k) = evaluateExpression(prog, a, k)
  <2>1. \A n \in from .. Len(line) : n \in 1 .. Len(line) /\ n # 1
    BY <1>4, <1>5, <1>10
  <2>2. \A n \in from .. Len(line) : line[n] = prog[n + d] /\ n + d \in at + 1 .. last
    BY <1>1, <1>4, <2>1, Zenon
  <2>3. SameOperands(line, from, b, a)
    BY <1>10, <2>2, Zenon DEF OperandsAgree, SameOperands, last
  <2> QED
    BY <1>7, <1>8, <2>3, Zenon
<1> QED
  BY <1>8, <1>9, <1>10, Zenon DEF last

LEMMA OpCodeOfLine ==
  ASSUME NEW prog, Readable(prog), NEW a \in Assemblers, NEW at \in 1 .. Len(prog),
         NEW k \in at .. EndOfLineAfter(prog, at)
  PROVE  evaluateOpCode(prog, a, k).first \in at .. EndOfLineAfter(prog, at)
<1> DEFINE line == LineAt(prog, at)
           last == EndOfLineAfter(prog, at)
           d == at - 1
           from == k - d
<1>1. Slice(prog, line, d) /\ Len(line) = last - at + 1
  BY LineIsSlice
<1>2. last \in at .. Len(prog) /\ Len(prog) \in Nat
  BY LineEnds DEF Readable
<1> HIDE DEF line, last
<1>3. k \in at .. last
  BY DEF last
<1>4. from \in 1 .. Len(line) /\ from + d = k
      /\ \A n \in from .. Len(line) : n + d \in at .. last
  BY <1>1, <1>2, <1>3
<1> HIDE DEF d, from
<1>5. SameOperands(line, from, a, a)
  BY Zenon DEF SameOperands
<1>6. SameRun(prog, line, d, a, a, from)
  BY <1>1, <1>4, <1>5, OpCodeMoved
<1>7. PICK t \in OpCodeAt(line, from) : evaluateOpCode(prog, a, from + d) = Encoded(a, Placing(t, t.first + d))
  BY <1>6, Zenon DEF SameRun
<1>8. t.first + d \in at .. last
  BY <1>4, Zenon DEF OpCodeAt
<1>9. Encoded(a, Placing(t, t.first + d)).first = t.first + d
  BY Zenon DEF Encoded, Placing
<1> QED
  BY <1>4, <1>7, <1>8, <1>9, Zenon DEF last

(* What a line does, in terms of its first tokens: the table it leaves,    *)
(* the radix, the program counter of its word, and where its code begins.  *)
DefinesAt(prog, at) ==
  prog[at].tokenClass = "LABEL" /\ prog[at + 1].tokenClass \in {"LABEL_ASSIGN", "LABEL_DEFINE"}

SymbolOf(prog, a, at) ==
  [value |-> IF prog[at + 1].tokenClass = "LABEL_ASSIGN" THEN evaluateExpression(prog, a, at + 2).left
             ELSE a.programCounter,
   status |-> "Defined"]

TableAfter(prog, a, at) ==
  IF DefinesAt(prog, at) THEN Extended(a.symbolTable, prog[at].literal, SymbolOf(prog, a, at))
  ELSE a.symbolTable

RadixAfter(prog, a, at) == IF prog[at].tokenClass \in Directives THEN prog[at].tokenClass ELSE a.radix

CounterAt(prog, a, at) ==
  IF prog[at].tokenClass = "LOCATION" THEN evaluateExpression(prog, a, at + 1).left ELSE a.programCounter

CodeBegins(prog, a, at) ==
  IF prog[at].tokenClass \in Directives THEN at + 1
  ELSE IF prog[at].tokenClass = "LOCATION" THEN evaluateExpression(prog, a, at + 1).first
  ELSE IF ~DefinesAt(prog, at) THEN at
  ELSE IF prog[at + 1].tokenClass = "LABEL_ASSIGN" THEN evaluateExpression(prog, a, at + 2).first
  ELSE at + 2

LEMMA SetLabelFields ==
  ASSUME NEW a \in Assemblers, NEW name, NEW value
  PROVE  LET b == setLabelValue(a, name, value)
         IN  /\ b.symbolTable = Extended(a.symbolTable, name, [value |-> value, status |-> "Defined"])
             /\ b.radix = a.radix /\ b.programCounter = a.programCounter
<1> DEFINE table == Extended(a.symbolTable, name, [value |-> value, status |-> "Defined"])
           b == setLabelValue(a, name, value)
<1>1. b = [a EXCEPT !.symbolTable = table]
  BY Zenon DEF setLabelValue, Extended
<1> HIDE DEF table, b
<1>2. b.symbolTable = table /\ b.radix = a.radix /\ b.programCounter = a.programCounter
  BY <1>1, Zenon DEF Assemblers
<1> QED
  BY <1>2 DEF table, b

LEMMA PrefixFields ==
  ASSUME NEW prog, Readable(prog), NEW a \in Assemblers, NEW at \in 1 .. Len(prog)
  PROVE  LET p == Prefix(prog, a, at)
         IN  /\ p.a.symbolTable = TableAfter(prog, a, at)
             /\ p.a.radix = RadixAfter(prog, a, at)
             /\ p.a.programCounter = CounterAt(prog, a, at)
             /\ p.first = CodeBegins(prog, a, at)
<1> DEFINE class == prog[at].tokenClass
           next  == IF at < Len(prog) THEN prog[at + 1].tokenClass ELSE ""
           p == Prefix(prog, a, at)
           Claim == /\ p.a.symbolTable = TableAfter(prog, a, at)
                    /\ p.a.radix = RadixAfter(prog, a, at)
                    /\ p.a.programCounter = CounterAt(prog, a, at)
                    /\ p.first = CodeBegins(prog, a, at)
<1>1. class = "LABEL" => next = prog[at + 1].tokenClass
  <2>1. ~isEndOfLine("LABEL")
    BY Zenon DEF isEndOfLine
  <2>2. class = "LABEL" => at + 1 \in 1 .. Len(prog)
    BY <2>1, TokenAt, Zenon
  <2>3. at + 1 \in 1 .. Len(prog) => at < Len(prog)
    BY DEF Readable
  <2> QED
    BY <2>2, <2>3, Zenon
<1> HIDE DEF next
<1>2. p = CASE class \in Directives -> [a |-> [a EXCEPT !.radix = class], first |-> at + 1, end |-> "value"]
            [] class = "LABEL" /\ next = "LABEL_ASSIGN" ->
                 [a |-> setLabelValue(a, prog[at].literal, evaluateExpression(prog, a, at + 2).left),
                  first |-> evaluateExpression(prog, a, at + 2).first,
                  end |-> evaluateExpression(prog, a, at + 2).end]
            [] class = "LABEL" /\ next = "LABEL_DEFINE" ->
                 [a |-> setLabelValue(a, prog[at].literal, a.programCounter), first |-> at + 2, end |-> "value"]
            [] class = "LOCATION" ->
                 [a |-> [a EXCEPT !.programCounter = evaluateExpression(prog, a, at + 1).left],
                  first |-> evaluateExpression(prog, a, at + 1).first,
                  end |-> evaluateExpression(prog, a, at + 1).end]
            [] OTHER -> [a |-> a, first |-> at, end |-> "value"]
  BY Zenon DEF Prefix, next
<1> HIDE DEF p
<1>3. "LABEL" \notin Directives /\ "LOCATION" \notin Directives
  BY Zenon DEF Directives
<1>4. ASSUME class \in Directives PROVE Claim
  <2> DEFINE b == [a EXCEPT !.radix = class]
  <2>1. b.symbolTable = a.symbolTable /\ b.radix = class /\ b.programCounter = a.programCounter
    BY Zenon DEF Assemblers
  <2> HIDE DEF b
  <2>2. p = [a |-> b, first |-> at + 1, end |-> "value"]
    BY <1>2, <1>3, <1>4, Zenon DEF b
  <2>3. p.a = b /\ p.first = at + 1
    BY <2>2, Zenon
  <2> QED
    BY <1>3, <1>4, <2>1, <2>3, Zenon DEF TableAfter, RadixAfter, CounterAt, CodeBegins, DefinesAt
<1>5. ASSUME class = "LABEL" /\ next = "LABEL_ASSIGN" PROVE Claim
  <2> DEFINE e == evaluateExpression(prog, a, at + 2)
             b == setLabelValue(a, prog[at].literal, e.left)
  <2>1. p = [a |-> b, first |-> e.first, end |-> e.end]
    BY <1>2, <1>3, <1>5, Zenon
  <2>2. /\ b.symbolTable = Extended(a.symbolTable, prog[at].literal, [value |-> e.left, status |-> "Defined"])
        /\ b.radix = a.radix /\ b.programCounter = a.programCounter
    BY SetLabelFields
  <2> HIDE DEF b
  <2>3. p.a = b /\ p.first = e.first
    BY <2>1, Zenon
  <2>4. DefinesAt(prog, at) /\ prog[at + 1].tokenClass = "LABEL_ASSIGN"
    BY <1>1, <1>5, Zenon DEF DefinesAt
  <2>5. class \notin Directives /\ class # "LOCATION"
    BY <1>3, <1>5, Zenon
  <2>6. SymbolOf(prog, a, at) = [value |-> e.left, status |-> "Defined"]
    BY <2>4, Zenon DEF SymbolOf
  <2> QED
    BY <2>2, <2>3, <2>4, <2>5, <2>6, Zenon DEF TableAfter, RadixAfter, CounterAt, CodeBegins
<1>6. ASSUME class = "LABEL" /\ next = "LABEL_DEFINE" PROVE Claim
  <2> DEFINE b == setLabelValue(a, prog[at].literal, a.programCounter)
  <2>1. p = [a |-> b, first |-> at + 2, end |-> "value"]
    BY <1>2, <1>3, <1>6, Zenon
  <2>2. /\ b.symbolTable = Extended(a.symbolTable, prog[at].literal, [value |-> a.programCounter, status |-> "Defined"])
        /\ b.radix = a.radix /\ b.programCounter = a.programCounter
    BY SetLabelFields
  <2> HIDE DEF b
  <2>3. p.a = b /\ p.first = at + 2
    BY <2>1, Zenon
  <2>4. DefinesAt(prog, at) /\ prog[at + 1].tokenClass # "LABEL_ASSIGN"
    BY <1>1, <1>6, Zenon DEF DefinesAt
  <2>5. class \notin Directives /\ class # "LOCATION"
    BY <1>3, <1>6, Zenon
  <2>6. SymbolOf(prog, a, at) = [value |-> a.programCounter, status |-> "Defined"]
    BY <2>4, Zenon DEF SymbolOf
  <2> QED
    BY <2>2, <2>3, <2>4, <2>5, <2>6, Zenon DEF TableAfter, RadixAfter, CounterAt, CodeBegins
<1>7. ASSUME class = "LOCATION" PROVE Claim
  <2> DEFINE e == evaluateExpression(prog, a, at + 1)
             b == [a EXCEPT !.programCounter = e.left]
  <2>1. p = [a |-> b, first |-> e.first, end |-> e.end]
    BY <1>2, <1>3, <1>7, Zenon
  <2>2. b.symbolTable = a.symbolTable /\ b.radix = a.radix /\ b.programCounter = e.left
    <3> HIDE DEF e
    <3> QED
      BY Zenon DEF Assemblers
  <2> HIDE DEF b
  <2>3. p.a = b /\ p.first = e.first
    BY <2>1, Zenon
  <2>4. class \notin Directives /\ class # "LABEL"
    BY <1>3, <1>7, Zenon
  <2> QED
    BY <1>7, <2>2, <2>3, <2>4, Zenon DEF TableAfter, RadixAfter, CounterAt, CodeBegins, DefinesAt
<1>8. ASSUME class \notin Directives, class # "LOCATION",
             ~(class = "LABEL" /\ next \in {"LABEL_ASSIGN", "LABEL_DEFINE"})
      PROVE  Claim
  <2>1. p = [a |-> a, first |-> at, end |-> "value"]
    BY <1>2, <1>8, Zenon
  <2>2. p.a = a /\ p.first = at
    <3>1. ASSUME NEW q, q = [a |-> a, first |-> at, end |-> "value"] PROVE q.a = a /\ q.first = at
      BY <3>1, Zenon
    <3> QED
      BY <2>1, <3>1, Zenon
  <2>3. ~DefinesAt(prog, at)
    BY <1>1, <1>8, Zenon DEF DefinesAt
  <2> QED
    BY <1>8, <2>2, <2>3, Zenon DEF TableAfter, RadixAfter, CounterAt, CodeBegins
<1>9. Claim
  <2> HIDE DEF Claim, class
  <2> QED
    BY <1>4, <1>5, <1>6, <1>7, <1>8, Zenon
<1> QED
  BY <1>9 DEF p

LEMMA CodeBeginsInLine ==
  ASSUME NEW prog, Readable(prog), NEW a \in Assemblers, NEW at \in 1 .. Len(prog)
  PROVE  CodeBegins(prog, a, at) \in at .. EndOfLineAfter(prog, at)
<1> DEFINE class == prog[at].tokenClass
           last == EndOfLineAfter(prog, at)
<1>1. at \in at .. last
  BY LineEnds
<1>2. /\ "LABEL" \notin Directives /\ "LOCATION" \notin Directives
      /\ \A c \in Directives \cup {"LOCATION", "LABEL", "LABEL_ASSIGN", "LABEL_DEFINE"} : ~isEndOfLine(c)
  BY Zenon DEF Directives, isEndOfLine
<1>3. class \in Directives \cup {"LOCATION", "LABEL"} => at + 1 \in at .. last
  BY <1>1, <1>2, InLine, Zenon
<1>4. DefinesAt(prog, at) => at + 2 \in at .. last
  <2>1. DefinesAt(prog, at) => at + 1 \in at .. last /\ ~isEndOfLine(prog[at + 1].tokenClass)
    BY <1>2, <1>3, Zenon DEF DefinesAt
  <2>2. DefinesAt(prog, at) => (at + 1) + 1 \in at .. last
    BY <2>1, InLine, Zenon
  <2>3. (at + 1) + 1 = at + 2
    OBVIOUS
  <2> QED
    BY <2>2, <2>3
<1>5. \A k \in at .. last : evaluateExpression(prog, a, k).first \in at .. last
  BY ExpressionOfLine
<1> HIDE DEF last
<1> QED
  BY <1>1, <1>3, <1>4, <1>5, Zenon DEF CodeBegins, last

(* The code of a line, and whether it has a word.                          *)
HasCode(prog, n) == isValue(prog[n].tokenClass) \/ prog[n].tokenClass = "OP_CODE"

LEMMA CodeOfLine ==
  ASSUME NEW prog, Readable(prog), NEW a \in Assemblers, NEW at \in 1 .. Len(prog),
         NEW k \in at .. EndOfLineAfter(prog, at), Code(prog, a, k).end = "value"
  PROVE  /\ Code(prog, a, k).first \in at .. EndOfLineAfter(prog, at)
         /\ Code(prog, a, k).left # Unset <=> HasCode(prog, k)
<1> DEFINE class == prog[k].tokenClass
           last == EndOfLineAfter(prog, at)
           c == Code(prog, a, k)
           Claim == c.first \in at .. last /\ (c.left # Unset <=> HasCode(prog, k))
<1>1. k \in 1 .. Len(prog)
  BY InLine
<1>2. ASSUME isValue(class) PROVE Claim
  <2> DEFINE e == evaluateExpression(prog, a, k)
  <2>1. c = [left |-> e.left, operand |-> Unset, first |-> e.first, end |-> e.end]
    BY <1>2, Zenon DEF Code, isValue
  <2>2. e.first \in at .. last
    BY ExpressionOfLine
  <2>3. e.end = "value" => e.left # Unset
    BY <1>1, <1>2, ExpressionResult, Zenon
  <2> HIDE DEF e, c
  <2>4. c.left = e.left /\ c.first = e.first /\ c.end = e.end
    BY <2>1, Zenon
  <2> QED
    BY <1>2, <2>2, <2>3, <2>4, Zenon DEF HasCode, c
<1>3. ASSUME class = "OP_CODE" PROVE Claim
  <2>1. c = evaluateOpCode(prog, a, k)
    BY <1>3, Zenon DEF Code, isValue
  <2>2. c.first \in at .. last
    BY <2>1, OpCodeOfLine
  <2>3. c.left \in Word
    BY <1>1, <2>1, OpCodeMeans
  <2>4. \A w \in Word : w # Unset
    BY DEF Word, Unset
  <2> QED
    BY <1>3, <2>2, <2>3, <2>4, Zenon DEF HasCode
<1>4. ASSUME ~isValue(class), class # "OP_CODE" PROVE Claim
  <2>1. c = [left |-> Unset, operand |-> Unset, first |-> k, end |-> "value"]
    BY <1>4, Zenon DEF Code
  <2> HIDE DEF c
  <2>2. c.left = Unset /\ c.first = k
    BY <2>1, Zenon
  <2> QED
    BY <1>4, <2>2, Zenon DEF HasCode
<1>5. Claim
  <2> HIDE DEF class, Claim
  <2> QED
    BY <1>2, <1>3, <1>4, Zenon
<1> QED
  BY <1>5

(* A line that is assembled, in either pass.                               *)
Step(prog, a, at, b) ==
  LET p == Prefix(prog, a, at)
      code == Code(prog, p.a, p.first)
  IN  p.end = "value" /\ code.end = "value" /\ b = Advanced(p.a, code.left # Unset)

LEMMA StepIs ==
  ASSUME NEW prog, Readable(prog), NEW a \in Assemblers, NEW at \in 1 .. Len(prog), NEW b,
         Step(prog, a, at, b)
  PROVE  LET p == Prefix(prog, a, at)
         IN  /\ b \in Assemblers /\ b.assemblerPass = a.assemblerPass
             /\ b.symbolTable = TableAfter(prog, a, at)
             /\ b.radix = RadixAfter(prog, a, at)
             /\ b.programCounter = IF HasCode(prog, CodeBegins(prog, a, at)) THEN Bits16(CounterAt(prog, a, at) + 1)
                                   ELSE CounterAt(prog, a, at)
             /\ NextLine(prog, Code(prog, p.a, p.first).first) = NextLine(prog, at)
<1> DEFINE p == Prefix(prog, a, at)
           code == Code(prog, p.a, p.first)
           last == EndOfLineAfter(prog, at)
           hasCode == code.left # Unset
<1>1. p.end = "value" /\ code.end = "value" /\ b = Advanced(p.a, hasCode)
  BY Zenon DEF Step
<1>2. /\ p.a.symbolTable = TableAfter(prog, a, at) /\ p.a.radix = RadixAfter(prog, a, at)
      /\ p.a.programCounter = CounterAt(prog, a, at) /\ p.first = CodeBegins(prog, a, at)
  BY PrefixFields
<1>3. p.a \in Assemblers /\ p.a.assemblerPass = a.assemblerPass
  BY <1>1, PrefixType, Zenon DEF PrefixAt
<1>4. p.first \in at .. last
  BY <1>2, CodeBeginsInLine
<1>5. code.first \in at .. last /\ (hasCode <=> HasCode(prog, p.first))
  BY <1>1, <1>3, <1>4, CodeOfLine
<1>6. NextLine(prog, code.first) = NextLine(prog, at)
  BY <1>5, InLine
<1> HIDE DEF p, hasCode
<1>7. /\ b \in Assemblers /\ b.assemblerPass = p.a.assemblerPass /\ b.radix = p.a.radix
      /\ b.symbolTable = p.a.symbolTable
      /\ b.programCounter = IF hasCode THEN Bits16(p.a.programCounter + 1) ELSE p.a.programCounter
  BY <1>1, <1>3, AdvancedType, AdvancedRadix
<1>8. b.programCounter = IF HasCode(prog, CodeBegins(prog, a, at)) THEN Bits16(CounterAt(prog, a, at) + 1)
                         ELSE CounterAt(prog, a, at)
  BY <1>2, <1>5, <1>7, Zenon
<1> QED
  BY <1>2, <1>3, <1>6, <1>7, <1>8, Zenon DEF p

-----------------------------------------------------------------------------
(* What is known of an assembler at the beginning of a line: it has the    *)
(* names defined above, and the predefined ones that are left alone.       *)
Sound(prog, a, at) ==
  /\ a \in Assemblers
  /\ \A name : DefinedAbove(prog, at, name) => name \in DOMAIN a.symbolTable
  /\ \A name \in DOMAIN PreDefinedSymbols : NeverDefined(prog, name) =>
       name \in DOMAIN a.symbolTable /\ a.symbolTable[name] = PreDefinedSymbols[name]

LEMMA DefinedNext ==
  ASSUME NEW prog, Readable(prog), NEW at \in 1 .. Len(prog), LineStart(prog, at), NEW name
  PROVE  DefinedAbove(prog, NextLine(prog, at), name) <=>
           DefinedAbove(prog, at, name) \/ (DefinesAt(prog, at) /\ name = prog[at].literal)
<1> DEFINE next == NextLine(prog, at)
<1>1. /\ next \in 1 .. Len(prog) + 1 /\ next > at
      /\ \A n \in 1 .. Len(prog) + 1 : LineStart(prog, n) /\ n > at => next <= n
  BY LinesInOrder
<1>2. Len(prog) \in Nat
  BY DEF Readable
<1> HIDE DEF next
<1>3. Defines(prog, at) <=> DefinesAt(prog, at)
  BY Zenon DEF Defines, DefinesAt
<1>4. ASSUME NEW d \in 1 .. next - 1, Defines(prog, d), d # at PROVE d \in 1 .. at - 1
  <2>1. LineStart(prog, d)
    BY <1>4, Zenon DEF Defines
  <2>2. d \in 1 .. Len(prog) + 1 /\ (d > at => next <= d)
    BY <1>1, <1>2, <2>1
  <2> QED
    BY <1>1, <1>2, <1>4, <2>2
<1>5. at \in 1 .. next - 1 /\ \A d \in 1 .. at - 1 : d \in 1 .. next - 1
  BY <1>1, <1>2
<1> QED
  BY <1>3, <1>4, <1>5, Zenon DEF DefinedAbove, next

LEMMA StepSound ==
  ASSUME NEW prog, Readable(prog), NEW at \in 1 .. Len(prog), LineStart(prog, at), NEW a, NEW b,
         Sound(prog, a, at), Step(prog, a, at, b)
  PROVE  Sound(prog, b, NextLine(prog, at)) /\ b.assemblerPass = a.assemblerPass
<1> DEFINE literal == prog[at].literal
           table == Extended(a.symbolTable, literal, SymbolOf(prog, a, at))
<1>1. a \in Assemblers
  BY Zenon DEF Sound
<1>2. b \in Assemblers /\ b.assemblerPass = a.assemblerPass /\ b.symbolTable = TableAfter(prog, a, at)
  BY <1>1, StepIs
<1>3. /\ DefinesAt(prog, at) => b.symbolTable = table
      /\ ~DefinesAt(prog, at) => b.symbolTable = a.symbolTable
      /\ DOMAIN table = DOMAIN a.symbolTable \cup {literal}
      /\ \A y \in DOMAIN a.symbolTable : y # literal => table[y] = a.symbolTable[y]
  <2>1. /\ DOMAIN table = DOMAIN a.symbolTable \cup {literal}
        /\ \A y \in DOMAIN a.symbolTable : y # literal => table[y] = a.symbolTable[y]
    BY Zenon DEF Extended
  <2>2. b.symbolTable = IF DefinesAt(prog, at) THEN table ELSE a.symbolTable
    BY <1>2, Zenon DEF TableAfter
  <2> HIDE DEF table
  <2> QED
    BY <2>1, <2>2, Zenon
<1> HIDE DEF table
<1>4. \A name : name \in DOMAIN b.symbolTable <=>
                  name \in DOMAIN a.symbolTable \/ (DefinesAt(prog, at) /\ name = literal)
  <2>1. CASE DefinesAt(prog, at)
    <3>1. DOMAIN b.symbolTable = DOMAIN a.symbolTable \cup {literal}
      BY <1>3, <2>1, Zenon
    <3> QED
      BY <2>1, <3>1, Zenon
  <2>2. CASE ~DefinesAt(prog, at)
    BY <1>3, <2>2, Zenon
  <2> QED
    BY <2>1, <2>2
<1>5. ASSUME NEW name, DefinedAbove(prog, NextLine(prog, at), name) PROVE name \in DOMAIN b.symbolTable
  BY <1>4, <1>5, DefinedNext, Zenon DEF Sound
<1>6. ASSUME NEW name \in DOMAIN PreDefinedSymbols, NeverDefined(prog, name)
      PROVE  name \in DOMAIN b.symbolTable /\ b.symbolTable[name] = PreDefinedSymbols[name]
  <2>1. name \in DOMAIN a.symbolTable /\ a.symbolTable[name] = PreDefinedSymbols[name]
    BY <1>6, Zenon DEF Sound
  <2>2. DefinesAt(prog, at) => name # literal
    <3>1. at \in DOMAIN prog
      BY DEF Readable
    <3> QED
      BY <1>6, <3>1, Zenon DEF NeverDefined, Defines, DefinesAt
  <2>3. b.symbolTable[name] = a.symbolTable[name]
    BY <1>3, <2>1, <2>2, Zenon
  <2> QED
    BY <1>4, <2>1, <2>3, Zenon
<1> QED
  BY <1>2, <1>5, <1>6, Zenon DEF Sound

(* What the two passes have in common, the first with an assembler a at a  *)
(* line and the second with b, when the first began with the origin at n   *)
(* in a radix and ended with a table.                                      *)
Agree(prog, n, radix, table, a, b, at) ==
  /\ DOMAIN b.symbolTable = DOMAIN table
  /\ \A name \in DOMAIN table :
       b.symbolTable[name] = IF DefinedAbove(prog, at, name) THEN a.symbolTable[name] ELSE table[name]
  /\ b.radix \in {a.radix, radix}
  /\ at >= n => b.radix = radix
  /\ at > n => b.programCounter = a.programCounter

LEMMA LineOperandsAgree ==
  ASSUME NEW prog, Readable(prog), NEW at \in 1 .. Len(prog), LineStart(prog, at), NEW n \in 1 .. Len(prog),
         BeginsAt(prog, n), LooksBack(prog), at >= n, NEW a, NEW b, Sound(prog, a, at), Sound(prog, b, at),
         \A name : DefinedAbove(prog, at, name) => a.symbolTable[name] = b.symbolTable[name],
         a.radix = b.radix, at > n => a.programCounter = b.programCounter,
         prog[at].tokenClass = "LOCATION"
           \/ (prog[at].tokenClass = "LABEL" /\ prog[at + 1].tokenClass = "LABEL_ASSIGN")
  PROVE  OperandsAgree(prog, at, a, b)
<1> SUFFICES ASSUME NEW k \in at + 1 .. EndOfLineAfter(prog, at), isValue(prog[k].tokenClass)
             PROVE  Operand(a, prog[k]) = Operand(b, prog[k])
  BY Zenon DEF OperandsAgree
<1> DEFINE class == prog[k].tokenClass
           name == prog[k].literal
<1>1. CASE class = "NUMBER"
  <2>1. convertNumber(a, prog[k].digits) = convertNumber(b, prog[k].digits)
    BY RadixDecides
  <2> QED
    BY <1>1, <2>1, Zenon DEF Operand
<1>2. class # "NUMBER" => class \in {"LABEL", "PROGRAM_COUNTER"} /\ at > n
  <2>1. class # "NUMBER" => class \in {"LABEL", "PROGRAM_COUNTER"}
    BY Zenon DEF isValue
  <2>2. at = n => class \notin {"LABEL", "PROGRAM_COUNTER"}
    <3>1. k \in at .. EndOfLineAfter(prog, at)
      OBVIOUS
    <3> QED
      BY <3>1, Zenon DEF BeginsAt
  <2>3. at # n => at > n
    OBVIOUS
  <2> QED
    BY <2>1, <2>2, <2>3, Zenon
<1>3. CASE class = "PROGRAM_COUNTER"
  <2>1. a.programCounter = b.programCounter
    BY <1>2, <1>3, Zenon
  <2> QED
    BY <1>3, <2>1, Zenon DEF Operand
<1>4. CASE class = "LABEL"
  <2>1. at \in 1 .. Len(prog) - 1
    <3>1. ~isEndOfLine(prog[at].tokenClass)
      BY Zenon DEF isEndOfLine
    <3>2. at + 1 \in 1 .. Len(prog)
      BY <3>1, TokenAt
    <3> QED
      BY <3>2 DEF Readable
  <2>2. \/ DefinedAbove(prog, at, name)
        \/ name \in DOMAIN PreDefinedSymbols /\ NeverDefined(prog, name)
    BY <1>4, <2>1, Zenon DEF LooksBack
  <2>3. name \in DOMAIN a.symbolTable /\ name \in DOMAIN b.symbolTable
        /\ a.symbolTable[name] = b.symbolTable[name]
    BY <2>2, Zenon DEF Sound
  <2>4. convertLabel(a, name) = convertLabel(b, name)
    BY <2>3, Zenon DEF convertLabel
  <2> QED
    BY <1>4, <2>4, Zenon DEF Operand
<1> QED
  BY <1>1, <1>2, <1>3, <1>4, Zenon

(* From the origin on, both passes make the same of a line.                *)
LEMMA SameLine ==
  ASSUME NEW prog, Readable(prog), NEW at \in 1 .. Len(prog), LineStart(prog, at), NEW n \in 1 .. Len(prog),
         BeginsAt(prog, n), LooksBack(prog), at >= n, NEW a, NEW b, Sound(prog, a, at), Sound(prog, b, at),
         \A name : DefinedAbove(prog, at, name) => a.symbolTable[name] = b.symbolTable[name],
         a.radix = b.radix, at > n => a.programCounter = b.programCounter
  PROVE  /\ DefinesAt(prog, at) => SymbolOf(prog, a, at) = SymbolOf(prog, b, at)
         /\ CounterAt(prog, a, at) = CounterAt(prog, b, at)
         /\ CodeBegins(prog, a, at) = CodeBegins(prog, b, at)
<1> DEFINE class == prog[at].tokenClass
           last == EndOfLineAfter(prog, at)
           assigns == class = "LABEL" /\ prog[at + 1].tokenClass = "LABEL_ASSIGN"
<1>1. a \in Assemblers /\ b \in Assemblers
  BY Zenon DEF Sound
<1>2. ASSUME class = "LOCATION" \/ assigns, NEW k \in at .. last, k # at
      PROVE  evaluateExpression(prog, a, k) = evaluateExpression(prog, b, k)
  <2>1. OperandsAgree(prog, at, a, b)
    BY <1>2, LineOperandsAgree
  <2>2. \A c \in Assemblers : OperandsAgree(prog, at, a, c) /\ k # at =>
          evaluateExpression(prog, c, k) = evaluateExpression(prog, a, k)
    BY <1>1, <1>2, ExpressionOfLine
  <2> QED
    BY <1>1, <1>2, <2>1, <2>2, Zenon
<1>3. /\ "LABEL" \notin Directives /\ "LOCATION" \notin Directives
      /\ \A c \in Directives \cup {"LOCATION", "LABEL", "LABEL_ASSIGN", "LABEL_DEFINE"} : ~isEndOfLine(c)
  BY Zenon DEF Directives, isEndOfLine
<1>4. at \in at .. last /\ at + 1 # at /\ at + 2 # at
  <2>1. at \in at .. last
    BY LineEnds
  <2> QED
    BY <2>1
<1>5. class \in {"LOCATION", "LABEL"} => at + 1 \in at .. last
  BY <1>3, <1>4, InLine, Zenon
<1>6. assigns => at + 2 \in at .. last
  <2>1. assigns => at + 1 \in at .. last /\ ~isEndOfLine(prog[at + 1].tokenClass)
    BY <1>3, <1>5, Zenon
  <2>2. assigns => (at + 1) + 1 \in at .. last
    BY <2>1, InLine, Zenon
  <2>3. (at + 1) + 1 = at + 2
    OBVIOUS
  <2> QED
    BY <2>2, <2>3
<1> HIDE DEF last
<1>7. class = "LOCATION" => evaluateExpression(prog, a, at + 1) = evaluateExpression(prog, b, at + 1)
  BY <1>2, <1>4, <1>5, Zenon
<1>8. assigns => evaluateExpression(prog, a, at + 2) = evaluateExpression(prog, b, at + 2)
  BY <1>2, <1>4, <1>6, Zenon
<1>9. class # "LOCATION" => a.programCounter = b.programCounter
  <2>1. at = n => class = "LOCATION"
    BY Zenon DEF BeginsAt
  <2>2. at # n => at > n
    OBVIOUS
  <2> QED
    BY <2>1, <2>2, Zenon
<1>10. DefinesAt(prog, at) => SymbolOf(prog, a, at) = SymbolOf(prog, b, at)
  BY <1>8, <1>9, Zenon DEF SymbolOf, DefinesAt
<1>11. CounterAt(prog, a, at) = CounterAt(prog, b, at)
  BY <1>7, <1>9, Zenon DEF CounterAt
<1>12. CodeBegins(prog, a, at) = CodeBegins(prog, b, at)
  BY <1>7, <1>8, Zenon DEF CodeBegins, DefinesAt
<1> QED
  BY <1>10, <1>11, <1>12

(* A line leaves in common what was in common, and what it defines.        *)
LEMMA AgreeKept ==
  ASSUME NEW prog, Readable(prog), NEW at \in 1 .. Len(prog), LineStart(prog, at), NEW n \in 1 .. Len(prog),
         BeginsAt(prog, n), LooksBack(prog), NEW radix, NEW table,
         NEW a, NEW b, NEW a2, NEW b2, Sound(prog, a, at), Sound(prog, b, at),
         Step(prog, a, at, a2), Step(prog, b, at, b2), Agree(prog, n, radix, table, a, b, at),
         \A name : DefinesAt(prog, at) /\ name = prog[at].literal => name \in DOMAIN table,
         \A name : DefinedAbove(prog, at, name) => name \in DOMAIN table,
         at >= n => a.radix = radix, NextLine(prog, at) >= n => a2.radix = radix
  PROVE  Agree(prog, n, radix, table, a2, b2, NextLine(prog, at))
<1> DEFINE class == prog[at].tokenClass
           next == NextLine(prog, at)
           name0 == prog[at].literal
<1>1. a \in Assemblers /\ b \in Assemblers
  BY Zenon DEF Sound
<1>2. /\ a2.symbolTable = TableAfter(prog, a, at) /\ a2.radix = RadixAfter(prog, a, at)
      /\ a2.programCounter = IF HasCode(prog, CodeBegins(prog, a, at)) THEN Bits16(CounterAt(prog, a, at) + 1)
                             ELSE CounterAt(prog, a, at)
      /\ b2.symbolTable = TableAfter(prog, b, at) /\ b2.radix = RadixAfter(prog, b, at)
      /\ b2.programCounter = IF HasCode(prog, CodeBegins(prog, b, at)) THEN Bits16(CounterAt(prog, b, at) + 1)
                             ELSE CounterAt(prog, b, at)
  BY <1>1, StepIs
<1>3. /\ next \in 1 .. Len(prog) + 1 /\ next > at
      /\ LineStart(prog, n) /\ (n > at => next <= n)
  <2>1. LineStart(prog, n) /\ n \in 1 .. Len(prog) + 1
    BY DEF BeginsAt, Readable
  <2> QED
    BY <2>1, LinesInOrder
<1>4. \A name : DefinedAbove(prog, next, name) <=>
        DefinedAbove(prog, at, name) \/ (DefinesAt(prog, at) /\ name = name0)
  BY DefinedNext
<1> HIDE DEF next
<1>5. /\ DOMAIN b.symbolTable = DOMAIN table
      /\ \A name \in DOMAIN table :
           b.symbolTable[name] = IF DefinedAbove(prog, at, name) THEN a.symbolTable[name] ELSE table[name]
      /\ b.radix \in {a.radix, radix} /\ (at >= n => b.radix = radix)
      /\ at > n => b.programCounter = a.programCounter
  BY Zenon DEF Agree
<1>6. b2.radix \in {a2.radix, radix}
  BY <1>2, <1>5, Zenon DEF RadixAfter
<1>7. next >= n => b2.radix = radix
  BY <1>6, Zenon DEF next
<1>8. CASE at < n
  <2>1. class \in Directives \cup {"COMMENT", "END_OF_LINE"}
    <3>1. at \in 1 .. n - 1
      BY <1>8
    <3> QED
      BY <3>1, Zenon DEF BeginsAt
  <2>2. ~DefinesAt(prog, at)
    BY <2>1, Zenon DEF DefinesAt, Directives
  <2>3. a2.symbolTable = a.symbolTable /\ b2.symbolTable = b.symbolTable
    BY <1>2, <2>2, Zenon DEF TableAfter
  <2>4. ~(next > n)
    BY <1>3, <1>8
  <2>5. \A name \in DOMAIN table :
          b2.symbolTable[name] = IF DefinedAbove(prog, next, name) THEN a2.symbolTable[name] ELSE table[name]
    BY <1>4, <1>5, <2>2, <2>3, Zenon
  <2> QED
    BY <1>5, <1>6, <1>7, <2>3, <2>4, <2>5, Zenon DEF Agree, next
<1>9. CASE at >= n
  <2>1. a.radix = b.radix
    BY <1>5, <1>9, Zenon
  <2>2. \A name : DefinedAbove(prog, at, name) => a.symbolTable[name] = b.symbolTable[name]
    BY <1>5, Zenon
  <2>3. at > n => a.programCounter = b.programCounter
    BY <1>5, Zenon
  <2>4. /\ DefinesAt(prog, at) => SymbolOf(prog, a, at) = SymbolOf(prog, b, at)
        /\ CounterAt(prog, a, at) = CounterAt(prog, b, at)
        /\ CodeBegins(prog, a, at) = CodeBegins(prog, b, at)
    BY <1>9, <2>1, <2>2, <2>3, SameLine
  <2>5. b2.programCounter = a2.programCounter
    BY <1>2, <2>4, Zenon
  <2>6. /\ DOMAIN b2.symbolTable = DOMAIN table
        /\ \A name \in DOMAIN table :
             b2.symbolTable[name] = IF DefinedAbove(prog, next, name) THEN a2.symbolTable[name] ELSE table[name]
    <3>1. CASE ~DefinesAt(prog, at)
      <4>1. a2.symbolTable = a.symbolTable /\ b2.symbolTable = b.symbolTable
        BY <1>2, <3>1, Zenon DEF TableAfter
      <4> QED
        BY <1>4, <1>5, <3>1, <4>1, Zenon
    <3>2. CASE DefinesAt(prog, at)
      <4> DEFINE symbol == SymbolOf(prog, a, at)
                 t == a.symbolTable
                 u == b.symbolTable
      <4>1. a2.symbolTable = Extended(t, name0, symbol) /\ b2.symbolTable = Extended(u, name0, symbol)
        BY <1>2, <2>4, <3>2, Zenon DEF TableAfter
      <4>2. name0 \in DOMAIN table
        BY <3>2
      <4>3. \A name : DefinedAbove(prog, at, name) => name \in DOMAIN t
        BY Zenon DEF Sound
      <4> HIDE DEF t, u, symbol
      <4>4. DOMAIN Extended(u, name0, symbol) = DOMAIN table
        <5>1. DOMAIN Extended(u, name0, symbol) = DOMAIN u \cup {name0}
          BY Zenon DEF Extended
        <5>2. DOMAIN u = DOMAIN table
          BY <1>5, Zenon DEF u
        <5> QED
          BY <4>2, <5>1, <5>2, Zenon
      <4>5. ASSUME NEW name \in DOMAIN table
            PROVE  Extended(u, name0, symbol)[name] =
                     IF DefinedAbove(prog, next, name) THEN Extended(t, name0, symbol)[name] ELSE table[name]
        <5>1. CASE name = name0
          <6>1. DefinedAbove(prog, next, name)
            BY <1>4, <3>2, <5>1, Zenon
          <6> QED
            BY <5>1, <6>1, Zenon DEF Extended
        <5>2. CASE name # name0
          <6>1. u[name] = IF DefinedAbove(prog, at, name) THEN t[name] ELSE table[name]
            BY <1>5, Zenon DEF t, u
          <6>2. Extended(u, name0, symbol)[name] = u[name]
            <7>1. name \in DOMAIN u
              BY <1>5, Zenon DEF u
            <7> QED
              BY <5>2, <7>1, Zenon DEF Extended
          <6>3. DefinedAbove(prog, at, name) => Extended(t, name0, symbol)[name] = t[name]
            BY <4>3, <5>2, Zenon DEF Extended
          <6> QED
            BY <1>4, <5>2, <6>1, <6>2, <6>3, Zenon
        <5> QED
          BY <5>1, <5>2
      <4> QED
        BY <4>1, <4>4, <4>5, Zenon
    <3> QED
      BY <3>1, <3>2
  <2>7. Agree(prog, n, radix, table, a2, b2, next)
    BY <1>6, <1>7, <2>5, <2>6, Zenon DEF Agree
  <2> QED
    BY <2>7 DEF next
<1>10. at < n \/ at >= n
  OBVIOUS
<1> QED
  BY <1>8, <1>9, <1>10, Zenon DEF next

-----------------------------------------------------------------------------
(* The first pass, remembered: with what assembler it came to each line.   *)
Past(prog, n, h, upto) ==
  /\ h \in [1 .. Len(prog) + 1 -> Assemblers]
  /\ \A m \in 1 .. Len(prog) : LineStart(prog, m) /\ m < upto => Step(prog, h[m], m, h[NextLine(prog, m)])
  /\ \A m \in 1 .. Len(prog) + 1 : LineStart(prog, m) /\ m <= upto =>
       Sound(prog, h[m], m) /\ (m >= n => h[m].radix = h[n].radix)

PassOne(prog, n, a, at) == \E h : Past(prog, n, h, at) /\ h[at] = a

(* The second pass, along the first.                                       *)
PassTwo(prog, n, a, at, table) ==
  \E h : /\ Past(prog, n, h, Len(prog) + 1) /\ table = h[Len(prog) + 1].symbolTable
         /\ Agree(prog, n, h[n].radix, table, h[at], a, at) /\ Sound(prog, a, at)

LEMMA RadixKept ==
  ASSUME NEW prog, Readable(prog), NEW at \in 1 .. Len(prog), NEW n \in 1 .. Len(prog), BeginsAt(prog, n),
         at >= n, NEW a \in Assemblers, NEW b, Step(prog, a, at, b)
  PROVE  b.radix = a.radix
<1>1. b.radix = RadixAfter(prog, a, at)
  BY StepIs
<1>2. at \in n .. Len(prog)
  BY DEF Readable
<1>3. prog[at].tokenClass \notin Directives
  BY <1>2, Zenon DEF BeginsAt
<1> QED
  BY <1>1, <1>3, Zenon DEF RadixAfter

LEMMA NothingAbove == ASSUME NEW prog, NEW name PROVE ~DefinedAbove(prog, 1, name)
BY DEF DefinedAbove

LEMMA PassOneBegins ==
  ASSUME NEW source \in Sources, NEW n \in 1 .. Len(Classified(source))
  PROVE  PassOne(Classified(source), n, readProgram(source), 1)
<1> DEFINE prog == Classified(source)
           a == readProgram(source)
           h == [m \in 1 .. Len(prog) + 1 |-> a]
<1>1. Readable(prog) /\ a \in Assemblers
  BY ReadProgram
<1>2. Len(prog) \in Nat /\ \A m \in 1 .. Len(prog) + 1 : ~(m < 1) /\ (m <= 1 => m = 1)
  BY <1>1 DEF Readable
<1>3. \A name \in DOMAIN PreDefinedSymbols :
        name \in DOMAIN a.symbolTable /\ a.symbolTable[name] = PreDefinedSymbols[name]
  <2> DEFINE table == [name \in DOMAIN PreDefinedSymbols \cup Names(source) |->
                         IF name \in DOMAIN PreDefinedSymbols THEN PreDefinedSymbols[name]
                         ELSE [value |-> 0, status |-> "Undefined"]]
  <2>1. a = [symbolTable |-> table, radix |-> "OCTAL", programCounter |-> 0, assemblerPass |-> 1]
    BY Zenon DEF readProgram
  <2>2. \A name \in DOMAIN PreDefinedSymbols : name \in DOMAIN table /\ table[name] = PreDefinedSymbols[name]
    BY Zenon
  <2> HIDE DEF table, a
  <2>3. a.symbolTable = table
    BY <2>1, Zenon
  <2> QED
    BY <2>2, <2>3, Zenon
<1> HIDE DEF prog, a
<1>4. Sound(prog, a, 1)
  BY <1>1, <1>3, NothingAbove, Zenon DEF Sound
<1>5. Past(prog, n, h, 1)
  <2>1. h \in [1 .. Len(prog) + 1 -> Assemblers] /\ \A m \in 1 .. Len(prog) + 1 : h[m] = a
    BY <1>1, Zenon
  <2>2. \A m \in 1 .. Len(prog) : m \in 1 .. Len(prog) + 1
    BY <1>2
  <2>3. \A m \in 1 .. Len(prog) + 1 : m <= 1 => Sound(prog, h[m], m)
    BY <1>2, <1>4, <2>1, Zenon
  <2>4. \A m \in 1 .. Len(prog) + 1 : m <= 1 /\ m >= n => h[m].radix = h[n].radix
    <3>1. n \in 1 .. Len(prog) + 1
      BY <1>2 DEF prog
    <3> QED
      BY <2>1, <3>1, Zenon
  <2> QED
    BY <1>2, <2>1, <2>2, <2>3, <2>4, Zenon DEF Past
<1>6. h[1] = a
  <2>1. 1 \in 1 .. Len(prog) + 1
    BY <1>2
  <2> QED
    BY <2>1, Zenon
<1> QED
  BY <1>5, <1>6, Zenon DEF PassOne, prog, a

LEMMA PassOneGoesOn ==
  ASSUME NEW prog, Readable(prog), NEW at \in 1 .. Len(prog), LineStart(prog, at), NEW n \in 1 .. Len(prog),
         BeginsAt(prog, n), NEW a, NEW b, PassOne(prog, n, a, at), Step(prog, a, at, b)
  PROVE  PassOne(prog, n, b, NextLine(prog, at))
<1>1. PICK h : Past(prog, n, h, at) /\ h[at] = a
  BY Zenon DEF PassOne
<1> DEFINE next == NextLine(prog, at)
           all == 1 .. Len(prog) + 1
           g == [h EXCEPT ![next] = b]
<1>2. /\ next \in all /\ next > at
      /\ \A m \in all : LineStart(prog, m) /\ m > at => next <= m
  BY LinesInOrder
<1>3. Len(prog) \in Nat
  BY DEF Readable
<1>4. /\ h \in [all -> Assemblers]
      /\ \A m \in 1 .. Len(prog) : LineStart(prog, m) /\ m < at => Step(prog, h[m], m, h[NextLine(prog, m)])
      /\ \A m \in all : LineStart(prog, m) /\ m <= at =>
           Sound(prog, h[m], m) /\ (m >= n => h[m].radix = h[n].radix)
  BY <1>1, Zenon DEF Past
<1>5. at \in all /\ at <= at /\ n \in all
  BY <1>3
<1>6. Sound(prog, a, at) /\ a \in Assemblers /\ (at >= n => a.radix = h[n].radix)
  BY <1>1, <1>4, <1>5, Zenon DEF Sound
<1>7. Sound(prog, b, next) /\ b \in Assemblers
  <2>1. Sound(prog, b, next)
    BY <1>6, StepSound
  <2> QED
    BY <2>1, Zenon DEF Sound
<1>8. at >= n => b.radix = a.radix
  BY <1>6, RadixKept
<1> HIDE DEF next, all
<1>9. g \in [all -> Assemblers] /\ g[next] = b /\ \A m \in all : m # next => g[m] = h[m]
  BY <1>2, <1>4, <1>7, Zenon
<1> HIDE DEF g
<1>10. ASSUME NEW m \in 1 .. Len(prog), LineStart(prog, m), m < next
       PROVE  Step(prog, g[m], m, g[NextLine(prog, m)])
  <2>1. m \in all /\ m # next /\ m \in 1 .. Len(prog) + 1
    BY <1>3, <1>10 DEF all
  <2>2. ~(m > at)
    <3>1. m > at => next <= m
      BY <1>2, <1>10, <2>1
    <3>2. next \in Nat
      BY <1>2, <1>3 DEF all
    <3> QED
      BY <1>10, <3>1, <3>2
  <2>3. CASE m = at
    BY <1>1, <1>9, <2>1, <2>3, Zenon DEF next
  <2>4. CASE m # at
    <3>1. m < at
      BY <2>2, <2>4
    <3>2. Step(prog, h[m], m, h[NextLine(prog, m)])
      BY <1>4, <1>10, <3>1, Zenon
    <3>3. NextLine(prog, m) \in all /\ NextLine(prog, m) # next
      <4>1. /\ NextLine(prog, m) \in all
            /\ \A k \in all : LineStart(prog, k) /\ k > m => NextLine(prog, m) <= k
        BY LinesInOrder DEF all
      <4>2. NextLine(prog, m) <= at
        BY <1>5, <3>1, <4>1
      <4> QED
        BY <1>2, <1>3, <4>1, <4>2 DEF all
    <3> QED
      BY <1>9, <2>1, <3>2, <3>3, Zenon
  <2> QED
    BY <2>3, <2>4
<1>11. ASSUME NEW m \in all, LineStart(prog, m), m <= next
       PROVE  Sound(prog, g[m], m) /\ (m >= n => g[m].radix = g[n].radix)
  <2>1. CASE m = next
    <3>1. Sound(prog, g[m], m)
      BY <1>7, <1>9, <2>1, Zenon
    <3>2. ASSUME m >= n PROVE g[m].radix = g[n].radix
      <4>1. CASE n = next
        BY <2>1, <4>1
      <4>2. CASE n # next
        <5>1. LineStart(prog, n)
          BY Zenon DEF BeginsAt
        <5>2. ~(n > at)
          <6>1. n > at => next <= n
            BY <1>2, <1>5, <5>1
          <6> QED
            BY <1>2, <1>3, <2>1, <3>2, <4>2, <6>1 DEF all
        <5>3. at >= n
          BY <5>2
        <5> QED
          BY <1>5, <1>6, <1>8, <1>9, <2>1, <4>2, <5>3, Zenon
      <4> QED
        BY <4>1, <4>2
    <3> QED
      BY <3>1, <3>2
  <2>2. CASE m # next
    <3>1. m <= at
      BY <1>2, <1>3, <1>11, <2>2 DEF all
    <3>2. Sound(prog, h[m], m) /\ (m >= n => h[m].radix = h[n].radix)
      BY <1>4, <1>11, <3>1, Zenon
    <3>3. m >= n => n # next
      BY <1>2, <1>3, <3>1 DEF all
    <3> QED
      BY <1>5, <1>9, <2>2, <3>2, <3>3, Zenon
  <2> QED
    BY <2>1, <2>2
<1>12. Past(prog, n, g, next)
  BY <1>9, <1>10, <1>11, Zenon DEF Past, all
<1> QED
  BY <1>9, <1>12, Zenon DEF PassOne, next

LEMMA PassTwoBegins ==
  ASSUME NEW prog, Readable(prog), NEW n \in 1 .. Len(prog), BeginsAt(prog, n), NEW a, NEW b,
         PassOne(prog, n, a, Len(prog) + 1), LineStart(prog, Len(prog) + 1), b \in Assemblers,
         b.symbolTable = a.symbolTable, b.radix = a.radix
  PROVE  PassTwo(prog, n, b, 1, a.symbolTable)
<1> DEFINE last == Len(prog) + 1
<1>1. PICK h : Past(prog, n, h, last) /\ h[last] = a
  BY Zenon DEF PassOne
<1>2. last \in 1 .. last /\ last <= last /\ last >= n /\ 1 \in 1 .. last /\ ~(1 > n)
  BY DEF Readable
<1>3. Sound(prog, h[last], last) /\ h[last].radix = h[n].radix
  BY <1>1, <1>2, Zenon DEF Past
<1> HIDE DEF last
<1>4. Sound(prog, b, 1)
  BY <1>1, <1>3, NothingAbove, Zenon DEF Sound
<1>5. Agree(prog, n, h[n].radix, a.symbolTable, h[1], b, 1)
  BY <1>1, <1>2, <1>3, NothingAbove, Zenon DEF Agree
<1> QED
  BY <1>1, <1>4, <1>5, Zenon DEF PassTwo, last

LEMMA PassTwoGoesOn ==
  ASSUME NEW prog, Readable(prog), NEW at \in 1 .. Len(prog), LineStart(prog, at), NEW n \in 1 .. Len(prog),
         BeginsAt(prog, n), LooksBack(prog), NEW a, NEW b, NEW table, PassTwo(prog, n, a, at, table),
         LineStart(prog, Len(prog) + 1), Step(prog, a, at, b)
  PROVE  PassTwo(prog, n, b, NextLine(prog, at), table)
<1> DEFINE next == NextLine(prog, at)
           last == Len(prog) + 1
<1>1. PICK h : /\ Past(prog, n, h, last) /\ table = h[last].symbolTable
               /\ Agree(prog, n, h[n].radix, table, h[at], a, at) /\ Sound(prog, a, at)
  BY Zenon DEF PassTwo
<1>2. next \in 1 .. last /\ next > at /\ LineStart(prog, next)
  BY LinesInOrder
<1>3. Len(prog) \in Nat /\ last = Len(prog) + 1
  BY DEF Readable
<1> HIDE DEF next, last
<1>4. /\ at \in 1 .. last /\ at < last /\ at <= last /\ next <= last /\ last \in 1 .. last /\ last <= last
      /\ \A d \in 1 .. at - 1 : d \in 1 .. last - 1
      /\ at \in 1 .. last - 1
  BY <1>2, <1>3
<1>5. /\ Step(prog, h[at], at, h[next])
      /\ Sound(prog, h[at], at) /\ (at >= n => h[at].radix = h[n].radix)
      /\ next >= n => h[next].radix = h[n].radix
      /\ Sound(prog, h[last], last)
  BY <1>1, <1>2, <1>4, Zenon DEF Past, next, last
<1>6. Sound(prog, b, next)
  BY <1>1, StepSound DEF next
<1>7. \A name : DefinedAbove(prog, at, name) => name \in DOMAIN table
  <2>1. \A name : DefinedAbove(prog, at, name) => DefinedAbove(prog, last, name)
    BY <1>4, Zenon DEF DefinedAbove
  <2> QED
    BY <1>1, <1>5, <2>1, Zenon DEF Sound
<1>8. \A name : DefinesAt(prog, at) /\ name = prog[at].literal => name \in DOMAIN table
  <2>1. \A name : DefinesAt(prog, at) /\ name = prog[at].literal => DefinedAbove(prog, last, name)
    BY <1>4, Zenon DEF DefinedAbove, Defines, DefinesAt
  <2> QED
    BY <1>1, <1>5, <2>1, Zenon DEF Sound
<1>9. Agree(prog, n, h[n].radix, table, h[next], b, next)
  BY <1>1, <1>5, <1>7, <1>8, AgreeKept DEF next
<1> QED
  BY <1>1, <1>6, <1>9, Zenon DEF PassTwo, next, last

LEMMA PassTwoEnds ==
  ASSUME NEW prog, NEW n, NEW a, NEW table, PassTwo(prog, n, a, Len(prog) + 1, table), table \in Tables
  PROVE  a.symbolTable = table
<1> DEFINE last == Len(prog) + 1
<1>1. PICK h : /\ table = h[last].symbolTable
               /\ Agree(prog, n, h[n].radix, table, h[last], a, last) /\ Sound(prog, a, last)
  BY Zenon DEF PassTwo
<1> HIDE DEF last
<1>2. DOMAIN a.symbolTable = DOMAIN table /\ \A name \in DOMAIN table : a.symbolTable[name] = table[name]
  BY <1>1, Zenon DEF Agree
<1>3. a.symbolTable \in Tables
  BY <1>1, Zenon DEF Sound, Assemblers
<1>4. \A t \in Tables : t = [name \in DOMAIN t |-> t[name]]
  BY Zenon DEF Tables
<1> QED
  BY <1>2, <1>3, <1>4

(* Where the assembly is: at the beginning of a line of the first pass, or *)
(* of the second that has followed the first so far.                       *)
Passed(n) ==
  /\ assembler.assemblerPass = 1 => PassOne(program, n, assembler, first)
  /\ assembler.assemblerPass = 2 => PassTwo(program, n, assembler, first, labels) /\ labels \in Tables

Passing ==
  /\ Assembling /\ LineStart(program, first)
  /\ status = "done" => first > Len(program) /\ assembler.assemblerPass = 2
  /\ \A n \in 1 .. Len(program) : BeginsAt(program, n) /\ LooksBack(program) => Passed(n)

LEMMA LinePasses ==
  ASSUME Passing, parseLine
  PROVE  Passing'
<1> DEFINE prefix == Prefix(program, assembler, first)
           code == Code(program, prefix.a, prefix.first)
<1>1. Assembling /\ Readable(program) /\ assembler \in Assemblers /\ LineStart(program, first)
  BY Zenon DEF Passing, Assembling
<1>2. /\ status = "assembling" /\ first \in 1 .. Len(program)
      /\ PrefixAt(program, assembler, first, prefix)
      /\ prefix.end = "value" => CodeAt(program, prefix.first, code)
      /\ \/ Stopped(prefix.end)
         \/ /\ prefix.end = "value"
            /\ Stopped(code.end) \/ Line(prefix, code)
  BY <1>1, LineParsed
<1>3. ASSUME NEW end, end \in {"value", "refused", "looping", "terminated"}, Stopped(end) PROVE Passing'
  <2>1. status' = end /\ UNCHANGED <<program, assembler, first, labels>>
    BY <1>3, Zenon DEF Stopped
  <2>2. Assembling'
    BY <1>1, <2>1, StillAssembling
  <2>3. status' # "done"
    BY <1>3, <2>1, Zenon
  <2> QED
    BY <2>1, <2>2, <2>3, Zenon DEF Passing, Passed
<1>4. prefix.end = "value" => code.end \in {"value", "refused", "looping", "terminated"}
  BY <1>2, Zenon DEF CodeAt
<1>5. ASSUME prefix.end = "value", Line(prefix, code) PROVE Passing'
  <2>1. /\ Step(program, assembler, first, assembler')
        /\ first' = NextLine(program, code.first)
        /\ UNCHANGED <<program, status, labels>>
    BY <1>5, Zenon DEF Line, Step, NextLine
  <2>2. first' = NextLine(program, first) /\ assembler'.assemblerPass = assembler.assemblerPass
    BY <1>1, <1>2, <2>1, StepIs
  <2>3. Assembling'
    BY <1>1, <1>2, <1>5, LineIs
  <2>4. LineStart(program, NextLine(program, first))
    BY <1>1, <1>2, LinesInOrder
  <2>5. LineStart(program, Len(program) + 1)
    <3>1. isEndOfLine(program[Len(program)].tokenClass) /\ (Len(program) + 1) - 1 = Len(program)
      BY <1>1 DEF Readable
    <3> QED
      BY <3>1 DEF LineStart
  <2> HIDE DEF prefix, code
  <2>6. ASSUME NEW n \in 1 .. Len(program), BeginsAt(program, n), LooksBack(program) PROVE Passed(n)'
    <3>1. Passed(n)
      BY <2>6, Zenon DEF Passing
    <3>2. ASSUME assembler'.assemblerPass = 1
          PROVE  PassOne(program, n, assembler', NextLine(program, first))
      <4>1. PassOne(program, n, assembler, first)
        BY <2>2, <3>1, <3>2, Zenon DEF Passed
      <4> QED
        BY <1>1, <1>2, <2>1, <2>6, <4>1, PassOneGoesOn
    <3>3. ASSUME assembler'.assemblerPass = 2
          PROVE  PassTwo(program, n, assembler', NextLine(program, first), labels) /\ labels \in Tables
      <4>1. PassTwo(program, n, assembler, first, labels) /\ labels \in Tables
        BY <2>2, <3>1, <3>3, Zenon DEF Passed
      <4>2. PassTwo(program, n, assembler', NextLine(program, first), labels)
        BY <1>1, <1>2, <2>1, <2>5, <2>6, <4>1, PassTwoGoesOn
      <4> QED
        BY <4>1, <4>2
    <3> QED
      BY <2>1, <2>2, <3>2, <3>3, Zenon DEF Passed
  <2>7. status' # "done"
    BY <1>2, <2>1, Zenon
  <2> QED
    BY <2>1, <2>2, <2>3, <2>4, <2>6, <2>7, Zenon DEF Passing
<1> QED
  <2>1. prefix.end \in {"value", "refused", "looping", "terminated"}
    BY <1>2, Zenon DEF PrefixAt
  <2> HIDE DEF prefix, code
  <2> QED
    BY <1>2, <1>3, <1>4, <1>5, <2>1, Zenon

LEMMA EndPasses ==
  ASSUME Passing, pass2
  PROVE  Passing'
<1>1. /\ Assembling /\ Readable(program) /\ assembler \in Assemblers /\ LineStart(program, first)
  BY Zenon DEF Passing, Assembling
<1>2. /\ first > Len(program) /\ assembler.assemblerPass = 1
      /\ assembler' = [assembler EXCEPT !.assemblerPass = 2]
      /\ first' = 1 /\ labels' = assembler.symbolTable /\ UNCHANGED <<program, status>>
      /\ status = "assembling"
  BY Zenon DEF pass2
<1>3. first = Len(program) + 1
  BY <1>1, <1>2 DEF Assembling, Readable
<1>4. /\ assembler' \in Assemblers /\ assembler'.assemblerPass = 2
      /\ assembler'.symbolTable = assembler.symbolTable /\ assembler'.radix = assembler.radix
  BY <1>1, <1>2, Zenon DEF Assemblers
<1>5. Assembling'
  BY <1>1, PassEnds
<1>6. ASSUME NEW n \in 1 .. Len(program), BeginsAt(program, n), LooksBack(program) PROVE Passed(n)'
  <2>1. PassOne(program, n, assembler, Len(program) + 1)
    BY <1>2, <1>3, <1>6, Zenon DEF Passing, Passed
  <2>2. PassTwo(program, n, assembler', 1, assembler.symbolTable)
    BY <1>1, <1>3, <1>4, <1>6, <2>1, PassTwoBegins
  <2>3. assembler.symbolTable \in Tables
    BY <1>1, Zenon DEF Assemblers
  <2>4. assembler'.assemblerPass # 1
    BY <1>4
  <2> QED
    BY <1>2, <1>4, <2>2, <2>3, <2>4, Zenon DEF Passed
<1>7. LineStart(program, 1)
  BY DEF LineStart
<1>8. status' # "done"
  BY <1>2, Zenon
<1> QED
  BY <1>2, <1>5, <1>6, <1>7, <1>8, Zenon DEF Passing

(* In an orderly program both passes give every name the same value: a     *)
(* forward reference takes from the first pass the place at which the      *)
(* second puts the label.                                                  *)
THEOREM BothPassesAgree == Spec => []PassesAgree
<1>1. Passing => PassesAgree
  <2> SUFFICES ASSUME Passing, status = "done", Orderly PROVE assembler.symbolTable = labels
    BY Zenon DEF PassesAgree
  <2>1. program \in Seq(Token) /\ Readable(program) /\ first <= Len(program) + 1 /\ first \in Nat
    BY DEF Passing, Assembling, Readable
  <2>2. first > Len(program) /\ assembler.assemblerPass = 2
    BY Zenon DEF Passing
  <2>3. first = Len(program) + 1
    BY <2>1, <2>2
  <2>4. PICK n \in 1 .. Len(program) : BeginsAt(program, n) /\ LooksBack(program)
    BY <2>1 DEF Orderly
  <2>5. PassTwo(program, n, assembler, Len(program) + 1, labels) /\ labels \in Tables
    BY <2>2, <2>3, <2>4, Zenon DEF Passing, Passed
  <2> QED
    BY <2>5, PassTwoEnds
<1>2. Init => Passing
  <2> SUFFICES ASSUME Init PROVE Passing
    OBVIOUS
  <2>1. PICK source \in Sources :
          /\ program = Classified(source) /\ assembler = readProgram(source)
          /\ first = 1 /\ status = "assembling"
    BY Zenon DEF Init
  <2>2. assembler.assemblerPass = 1
    <3>1. \A s : readProgram(s).assemblerPass = 1
      BY Zenon DEF readProgram
    <3> QED
      BY <2>1, <3>1, Zenon
  <2>3. \A n \in 1 .. Len(program) : PassOne(program, n, assembler, first)
    BY <2>1, PassOneBegins
  <2>4. LineStart(program, first) /\ status # "done"
    BY <2>1 DEF LineStart
  <2>5. ~(assembler.assemblerPass = 2)
    BY <2>2
  <2> QED
    BY <2>3, <2>4, <2>5, InitAssembling, Zenon DEF Passing, Passed
<1>3. Passing /\ [Next]_vars => Passing'
  <2> SUFFICES ASSUME Passing, [Next]_vars PROVE Passing'
    OBVIOUS
  <2>1. CASE parseLine
    BY <2>1, LinePasses
  <2>2. CASE pass2
    BY <2>2, EndPasses
  <2>3. CASE finish
    <3>1. /\ first > Len(program) /\ assembler.assemblerPass = 2
          /\ UNCHANGED <<program, assembler, first, labels>>
      BY <2>3, Zenon DEF finish
    <3>2. Assembling'
      BY <3>1, StillAssembling, Zenon DEF Passing
    <3> QED
      BY <3>1, <3>2, Zenon DEF Passing, Passed
  <2>4. CASE UNCHANGED vars
    <3>1. UNCHANGED <<program, assembler, first, status, labels>>
      BY <2>4, Zenon DEF vars
    <3>2. Assembling'
      BY <3>1, StillAssembling, Zenon DEF Passing
    <3> QED
      BY <3>1, <3>2, Zenon DEF Passing, Passed
  <2> QED
    BY <2>1, <2>2, <2>3, <2>4, Zenon DEF Next
<1> QED
  BY <1>1, <1>2, <1>3, PTL DEF Spec
=============================================================================
