---------------------------- MODULE Tokens_proofs ----------------------------
(***************************************************************************)
(* The tokens are right whatever the text: the recognisers race for every  *)
(* character in a list that is sorted as it goes, and still no two of them *)
(* are ever ahead together, which is what the proofs come down to.         *)
(***************************************************************************)
EXTENDS Tokens, Data_proofs, FiniteSetTheorems

Recognisers == 1 .. 12

(* A list of recognisers, as far as the race needs them.                   *)
IsList(list) ==
  /\ DOMAIN list = Recognisers
  /\ \A n \in Recognisers : list[n].passingCount \in Nat

-----------------------------------------------------------------------------
(* The sort loses none and doubles none; who is ahead of all comes first.  *)
LEMMA PlacesAre ==
  ASSUME NEW list, IsList(list)
  PROVE  /\ Places(list) \in Injection(Recognisers, Recognisers)
         /\ Places(list) \in Surjection(Recognisers, Recognisers)
<1> DEFINE Up(n) == {m \in Recognisers : NotAfter(list, m, n)}
           places == [n \in Recognisers |-> Cardinality(Up(n))]
<1>1. Places(list) = places
  BY DEF Places, IsList
<1>2. IsFiniteSet(Recognisers) /\ Cardinality(Recognisers) = 12
  <2>1. \A a, b \in Int : IsFiniteSet(a .. b) /\ Cardinality(a .. b) = IF a > b THEN 0 ELSE b - a + 1
    BY FS_Interval
  <2>2. PICK a \in Int, b \in Int : a = 1 /\ b = 12
    OBVIOUS
  <2>3. IsFiniteSet(a .. b) /\ Cardinality(a .. b) = IF a > b THEN 0 ELSE b - a + 1
    BY <2>1
  <2> QED
    BY <2>2, <2>3 DEF Recognisers
<1>3. ASSUME NEW n \in Recognisers PROVE n \in Up(n) /\ Up(n) \subseteq Recognisers
  BY DEF NotAfter, IsList, Recognisers
<1>4. ASSUME NEW n \in Recognisers
      PROVE  IsFiniteSet(Up(n)) /\ Cardinality(Up(n)) \in Recognisers
  <2>1. IsFiniteSet(Up(n)) /\ Cardinality(Up(n)) <= 12
    BY <1>2, <1>3, FS_Subset
  <2>2. Cardinality(Up(n)) \in Nat /\ Cardinality(Up(n)) # 0
    BY <1>3, <2>1, FS_CardinalityType, FS_EmptySet
  <2> QED
    BY <2>1, <2>2 DEF Recognisers
<1>5. ASSUME NEW m \in Recognisers, NEW n \in Recognisers, m # n, NotAfter(list, m, n)
      PROVE  Cardinality(Up(m)) # Cardinality(Up(n))
  <2>1. ASSUME NEW k \in Recognisers, NotAfter(list, k, m) PROVE NotAfter(list, k, n)
    BY <1>5, <2>1 DEF NotAfter, IsList, Recognisers
  <2>2. ~NotAfter(list, n, m)
    BY <1>5 DEF NotAfter, IsList, Recognisers
  <2>3. Up(m) \subseteq Up(n) /\ n \in Up(n) /\ n \notin Up(m)
    BY <1>3, <2>1, <2>2
  <2> HIDE DEF Up
  <2>4. Up(m) \in SUBSET Up(n) /\ Up(m) # Up(n)
    BY <2>3
  <2> QED
    BY <1>4, <2>4, FS_Subset
<1>6. ASSUME NEW m \in Recognisers, NEW n \in Recognisers, m # n
      PROVE  Cardinality(Up(m)) # Cardinality(Up(n))
  <2>1. NotAfter(list, m, n) \/ NotAfter(list, n, m)
    BY DEF NotAfter, IsList, Recognisers
  <2> HIDE DEF Up
  <2> QED
    BY <1>5, <1>6, <2>1
<1>7. places \in Injection(Recognisers, Recognisers)
  <2> HIDE DEF Up
  <2>1. places \in [Recognisers -> Recognisers]
    BY <1>4
  <2>2. \A m, n \in Recognisers : places[m] = places[n] => m = n
    BY <1>6
  <2> QED
    BY <2>1, <2>2 DEF Injection, IsInjective
<1> HIDE DEF places
<1>8. places \in Surjection(Recognisers, Recognisers)
  BY <1>2, <1>7, FS_Injection
<1> QED
  BY <1>1, <1>7, <1>8

(* Every recogniser has its place, and p names who gets it.                *)
LEMMA SortedIs ==
  ASSUME NEW list, IsList(list)
  PROVE  \E p \in [Recognisers -> Recognisers] :
           /\ \A j, k \in Recognisers : p[j] = p[k] => j = k
           /\ \A n \in Recognisers : \E k \in Recognisers : p[k] = n
           /\ Sorted(list) = [k \in Recognisers |-> list[p[k]]]
           /\ \A n \in Recognisers :
                (\A m \in Recognisers \ {n} : list[m].passingCount < list[n].passingCount)
                  => p[1] = n
<1> DEFINE places == Places(list)
           p == [k \in Recognisers |-> CHOOSE n \in Recognisers : places[n] = k]
<1>1. /\ places \in [Recognisers -> Recognisers]
      /\ \A m, n \in Recognisers : places[m] = places[n] => m = n
      /\ \A k \in Recognisers : \E n \in Recognisers : places[n] = k
  BY PlacesAre DEF Injection, IsInjective, Surjection
<1>2. Sorted(list) = [k \in Recognisers |-> list[p[k]]]
  BY DEF Sorted, IsList
<1>3. \A n \in Recognisers : places[n] = Cardinality({m \in Recognisers : NotAfter(list, m, n)})
  BY DEF Places, IsList
<1> HIDE DEF places
<1>4. \A k \in Recognisers : p[k] \in Recognisers /\ places[p[k]] = k
  BY <1>1
<1>5. p \in [Recognisers -> Recognisers] /\ \A j, k \in Recognisers : p[j] = p[k] => j = k
  BY <1>4
<1> HIDE DEF p
<1>6. \A n \in Recognisers : \E k \in Recognisers : p[k] = n
  <2> TAKE n \in Recognisers
  <2>1. places[n] \in Recognisers /\ p[places[n]] = n
    BY <1>1, <1>4
  <2> QED
    BY <2>1
<1>7. ASSUME NEW n \in Recognisers,
             \A m \in Recognisers \ {n} : list[m].passingCount < list[n].passingCount
      PROVE  p[1] = n
  <2>1. \A m \in Recognisers : NotAfter(list, m, n) <=> m = n
    <3>1. ASSUME NEW m \in Recognisers, m # n PROVE ~NotAfter(list, m, n)
      <4>1. list[m].passingCount < list[n].passingCount
        BY <1>7, <3>1
      <4>2. list[m].passingCount \in Nat /\ list[n].passingCount \in Nat
        BY DEF IsList
      <4> QED
        BY <4>1, <4>2 DEF NotAfter
    <3>2. NotAfter(list, n, n)
      BY DEF NotAfter, Recognisers
    <3> QED
      BY <3>1, <3>2
  <2>2. {m \in Recognisers : NotAfter(list, m, n)} = {n}
    BY <2>1
  <2>3. places[n] = 1
    BY <1>3, <2>2, FS_Singleton
  <2>4. 1 \in Recognisers
    BY DEF Recognisers
  <2> QED
    BY <1>1, <1>4, <2>3, <2>4
<1> QED
  BY <1>2, <1>5, <1>6, <1>7

LEMMA MaxIs ==
  ASSUME NEW S \in SUBSET Recognisers, S # {}
  PROVE  Max(S) \in S /\ \A n \in S : n <= Max(S)
<1> DEFINE Below(n) == (\E m \in S : m >= 12 - n) => \E m \in S : \A k \in S : k <= m
           T == {n \in Nat : Below(n)}
<1>1. \A m \in S : m \in Nat /\ m <= 12
  BY DEF Recognisers
<1>2. Below(0)
  BY <1>1
<1>3. ASSUME NEW n \in Nat, Below(n) PROVE Below(n + 1)
  <2> SUFFICES ASSUME NEW m \in S, m >= 12 - (n + 1)
               PROVE  \E j \in S : \A k \in S : k <= j
    OBVIOUS
  <2>1. CASE \E j \in S : j >= 12 - n
    BY <1>3, <2>1
  <2>2. CASE \A j \in S : ~(j >= 12 - n)
    <3>1. \A k \in S : k <= m
      BY <1>1, <2>2
    <3> QED
      BY <3>1
  <2> QED
    BY <2>1, <2>2
<1>4. 12 \in T
  <2> HIDE DEF Below
  <2>1. 0 \in T /\ \A n \in Nat : n \in T => n + 1 \in T
    BY <1>2, <1>3
  <2> HIDE DEF T
  <2> QED
    BY <2>1, SetInduction
<1>5. \E m \in S : \A k \in S : k <= m
  BY <1>1, <1>4
<1>6. \E m \in S : \A k \in S : m >= k
  BY <1>1, <1>5
<1>7. Max(S) \in S /\ \A k \in S : Max(S) >= k
  BY <1>6, Zenon DEF Max
<1> QED
  BY <1>1, <1>7

LEMMA FunctionIsSeq ==
  ASSUME NEW X, NEW n \in Nat, NEW f \in [1 .. n -> X]
  PROVE  f \in Seq(X) /\ Len(f) = n
OBVIOUS

(* The first of one list and the rest of another.                          *)
Spliced(u, v, last) == [n \in Recognisers |-> IF n <= last THEN u[n] ELSE v[n]]

LEMMA Joined ==
  ASSUME NEW X, NEW u \in [Recognisers -> X], NEW v \in [Recognisers -> X], NEW last \in Recognisers
  PROVE  SubSeq(u, 1, last) \o SubSeq(v, last + 1, Len(v)) = Spliced(u, v, last)
<1> DEFINE front == SubSeq(u, 1, last)
           back  == SubSeq(v, last + 1, 12)
           whole == Spliced(u, v, last)
<1>1. last \in Int /\ last + 1 \in Int /\ 1 <= last /\ last <= 12
  BY DEF Recognisers
<1>2. /\ \A i \in 1 .. last : i \in Recognisers /\ u[i] \in X
      /\ \A i \in last + 1 .. 12 : i \in Recognisers /\ v[i] \in X
  BY <1>1 DEF Recognisers
<1>3. /\ front \in Seq(X) /\ Len(front) = last
      /\ \A i \in 1 .. last : front[i] = u[i]
  <2>1. /\ front \in Seq(X) /\ Len(front) = IF 1 <= last THEN last - 1 + 1 ELSE 0
        /\ \A i \in 1 .. last - 1 + 1 : front[i] = u[1 + i - 1]
    BY <1>1, <1>2, SubSeqProperties
  <2> HIDE DEF front
  <2> QED
    BY <1>1, <2>1
<1>4. /\ back \in Seq(X) /\ Len(back) = 12 - last
      /\ \A i \in 1 .. 12 - last : back[i] = v[last + i]
  <2>1. /\ back \in Seq(X)
        /\ Len(back) = IF last + 1 <= 12 THEN 12 - (last + 1) + 1 ELSE 0
        /\ \A i \in 1 .. 12 - (last + 1) + 1 : back[i] = v[(last + 1) + i - 1]
    BY <1>1, <1>2, SubSeqProperties
  <2>2. \A i \in 1 .. 12 - last : (last + 1) + i - 1 = last + i /\ i \in 1 .. 12 - (last + 1) + 1
    BY <1>1
  <2> HIDE DEF back
  <2> QED
    BY <1>1, <2>1, <2>2
<1> HIDE DEF front, back
<1>5. /\ front \o back \in Seq(X) /\ Len(front \o back) = 12
      /\ \A i \in 1 .. 12 : (front \o back)[i] = IF i <= last THEN front[i] ELSE back[i - last]
  <2>1. /\ front \o back \in Seq(X)
        /\ Len(front \o back) = Len(front) + Len(back)
        /\ \A i \in 1 .. Len(front) + Len(back) : (front \o back)[i] =
             IF i <= Len(front) THEN front[i] ELSE back[i - Len(front)]
    BY <1>3, <1>4, ConcatProperties
  <2>2. Len(front) = last /\ Len(front) + Len(back) = 12
    BY <1>1, <1>3, <1>4
  <2> QED
    BY <2>1, <2>2
<1>6. /\ whole \in [1 .. 12 -> X]
      /\ \A i \in 1 .. 12 : whole[i] = IF i <= last THEN u[i] ELSE v[i]
  BY DEF Recognisers, Spliced
<1> HIDE DEF whole
<1>7. whole \in Seq(X) /\ Len(whole) = 12
  BY <1>6, FunctionIsSeq, ZenonT(40)
<1>8. \A i \in 1 .. 12 : (front \o back)[i] = whole[i]
  <2> TAKE i \in 1 .. 12
  <2>1. CASE i <= last
    <3>1. i \in 1 .. last
      BY <1>1, <2>1
    <3> QED
      BY <1>3, <1>5, <1>6, <2>1, <3>1
  <2>2. CASE ~(i <= last)
    <3>1. i - last \in 1 .. 12 - last /\ last + (i - last) = i
      BY <1>1, <2>2
    <3>2. back[i - last] = v[last + (i - last)]
      BY <1>4, <3>1, Zenon
    <3>3. whole[i] = v[i]
      BY <1>6, <2>2
    <3>4. (front \o back)[i] = back[i - last]
      BY <1>5, <2>2
    <3> QED
      BY <3>1, <3>2, <3>3, <3>4
  <2> QED
    BY <2>1, <2>2
<1>10. front \o back = whole
  <2> DEFINE both == front \o back
  <2>1. both \in Seq(X) /\ Len(both) = 12 /\ \A i \in 1 .. 12 : both[i] = whole[i]
    BY <1>5, <1>8
  <2> HIDE DEF both
  <2>2. both = whole
    BY <1>7, <2>1, SeqEqual
  <2> QED
    BY <2>2 DEF both
<1>9. Len(v) = 12
  BY DEF Recognisers
<1> QED
  BY <1>9, <1>10 DEF front, back, whole

(* The loop over the list: the recognisers up to some place are offered    *)
(* the character, and the one behind it is further back than one of them.  *)
LEMMA OfferedIs ==
  ASSUME NEW list, NEW R, list \in [Recognisers -> R], NEW character, IsList(list)
  PROVE  \E last \in Recognisers :
           /\ Offered(list, character) =
                [n \in Recognisers |-> IF n <= last THEN parse(list[n], character) ELSE list[n]]
           /\ last # 12 => \E b \in 1 .. last :
                ~(list[last + 1].passingCount >= parse(list[b], character).passingCount)
           /\ \A m \in 1 .. last : \A b \in 1 .. m - 1 :
                list[m].passingCount >= parse(list[b], character).passingCount
<1> DEFINE parsed == OfferedToAll(list, character)
           reached(n) == \A m \in 1 .. n : \A b \in 1 .. m - 1 :
                           list[m].passingCount >= parsed[b].passingCount
           Far == {n \in Recognisers : reached(n)}
           last == Max(Far)
           AtOnce == R \cup {parse(list[n], character) : n \in Recognisers}
<1>1. DOMAIN list = Recognisers /\ list \in [Recognisers -> AtOnce]
  OBVIOUS
<1>2. parsed = [n \in Recognisers |-> parse(list[n], character)] /\ parsed \in [Recognisers -> AtOnce]
  BY <1>1 DEF OfferedToAll
<1>3. Offered(list, character) = SubSeq(parsed, 1, last) \o SubSeq(list, last + 1, Len(list))
  BY <1>1 DEF Offered
<1> HIDE DEF AtOnce, parsed
<1>4. last \in Far /\ \A n \in Far : n <= last
  <2>1. 1 \in Far
    BY DEF Recognisers
  <2>2. Far \in SUBSET Recognisers
    OBVIOUS
  <2> HIDE DEF Far
  <2> QED
    BY <2>1, <2>2, MaxIs
<1>5. last \in Recognisers /\ reached(last)
  BY <1>4
<1>6. last # 12 => last + 1 \in Recognisers /\ ~reached(last + 1)
  <2> HIDE DEF last, reached
  <2> QED
    BY <1>4 DEF Recognisers
<1> HIDE DEF last
<1>7. Offered(list, character) = Spliced(parsed, list, last)
  <2>1. ASSUME NEW u \in [Recognisers -> AtOnce], NEW v \in [Recognisers -> AtOnce], NEW end \in Recognisers
        PROVE  SubSeq(u, 1, end) \o SubSeq(v, end + 1, Len(v)) = Spliced(u, v, end)
    BY Joined
  <2> QED
    BY <1>1, <1>2, <1>3, <1>5, <2>1
<1>8. \A n \in Recognisers : list[n].passingCount \in Nat
  BY DEF IsList
<1>9. ASSUME last # 12
      PROVE  \E b \in 1 .. last : ~(list[last + 1].passingCount >= parsed[b].passingCount)
  <2>1. PICK m \in 1 .. last + 1 :
          \E b \in 1 .. m - 1 : ~(list[m].passingCount >= parsed[b].passingCount)
    BY <1>6, <1>9
  <2>2. last \in 1 .. 12
    BY <1>5 DEF Recognisers
  <2>3. m = last + 1
    BY <1>5, <2>1, <2>2
  <2>4. m - 1 = last
    BY <2>2, <2>3
  <2> QED
    BY <2>1, <2>3, <2>4
<1>10. \A b \in 1 .. last : parsed[b] = parse(list[b], character)
  BY <1>2, <1>5 DEF Recognisers
<1>11. \A m \in 1 .. last : \A b \in 1 .. m - 1 : b \in 1 .. last
  BY <1>5 DEF Recognisers
<1>12. Offered(list, character) =
         [n \in Recognisers |-> IF n <= last THEN parse(list[n], character) ELSE list[n]]
  <2>1. \A n \in Recognisers : parsed[n] = parse(list[n], character)
    BY <1>2
  <2> QED
    BY <1>7, <2>1 DEF Spliced
<1> QED
  BY <1>5, <1>9, <1>10, <1>11, <1>12

-----------------------------------------------------------------------------
(* One recogniser.                                                         *)
Marks == {"LABEL_ASSIGN", "LABEL_DEFINE", "LOCATION", "PROGRAM_COUNTER", "ADDITION",
          "SUBTRACTION", "END_OF_INSTRUCTION"}

Classes == Marks \cup {"COMMENT", "LITERAL", "NUMBER", "END_OF_LINE", "WHITE_SPACE"}

TokenTypes ==
  [tokenClass : Classes, first : SUBSET Character, more : SUBSET Character, patient : BOOLEAN,
   tokenState : {"UNDETERMINED", "PASSING", "FAILED", "FAILED_ON"}, passingCount : Nat]

First(class) ==
  CASE class = "COMMENT" -> {"/"}
    [] class = "LITERAL" -> alpha
    [] class = "NUMBER"  -> digit
    [] class = "END_OF_LINE" -> {"\n"}
    [] class = "WHITE_SPACE" -> {" "}
    [] OTHER -> {Mark(class)}

More(class) ==
  CASE class = "COMMENT" -> Character \ {"\n"}
    [] class = "LITERAL" -> alpha \cup digit
    [] class = "END_OF_LINE" -> {"\n"}
    [] class = "WHITE_SPACE" -> {" "}
    [] OTHER -> {}

Patient == {"COMMENT", "NUMBER"}

Proper(type) ==
  /\ type \in TokenTypes
  /\ type.first = First(type.tokenClass)
  /\ type.tokenClass # "NUMBER" => type.more = More(type.tokenClass)
  /\ type.patient = (type.tokenClass \in Patient)

(* It has not passed on a character yet.                                   *)
Waiting(type) ==
  /\ type.passingCount = 0
  /\ type.tokenState \in {"UNDETERMINED", "FAILED"}
  /\ type.tokenClass = "NUMBER" => type.more = digit

(* What a number may go on with, said of the digits so far.                *)
GoesOn(s) ==
  IF s = <<"0">> THEN digit \cup {"x"}
  ELSE IF Len(s) > 1 /\ s[2] = "x" THEN xdigit ELSE digit

(* It has passed on all of s.                                              *)
Passed(type, s) ==
  /\ type.tokenState \in {"PASSING", "FAILED_ON"}
  /\ type.passingCount # 0
  /\ s \in Seq(Character) /\ s # <<>>
  /\ WellFormed(type.tokenClass, s)
  /\ type.tokenClass = "NUMBER" => type.more = GoesOn(s)

LEMMA ParseKeeps ==
  ASSUME NEW type, Proper(type), NEW ch \in Character
  PROVE  /\ Proper(parse(type, ch))
         /\ parse(type, ch).tokenClass = type.tokenClass
         /\ parse(type, ch).passingCount >= type.passingCount
<1> DEFINE passes == \/ type.tokenState = "UNDETERMINED" /\ ch \in type.first
                     \/ type.tokenState = "PASSING" /\ ch \in type.more
           count == type.passingCount
                      + IF type.tokenClass = "COMMENT" /\ type.passingCount = 0 THEN 2 ELSE 1
           more == IF type.tokenClass = "NUMBER" THEN NumberMore(type, ch) ELSE type.more
           went == [type EXCEPT !.tokenState = "PASSING", !.passingCount = count, !.more = more]
           stayed == [type EXCEPT !.tokenState =
                CASE @ = "UNDETERMINED" -> IF type.patient THEN @ ELSE "FAILED"
                  [] @ = "PASSING" -> "FAILED_ON"
                  [] @ = "FAILED_ON" /\ type.tokenClass # "LITERAL" -> "FAILED"
                  [] OTHER -> @]
<1>1. parse(type, ch) = IF passes THEN went ELSE stayed
  BY Zenon DEF parse, count, more
<1>2. NumberMore(type, ch) \in SUBSET Character
  BY DEF NumberMore, Character, digit, xdigit, alpha
<1>3. type \in TokenTypes
  BY DEF Proper
<1>4. count \in Nat /\ count >= type.passingCount
  BY <1>3 DEF TokenTypes
<1>5. more \in SUBSET Character /\ (type.tokenClass # "NUMBER" => more = type.more)
  BY <1>2, <1>3 DEF TokenTypes
<1> HIDE DEF count, more
<1>6. /\ went \in TokenTypes
      /\ went.tokenClass = type.tokenClass /\ went.first = type.first
      /\ went.patient = type.patient
      /\ type.tokenClass # "NUMBER" => went.more = type.more
      /\ went.passingCount >= type.passingCount
  BY <1>3, <1>4, <1>5 DEF TokenTypes
<1>7. /\ stayed \in TokenTypes
      /\ stayed.tokenClass = type.tokenClass /\ stayed.first = type.first
      /\ stayed.patient = type.patient /\ stayed.more = type.more
      /\ stayed.passingCount >= type.passingCount
  BY <1>3 DEF TokenTypes
<1> HIDE DEF passes, went, stayed
<1> QED
  BY <1>1, <1>6, <1>7 DEF Proper

(* What a literal is, said of the literal and of one that is longer.       *)
LEMMA AllAppended ==
  ASSUME NEW s \in Seq(Character), NEW ch \in Character, NEW set
  PROVE  All(Append(s, ch), set) <=> All(s, set) /\ ch \in set
<1>1. /\ Len(s) \in Nat /\ DOMAIN s = 1 .. Len(s)
      /\ DOMAIN Append(s, ch) = 1 .. Len(s) + 1
      /\ \A i \in 1 .. Len(s) : Append(s, ch)[i] = s[i]
      /\ Append(s, ch)[Len(s) + 1] = ch
  BY AppendProperties, LenProperties
<1>2. 1 .. Len(s) + 1 = 1 .. Len(s) \cup {Len(s) + 1}
  BY <1>1
<1> QED
  BY <1>1, <1>2 DEF All

LEMMA AllBehind ==
  ASSUME NEW s \in Seq(Character), NEW set, Len(s) > 1
  PROVE  All(SubSeq(s, 3, Len(s)), set) <=> \A i \in 3 .. Len(s) : s[i] \in set
<1> DEFINE rest == SubSeq(s, 3, Len(s))
<1>1. Len(s) \in Nat
  BY LenProperties
<1>2. \A i \in 3 .. Len(s) : s[i] \in Character
  BY <1>1, ElementOfSeq
<1>3. /\ rest \in Seq(Character)
      /\ Len(rest) = IF 3 <= Len(s) THEN Len(s) - 3 + 1 ELSE 0
      /\ \A i \in 1 .. Len(s) - 3 + 1 : rest[i] = s[3 + i - 1]
  BY <1>1, <1>2, SubSeqProperties
<1> HIDE DEF rest
<1>4. DOMAIN rest = 1 .. Len(s) - 2 /\ \A i \in 1 .. Len(s) - 2 : rest[i] = s[i + 2]
  BY <1>1, <1>3
<1>5. ASSUME NEW i \in 3 .. Len(s) PROVE i - 2 \in 1 .. Len(s) - 2 /\ (i - 2) + 2 = i
  BY <1>1
<1>6. ASSUME NEW i \in 1 .. Len(s) - 2 PROVE i + 2 \in 3 .. Len(s)
  BY <1>1
<1>7. All(rest, set) <=> \A i \in 3 .. Len(s) : s[i] \in set
  BY <1>4, <1>5, <1>6 DEF All
<1> QED
  BY <1>7 DEF rest

LEMMA NumberIs ==
  ASSUME NEW s \in Seq(Character)
  PROVE  IsNumber(s) <=>
           \/ All(s, digit)
           \/ Len(s) > 1 /\ s[1] = "0" /\ s[2] = "x" /\ \A i \in 3 .. Len(s) : s[i] \in xdigit
BY AllBehind DEF IsNumber

LEMMA NumberGoesOn ==
  ASSUME NEW s \in Seq(Character), s # <<>>, IsNumber(s), NEW ch \in Character
  PROVE  /\ IsNumber(Append(s, ch)) <=> ch \in GoesOn(s)
         /\ ch \in GoesOn(s) =>
              GoesOn(Append(s, ch)) = IF ch = "x" \/ "A" \in GoesOn(s) THEN xdigit ELSE digit
<1> DEFINE t == Append(s, ch)
<1>1. /\ Len(s) \in Nat \ {0} /\ Len(t) = Len(s) + 1 /\ t \in Seq(Character)
      /\ \A i \in 1 .. Len(s) : t[i] = s[i]
      /\ t[Len(s) + 1] = ch
  BY AppendProperties, LenProperties, EmptySeq
<1>2. All(t, digit) <=> All(s, digit) /\ ch \in digit
  BY AllAppended
<1>3. IsNumber(t) <=>
        \/ All(t, digit)
        \/ Len(t) > 1 /\ t[1] = "0" /\ t[2] = "x" /\ \A i \in 3 .. Len(t) : t[i] \in xdigit
  BY <1>1, NumberIs
<1> HIDE DEF t
<1>4. \/ All(s, digit)
      \/ Len(s) > 1 /\ s[1] = "0" /\ s[2] = "x" /\ \A i \in 3 .. Len(s) : s[i] \in xdigit
  BY NumberIs
<1>5. t[1] = s[1] /\ t # <<"0">>
  BY <1>1
<1>6. CASE s = <<"0">>
  <2>1. Len(s) = 1 /\ s[1] = "0" /\ t[2] = ch /\ Len(t) = 2
    BY <1>1, <1>6
  <2>2. All(s, digit)
    BY <1>6 DEF All, digit
  <2>3. GoesOn(s) = digit \cup {"x"} /\ GoesOn(t) = IF ch = "x" THEN xdigit ELSE digit
    BY <1>5, <1>6, <2>1 DEF GoesOn
  <2>4. IsNumber(t) <=> ch \in digit \/ ch = "x"
    BY <1>2, <1>3, <1>5, <2>1, <2>2
  <2> QED
    BY <2>3, <2>4 DEF t, digit, xdigit
<1>7. CASE Len(s) > 1 /\ s[2] = "x"
  <2>1. t[2] = "x" /\ s # <<"0">> /\ Len(t) > 1
    BY <1>1, <1>7
  <2>2. GoesOn(s) = xdigit /\ GoesOn(t) = xdigit
    BY <1>5, <1>7, <2>1 DEF GoesOn
  <2>3. ~All(s, digit)
    BY <1>1, <1>7 DEF All, digit
  <2>4. IsNumber(t) <=> ch \in xdigit
    <3>1. s[1] = "0" /\ \A i \in 3 .. Len(s) : s[i] \in xdigit
      BY <1>4, <2>3
    <3>2. (\A i \in 3 .. Len(t) : t[i] \in xdigit) <=> ch \in xdigit
      BY <1>1, <1>7, <3>1
    <3> QED
      BY <1>2, <1>3, <1>5, <2>1, <2>3, <3>1, <3>2
  <2> QED
    BY <2>2, <2>4 DEF t, xdigit
<1>8. CASE s # <<"0">> /\ ~(Len(s) > 1 /\ s[2] = "x")
  <2>0. Len(s) > 1 \/ Len(s) = 1
    <3>1. \A n \in Nat \ {0} : n > 1 \/ n = 1
      OBVIOUS
    <3> QED
      BY <1>1, <3>1
  <2>1. All(s, digit)
    BY <1>4, <1>8
  <2>2. GoesOn(s) = digit
    BY <1>8 DEF GoesOn
  <2>3. ~(t[1] = "0" /\ t[2] = "x")
    <3>1. CASE Len(s) > 1
      BY <1>1, <1>8, <3>1
    <3>2. CASE Len(s) = 1
      BY <1>1, <1>5, <1>8, <3>2
    <3> QED
      BY <2>0, <3>1, <3>2
  <2>4. IsNumber(t) <=> ch \in digit
    BY <1>2, <1>3, <2>1, <2>3
  <2>5. ch \in digit => GoesOn(t) = digit
    <3>1. CASE Len(s) > 1
      BY <1>1, <1>5, <1>8, <3>1 DEF GoesOn
    <3>2. CASE Len(s) = 1
      <4>1. t[2] = ch
        BY <1>1, <3>2
      <4>2. GoesOn(t) = IF Len(t) > 1 /\ ch = "x" THEN xdigit ELSE digit
        BY <1>5, <4>1 DEF GoesOn
      <4> QED
        BY <4>2 DEF digit
    <3> QED
      BY <2>0, <3>1, <3>2
  <2> QED
    BY <2>2, <2>4, <2>5 DEF t, digit
<1> QED
  BY <1>6, <1>7, <1>8

LEMMA OneIsWellFormed ==
  ASSUME NEW class \in Classes, NEW ch \in First(class), ch \in Character
  PROVE  WellFormed(class, <<ch>>) /\ (class = "NUMBER" => ch \in digit)
<1>1. /\ <<ch>> # <<>> /\ <<ch>>[1] = ch
      /\ \A set : ch \in set => All(<<ch>>, set)
  BY DEF All
<1>2. CASE class = "COMMENT"
  BY <1>1, <1>2 DEF First, WellFormed, Character
<1>3. CASE class = "LITERAL"
  BY <1>1, <1>3 DEF First, WellFormed
<1>4. CASE class = "NUMBER"
  BY <1>1, <1>4 DEF First, WellFormed, IsNumber
<1>5. CASE class = "END_OF_LINE"
  BY <1>1, <1>5 DEF First, WellFormed
<1>6. CASE class = "WHITE_SPACE"
  BY <1>1, <1>6 DEF First, WellFormed
<1>7. CASE class \in Marks
  <2>1. ch = Mark(class)
    BY <1>7 DEF First, Marks
  <2> QED
    BY <1>1, <1>7, <2>1 DEF WellFormed, Marks
<1> QED
  BY <1>2, <1>3, <1>4, <1>5, <1>6, <1>7 DEF Classes

LEMMA WellFormedGoesOn ==
  ASSUME NEW class \in Classes, NEW s \in Seq(Character), s # <<>>, WellFormed(class, s),
         NEW ch \in Character
  PROVE  WellFormed(class, Append(s, ch))
           <=> ch \in IF class = "NUMBER" THEN GoesOn(s) ELSE More(class)
<1> DEFINE t == Append(s, ch)
<1>1. /\ Len(s) \in Nat \ {0} /\ t # <<>> /\ Len(t) = Len(s) + 1 /\ t[1] = s[1]
  BY AppendProperties, LenProperties, EmptySeq
<1>2. \A set : All(t, set) <=> All(s, set) /\ ch \in set
  BY AllAppended
<1>3. IsNumber(s) => (IsNumber(t) <=> ch \in GoesOn(s))
  BY NumberGoesOn
<1> SUFFICES WellFormed(class, t)
               <=> ch \in IF class = "NUMBER" THEN GoesOn(s) ELSE More(class)
  BY Zenon DEF t
<1> HIDE DEF t
<1>4. CASE class = "COMMENT"
  BY <1>1, <1>2, <1>4 DEF WellFormed, More
<1>5. CASE class = "LITERAL"
  BY <1>1, <1>2, <1>5 DEF WellFormed, More
<1>6. CASE class = "NUMBER"
  BY <1>1, <1>3, <1>6 DEF WellFormed
<1>7. CASE class = "END_OF_LINE"
  BY <1>1, <1>2, <1>7 DEF WellFormed, More
<1>8. CASE class = "WHITE_SPACE"
  BY <1>1, <1>2, <1>8 DEF WellFormed, More
<1>9. CASE class \in Marks
  <2>1. WellFormed(class, t) <=> t = <<Mark(class)>>
    BY <1>1, <1>9 DEF WellFormed, Marks
  <2>2. Len(t) # 1
    BY <1>1
  <2>3. More(class) = {} /\ class # "NUMBER"
    BY <1>9 DEF More, Marks
  <2> QED
    BY <2>1, <2>2, <2>3
<1> QED
  BY <1>4, <1>5, <1>6, <1>7, <1>8, <1>9 DEF Classes

(* The first character a recogniser passes on, and the ones it waits out.  *)
LEMMA FirstCharacter ==
  ASSUME NEW type, Proper(type), Waiting(type), NEW ch \in Character
  PROVE  /\ type.tokenState = "UNDETERMINED" /\ ch \in First(type.tokenClass) =>
              Passed(parse(type, ch), <<ch>>) /\ parse(type, ch).tokenState = "PASSING"
         /\ ~(type.tokenState = "UNDETERMINED" /\ ch \in First(type.tokenClass)) =>
              /\ Waiting(parse(type, ch))
              /\ parse(type, ch).tokenState =
                   IF type.tokenState = "UNDETERMINED" /\ type.tokenClass \in Patient
                     THEN "UNDETERMINED" ELSE "FAILED"
<1> DEFINE after == parse(type, ch)
<1>1. type \in TokenTypes /\ type.first = First(type.tokenClass)
      /\ type.patient = (type.tokenClass \in Patient)
  BY DEF Proper
<1>2. CASE type.tokenState = "UNDETERMINED" /\ ch \in First(type.tokenClass)
  <2>1. /\ after.tokenState = "PASSING" /\ after.tokenClass = type.tokenClass
        /\ after.passingCount = 0 + IF type.tokenClass = "COMMENT" THEN 2 ELSE 1
        /\ after.more = IF type.tokenClass = "NUMBER" THEN NumberMore(type, ch) ELSE type.more
    BY <1>1, <1>2 DEF parse, TokenTypes, Waiting
  <2> HIDE DEF after
  <2>2. type.tokenClass \in Classes
    BY <1>1 DEF TokenTypes
  <2>3. WellFormed(type.tokenClass, <<ch>>) /\ (type.tokenClass = "NUMBER" => ch \in digit)
    BY <1>2, <2>2, OneIsWellFormed
  <2>4. type.tokenClass = "NUMBER" => NumberMore(type, ch) = GoesOn(<<ch>>)
    <3> SUFFICES ASSUME type.tokenClass = "NUMBER" PROVE NumberMore(type, ch) = GoesOn(<<ch>>)
      OBVIOUS
    <3>1. type.more = digit /\ type.passingCount = 0 /\ ch \in digit
      BY <2>3 DEF Waiting
    <3>2. Len(<<ch>>) = 1 /\ (<<ch>> = <<"0">> <=> ch = "0")
      OBVIOUS
    <3> QED
      BY <3>1, <3>2 DEF NumberMore, GoesOn, digit
  <2>5. <<ch>> \in Seq(Character) /\ <<ch>> # <<>> /\ after.passingCount # 0
    BY <2>1
  <2>6. Passed(after, <<ch>>)
    BY <2>1, <2>3, <2>4, <2>5 DEF Passed
  <2> QED
    BY <1>2, <2>1, <2>6 DEF after
<1>3. CASE ~(type.tokenState = "UNDETERMINED" /\ ch \in First(type.tokenClass))
  <2>1. type.tokenState \in {"UNDETERMINED", "FAILED"}
    BY DEF Waiting
  <2>2. after = [type EXCEPT !.tokenState =
                  IF @ = "UNDETERMINED" /\ type.patient THEN @ ELSE "FAILED"]
    BY <1>1, <1>3, <2>1 DEF parse, TokenTypes
  <2>3. /\ after.tokenState = IF type.tokenState = "UNDETERMINED" /\ type.patient
                                THEN "UNDETERMINED" ELSE "FAILED"
        /\ after.passingCount = type.passingCount /\ after.more = type.more
        /\ after.tokenClass = type.tokenClass
    BY <1>1, <2>1, <2>2 DEF TokenTypes
  <2> HIDE DEF after
  <2> QED
    BY <1>1, <1>3, <2>3 DEF Waiting, after
<1> QED
  BY <1>2, <1>3

(* The next character: it goes on exactly as long as its literal does.     *)
LEMMA NextCharacter ==
  ASSUME NEW type, Proper(type), type.tokenState = "PASSING",
         NEW s, Passed(type, s), NEW ch \in Character
  PROVE  /\ ch \in type.more =>
              Passed(parse(type, ch), Append(s, ch)) /\ parse(type, ch).tokenState = "PASSING"
         /\ ch \notin type.more =>
              /\ Passed(parse(type, ch), s) /\ parse(type, ch).tokenState = "FAILED_ON"
              /\ ~WellFormed(type.tokenClass, Append(s, ch))
<1> DEFINE after == parse(type, ch)
<1>1. /\ type \in TokenTypes /\ type.tokenClass \in Classes /\ type.passingCount \in Nat \ {0}
      /\ s \in Seq(Character) /\ s # <<>> /\ WellFormed(type.tokenClass, s)
  BY DEF Proper, Passed, TokenTypes
<1>2. type.more = IF type.tokenClass = "NUMBER" THEN GoesOn(s) ELSE More(type.tokenClass)
  BY DEF Proper, Passed
<1>3. WellFormed(type.tokenClass, Append(s, ch)) <=> ch \in type.more
  BY <1>1, <1>2, WellFormedGoesOn
<1>4. CASE ch \in type.more
  <2>1. /\ after.tokenState = "PASSING" /\ after.tokenClass = type.tokenClass
        /\ after.passingCount = type.passingCount + 1
        /\ after.more = IF type.tokenClass = "NUMBER" THEN NumberMore(type, ch) ELSE type.more
    BY <1>1, <1>4 DEF parse, TokenTypes
  <2> HIDE DEF after
  <2>2. type.tokenClass = "NUMBER" => NumberMore(type, ch) = GoesOn(Append(s, ch))
    <3> SUFFICES ASSUME type.tokenClass = "NUMBER"
                 PROVE  NumberMore(type, ch) = GoesOn(Append(s, ch))
      OBVIOUS
    <3>1. IsNumber(s) /\ ch \in GoesOn(s) /\ type.more = GoesOn(s)
      BY <1>1, <1>2, <1>4 DEF WellFormed
    <3>2. GoesOn(Append(s, ch)) = IF ch = "x" \/ "A" \in GoesOn(s) THEN xdigit ELSE digit
      BY <1>1, <3>1, NumberGoesOn
    <3>3. NumberMore(type, ch) = IF ch = "x" THEN xdigit
                                 ELSE IF "A" \in type.more THEN xdigit ELSE digit
      BY <1>1 DEF NumberMore
    <3> QED
      BY <3>1, <3>2, <3>3
  <2>3. Append(s, ch) \in Seq(Character) /\ Append(s, ch) # <<>> /\ after.passingCount # 0
    BY <1>1, <2>1, AppendProperties
  <2>4. Passed(after, Append(s, ch))
    BY <1>3, <1>4, <2>1, <2>2, <2>3 DEF Passed
  <2> QED
    BY <1>4, <2>1, <2>4 DEF after
<1>5. CASE ch \notin type.more
  <2>1. after = [type EXCEPT !.tokenState = "FAILED_ON"]
    BY <1>1, <1>5 DEF parse, TokenTypes
  <2>2. /\ after.tokenState = "FAILED_ON" /\ after.tokenClass = type.tokenClass
        /\ after.passingCount = type.passingCount /\ after.more = type.more
    BY <1>1, <2>1 DEF TokenTypes
  <2> HIDE DEF after
  <2>3. Passed(after, s)
    BY <2>2 DEF Passed
  <2> QED
    BY <1>3, <1>5, <2>2, <2>3 DEF after
<1> QED
  BY <1>4, <1>5

-----------------------------------------------------------------------------
(* The race.  The list holds one recogniser of every class, in any order.  *)
Lists(list) ==
  /\ list \in [Recognisers -> TokenTypes]
  /\ \A n \in Recognisers : Proper(list[n])
  /\ \A m, n \in Recognisers : list[m].tokenClass = list[n].tokenClass => m = n
  /\ \A class \in Classes : \E n \in Recognisers : list[n].tokenClass = class

Fresh(type) == Waiting(type) /\ type.tokenState = "UNDETERMINED"

Stuck(type) ==
  /\ Waiting(type)
  /\ type.tokenState = IF type.tokenClass \in Patient THEN "UNDETERMINED" ELSE "FAILED"

(* Characters that begin no token swallow all but digits and comments.     *)
Garbage(s) == s # <<>> /\ s[1] = "@" /\ All(s, Character \ (digit \cup {"/"}))

Read(type, s) ==
  \E g, w \in Seq(Character) :
    /\ s = g \o w
    /\ Passed(type, w)
    /\ g = <<>> \/ (Garbage(g) /\ type.tokenClass \in Patient)

(* Before a token, in garbage, or one recogniser ahead of all the others.  *)
Race(list, s) ==
  \/ s = <<>> /\ \A n \in Recognisers : Fresh(list[n])
  \/ Garbage(s) /\ \A n \in Recognisers : Stuck(list[n])
  \/ /\ list[1].tokenState = "PASSING" /\ Read(list[1], s)
     /\ \A n \in Recognisers \ {1} : Waiting(list[n])

(* What a token is when the character ch ends it.                          *)
Ends(class, s, ch) ==
  /\ s # <<>>
  /\ Garbled(class, s) \/ (WellFormed(class, s) /\ ~WellFormed(class, Append(s, ch)))

LEMMA ListsAreLists == ASSUME NEW list, Lists(list) PROVE IsList(list)
BY DEF Lists, IsList, TokenTypes

LEMMA SortedLists ==
  ASSUME NEW list, Lists(list)
  PROVE  Lists(Sorted(list))
<1> DEFINE sorted == Sorted(list)
<1>1. PICK p \in [Recognisers -> Recognisers] :
        /\ \A j, k \in Recognisers : p[j] = p[k] => j = k
        /\ \A n \in Recognisers : \E k \in Recognisers : p[k] = n
        /\ sorted = [k \in Recognisers |-> list[p[k]]]
  BY ListsAreLists, SortedIs
<1> HIDE DEF sorted
<1>2. \A k \in Recognisers : p[k] \in Recognisers /\ sorted[k] = list[p[k]]
  BY <1>1
<1>3. sorted \in [Recognisers -> TokenTypes] /\ \A k \in Recognisers : Proper(sorted[k])
  BY <1>1, <1>2 DEF Lists
<1>4. \A m, n \in Recognisers : sorted[m].tokenClass = sorted[n].tokenClass => m = n
  BY <1>1, <1>2 DEF Lists
<1>5. \A class \in Classes : \E n \in Recognisers : sorted[n].tokenClass = class
  BY <1>1, <1>2 DEF Lists
<1> QED
  BY <1>3, <1>4, <1>5 DEF Lists, sorted

LEMMA OfferedLists ==
  ASSUME NEW list, Lists(list), NEW ch \in Character
  PROVE  Lists(Offered(list, ch))
<1> DEFINE offered == Offered(list, ch)
<1>1. PICK last \in Recognisers :
        offered = [n \in Recognisers |-> IF n <= last THEN parse(list[n], ch) ELSE list[n]]
  <2>1. list \in [Recognisers -> TokenTypes] /\ IsList(list)
    BY ListsAreLists DEF Lists
  <2> QED
    BY <2>1, OfferedIs
<1> HIDE DEF offered
<1>2. ASSUME NEW n \in Recognisers
      PROVE  Proper(offered[n]) /\ offered[n].tokenClass = list[n].tokenClass
  BY <1>1, ParseKeeps DEF Lists
<1>3. offered \in [Recognisers -> TokenTypes]
  BY <1>1, <1>2 DEF Proper
<1> QED
  BY <1>2, <1>3 DEF Lists, offered

(* The one that is ahead is put first.                                     *)
LEMMA SortedLeader ==
  ASSUME NEW list, Lists(list), NEW q \in Recognisers, list[q].passingCount # 0,
         \A n \in Recognisers \ {q} : Waiting(list[n])
  PROVE  /\ Sorted(list)[1] = list[q]
         /\ \A n \in Recognisers \ {1} : Waiting(Sorted(list)[n])
<1>1. PICK p \in [Recognisers -> Recognisers] :
        /\ \A j, k \in Recognisers : p[j] = p[k] => j = k
        /\ Sorted(list) = [k \in Recognisers |-> list[p[k]]]
        /\ \A n \in Recognisers :
             (\A m \in Recognisers \ {n} : list[m].passingCount < list[n].passingCount)
               => p[1] = n
  BY ListsAreLists, SortedIs
<1>2. \A m \in Recognisers \ {q} : list[m].passingCount < list[q].passingCount
  <2>1. list[q].passingCount \in Nat
    BY ListsAreLists DEF IsList
  <2>2. \A m \in Recognisers \ {q} : list[m].passingCount = 0
    BY DEF Waiting
  <2> QED
    BY <2>1, <2>2
<1>3. p[1] = q /\ 1 \in Recognisers
  BY <1>1, <1>2 DEF Recognisers
<1>4. \A n \in Recognisers \ {1} : p[n] \in Recognisers \ {q}
  BY <1>1, <1>3
<1> QED
  BY <1>1, <1>3, <1>4

LEMMA FirstsDiffer ==
  ASSUME NEW a \in Classes, NEW b \in Classes, NEW ch, ch \in First(a), ch \in First(b)
  PROVE  a = b
BY DEF Classes, Marks, First, Mark, alpha, digit

LEMMA AllBegin ==
  ASSUME NEW ch \in Character, ch # "@"
  PROVE  \E class \in Classes : ch \in First(class)
<1>1. /\ ch \in {"0", "7"} => ch \in First("NUMBER")
      /\ ch \in {"A", "T", "x"} => ch \in First("LITERAL")
      /\ ch = "/" => ch \in First("COMMENT")
      /\ ch = "\n" => ch \in First("END_OF_LINE")
      /\ ch = " " => ch \in First("WHITE_SPACE")
  BY DEF First, alpha, digit
<1>2. /\ ch = "=" => ch \in First("LABEL_ASSIGN")
      /\ ch = "," => ch \in First("LABEL_DEFINE")
      /\ ch = "*" => ch \in First("LOCATION")
      /\ ch = "." => ch \in First("PROGRAM_COUNTER")
      /\ ch = "+" => ch \in First("ADDITION")
      /\ ch = "-" => ch \in First("SUBTRACTION")
      /\ ch = ";" => ch \in First("END_OF_INSTRUCTION")
  BY DEF First, Mark
<1> QED
  BY <1>1, <1>2 DEF Character, alpha, digit, Classes, Marks

LEMMA GarbageGoesOn ==
  ASSUME NEW s \in Seq(Character), Garbage(s), NEW ch \in Character, ch \notin digit \cup {"/"}
  PROVE  Garbage(Append(s, ch))
<1>1. Append(s, ch) # <<>> /\ Append(s, ch)[1] = s[1]
  BY AppendProperties, LenProperties, EmptySeq DEF Garbage
<1>2. All(Append(s, ch), Character \ (digit \cup {"/"}))
  BY AllAppended DEF Garbage
<1> QED
  BY <1>1, <1>2 DEF Garbage

(* What garbage and a number or a comment make together is Garbled.        *)
LEMMA GarbledIs ==
  ASSUME NEW g \in Seq(Character), NEW w \in Seq(Character), Garbage(g), w # <<>>,
         NEW class \in Patient, WellFormed(class, w)
  PROVE  Garbled(class, g \o w)
<1> DEFINE s == g \o w
<1>1. Len(g) \in Nat \ {0} /\ Len(w) \in Nat \ {0}
  BY EmptySeq DEF Garbage
<1>2. /\ s \in Seq(Character) /\ Len(s) = Len(g) + Len(w)
      /\ \A i \in 1 .. Len(g) + Len(w) : s[i] = IF i <= Len(g) THEN g[i] ELSE w[i - Len(g)]
  BY ConcatProperties
<1>3. s # <<>> /\ s[1] = "@"
  BY <1>1, <1>2 DEF Garbage
<1>4. SubSeq(s, 1, Len(g)) = g
  <2>1. 1 \in 1 .. Len(g) /\ Len(g) \in 1 .. Len(g)
    BY <1>1
  <2>2. SubSeq(g \o w, 1, Len(g)) = SubSeq(g, 1, Len(g))
    BY <2>1, SubSeqOfConcat1
  <2> QED
    BY <2>2, SubSeqFull
<1>5. SubSeq(s, Len(g) + 1, Len(s)) = w
  <2>1. /\ Len(g) + 1 \in Len(g) + 1 .. Len(g) + Len(w)
        /\ Len(g) + Len(w) \in Len(g) + 1 .. Len(g) + Len(w)
        /\ (Len(g) + 1) - Len(g) = 1 /\ (Len(g) + Len(w)) - Len(g) = Len(w)
    BY <1>1
  <2>2. SubSeq(g \o w, Len(g) + 1, Len(g) + Len(w))
          = SubSeq(w, (Len(g) + 1) - Len(g), (Len(g) + Len(w)) - Len(g))
    BY <2>1, SubSeqOfConcat2
  <2> QED
    BY <1>2, <2>1, <2>2, SubSeqFull
<1>6. Len(g) \in 1 .. Len(s) - 1
  BY <1>1, <1>2
<1> HIDE DEF s
<1>7. \E n \in 1 .. Len(s) - 1 : /\ All(SubSeq(s, 1, n), Character \ (digit \cup {"/"}))
                                 /\ WellFormed(class, SubSeq(s, n + 1, Len(s)))
  BY <1>4, <1>5, <1>6 DEF Garbage
<1>8. class \in {"NUMBER", "COMMENT"}
  BY DEF Patient
<1> QED
  BY <1>3, <1>7, <1>8 DEF Garbled, s

LEMMA ReadIsNotEmpty ==
  ASSUME NEW type, NEW s, Read(type, s)
  PROVE  s \in Seq(Character) /\ s # <<>>
<1>1. PICK g \in Seq(Character), w \in Seq(Character) : s = g \o w /\ Passed(type, w)
  BY DEF Read
<1>2. w # <<>>
  BY <1>1 DEF Passed
<1> QED
  BY <1>1, <1>2, ConcatProperties, ConcatEqualIffEmpty

(* The character goes on with the token, or the token ends before it.      *)
LEMMA ReadStep ==
  ASSUME NEW type, Proper(type), type.tokenState = "PASSING", NEW s, Read(type, s),
         NEW ch \in Character
  PROVE  \/ /\ parse(type, ch).tokenState = "PASSING"
            /\ Read(parse(type, ch), Append(s, ch))
         \/ /\ parse(type, ch).tokenState = "FAILED_ON"
            /\ Ends(type.tokenClass, s, ch)
<1>1. PICK g \in Seq(Character), w \in Seq(Character) :
        /\ s = g \o w
        /\ Passed(type, w)
        /\ g = <<>> \/ (Garbage(g) /\ type.tokenClass \in Patient)
  BY DEF Read
<1>2. parse(type, ch).tokenClass = type.tokenClass
  BY ParseKeeps
<1>3. w # <<>> /\ WellFormed(type.tokenClass, w)
  BY <1>1 DEF Passed
<1>4. CASE ch \in type.more
  <2>1. Passed(parse(type, ch), Append(w, ch)) /\ parse(type, ch).tokenState = "PASSING"
    BY <1>1, <1>4, NextCharacter
  <2>2. Append(s, ch) = g \o Append(w, ch) /\ Append(w, ch) \in Seq(Character)
    <3>1. /\ Append(w, ch) = w \o <<ch>> /\ <<ch>> \in Seq(Character)
          /\ Append(w, ch) \in Seq(Character) /\ g \o w \in Seq(Character)
      BY AppendIsConcat, AppendProperties, ConcatProperties
    <3>2. Append(g \o w, ch) = (g \o w) \o <<ch>>
      BY <3>1, AppendIsConcat
    <3>3. (g \o w) \o <<ch>> = g \o (w \o <<ch>>)
      BY <3>1, ConcatAssociative
    <3> QED
      BY <1>1, <3>1, <3>2, <3>3
  <2> QED
    BY <1>1, <1>2, <2>1, <2>2 DEF Read
<1>5. CASE ch \notin type.more
  <2>1. /\ parse(type, ch).tokenState = "FAILED_ON"
        /\ ~WellFormed(type.tokenClass, Append(w, ch))
    BY <1>1, <1>5, NextCharacter
  <2>2. s # <<>>
    BY ReadIsNotEmpty
  <2>3. CASE g = <<>>
    <3>1. s = w
      BY <1>1, <2>3, ConcatEmptySeq
    <3> QED
      BY <1>3, <2>1, <2>2, <3>1 DEF Ends
  <2>4. CASE Garbage(g) /\ type.tokenClass \in Patient
    <3>1. Garbled(type.tokenClass, s)
      BY <1>1, <1>3, <2>4, GarbledIs
    <3> QED
      BY <2>1, <2>2, <3>1 DEF Ends
  <2> QED
    BY <1>1, <2>3, <2>4
<1> QED
  BY <1>4, <1>5

(* At the end of the text: the token is right as it stands.                *)
LEMMA ReadIsRight ==
  ASSUME NEW type, NEW s, Read(type, s)
  PROVE  Garbled(type.tokenClass, s) \/ WellFormed(type.tokenClass, s)
<1>1. PICK g \in Seq(Character), w \in Seq(Character) :
        /\ s = g \o w
        /\ Passed(type, w)
        /\ g = <<>> \/ (Garbage(g) /\ type.tokenClass \in Patient)
  BY DEF Read
<1>2. w # <<>> /\ WellFormed(type.tokenClass, w)
  BY <1>1 DEF Passed
<1>3. CASE g = <<>>
  BY <1>1, <1>2, <1>3, ConcatEmptySeq
<1>4. CASE Garbage(g) /\ type.tokenClass \in Patient
  BY <1>1, <1>2, <1>4, GarbledIs
<1> QED
  BY <1>1, <1>3, <1>4

(* A property that all recognisers have, they have in any order.           *)
LEMMA SortedAll ==
  ASSUME NEW list, Lists(list), NEW S, \A n \in Recognisers : list[n] \in S
  PROVE  \A n \in Recognisers : Sorted(list)[n] \in S
<1>1. PICK p \in [Recognisers -> Recognisers] : Sorted(list) = [k \in Recognisers |-> list[p[k]]]
  BY ListsAreLists, SortedIs
<1> QED
  BY <1>1

(* Nobody is ahead: at most one recogniser begins at the character, and if *)
(* none does it is garbage.                                                *)
LEMMA RaceBegins ==
  ASSUME NEW list, Lists(list), NEW s \in Seq(Character), NEW ch \in Character,
         \/ s = <<>> /\ \A n \in Recognisers : Fresh(list[n])
         \/ Garbage(s) /\ \A n \in Recognisers : Stuck(list[n])
  PROVE  /\ Race(Sorted(Offered(list, ch)), Append(s, ch))
         /\ \A n \in Recognisers : Sorted(Offered(list, ch))[n].tokenState # "FAILED_ON"
<1> DEFINE offered == Offered(list, ch)
           begins(n) == list[n].tokenState = "UNDETERMINED" /\ ch \in First(list[n].tokenClass)
           after(n) == parse(list[n], ch)
<1>1. Lists(offered) /\ Lists(Sorted(offered))
  BY OfferedLists, SortedLists
<1>2. PICK last \in Recognisers :
        /\ offered = [n \in Recognisers |-> IF n <= last THEN after(n) ELSE list[n]]
        /\ last # 12 => \E b \in 1 .. last : ~(list[last + 1].passingCount >= after(b).passingCount)
  <2>1. list \in [Recognisers -> TokenTypes] /\ IsList(list)
    BY ListsAreLists DEF Lists
  <2> QED
    BY <2>1, OfferedIs
<1>3. \A n \in Recognisers : Waiting(list[n]) /\ Proper(list[n]) /\ list[n].tokenClass \in Classes
  BY DEF Lists, Fresh, Stuck, Proper, TokenTypes
<1>4. ASSUME NEW n \in Recognisers, begins(n)
      PROVE  Passed(after(n), <<ch>>) /\ after(n).tokenState = "PASSING"
  BY <1>3, <1>4, FirstCharacter
<1>5. ASSUME NEW n \in Recognisers, ~begins(n)
      PROVE  /\ Waiting(after(n))
             /\ after(n).tokenState =
                  IF list[n].tokenState = "UNDETERMINED" /\ list[n].tokenClass \in Patient
                    THEN "UNDETERMINED" ELSE "FAILED"
  BY <1>3, <1>5, FirstCharacter
<1>6. \A n \in Recognisers : after(n).tokenClass = list[n].tokenClass
  BY <1>3, ParseKeeps
<1>7. \A m, n \in Recognisers : begins(m) /\ begins(n) => m = n
  BY <1>3, FirstsDiffer DEF Lists
<1>8. 1 \in Recognisers /\ Append(s, ch) \in Seq(Character) /\ <<ch>> \in Seq(Character)
  BY AppendProperties DEF Recognisers
<1> HIDE DEF offered, begins, after
<1>9. CASE \E q \in Recognisers : q <= last /\ begins(q)
  <2>1. PICK q \in Recognisers : q <= last /\ begins(q)
    BY <1>9
  <2>2. /\ offered[q] = after(q) /\ Passed(offered[q], <<ch>>)
        /\ offered[q].tokenState = "PASSING" /\ offered[q].passingCount # 0
    BY <1>2, <1>4, <2>1 DEF Passed
  <2>3. \A n \in Recognisers \ {q} : Waiting(offered[n])
    BY <1>2, <1>3, <1>5, <1>7, <2>1
  <2>4. /\ Sorted(offered)[1] = offered[q]
        /\ \A n \in Recognisers \ {1} : Waiting(Sorted(offered)[n])
    BY <1>1, <2>2, <2>3, SortedLeader
  <2>5. Append(s, ch) = s \o <<ch>>
    BY AppendIsConcat
  <2>6. s = <<>> \/ (Garbage(s) /\ offered[q].tokenClass \in Patient)
    <3>1. ASSUME Stuck(list[q]) PROVE list[q].tokenClass \in Patient
      BY <2>1, <3>1 DEF Stuck, begins
    <3> QED
      BY <1>6, <2>2, <3>1
  <2>7. Read(offered[q], Append(s, ch))
    BY <1>8, <2>2, <2>5, <2>6 DEF Read
  <2>8. Race(Sorted(offered), Append(s, ch))
    BY <2>2, <2>4, <2>7 DEF Race
  <2>9. \A n \in Recognisers : Sorted(offered)[n].tokenState # "FAILED_ON"
    BY <2>2, <2>4 DEF Waiting
  <2> QED
    BY <2>8, <2>9 DEF offered
<1>10. CASE \A q \in Recognisers : ~(q <= last /\ begins(q))
  <2>1. last = 12
    <3>1. last \in Nat /\ 1 <= last /\ last <= 12 /\ \A b \in 1 .. last : b \in Recognisers /\ b <= last
      BY DEF Recognisers
    <3>2. \A b \in 1 .. last : after(b).passingCount = 0
      BY <1>5, <1>10, <3>1 DEF Waiting
    <3>3. last # 12 => list[last + 1].passingCount = 0
      BY <1>3, <3>1 DEF Waiting, Recognisers
    <3> QED
      BY <1>2, <3>2, <3>3
  <2>2. \A n \in Recognisers : ~begins(n) /\ offered[n] = after(n)
    BY <1>2, <1>10, <2>1 DEF Recognisers
  <2>3. Garbage(Append(s, ch))
    <3>1. CASE s = <<>> /\ \A n \in Recognisers : Fresh(list[n])
      <4>1. ch = "@"
        <5>1. ASSUME NEW class \in Classes PROVE ch \notin First(class)
          <6>1. PICK n \in Recognisers : list[n].tokenClass = class
            BY DEF Lists
          <6> QED
            BY <2>2, <3>1, <6>1 DEF begins, Fresh
        <5> QED
          BY <5>1, AllBegin
      <4>2. Append(s, ch) = <<"@">>
        BY <3>1, <4>1
      <4>3. <<"@">> # <<>> /\ <<"@">>[1] = "@" /\ DOMAIN <<"@">> = {1}
        OBVIOUS
      <4>4. "@" \in Character \ (digit \cup {"/"})
        BY DEF Character, digit
      <4> QED
        BY <4>2, <4>3, <4>4 DEF Garbage, All
    <3>2. CASE Garbage(s) /\ \A n \in Recognisers : Stuck(list[n])
      <4>1. ASSUME NEW class \in Patient PROVE ch \notin First(class)
        <5>1. PICK n \in Recognisers : list[n].tokenClass = class
          BY DEF Lists, Patient, Classes
        <5> QED
          BY <2>2, <3>2, <5>1 DEF begins, Stuck
      <4>2. ch \notin digit \cup {"/"}
        BY <4>1 DEF Patient, First
      <4> QED
        BY <3>2, <4>2, GarbageGoesOn
    <3> QED
      BY <3>1, <3>2
  <2>4. \A n \in Recognisers : Stuck(offered[n])
    <3> TAKE n \in Recognisers
    <3>1. \/ list[n].tokenState = "UNDETERMINED"
          \/ /\ list[n].tokenState = "FAILED"
             /\ list[n].tokenClass \notin Patient
      BY DEF Fresh, Stuck
    <3> QED
      BY <1>5, <1>6, <2>2, <3>1 DEF Stuck
  <2>5. \A n \in Recognisers : Stuck(Sorted(offered)[n])
    <3> DEFINE S == {offered[n] : n \in Recognisers}
    <3>1. \A n \in Recognisers : offered[n] \in S
      OBVIOUS
    <3>2. \A type \in S : Stuck(type)
      BY <2>4
    <3> HIDE DEF S
    <3> QED
      BY <1>1, <3>1, <3>2, SortedAll
  <2>6. \A n \in Recognisers : Sorted(offered)[n].tokenState # "FAILED_ON"
    BY <2>5 DEF Stuck, Waiting
  <2> QED
    BY <2>3, <2>5, <2>6 DEF Race, offered
<1> QED
  BY <1>9, <1>10

(* One is ahead: it alone is offered the character.                        *)
LEMMA RaceRuns ==
  ASSUME NEW list, Lists(list), NEW s \in Seq(Character), NEW ch \in Character,
         list[1].tokenState = "PASSING", Read(list[1], s),
         \A n \in Recognisers \ {1} : Waiting(list[n])
  PROVE  LET L == Sorted(Offered(list, ch))
         IN  /\ \A n \in Recognisers \ {1} : L[n].tokenState # "FAILED_ON"
             /\ \/ Race(L, Append(s, ch)) /\ L[1].tokenState # "FAILED_ON"
                \/ L[1].tokenState = "FAILED_ON" /\ Ends(L[1].tokenClass, s, ch)
<1> DEFINE offered == Offered(list, ch)
           after(n) == parse(list[n], ch)
<1>1. Lists(offered) /\ Lists(Sorted(offered))
  BY OfferedLists, SortedLists
<1>2. PICK last \in Recognisers :
        /\ offered = [n \in Recognisers |-> IF n <= last THEN after(n) ELSE list[n]]
        /\ \A m \in 1 .. last : \A b \in 1 .. m - 1 :
             list[m].passingCount >= after(b).passingCount
  <2>1. list \in [Recognisers -> TokenTypes] /\ IsList(list)
    BY ListsAreLists DEF Lists
  <2> QED
    BY <2>1, OfferedIs
<1>3. 1 \in Recognisers /\ 2 \in Recognisers /\ Proper(list[1])
  BY DEF Recognisers, Lists
<1>4. /\ after(1).tokenClass = list[1].tokenClass
      /\ after(1).passingCount \in Nat \ {0}
  <2>1. Proper(after(1)) /\ after(1).passingCount >= list[1].passingCount
        /\ after(1).tokenClass = list[1].tokenClass
    BY <1>3, ParseKeeps
  <2>2. after(1).passingCount \in Nat /\ list[1].passingCount \in Nat
    BY <1>3, <2>1 DEF Proper, TokenTypes
  <2>3. list[1].passingCount # 0
    BY DEF Read, Passed
  <2> HIDE DEF after
  <2> QED
    BY <2>1, <2>2, <2>3
<1>5. \/ after(1).tokenState = "PASSING" /\ Read(after(1), Append(s, ch))
      \/ after(1).tokenState = "FAILED_ON" /\ Ends(list[1].tokenClass, s, ch)
  BY <1>3, ReadStep
<1> HIDE DEF offered, after
<1>6. last = 1
  <2> SUFFICES ASSUME last # 1 PROVE FALSE
    OBVIOUS
  <2>1. 2 \in 1 .. last /\ 1 \in 1 .. 2 - 1
    BY DEF Recognisers
  <2>2. list[2].passingCount >= after(1).passingCount
    BY <1>2, <2>1
  <2>3. list[2].passingCount = 0
    BY <1>3 DEF Waiting
  <2> QED
    BY <1>4, <2>2, <2>3
<1>7. offered[1] = after(1) /\ \A n \in Recognisers \ {1} : offered[n] = list[n]
  BY <1>2, <1>3, <1>6 DEF Recognisers
<1>8. /\ Sorted(offered)[1] = after(1)
      /\ \A n \in Recognisers \ {1} : Waiting(Sorted(offered)[n])
  BY <1>1, <1>3, <1>4, <1>7, SortedLeader
<1>9. \A n \in Recognisers \ {1} : Sorted(offered)[n].tokenState # "FAILED_ON"
  BY <1>8 DEF Waiting
<1>10. \/ Race(Sorted(offered), Append(s, ch)) /\ Sorted(offered)[1].tokenState # "FAILED_ON"
       \/ Sorted(offered)[1].tokenState = "FAILED_ON" /\ Ends(Sorted(offered)[1].tokenClass, s, ch)
  BY <1>4, <1>5, <1>8 DEF Race
<1> QED
  BY <1>9, <1>10 DEF offered

(* The race for one character: it goes on, or one recogniser and no other  *)
(* fails on the character.                                                 *)
LEMMA RaceStep ==
  ASSUME NEW list, Lists(list), NEW s \in Seq(Character), Race(list, s), NEW ch \in Character
  PROVE  LET L == Sorted(Offered(list, ch))
         IN  /\ Lists(L)
             /\ \A n \in Recognisers \ {1} : L[n].tokenState # "FAILED_ON"
             /\ \/ Race(L, Append(s, ch)) /\ L[1].tokenState # "FAILED_ON"
                \/ L[1].tokenState = "FAILED_ON" /\ Ends(L[1].tokenClass, s, ch)
<1>1. Lists(Sorted(Offered(list, ch)))
  BY OfferedLists, SortedLists
<1>2. 1 \in Recognisers
  BY DEF Recognisers
<1>3. CASE \/ s = <<>> /\ \A n \in Recognisers : Fresh(list[n])
           \/ Garbage(s) /\ \A n \in Recognisers : Stuck(list[n])
  BY <1>1, <1>2, <1>3, RaceBegins
<1>4. CASE /\ list[1].tokenState = "PASSING" /\ Read(list[1], s)
           /\ \A n \in Recognisers \ {1} : Waiting(list[n])
  BY <1>1, <1>4, RaceRuns
<1> QED
  BY <1>3, <1>4 DEF Race

-----------------------------------------------------------------------------
(* Before the first character, and after every token.                      *)
Begun(class) ==
  TokenType(class, First(class), IF class = "NUMBER" THEN digit ELSE More(class),
            class \in Patient)

LEMMA BegunIsFresh ==
  ASSUME NEW class \in Classes
  PROVE  Proper(Begun(class)) /\ Fresh(Begun(class)) /\ Begun(class).tokenClass = class
<1> DEFINE more == IF class = "NUMBER" THEN digit ELSE More(class)
<1>1. First(class) \subseteq Character
  <2>1. First(class) \in {{"/"}, alpha, digit, {"\n"}, {" "}} \/ First(class) = {Mark(class)}
    BY DEF First
  <2>2. class \in Marks => Mark(class) \in {"=", ",", "*", ".", "+", "-", ";"}
    BY DEF Marks, Mark
  <2>3. class \notin Marks => First(class) \in {{"/"}, alpha, digit, {"\n"}, {" "}}
    BY DEF Classes, First
  <2> QED
    BY <2>1, <2>2, <2>3 DEF Character
<1>2. more \subseteq Character
  <2>1. more \in {Character \ {"\n"}, alpha \cup digit, {"\n"}, {" "}, digit, {}}
    BY DEF More
  <2> HIDE DEF more
  <2> QED
    BY <2>1 DEF Character
<1>3. Begun(class) = [tokenClass |-> class, first |-> First(class), more |-> more,
                      patient |-> (class \in Patient), tokenState |-> "UNDETERMINED",
                      passingCount |-> 0]
  BY DEF Begun, TokenType
<1>4. class = "NUMBER" => more = digit
  OBVIOUS
<1>5. class # "NUMBER" => more = More(class)
  OBVIOUS
<1> HIDE DEF more
<1>6. Begun(class) \in TokenTypes
  BY <1>1, <1>2, <1>3 DEF TokenTypes
<1> QED
  BY <1>3, <1>4, <1>5, <1>6 DEF Proper, Fresh, Waiting

LEMMA FreshStart ==
  /\ Lists(TokenParser)
  /\ \A n \in Recognisers : Fresh(TokenParser[n])
<1> DEFINE class == << "COMMENT", "LABEL_ASSIGN", "LABEL_DEFINE", "LOCATION", "PROGRAM_COUNTER",
                       "ADDITION", "SUBTRACTION", "LITERAL", "NUMBER", "END_OF_LINE",
                       "WHITE_SPACE", "END_OF_INSTRUCTION" >>
<1> DEFINE Is(type, c) == type = Begun(c)
<1>1. /\ Is(CommentToken, "COMMENT") /\ Is(Literal, "LITERAL") /\ Is(Number, "NUMBER")
      /\ Is(EndOfLine, "END_OF_LINE") /\ Is(WhiteSpace, "WHITE_SPACE")
  <2>1. /\ First("COMMENT") = {"/"} /\ First("LITERAL") = alpha /\ First("NUMBER") = digit
        /\ First("END_OF_LINE") = {"\n"} /\ First("WHITE_SPACE") = {" "}
    BY DEF First
  <2>2. /\ More("COMMENT") = Character \ {"\n"} /\ More("LITERAL") = alpha \cup digit
        /\ More("END_OF_LINE") = {"\n"} /\ More("WHITE_SPACE") = {" "}
    BY DEF More
  <2>3. Is(CommentToken, "COMMENT") /\ Is(Number, "NUMBER")
    BY <2>1, <2>2 DEF Begun, TokenType, Patient, CommentToken, Number
  <2>4. ASSUME NEW c \in {"LITERAL", "END_OF_LINE", "WHITE_SPACE"}
        PROVE  Is(TokenType(c, First(c), More(c), FALSE), c)
    <3>1. (c \in Patient) = FALSE /\ (IF c = "NUMBER" THEN digit ELSE More(c)) = More(c)
      BY DEF Patient
    <3> QED
      BY <3>1, Zenon DEF Begun
  <2>5. Is(Literal, "LITERAL") /\ Is(EndOfLine, "END_OF_LINE") /\ Is(WhiteSpace, "WHITE_SPACE")
    BY <2>1, <2>2, <2>4 DEF Literal, EndOfLine, WhiteSpace
  <2> QED
    BY <2>3, <2>5
<1>2. ASSUME NEW c \in Marks PROVE Is(OneCharacter(c, Mark(c)), c)
  <2>1. First(c) = {Mark(c)}
    BY DEF First, Marks
  <2>2. More(c) = {}
    BY DEF More, Marks
  <2>3. (c \in Patient) = FALSE /\ (IF c = "NUMBER" THEN digit ELSE More(c)) = More(c)
    BY DEF Marks, Patient
  <2> QED
    BY <2>1, <2>2, <2>3, Zenon DEF Begun, OneCharacter
<1>3. /\ Is(LabelAssignment, "LABEL_ASSIGN") /\ Is(LabelDefinition, "LABEL_DEFINE")
      /\ Is(Location, "LOCATION") /\ Is(ProgramCounter, "PROGRAM_COUNTER")
      /\ Is(Addition, "ADDITION") /\ Is(Subtraction, "SUBTRACTION")
      /\ Is(EndOfInstruction, "END_OF_INSTRUCTION")
  <2>1. /\ Mark("LABEL_ASSIGN") = "=" /\ Mark("LABEL_DEFINE") = "," /\ Mark("LOCATION") = "*"
        /\ Mark("PROGRAM_COUNTER") = "." /\ Mark("ADDITION") = "+"
        /\ Mark("SUBTRACTION") = "-" /\ Mark("END_OF_INSTRUCTION") = ";"
    BY DEF Mark
  <2>2. /\ Is(OneCharacter("LABEL_ASSIGN", "="), "LABEL_ASSIGN")
        /\ Is(OneCharacter("LABEL_DEFINE", ","), "LABEL_DEFINE")
        /\ Is(OneCharacter("LOCATION", "*"), "LOCATION")
        /\ Is(OneCharacter("PROGRAM_COUNTER", "."), "PROGRAM_COUNTER")
        /\ Is(OneCharacter("ADDITION", "+"), "ADDITION")
        /\ Is(OneCharacter("SUBTRACTION", "-"), "SUBTRACTION")
        /\ Is(OneCharacter("END_OF_INSTRUCTION", ";"), "END_OF_INSTRUCTION")
    BY <1>2, <2>1 DEF Marks
  <2> QED
    BY <2>2 DEF LabelAssignment, LabelDefinition, Location, ProgramCounter, Addition, Subtraction,
                EndOfInstruction
<1>4. TokenParser = [n \in Recognisers |-> Begun(class[n])]
  BY <1>1, <1>3 DEF TokenParser, Recognisers
<1>5. /\ \A n \in Recognisers : class[n] \in Classes
      /\ \A m, n \in Recognisers : class[m] = class[n] => m = n
      /\ \A c \in Classes : \E n \in Recognisers : class[n] = c
  BY DEF Recognisers, Classes, Marks
<1> HIDE DEF class
<1>6. \A n \in Recognisers : /\ Proper(TokenParser[n]) /\ Fresh(TokenParser[n])
                             /\ TokenParser[n].tokenClass = class[n]
  BY <1>4, <1>5, BegunIsFresh
<1>7. TokenParser \in [Recognisers -> TokenTypes]
  BY <1>4, <1>6 DEF Proper
<1> QED
  BY <1>5, <1>6, <1>7 DEF Lists

LEMMA ClearedLists ==
  ASSUME NEW list, Lists(list)
  PROVE  Lists(clear(list)) /\ \A n \in Recognisers : Fresh(clear(list)[n])
<1> DEFINE cleared(n) ==
             [list[n] EXCEPT !.tokenState = "UNDETERMINED", !.passingCount = 0,
                             !.more = IF list[n].tokenClass = "NUMBER" THEN digit ELSE @]
<1>1. DOMAIN list = Recognisers /\ \A n \in Recognisers : list[n] \in TokenTypes /\ Proper(list[n])
  BY DEF Lists
<1>2. clear(list) = [n \in Recognisers |-> cleared(n)]
  BY <1>1 DEF clear
<1>3. digit \subseteq Character
  BY DEF Character
<1>4. ASSUME NEW n \in Recognisers
      PROVE  /\ cleared(n) \in TokenTypes /\ cleared(n).tokenClass = list[n].tokenClass
             /\ cleared(n).first = list[n].first /\ cleared(n).patient = list[n].patient
             /\ cleared(n).more = IF list[n].tokenClass = "NUMBER" THEN digit ELSE list[n].more
             /\ cleared(n).tokenState = "UNDETERMINED" /\ cleared(n).passingCount = 0
  BY <1>1, <1>3 DEF TokenTypes
<1> HIDE DEF cleared
<1>5. \A n \in Recognisers : Proper(cleared(n)) /\ Fresh(cleared(n))
  BY <1>1, <1>4 DEF Proper, Fresh, Waiting
<1> QED
  BY <1>2, <1>4, <1>5 DEF Lists

-----------------------------------------------------------------------------
(* The inductive invariant.                                                *)
TokenIs == [tokenClass : Classes \cup {"END_OF_FILE"}, literal : Seq(Character)]

TokensTypes ==
  /\ source \in Seq(Character) /\ text \in Seq(Character) /\ literalValue \in Seq(Character)
  /\ tokens \in Seq(TokenIs)

Racing == Lists(tokenList) /\ Race(tokenList, literalValue)

(* A token is right before the characters that follow.                     *)
RightBefore(token, rest) ==
  \/ Garbled(token.tokenClass, token.literal)
  \/ /\ WellFormed(token.tokenClass, token.literal)
     /\ rest # <<>> => ~WellFormed(token.tokenClass, Append(token.literal, rest[1]))

(* What follows the last token is what has been read since and what is     *)
(* left of the text.                                                       *)
RightSoFar ==
  \A k \in 1 .. Len(tokens) :
    RightBefore(tokens[k], IF k < Len(tokens) THEN tokens[k + 1].literal
                                              ELSE literalValue \o text)

TokensInv == TokensTypes /\ Racing /\ RightSoFar /\ NothingLost /\ ReadToTheEnd

(* What the handed-over token leaves to the next one.                      *)
LEMMA RightAppended ==
  ASSUME TokensTypes, RightSoFar, NEW token \in TokenIs, NEW rest,
         RightBefore(token, rest), token.literal = literalValue, literalValue = <<>> => text = <<>>
  PROVE  LET all == Append(tokens, token)
         IN  \A k \in 1 .. Len(all) :
               RightBefore(all[k], IF k < Len(all) THEN all[k + 1].literal ELSE rest)
<1> DEFINE all == Append(tokens, token)
<1>1. /\ Len(all) = Len(tokens) + 1 /\ Len(tokens) \in Nat
      /\ \A k \in 1 .. Len(tokens) : all[k] = tokens[k]
      /\ all[Len(tokens) + 1] = token
  BY AppendProperties, LenProperties DEF TokensTypes
<1> HIDE DEF all
<1>2. ASSUME NEW t, RightBefore(t, literalValue \o text) PROVE RightBefore(t, literalValue)
  <2>1. CASE literalValue = <<>>
    BY <1>2, <2>1 DEF RightBefore
  <2>2. CASE literalValue # <<>>
    <3>1. Len(literalValue) \in Nat /\ Len(literalValue) # 0
      BY <2>2, EmptySeq DEF TokensTypes
    <3>2. (literalValue \o text)[1] = literalValue[1] /\ Len(literalValue \o text) # 0
      BY <3>1, ConcatProperties, LenProperties DEF TokensTypes
    <3>3. literalValue \o text # <<>>
      BY <3>2
    <3> QED
      BY <1>2, <3>2, <3>3 DEF RightBefore
  <2> QED
    BY <2>1, <2>2
<1>3. ASSUME NEW k \in 1 .. Len(all)
      PROVE  RightBefore(all[k], IF k < Len(all) THEN all[k + 1].literal ELSE rest)
  <2>1. CASE k < Len(tokens)
    <3>1. k \in 1 .. Len(tokens) /\ k + 1 \in 1 .. Len(tokens) /\ k < Len(all)
      BY <1>1, <2>1
    <3>2. all[k] = tokens[k] /\ all[k + 1] = tokens[k + 1]
      BY <1>1, <3>1
    <3> QED
      BY <2>1, <3>1, <3>2 DEF RightSoFar
  <2>2. CASE k = Len(tokens)
    <3>1. k \in 1 .. Len(tokens) /\ ~(k < Len(tokens)) /\ k < Len(all)
      BY <1>1, <2>2
    <3>2. all[k] = tokens[k] /\ all[k + 1] = token
      BY <1>1, <2>2, <3>1
    <3>3. RightBefore(tokens[k], literalValue \o text)
      BY <3>1 DEF RightSoFar
    <3> QED
      BY <1>2, <3>1, <3>2, <3>3
  <2>3. CASE k = Len(tokens) + 1
    <3>1. ~(k < Len(all)) /\ all[k] = token
      BY <1>1, <2>3
    <3> QED
      BY <3>1
  <2> QED
    BY <1>1, <2>1, <2>2, <2>3
<1> QED
  BY <1>3 DEF all

(* The literals of the tokens, one after another.                          *)
Literals(ts) == [k \in DOMAIN ts |-> ts[k].literal]

LEMMA LiteralsAppended ==
  ASSUME NEW ts \in Seq(TokenIs), NEW token \in TokenIs
  PROVE  /\ FlattenSeq(Literals(ts)) \in Seq(Character)
         /\ FlattenSeq(Literals(Append(ts, token))) = FlattenSeq(Literals(ts)) \o token.literal
<1>1. /\ DOMAIN ts = 1 .. Len(ts) /\ Len(ts) \in Nat
      /\ \A k \in 1 .. Len(ts) : ts[k].literal \in Seq(Character)
  <2>1. \A k \in 1 .. Len(ts) : ts[k] \in TokenIs
    BY ElementOfSeq
  <2>2. \A t \in TokenIs : t.literal \in Seq(Character)
    BY DEF TokenIs
  <2> QED
    BY <2>1, <2>2, LenProperties
<1>2. token.literal \in Seq(Character)
  BY DEF TokenIs
<1>3. Literals(ts) \in Seq(Seq(Character)) /\ Len(Literals(ts)) = Len(ts)
  <2>1. Literals(ts) \in [1 .. Len(ts) -> Seq(Character)]
    BY <1>1 DEF Literals
  <2> QED
    BY <1>1, <2>1, FunctionIsSeq
<1>4. Literals(Append(ts, token)) = Append(Literals(ts), token.literal)
  <2> DEFINE u == Append(ts, token)
             a == Literals(u)
             b == Append(Literals(ts), token.literal)
  <2>1. /\ DOMAIN u = 1 .. Len(ts) + 1
        /\ \A k \in 1 .. Len(ts) : u[k] = ts[k]
        /\ u[Len(ts) + 1] = token
    BY AppendProperties, LenProperties
  <2> HIDE DEF u
  <2>2. /\ a \in [1 .. Len(ts) + 1 -> Seq(Character)]
        /\ \A k \in 1 .. Len(ts) : a[k] = ts[k].literal
        /\ a[Len(ts) + 1] = token.literal
    <3>1. a = [k \in 1 .. Len(ts) + 1 |-> u[k].literal]
      BY <2>1 DEF Literals
    <3> HIDE DEF a
    <3>2. \A k \in 1 .. Len(ts) + 1 : a[k] = IF k = Len(ts) + 1 THEN token.literal ELSE ts[k].literal
      BY <1>1, <2>1, <3>1
    <3>3. \A k \in 1 .. Len(ts) : k \in 1 .. Len(ts) + 1 /\ k # Len(ts) + 1
      BY <1>1
    <3>4. Len(ts) + 1 \in 1 .. Len(ts) + 1
      BY <1>1
    <3>5. \A k \in 1 .. Len(ts) + 1 : k = Len(ts) + 1 \/ k \in 1 .. Len(ts)
      BY <1>1
    <3>6. \A k \in 1 .. Len(ts) + 1 : a[k] \in Seq(Character)
      BY <1>1, <1>2, <3>2, <3>5
    <3> QED
      BY <3>1, <3>2, <3>3, <3>4, <3>6
  <2> HIDE DEF a
  <2>3. a \in Seq(Seq(Character)) /\ Len(a) = Len(ts) + 1
    <3>1. PICK n \in Nat : n = Len(ts) + 1
      BY <1>1
    <3>2. a \in [1 .. n -> Seq(Character)]
      BY <2>2, <3>1
    <3> QED
      BY <3>1, <3>2, FunctionIsSeq
  <2>4. /\ b \in Seq(Seq(Character)) /\ Len(b) = Len(ts) + 1
        /\ \A k \in 1 .. Len(ts) : b[k] = Literals(ts)[k]
        /\ b[Len(ts) + 1] = token.literal
    BY <1>2, <1>3, AppendProperties
  <2>5. \A k \in 1 .. Len(ts) : Literals(ts)[k] = ts[k].literal
    BY <1>1 DEF Literals
  <2> HIDE DEF b
  <2>6. \A k \in 1 .. Len(a) : a[k] = b[k]
    <3>1. \A k \in 1 .. Len(ts) : a[k] = b[k]
      BY <2>2, <2>4, <2>5
    <3>2. \A k \in 1 .. Len(a) : k \in 1 .. Len(ts) \/ k = Len(ts) + 1
      BY <1>1, <2>3
    <3> QED
      BY <2>2, <2>4, <3>1, <3>2
  <2>7. a = b
    BY <2>3, <2>4, <2>6, SeqEqual
  <2> QED
    BY <2>7 DEF a, b, u
<1> QED
  BY <1>2, <1>3, <1>4, FlattenAppend, FlattenType

LEMMA TokensInit == Init => TokensInv
<1> SUFFICES ASSUME Init PROVE TokensInv
  OBVIOUS
<1>1. /\ source \in Seq(Character) /\ text = source /\ literalValue = <<>>
      /\ tokenList = TokenParser /\ tokens = <<>> /\ ended = FALSE
  BY TextsAssumption DEF Init
<1>2. <<>> \in Seq(Character) /\ <<>> \in Seq(TokenIs)
  BY EmptySeq
<1>3. TokensTypes
  BY <1>1, <1>2 DEF TokensTypes
<1>4. Racing
  BY <1>1, FreshStart DEF Racing, Race
<1>5. RightSoFar
  BY <1>1 DEF RightSoFar
<1>6. NothingLost
  <2>1. [k \in DOMAIN tokens |-> tokens[k].literal] = <<>>
    BY <1>1
  <2>2. FlattenSeq(<<>>) = <<>>
    BY FlattenEmpty
  <2>3. <<>> \o <<>> = <<>> /\ <<>> \o source = source
    BY <1>1, <1>2, ConcatEmptySeq
  <2> QED
    BY <1>1, <2>1, <2>2, <2>3 DEF NothingLost
<1>7. ReadToTheEnd
  BY <1>1 DEF ReadToTheEnd
<1> QED
  BY <1>3, <1>4, <1>5, <1>6, <1>7 DEF TokensInv

(* One more character of the token.                                        *)
LEMMA CharacterTaken ==
  ASSUME TokensInv, ~ended, text # <<>>,
         literalValue' = Append(literalValue, Head(text)), text' = Tail(text),
         Lists(tokenList'), Race(tokenList', literalValue'),
         tokens' = tokens, ended' = ended, source' = source
  PROVE  TokensInv'
<1>0. \A a, b, c \in Seq(Character) : (a \o b) \o c = a \o (b \o c)
  BY ConcatAssociative, SMTT(40)
<1>1. /\ source \in Seq(Character) /\ text \in Seq(Character) /\ literalValue \in Seq(Character)
      /\ tokens \in Seq(TokenIs)
  BY DEF TokensInv, TokensTypes
<1>2. Head(text) \in Character /\ Tail(text) \in Seq(Character)
  BY <1>1, HeadTailProperties
<1>3. literalValue' \in Seq(Character) /\ text' \in Seq(Character)
  BY <1>1, <1>2, AppendProperties
<1>4. literalValue' \o text' = literalValue \o text
  <2>1. <<Head(text)>> \in Seq(Character)
    BY <1>2
  <2>2. literalValue' = literalValue \o <<Head(text)>>
    BY <1>1, <1>2, AppendIsConcat
  <2>3. <<Head(text)>> \o Tail(text) = text
    BY <1>1, <1>2
  <2>4. (literalValue \o <<Head(text)>>) \o Tail(text) = literalValue \o (<<Head(text)>> \o Tail(text))
    BY <1>1, <1>2, <2>1, ConcatAssociative, SMTT(40)
  <2> QED
    BY <2>2, <2>3, <2>4
<1>5. TokensTypes'
  BY <1>1, <1>3 DEF TokensTypes
<1>6. Racing'
  BY DEF Racing
<1>7. RightSoFar'
  <2> DEFINE Sofar(lv, t) ==
        \A k \in 1 .. Len(tokens) :
          RightBefore(tokens[k], IF k < Len(tokens) THEN tokens[k + 1].literal ELSE lv \o t)
  <2>1. Sofar(literalValue, text)
    BY DEF TokensInv, RightSoFar
  <2>2. Sofar(literalValue', text')
    BY <1>4, <2>1, Zenon
  <2> QED
    BY <2>2 DEF RightSoFar
<1>8. NothingLost'
  <2> DEFINE read == FlattenSeq(Literals(tokens))
  <2>1. read \in Seq(Character)
    <3>1. PICK token \in TokenIs : token = [tokenClass |-> "END_OF_FILE", literal |-> <<>>]
      <4>1. [tokenClass |-> "END_OF_FILE", literal |-> <<>>] \in TokenIs
        BY EmptySeq DEF TokenIs
      <4> QED
        BY <4>1
    <3> QED
      BY <1>1, LiteralsAppended
  <2>2. source = read \o literalValue \o text
    BY DEF TokensInv, NothingLost, Literals
  <2> HIDE DEF read
  <2>3. (read \o literalValue) \o text = read \o (literalValue \o text)
    BY <1>0, <1>1, <2>1
  <2>4. (read \o literalValue') \o text' = read \o (literalValue' \o text')
    BY <1>0, <1>3, <2>1
  <2>5. source' = read \o literalValue' \o text'
    BY <1>4, <2>2, <2>3, <2>4
  <2> QED
    BY <2>5 DEF NothingLost, Literals, read
<1>9. ReadToTheEnd'
  BY DEF ReadToTheEnd, TokensInv
<1> QED
  BY <1>5, <1>6, <1>7, <1>8, <1>9 DEF TokensInv

(* A token handed over.                                                    *)
LEMMA TokenFound ==
  ASSUME TokensInv, ~ended, NEW token \in TokenIs, token.literal = literalValue,
         literalValue = <<>> => text = <<>>,
         RightBefore(token, text),
         tokens' = Append(tokens, token), literalValue' = <<>>, text' = text,
         tokenList' \in {clear(list) : list \in {l \in {tokenList, Sorted(Offered(tokenList, Head(text)))}
                                                   : Lists(l)}},
         ended' => token.tokenClass = "END_OF_FILE", source' = source
  PROVE  TokensInv'
<1>1. /\ source \in Seq(Character) /\ text \in Seq(Character) /\ literalValue \in Seq(Character)
      /\ tokens \in Seq(TokenIs)
  BY DEF TokensInv, TokensTypes
<1>2. <<>> \in Seq(Character) /\ <<>> \o text = text
  BY <1>1, EmptySeq, ConcatEmptySeq
<1>3. tokens' \in Seq(TokenIs) /\ Len(tokens') = Len(tokens) + 1 /\ tokens'[Len(tokens) + 1] = token
      /\ tokens' # <<>> /\ Len(tokens) \in Nat
  BY <1>1, AppendProperties, LenProperties
<1>4. TokensTypes'
  BY <1>1, <1>2, <1>3 DEF TokensTypes
<1>5. Racing'
  <2>1. PICK list : Lists(list) /\ tokenList' = clear(list)
    OBVIOUS
  <2> QED
    BY <2>1, ClearedLists DEF Racing, Race
<1>6. RightSoFar'
  <2> DEFINE Sofar(all, rest) ==
        \A k \in 1 .. Len(all) :
          RightBefore(all[k], IF k < Len(all) THEN all[k + 1].literal ELSE rest)
  <2>1. TokensTypes /\ RightSoFar
    BY DEF TokensInv
  <2>2. Sofar(Append(tokens, token), text)
    BY <2>1, RightAppended
  <2>3. Sofar(tokens', literalValue' \o text')
    BY <1>2, <2>2, Zenon
  <2> QED
    BY <2>3 DEF RightSoFar
<1>7. NothingLost'
  <2> DEFINE read == FlattenSeq(Literals(tokens))
  <2>1. read \in Seq(Character) /\ FlattenSeq(Literals(tokens')) = read \o literalValue
    BY <1>1, LiteralsAppended
  <2>2. source = read \o literalValue \o text
    BY DEF TokensInv, NothingLost, Literals
  <2> HIDE DEF read
  <2>3. (read \o literalValue) \o <<>> = read \o literalValue
    <3>1. read \o literalValue \in Seq(Character)
      BY <1>1, <2>1, ConcatProperties
    <3> QED
      BY <3>1, ConcatEmptySeq
  <2>4. source' = FlattenSeq(Literals(tokens')) \o literalValue' \o text'
    BY <2>1, <2>2, <2>3
  <2> QED
    BY <2>4 DEF NothingLost, Literals
<1>8. ReadToTheEnd'
  BY <1>3 DEF ReadToTheEnd, Last
<1> QED
  BY <1>4, <1>5, <1>6, <1>7, <1>8 DEF TokensInv

LEMMA NextTokenKeeps == TokensInv /\ nextToken => TokensInv'
<1> SUFFICES ASSUME TokensInv, nextToken PROVE TokensInv'
  OBVIOUS
<1> DEFINE ch   == Head(text)
           list == Sorted(Offered(tokenList, ch))
           failed == {n \in DOMAIN list : list[n].tokenState = "FAILED_ON"}
<1>1. ~ended /\ text # <<>> /\ source' = source
  BY DEF nextToken
<1>2. literalValue \in Seq(Character) /\ text \in Seq(Character) /\ ch \in Character
  BY <1>1, HeadTailProperties DEF TokensInv, TokensTypes
<1>3. /\ Lists(list)
      /\ \A n \in Recognisers \ {1} : list[n].tokenState # "FAILED_ON"
      /\ \/ Race(list, Append(literalValue, ch)) /\ list[1].tokenState # "FAILED_ON"
         \/ list[1].tokenState = "FAILED_ON" /\ Ends(list[1].tokenClass, literalValue, ch)
  <2>1. Lists(tokenList) /\ Race(tokenList, literalValue)
    BY DEF TokensInv, Racing
  <2> QED
    BY <1>2, <2>1, RaceStep
<1>4. \/ /\ failed = {}
         /\ literalValue' = Append(literalValue, ch) /\ text' = Tail(text)
         /\ tokenList' = list /\ tokens' = tokens /\ ended' = ended
      \/ /\ failed # {}
         /\ tokens' = IF Cardinality(failed) > 1 THEN tokens
                      ELSE Append(tokens, Token(list[CHOOSE n \in failed : TRUE].tokenClass,
                                                literalValue))
         /\ literalValue' = <<>> /\ tokenList' = clear(list)
         /\ ended' = (Cardinality(failed) > 1)
         /\ text' = putback(ch, Tail(text))
  BY Zenon DEF nextToken
<1> HIDE DEF list
<1>5. 1 \in Recognisers /\ DOMAIN list = Recognisers
  BY <1>3 DEF Lists, Recognisers
<1>6. CASE list[1].tokenState # "FAILED_ON"
  <2>1. failed = {}
    BY <1>3, <1>5, <1>6
  <2>2. Race(list, Append(literalValue, ch))
    BY <1>3, <1>6
  <2> QED
    BY <1>1, <1>3, <1>4, <2>1, <2>2, CharacterTaken
<1>7. CASE list[1].tokenState = "FAILED_ON"
  <2>1. failed = {1}
    BY <1>3, <1>5, <1>7
  <2>2. Cardinality(failed) = 1 /\ (CHOOSE n \in failed : TRUE) = 1 /\ failed # {}
    BY <2>1, FS_Singleton
  <2>10. (Cardinality(failed) > 1) = FALSE
    BY <2>2
  <2> DEFINE token == Token(list[1].tokenClass, literalValue)
  <2> HIDE DEF failed
  <2>3. /\ tokens' = Append(tokens, token) /\ literalValue' = <<>>
        /\ tokenList' = clear(list) /\ ended' = FALSE /\ text' = putback(ch, Tail(text))
    BY <1>4, <2>2, <2>10, Zenon
  <2>4. text' = text
    BY <1>1, <1>2, <2>3 DEF putback
  <2>5. Ends(list[1].tokenClass, literalValue, ch) /\ list[1].tokenClass \in Classes
    BY <1>3, <1>5, <1>7 DEF Lists, TokenTypes
  <2>6. /\ token \in TokenIs /\ token.literal = literalValue
        /\ token.tokenClass = list[1].tokenClass
    BY <1>2, <2>5 DEF Token, TokenIs
  <2>7. text[1] = ch
    BY <1>1, <1>2
  <2>8. RightBefore(token, text) /\ literalValue # <<>>
    BY <2>5, <2>6, <2>7 DEF Ends, RightBefore
  <2>9. tokenList' \in {clear(l) : l \in {k \in {tokenList, Sorted(Offered(tokenList, Head(text)))}
                                             : Lists(k)}}
    BY <1>3, <2>3 DEF list
  <2> HIDE DEF token
  <2> QED
    BY <1>1, <2>3, <2>4, <2>6, <2>8, <2>9, TokenFound
<1> QED
  BY <1>6, <1>7

LEMMA EndOfTextKeeps == TokensInv /\ endOfText => TokensInv'
<1> SUFFICES ASSUME TokensInv, endOfText PROVE TokensInv'
  OBVIOUS
<1> DEFINE class == IF literalValue = <<>> THEN "END_OF_FILE" ELSE Head(tokenList).tokenClass
           token == Token(class, literalValue)
<1>1. /\ ~ended /\ text = <<>> /\ tokens' = Append(tokens, token)
      /\ literalValue' = <<>> /\ tokenList' = clear(tokenList)
      /\ ended' = (literalValue = <<>>) /\ source' = source /\ text' = text
  BY DEF endOfText
<1>2. /\ Lists(tokenList) /\ Race(tokenList, literalValue) /\ literalValue \in Seq(Character)
      /\ 1 \in Recognisers
  BY DEF TokensInv, Racing, TokensTypes, Recognisers
<1>3. Head(tokenList) = tokenList[1] /\ tokenList[1].tokenClass \in Classes
  BY <1>2 DEF Lists, TokenTypes, Recognisers
<1>4. /\ token \in TokenIs /\ token.literal = literalValue /\ token.tokenClass = class
  BY <1>2, <1>3 DEF Token, TokenIs
<1> HIDE DEF token
<1>5. RightBefore(token, text)
  <2>1. CASE literalValue = <<>>
    <3>1. class = "END_OF_FILE" /\ token.literal = <<>>
      BY <1>4, <2>1
    <3>2. WellFormed("END_OF_FILE", <<>>)
      BY DEF WellFormed
    <3> QED
      BY <1>1, <1>4, <3>1, <3>2 DEF RightBefore
  <2>2. CASE literalValue # <<>>
    <3>1. class = tokenList[1].tokenClass
      BY <1>3, <2>2
    <3>2. \/ Garbage(literalValue)
          \/ Read(tokenList[1], literalValue)
      BY <1>2, <2>2 DEF Race
    <3>3. Garbage(literalValue) => Garbled(class, literalValue)
      BY DEF Garbage, Garbled
    <3>4. Garbled(class, literalValue) \/ WellFormed(class, literalValue)
      BY <3>1, <3>2, <3>3, ReadIsRight
    <3> QED
      BY <1>1, <1>4, <3>4 DEF RightBefore
  <2> QED
    BY <2>1, <2>2
<1>6. ended' => token.tokenClass = "END_OF_FILE"
  BY <1>1, <1>4
<1>7. tokenList' \in {clear(l) : l \in {k \in {tokenList, Sorted(Offered(tokenList, Head(text)))}
                                           : Lists(k)}}
  BY <1>1, <1>2
<1> QED
  BY <1>1, <1>4, <1>5, <1>6, <1>7, TokenFound

LEMMA TokensInvariant == Spec => []TokensInv
<1>1. TokensInv /\ [Next]_vars => TokensInv'
  <2> SUFFICES ASSUME TokensInv, [Next]_vars PROVE TokensInv'
    OBVIOUS
  <2>1. CASE nextToken
    BY <2>1, NextTokenKeeps
  <2>2. CASE endOfText
    BY <2>2, EndOfTextKeeps
  <2>3. CASE UNCHANGED vars
    BY <2>3, Zenon DEF vars, TokensInv, TokensTypes, Racing, RightSoFar, NothingLost, ReadToTheEnd
  <2> QED
    BY <2>1, <2>2, <2>3 DEF Next
<1> QED
  BY <1>1, TokensInit, PTL DEF Spec

(* Every token has the class its literal calls for and ends where the next *)
(* character could not have gone on with it, for every source text: the    *)
(* count of characters and the order of the list never let a recogniser    *)
(* that is behind win in nextToken.                                        *)
THEOREM TokensAreRight == Spec => []TokensRight
<1>1. TokensInv => TokensRight
  <2> SUFFICES ASSUME TokensInv, NEW k \in DOMAIN tokens
               PROVE  LET class == tokens[k].tokenClass
                          s     == tokens[k].literal
                          rest  == IF k < Len(tokens) THEN tokens[k + 1].literal ELSE <<>>
                      IN  \/ Garbled(class, s)
                          \/ /\ WellFormed(class, s)
                             /\ rest # <<>> => ~WellFormed(class, Append(s, rest[1]))
    BY DEF TokensRight
  <2>1. k \in 1 .. Len(tokens)
    BY LenProperties DEF TokensInv, TokensTypes
  <2>2. RightBefore(tokens[k], IF k < Len(tokens) THEN tokens[k + 1].literal
                                                 ELSE literalValue \o text)
    BY <2>1 DEF TokensInv, RightSoFar
  <2>3. CASE k < Len(tokens)
    BY <2>2, <2>3 DEF RightBefore
  <2>4. CASE ~(k < Len(tokens))
    BY <2>2, <2>4 DEF RightBefore
  <2> QED
    BY <2>3, <2>4
<1> QED
  BY <1>1, TokensInvariant, PTL

(* The literals of the tokens, the one being collected and what is left    *)
(* are the source: putback gives back the one character nextToken read too *)
(* far, and it is not read twice.                                          *)
THEOREM NoCharacterLost == Spec => []NothingLost
<1>1. TokensInv => NothingLost
  BY DEF TokensInv
<1> QED
  BY <1>1, TokensInvariant, PTL

(* nextToken never throws "Ambiguous tokens": of all texts there is none   *)
(* on which two recognisers fail on the same character.                    *)
THEOREM TextsAreReadToTheEnd == Spec => []ReadToTheEnd
<1>1. TokensInv => ReadToTheEnd
  BY DEF TokensInv
<1> QED
  BY <1>1, TokensInvariant, PTL
=============================================================================
