---------------------------- MODULE Telnet_proofs ----------------------------
(***************************************************************************)
(* What parseInput understands, whatever the client says and however its   *)
(* bytes are divided among the reads.  The proofs keep track of the place  *)
(* that the bytes read so far have in what the client means.               *)
(***************************************************************************)
EXTENDS Telnet, Data_proofs

LEMMA FunctionIsSeq ==
  ASSUME NEW X, NEW n \in Nat, NEW f \in [1 .. n -> X]
  PROVE  f \in Seq(X) /\ Len(f) = n
OBVIOUS

(* One sequence and then the other.                                        *)
Joint(s, t, w) ==
  /\ Len(w) = Len(s) + Len(t)
  /\ \A i \in 1 .. Len(s) : w[i] = s[i]
  /\ \A i \in 1 .. Len(t) : w[Len(s) + i] = t[i]

LEMMA Glued ==
  ASSUME NEW X, NEW s \in Seq(X), NEW t \in Seq(X)
  PROVE  s \o t \in Seq(X) /\ Joint(s, t, s \o t)
<1>1. Len(s) \in Nat /\ Len(t) \in Nat
  BY LenProperties
<1>2. /\ s \o t \in Seq(X) /\ Len(s \o t) = Len(s) + Len(t)
      /\ \A i \in 1 .. Len(s) + Len(t) : (s \o t)[i] = IF i <= Len(s) THEN s[i] ELSE t[i - Len(s)]
  BY ConcatProperties
<1>3. \A i \in 1 .. Len(s) : i \in 1 .. Len(s) + Len(t) /\ i <= Len(s)
  BY <1>1
<1>4. \A i \in 1 .. Len(t) : /\ Len(s) + i \in 1 .. Len(s) + Len(t) /\ ~(Len(s) + i <= Len(s))
                            /\ (Len(s) + i) - Len(s) = i
  BY <1>1
<1> QED
  BY <1>2, <1>3, <1>4 DEF Joint

LEMMA SeqOf4 ==
  ASSUME NEW X, NEW s \in Seq(X), Len(s) = 4
  PROVE  s = <<s[1], s[2], s[3], s[4]>>
<1> DEFINE t == <<s[1], s[2], s[3], s[4]>>
<1>1. \A i \in 1 .. 4 : s[i] \in X
  BY ElementOfSeq
<1>2. t \in Seq(X) /\ Len(t) = 4 /\ t[1] = s[1] /\ t[2] = s[2] /\ t[3] = s[3] /\ t[4] = s[4]
  BY <1>1
<1> HIDE DEF t
<1>3. \A i \in 1 .. 4 : t[i] = s[i]
  BY <1>2
<1>4. t = s
  BY <1>2, <1>3, SeqEqual
<1> QED
  BY <1>4 DEF t

-----------------------------------------------------------------------------
(* The bytes of one item.                                                  *)
High(n) == n \div 256
Low(n)  == n % 256

LEMMA WordIs ==
  ASSUME NEW n \in Unsigned
  PROVE  High(n) \in Byte /\ Low(n) \in Byte /\ BigEndian(High(n), Low(n)) = n
BY DEF High, Low, Byte, Unsigned, BigEndian

SizeBytes(item) ==
  <<High(item.width), Low(item.width), High(item.height), Low(item.height)>>

LEMMA ItemIs ==
  ASSUME NEW item \in Item
  PROVE  /\ item.kind = "typed" => item.byte \in Byte /\ item.byte # IAC
         /\ item.kind \in {"DO", "DONT", "WILL", "WONT"} => item.option \in Options
         /\ item.kind = "size" => item.width \in Unsigned /\ item.height \in Unsigned
         /\ item.kind \in {"typed", "DO", "DONT", "WILL", "WONT", "size"}
<1> DEFINE Keys == [kind : {"typed"}, byte : Byte \ {IAC}]
           Answers == [kind : {"DO", "DONT", "WILL", "WONT"}, option : Options]
           Sizes == [kind : {"size"}, width : Unsigned, height : Unsigned]
<1>1. item \in Keys \/ item \in Answers \/ item \in Sizes
  BY DEF Item
<1>2. ASSUME item \in Keys PROVE item.kind = "typed" /\ item.byte \in Byte /\ item.byte # IAC
  BY <1>2
<1>3. ASSUME item \in Answers
      PROVE  item.kind \in {"DO", "DONT", "WILL", "WONT"} /\ item.option \in Options
  BY <1>3
<1>4. ASSUME item \in Sizes
      PROVE  item.kind = "size" /\ item.width \in Unsigned /\ item.height \in Unsigned
  BY <1>4
<1> HIDE DEF Keys, Answers, Sizes
<1> QED
  BY <1>1, <1>2, <1>3, <1>4

LEMMA DoubledIs ==
  ASSUME NEW a \in Byte, NEW b \in Byte, NEW d \in Byte, NEW e \in Byte
  PROVE  /\ Doubled(<<a, b, d, e>>) \in Seq(Byte)
         /\ IAC \notin {a, b, d, e} => Doubled(<<a, b, d, e>>) = <<a, b, d, e>>
<1> DEFINE twice(x) == IF x = IAC THEN <<IAC, IAC>> ELSE <<x>>
           parts == <<twice(a), twice(b), twice(d), twice(e)>>
<1>1. Doubled(<<a, b, d, e>>) = FlattenSeq(parts)
  <2>1. [n \in DOMAIN <<a, b, d, e>> |-> twice(<<a, b, d, e>>[n])] = parts
    <3> HIDE DEF twice
    <3> QED
      OBVIOUS
  <2> QED
    BY <2>1 DEF Doubled
<1>2. \A x \in Byte : twice(x) \in Seq(Byte)
  <2>1. IAC \in Byte
    BY DEF IAC, Byte
  <2> QED
    BY <2>1
<1>3. parts \in Seq(Seq(Byte))
  <2> HIDE DEF twice
  <2> QED
    BY <1>2
<1>4. FlattenSeq(parts) \in Seq(Byte)
  BY <1>3, FlattenType
<1>5. ASSUME IAC \notin {a, b, d, e} PROVE FlattenSeq(parts) = <<a, b, d, e>>
  <2> DEFINE F(i) == FlattenSeq(SubSeq(parts, 1, i))
  <2>1. /\ Len(parts) = 4 /\ parts[1] = <<a>> /\ parts[2] = <<b>>
        /\ parts[3] = <<d>> /\ parts[4] = <<e>>
    BY <1>5
  <2> HIDE DEF parts
  <2>2. F(0) = <<>> /\ F(4) = FlattenSeq(parts) /\ \A i \in 0 .. 4 : F(i) \in Seq(Byte)
    BY <1>3, <2>1, FlattenWhole
  <2>3. \A i \in 1 .. 4 : F(i) = F(i - 1) \o parts[i]
    BY <1>3, <2>1, FlattenPrefix
  <2> HIDE DEF F
  <2>4. /\ F(1) = F(0) \o <<a>> /\ F(2) = F(1) \o <<b>>
        /\ F(3) = F(2) \o <<d>> /\ F(4) = F(3) \o <<e>>
    <3>1. F(1) = F(1 - 1) \o parts[1] /\ F(2) = F(2 - 1) \o parts[2]
      BY <2>3
    <3>2. F(3) = F(3 - 1) \o parts[3] /\ F(4) = F(4 - 1) \o parts[4]
      BY <2>3
    <3>3. 1 - 1 = 0 /\ 2 - 1 = 1 /\ 3 - 1 = 2 /\ 4 - 1 = 3
      OBVIOUS
    <3> QED
      BY <2>1, <3>1, <3>2, <3>3
  <2> DEFINE OneMore(n, s, x, w) ==
               Len(w) = n + 1 /\ w[n + 1] = x /\ \A i \in 1 .. n : w[i] = s[i]
  <2>5. ASSUME NEW x \in Byte, NEW s \in Seq(Byte), NEW n \in Nat, Len(s) = n
        PROVE  OneMore(n, s, x, s \o <<x>>)
    <3>1. <<x>> \in Seq(Byte) /\ Len(<<x>>) = 1 /\ <<x>>[1] = x
      OBVIOUS
    <3>2. Joint(s, <<x>>, s \o <<x>>)
      BY <3>1, Glued
    <3> DEFINE w == s \o <<x>>
               u == <<x>>
    <3>3. Joint(s, u, w) /\ Len(u) = 1 /\ u[1] = x
      BY <3>1, <3>2
    <3> HIDE DEF w, u
    <3>4. OneMore(n, s, x, w)
      BY <2>5, <3>3 DEF Joint
    <3> QED
      BY <3>4 DEF w
  <2>6. F(0) \in Seq(Byte) /\ F(1) \in Seq(Byte) /\ F(2) \in Seq(Byte) /\ F(3) \in Seq(Byte)
        /\ Len(F(0)) = 0 /\ 0 \in Nat /\ 1 \in Nat /\ 2 \in Nat /\ 3 \in Nat
    BY <2>2
  <2> HIDE DEF OneMore
  <2>7. Len(F(1)) = 1 /\ F(1)[1] = a
    <3>1. OneMore(0, F(0), a, F(1))
      BY <2>4, <2>5, <2>6, <2>6, Zenon
    <3> QED
      BY <2>6, <3>1 DEF OneMore
  <2>8. Len(F(2)) = 2 /\ F(2)[1] = a /\ F(2)[2] = b
    <3>1. OneMore(1, F(1), b, F(2))
      BY <2>4, <2>5, <2>6, <2>7, Zenon
    <3> QED
      BY <2>7, <3>1 DEF OneMore
  <2>9. Len(F(3)) = 3 /\ F(3)[1] = a /\ F(3)[2] = b /\ F(3)[3] = d
    <3>1. OneMore(2, F(2), d, F(3))
      BY <2>4, <2>5, <2>6, <2>8, Zenon
    <3> QED
      BY <2>8, <3>1 DEF OneMore
  <2>10. Len(F(4)) = 4 /\ F(4)[1] = a /\ F(4)[2] = b /\ F(4)[3] = d /\ F(4)[4] = e
    <3>1. OneMore(3, F(3), e, F(4))
      BY <2>4, <2>5, <2>6, <2>9, Zenon
    <3> QED
      BY <2>9, <3>1 DEF OneMore
  <2>11. F(4) \in Seq(Byte)
    BY <2>2
  <2> QED
    BY <2>2, <2>10, <2>11, SeqOf4
<1> HIDE DEF parts
<1> QED
  BY <1>1, <1>4, <1>5

LEMMA EncodedIs ==
  ASSUME NEW item \in Item
  PROVE  /\ Encoded(item) \in Seq(Byte)
         /\ item.kind = "typed" => Encoded(item) = <<item.byte>>
         /\ item.kind = "DO" => Encoded(item) = <<IAC, DO, item.option>>
         /\ item.kind = "DONT" => Encoded(item) = <<IAC, DONT, item.option>>
         /\ item.kind = "WILL" => Encoded(item) = <<IAC, WILL, item.option>>
         /\ item.kind = "WONT" => Encoded(item) = <<IAC, WONT, item.option>>
         /\ SizePlain(item) /\ item.kind = "size" =>
              /\ Len(Encoded(item)) = 9
              /\ Encoded(item)[1] = IAC /\ Encoded(item)[2] = SB /\ Encoded(item)[3] = NAWS
              /\ Encoded(item)[8] = IAC /\ Encoded(item)[9] = SE
              /\ \A i \in 1 .. 4 : /\ Encoded(item)[3 + i] = SizeBytes(item)[i]
                                   /\ SizeBytes(item)[i] \notin {SE, IAC}
<1>1. CASE item.kind = "typed"
  BY <1>1, ItemIs DEF Encoded
<1>2. CASE item.kind \in {"DO", "DONT", "WILL", "WONT"}
  <2>1. /\ item.option \in Byte /\ IAC \in Byte
        /\ DO \in Byte /\ DONT \in Byte /\ WILL \in Byte /\ WONT \in Byte
    BY <1>2, ItemIs DEF Options, Byte, IAC, DO, DONT, WILL, WONT, NAWS, ECHO, SUPPRESS_GO_AHEAD
  <2>2. \A x \in Byte : <<IAC, x, item.option>> \in Seq(Byte)
    BY <2>1
  <2>3. /\ item.kind = "DO" => Encoded(item) = <<IAC, DO, item.option>>
        /\ item.kind = "DONT" => Encoded(item) = <<IAC, DONT, item.option>>
        /\ item.kind = "WILL" => Encoded(item) = <<IAC, WILL, item.option>>
        /\ item.kind = "WONT" => Encoded(item) = <<IAC, WONT, item.option>>
    BY DEF Encoded
  <2> QED
    BY <1>2, <2>1, <2>2, <2>3
<1>3. CASE item.kind = "size"
  <2> DEFINE bytes == SizeBytes(item)
             a == High(item.width)
             b == Low(item.width)
             d == High(item.height)
             e == Low(item.height)
  <2>1. a \in Byte /\ b \in Byte /\ d \in Byte /\ e \in Byte
    BY <1>3, ItemIs, WordIs
  <2>2. Word16(item.width) \o Word16(item.height) = <<a, b, d, e>>
    <3>1. Word16(item.width) = <<a, b>> /\ Word16(item.height) = <<d, e>>
      BY DEF Word16, High, Low
    <3> DEFINE s == <<a, b>> \o <<d, e>>
    <3> HIDE DEF a, b, d, e
    <3>2. <<a, b>> \in Seq(Byte) /\ <<d, e>> \in Seq(Byte)
      BY <2>1
    <3>3. s \in Seq(Byte) /\ Len(s) = 4 /\ s[1] = a /\ s[2] = b /\ s[3] = d /\ s[4] = e
      BY <3>2, ConcatProperties
    <3> HIDE DEF s
    <3>4. s = <<a, b, d, e>>
      BY <3>3, SeqOf4
    <3> QED
      BY <3>1, <3>4 DEF s
  <2>3. bytes = <<a, b, d, e>>
    BY DEF SizeBytes
  <2> HIDE DEF a, b, d, e, bytes
  <2> DEFINE head == <<IAC, SB, NAWS>>
             whole == head \o Doubled(<<a, b, d, e>>)
             end  == <<IAC, SE>>
  <2>4. Encoded(item) = whole \o end
    BY <1>3, <2>2 DEF Encoded
  <2>5. /\ head \in Seq(Byte) /\ Len(head) = 3 /\ head[1] = IAC /\ head[2] = SB /\ head[3] = NAWS
        /\ end \in Seq(Byte) /\ Len(end) = 2 /\ end[1] = IAC /\ end[2] = SE
    <3>1. IAC \in Byte /\ SB \in Byte /\ NAWS \in Byte /\ SE \in Byte
      BY DEF Byte, IAC, SB, NAWS, SE
    <3> QED
      BY <3>1
  <2> HIDE DEF head, end
  <2>6. whole \in Seq(Byte) /\ whole \o end \in Seq(Byte)
    BY <2>1, <2>5, DoubledIs, ConcatProperties
  <2>7. ASSUME SizePlain(item) PROVE {a, b, d, e} \cap {SE, IAC} = {}
    <3>1. ToSet(<<a, b, d, e>>) = {a, b, d, e}
      BY DEF ToSet
    <3> QED
      BY <1>3, <2>2, <2>7, <3>1 DEF SizePlain
  <2>8. ASSUME SizePlain(item)
        PROVE  /\ Len(whole \o end) = 9
               /\ (whole \o end)[1] = IAC /\ (whole \o end)[2] = SB /\ (whole \o end)[3] = NAWS
               /\ (whole \o end)[8] = IAC /\ (whole \o end)[9] = SE
               /\ \A i \in 1 .. 4 : (whole \o end)[3 + i] = bytes[i]
    <3>1. Doubled(<<a, b, d, e>>) = bytes
      BY <2>1, <2>3, <2>7, <2>8, DoubledIs
    <3>2. bytes \in Seq(Byte) /\ Len(bytes) = 4
      BY <2>1, <2>3
    <3>3. /\ whole \in Seq(Byte) /\ Len(whole) = 7
          /\ \A i \in 1 .. 3 : whole[i] = head[i]
          /\ \A i \in 1 .. 4 : whole[3 + i] = bytes[i]
      <4>1. whole = head \o bytes
        BY <3>1
      <4> HIDE DEF whole
      <4>2. whole \in Seq(Byte) /\ Joint(head, bytes, whole)
        BY <2>5, <3>2, <4>1, Glued
      <4> QED
        BY <2>5, <3>2, <4>2 DEF Joint
    <3> HIDE DEF whole
    <3> DEFINE all == whole \o end
    <3>4. Joint(whole, end, all)
      BY <2>5, <3>3, Glued
    <3> HIDE DEF all
    <3>5. Len(all) = 9
      BY <2>5, <3>3, <3>4 DEF Joint
    <3>6. \A i \in 1 .. 7 : all[i] = whole[i]
      BY <3>3, <3>4 DEF Joint
    <3>7. \A i \in 1 .. 2 : all[7 + i] = end[i]
      BY <2>5, <3>3, <3>4 DEF Joint
    <3>8. all[1] = IAC /\ all[2] = SB /\ all[3] = NAWS
      BY <2>5, <3>3, <3>6
    <3>9. all[8] = IAC /\ all[9] = SE
      <4>1. all[7 + 1] = end[1] /\ all[7 + 2] = end[2]
        BY <3>7
      <4> QED
        BY <2>5, <4>1
    <3>10. \A i \in 1 .. 4 : all[3 + i] = bytes[i]
      <4>1. \A i \in 1 .. 4 : 3 + i \in 1 .. 7
        OBVIOUS
      <4> QED
        BY <3>3, <3>6, <4>1
    <3> QED
      BY <3>5, <3>8, <3>9, <3>10 DEF all
  <2>9. ASSUME SizePlain(item) PROVE \A i \in 1 .. 4 : bytes[i] \notin {SE, IAC}
    <3>1. \A x \in {a, b, d, e} : x \notin {SE, IAC}
      BY <2>7, <2>9
    <3>2. \A i \in 1 .. 4 : bytes[i] \in {a, b, d, e}
      BY <2>3
    <3> QED
      BY <3>1, <3>2
  <2> HIDE DEF whole
  <2> QED
    BY <1>3, <2>4, <2>6, <2>8, <2>9 DEF bytes
<1> QED
  BY <1>1, <1>2, <1>3, ItemIs

-----------------------------------------------------------------------------
(* Where the bytes of each item are in all that is sent.                   *)
All(said) == FlattenSeq(Chunks(said))

Before(said, n) == Len(FlattenSeq(SubSeq(Chunks(said), 1, n)))

Placed(said, n) ==
  /\ Before(said, n - 1) \in Nat
  /\ Before(said, n) = Before(said, n - 1) + Len(Encoded(said[n]))
  /\ Before(said, n) <= Len(All(said))
  /\ \A k \in 1 .. Len(Encoded(said[n])) : All(said)[Before(said, n - 1) + k] = Encoded(said[n])[k]

LEMMA ChunksAre ==
  ASSUME NEW said \in Seq(Item)
  PROVE  /\ Chunks(said) \in Seq(Seq(Byte)) /\ Len(Chunks(said)) = Len(said)
         /\ \A n \in 1 .. Len(said) : said[n] \in Item /\ Chunks(said)[n] = Encoded(said[n])
<1>1. Len(said) \in Nat /\ DOMAIN said = 1 .. Len(said) /\ \A n \in 1 .. Len(said) : said[n] \in Item
  BY LenProperties, ElementOfSeq
<1>2. Chunks(said) = [n \in 1 .. Len(said) |-> Encoded(said[n])]
  BY <1>1 DEF Chunks
<1>3. \A n \in 1 .. Len(said) : Encoded(said[n]) \in Seq(Byte)
  BY <1>1, EncodedIs
<1>4. Chunks(said) \in [1 .. Len(said) -> Seq(Byte)]
  BY <1>2, <1>3
<1> QED
  BY <1>1, <1>2, <1>4, FunctionIsSeq

LEMMA PlacedAre ==
  ASSUME NEW said \in Seq(Item)
  PROVE  /\ All(said) \in Seq(Byte) /\ Len(All(said)) \in Nat
         /\ Before(said, 0) = 0 /\ Before(said, Len(said)) = Len(All(said))
         /\ \A n \in 1 .. Len(said) : Placed(said, n)
<1> DEFINE s == Chunks(said)
           all == FlattenSeq(s)
           upto(n) == FlattenSeq(SubSeq(s, 1, n))
<1>1. s \in Seq(Seq(Byte)) /\ Len(s) = Len(said)
      /\ \A n \in 1 .. Len(said) : s[n] = Encoded(said[n]) /\ s[n] \in Seq(Byte)
  BY ChunksAre, EncodedIs
<1> HIDE DEF s
<1>2. Len(said) \in Nat
  BY LenProperties
<1>3. all \in Seq(Byte) /\ Len(all) \in Nat
  BY <1>1, FlattenType, LenProperties
<1>4. upto(0) = <<>> /\ upto(Len(said)) = all /\ \A n \in 0 .. Len(said) : upto(n) \in Seq(Byte)
  BY <1>1, FlattenWhole
<1>5. ASSUME NEW n \in 1 .. Len(said) PROVE Placed(said, n)
  <2>1. upto(n) = upto(n - 1) \o s[n]
    BY <1>1, FlattenPrefix
  <2>2. PICK rest \in Seq(Byte) : all = upto(n) \o rest
    <3>1. n \in 0 .. Len(s)
      BY <1>1, <1>2
    <3> QED
      BY <1>1, <3>1, FlattenSplit
  <2>3. n - 1 \in 0 .. Len(said) /\ n \in 0 .. Len(said)
    BY <1>2
  <2>4. upto(n) \in Seq(Byte) /\ upto(n - 1) \in Seq(Byte) /\ s[n] \in Seq(Byte)
    BY <1>1, <1>4, <2>3
  <2> HIDE DEF all, upto
  <2>5. Joint(upto(n - 1), s[n], upto(n)) /\ Joint(upto(n), rest, all)
    BY <2>1, <2>2, <2>4, Glued
  <2>6. Len(upto(n)) \in Nat /\ Len(upto(n - 1)) \in Nat /\ Len(s[n]) \in Nat /\ Len(rest) \in Nat
    BY <2>4, LenProperties
  <2>7. Len(upto(n)) = Len(upto(n - 1)) + Len(s[n]) /\ Len(upto(n)) <= Len(all)
    <3>1. Len(upto(n)) = Len(upto(n - 1)) + Len(s[n])
      BY <2>5, Zenon DEF Joint
    <3>2. Len(all) = Len(upto(n)) + Len(rest)
      BY <2>5, Zenon DEF Joint
    <3>3. \A a, b \in Nat : a <= a + b
      OBVIOUS
    <3> QED
      BY <2>6, <3>1, <3>2, <3>3, Zenon
  <2>8. ASSUME NEW k \in 1 .. Len(s[n]) PROVE all[Len(upto(n - 1)) + k] = s[n][k]
    <3>1. Len(upto(n - 1)) + k \in 1 .. Len(upto(n))
      BY <2>6, <2>7
    <3> QED
      BY <2>5, <3>1 DEF Joint
  <2> QED
    BY <1>1, <2>6, <2>7, <2>8 DEF Placed, Before, All, upto, all, s
<1> QED
  BY <1>1, <1>3, <1>4, <1>5 DEF Before, All, s

(* Every byte belongs to an item.                                          *)
LEMMA Located ==
  ASSUME NEW said \in Seq(Item), NEW p \in 1 .. Len(All(said))
  PROVE  \E n \in 1 .. Len(said) : \E k \in 1 .. Len(Encoded(said[n])) : p = Before(said, n - 1) + k
<1>1. /\ Len(All(said)) \in Nat /\ Len(said) \in Nat
      /\ Before(said, 0) = 0 /\ Before(said, Len(said)) = Len(All(said))
      /\ \A n \in 1 .. Len(said) : Placed(said, n)
  BY PlacedAre, LenProperties
<1> DEFINE Found == \E n \in 1 .. Len(said) : Before(said, n - 1) < p /\ p <= Before(said, n)
           Passed(n) == n <= Len(said) /\ p <= Before(said, n) => Found
           S == {n \in Nat : Passed(n)}
<1>2. Passed(0)
  BY <1>1
<1>3. ASSUME NEW n \in Nat, Passed(n) PROVE Passed(n + 1)
  <2> SUFFICES ASSUME n + 1 <= Len(said), p <= Before(said, n + 1) PROVE Found
    OBVIOUS
  <2>1. n + 1 \in 1 .. Len(said) /\ (n + 1) - 1 = n /\ n <= Len(said)
    BY <1>1
  <2>2. Before(said, n) \in Nat
    BY <1>1, <2>1 DEF Placed
  <2>3. CASE p <= Before(said, n)
    BY <1>3, <2>1, <2>3
  <2>4. CASE ~(p <= Before(said, n))
    BY <1>1, <2>1, <2>2, <2>4
  <2> QED
    BY <2>3, <2>4
<1>4. Passed(Len(said))
  <2> HIDE DEF Passed
  <2>1. 0 \in S /\ \A n \in Nat : n \in S => n + 1 \in S
    BY <1>2, <1>3
  <2>2. Len(said) \in S
    <3> HIDE DEF S
    <3> QED
      BY <1>1, <2>1, SetInduction
  <2> QED
    BY <2>2
<1>5. PICK n \in 1 .. Len(said) : Before(said, n - 1) < p /\ p <= Before(said, n)
  BY <1>1, <1>4
<1>6. /\ Before(said, n - 1) \in Nat
      /\ Before(said, n) = Before(said, n - 1) + Len(Encoded(said[n]))
      /\ Len(Encoded(said[n])) \in Nat
  BY <1>1, <1>5, ChunksAre, EncodedIs, LenProperties DEF Placed
<1>7. p - Before(said, n - 1) \in 1 .. Len(Encoded(said[n]))
      /\ p = Before(said, n - 1) + (p - Before(said, n - 1))
  BY <1>5, <1>6
<1> QED
  BY <1>7

-----------------------------------------------------------------------------
(* The bytes read and the numbers made of them.                            *)
TelnetTypes ==
  /\ items \in Conversations /\ charMode \in BOOLEAN
  /\ consumed \in Nat /\ arrived \in Nat
  /\ consumed <= arrived /\ arrived <= Len(Sent)
  /\ buffer \in Seq(Byte)
  /\ termWidth \in Unsigned /\ termHeight \in Unsigned

(* A window whose size is known has its prompt on the last line.           *)
PromptPlaced == ~charMode => termHeight = 0 \/ inputLine = termHeight

LEMMA SentIs ==
  ASSUME items \in Conversations
  PROVE  /\ items \in Seq(Item) /\ Sent = All(items) /\ Sent \in Seq(Byte) /\ Len(Sent) \in Nat
         /\ DOMAIN items = 1 .. Len(items) /\ Len(items) \in Nat
<1>1. items \in Seq(Item)
  BY TelnetAssumption
<1>2. Sent = All(items)
  BY DEF Sent, BytesOf, All
<1> QED
  BY <1>1, <1>2, PlacedAre, LenProperties

LEMMA ReadIs ==
  ASSUME TelnetTypes, in_avail > 0
  PROVE  /\ consumed + 1 \in 1 .. Len(Sent) /\ c \in Byte
         /\ consumed + 1 <= arrived /\ consumed + 1 \in Nat
<1>1. Sent \in Seq(Byte) /\ Len(Sent) \in Nat
  BY SentIs DEF TelnetTypes
<1>2. consumed + 1 \in 1 .. Len(Sent) /\ consumed + 1 <= arrived /\ consumed + 1 \in Nat
  BY <1>1 DEF TelnetTypes, in_avail
<1>3. Sent[consumed + 1] \in Byte
  BY <1>1, <1>2, ElementOfSeq
<1> QED
  BY <1>2, <1>3 DEF c

LEMMA NumberIs ==
  ASSUME NEW a \in Byte, NEW b \in Byte
  PROVE  BigEndian(a, b) \in Unsigned
BY DEF BigEndian, Byte, Unsigned

LEMMA StrayIs ==
  ASSUME NEW n \in Nat
  PROVE  Max({0, 5 - n}) = IF n < 5 THEN 5 - n ELSE 0
<1> DEFINE m == IF n < 5 THEN 5 - n ELSE 0
<1>1. m \in {0, 5 - n} /\ \A x \in {0, 5 - n} : m >= x
  OBVIOUS
<1>2. \A y \in {0, 5 - n} : (\A x \in {0, 5 - n} : y >= x) => y = m
  OBVIOUS
<1> HIDE DEF m
<1>3. Max({0, 5 - n}) = m
  BY <1>1, <1>2 DEF Max
<1> QED
  BY <1>3 DEF m

(* The buffer and, behind its end, whatever is there.                      *)
LEMMA ReadPastIs ==
  ASSUME buffer \in Seq(Byte), NEW stray \in [1 .. Max({0, 5 - Len(buffer)}) -> StrayBytes]
  PROVE  /\ buffer \o stray \in Seq(Byte)
         /\ \A i \in 1 .. 5 : (buffer \o stray)[i] \in Byte
         /\ \A i \in 1 .. Len(buffer) : (buffer \o stray)[i] = buffer[i]
<1>1. Len(buffer) \in Nat
  BY LenProperties
<1>2. PICK n \in Nat : n = Max({0, 5 - Len(buffer)}) /\ Len(buffer) + n >= 5
  <2>1. Max({0, 5 - Len(buffer)}) = IF Len(buffer) < 5 THEN 5 - Len(buffer) ELSE 0
    BY <1>1, StrayIs
  <2> QED
    BY <1>1, <2>1
<1>3. stray \in [1 .. n -> Byte]
  BY <1>2, TelnetAssumption
<1>4. stray \in Seq(Byte) /\ Len(stray) = n
  BY <1>3, FunctionIsSeq
<1> DEFINE whole == buffer \o stray
<1>5. whole \in Seq(Byte) /\ Joint(buffer, stray, whole)
  BY <1>4, Glued
<1> HIDE DEF whole
<1>6. Len(whole) = Len(buffer) + n
  BY <1>4, <1>5, Zenon DEF Joint
<1>7. \A i \in 1 .. 5 : i \in 1 .. Len(whole)
  BY <1>1, <1>2, <1>6
<1>8. \A i \in 1 .. 5 : whole[i] \in Byte
  BY <1>5, <1>7, ElementOfSeq
<1> QED
  BY <1>5, <1>8 DEF Joint, whole

LEMMA SizeRead ==
  ASSUME TelnetTypes, PromptPlaced, parseIacBuffer, charMode' = charMode
  PROVE  termWidth' \in Unsigned /\ termHeight' \in Unsigned /\ PromptPlaced'
<1>1. CASE UNCHANGED sizeVars
  BY <1>1 DEF sizeVars, TelnetTypes, PromptPlaced
<1>2. CASE ~ UNCHANGED sizeVars
  <2>1. PICK stray \in [1 .. Max({0, 5 - Len(buffer)}) -> StrayBytes] :
          /\ termWidth' = BigEndian((buffer \o stray)[2], (buffer \o stray)[3])
          /\ termHeight' = BigEndian((buffer \o stray)[4], (buffer \o stray)[5])
          /\ inputLine' = IF charMode THEN inputLine ELSE termHeight'
    BY <1>2, Zenon DEF parseIacBuffer
  <2> DEFINE read == buffer \o stray
  <2>2. \A i \in 1 .. 5 : read[i] \in Byte
    BY ReadPastIs DEF TelnetTypes
  <2> HIDE DEF read
  <2>3. read[2] \in Byte /\ read[3] \in Byte /\ read[4] \in Byte /\ read[5] \in Byte
    BY <2>2
  <2>4. termWidth' \in Unsigned /\ termHeight' \in Unsigned
    BY <2>1, <2>3, NumberIs DEF read
  <2> QED
    BY <2>1, <2>4 DEF PromptPlaced
<1> QED
  BY <1>1, <1>2

-----------------------------------------------------------------------------
(* A window size.                                                          *)
LEMMA CommandsDiffer ==
  /\ IAC \notin {DO, DONT, WILL, WONT, SB, SE, NAWS, ECHO, SUPPRESS_GO_AHEAD}
  /\ SB \notin {DO, DONT, WILL, WONT, SE} /\ SE # NAWS
  /\ DO # WONT /\ WILL # WONT
  /\ NAWS # ECHO /\ NAWS # SUPPRESS_GO_AHEAD /\ ECHO # SUPPRESS_GO_AHEAD
BY DEF IAC, DO, DONT, WILL, WONT, SB, SE, NAWS, ECHO, SUPPRESS_GO_AHEAD

(* Only a window size has IAC before SB.                                   *)
LEMMA IacPlaces ==
  ASSUME NEW item \in Item, SizePlain(item),
         NEW k \in 1 .. Len(Encoded(item)), Encoded(item)[k] = IAC
  PROVE  /\ k + 1 \in 1 .. Len(Encoded(item))
         /\ Encoded(item)[k + 1] = SB => item.kind = "size" /\ k = 1
<1> DEFINE e == Encoded(item)
<1>1. item.kind \in {"typed", "DO", "DONT", "WILL", "WONT", "size"}
  BY ItemIs
<1>2. ASSUME item.kind = "typed" PROVE FALSE
  <2>1. e = <<item.byte>> /\ item.byte # IAC
    BY <1>2, EncodedIs, ItemIs
  <2> QED
    BY <2>1
<1>3. ASSUME NEW x, x \notin {SB, IAC}, item.option \in Options, e = <<IAC, x, item.option>>
      PROVE  k + 1 \in 1 .. Len(e) /\ e[k + 1] # SB
  <2>1. item.option # IAC
    BY <1>3, CommandsDiffer DEF Options
  <2>2. Len(e) = 3 /\ e[2] = x /\ e[3] = item.option
    BY <1>3
  <2> HIDE DEF e
  <2>3. k \in 1 .. 3 /\ e[k] = IAC
    BY <2>2 DEF e
  <2>4. k = 1
    BY <1>3, <2>1, <2>2, <2>3
  <2> QED
    BY <1>3, <2>2, <2>4
<1>4. CASE item.kind \in {"DO", "DONT", "WILL", "WONT"}
  <2>1. \E x : x \notin {SB, IAC} /\ e = <<IAC, x, item.option>>
    BY <1>4, EncodedIs, CommandsDiffer
  <2>2. item.option \in Options
    BY <1>4, ItemIs
  <2> HIDE DEF e
  <2> QED
    BY <1>3, <2>1, <2>2 DEF e
<1>5. CASE item.kind = "size"
  <2>1. /\ Len(e) = 9 /\ e[2] = SB /\ e[3] = NAWS /\ e[8] = IAC /\ e[9] = SE
        /\ \A i \in 1 .. 4 : e[3 + i] # IAC
    BY <1>5, EncodedIs, SMTT(40)
  <2> HIDE DEF e
  <2>2. k \in 1 .. 9 /\ e[k] = IAC
    BY <2>1 DEF e
  <2>3. k \notin {2, 3, 9}
    BY <2>1, <2>2, CommandsDiffer
  <2>4. k \notin {4, 5, 6, 7}
    <3>1. e[3 + 1] # IAC /\ e[3 + 2] # IAC /\ e[3 + 3] # IAC /\ e[3 + 4] # IAC
      BY <2>1
    <3> QED
      BY <2>2, <3>1
  <2>5. k = 1 \/ k = 8
    BY <2>2, <2>3, <2>4
  <2>6. k + 1 \in 1 .. Len(e) /\ (k = 8 => e[k + 1] # SB)
    BY <2>1, <2>5, CommandsDiffer
  <2> QED
    BY <1>5, <2>5, <2>6 DEF e
<1> QED
  BY <1>1, <1>2, <1>4, <1>5

(* k bytes of a window size, behind IAC and SB, have been read.            *)
Inside(n, k) ==
  /\ items[n].kind = "size"
  /\ consumed = Before(items, n - 1) + 2 + k
  /\ Len(buffer) = IF k <= 5 THEN k ELSE 5
  /\ \A i \in 1 .. Len(buffer) : buffer[i] = Encoded(items[n])[2 + i]

AfterIAC == at = "IAC" => consumed # 0 /\ Sent[consumed] = IAC

InSize == SizesPlain /\ at = "SB" => \E n \in 1 .. Len(items), k \in 0 .. 6 : Inside(n, k)

LEMMA ItemsAre ==
  ASSUME TelnetTypes, NEW n \in 1 .. Len(items)
  PROVE  /\ items[n] \in Item /\ Placed(items, n)
         /\ SizesPlain => SizePlain(items[n])
         /\ Encoded(items[n]) \in Seq(Byte) /\ Len(Encoded(items[n])) \in Nat
         /\ \A k \in 1 .. Len(Encoded(items[n])) :
              /\ Sent[Before(items, n - 1) + k] = Encoded(items[n])[k]
              /\ Before(items, n - 1) + k <= Len(Sent)
<1>1. /\ items \in Seq(Item) /\ Sent = All(items) /\ DOMAIN items = 1 .. Len(items)
      /\ Len(Sent) \in Nat
  BY SentIs DEF TelnetTypes
<1>2. items[n] \in Item /\ Placed(items, n)
  BY <1>1, PlacedAre, ElementOfSeq
<1>3. SizesPlain => SizePlain(items[n])
  BY <1>1 DEF SizesPlain
<1>4. Encoded(items[n]) \in Seq(Byte) /\ Len(Encoded(items[n])) \in Nat
  BY <1>2, EncodedIs, LenProperties
<1>5. ASSUME NEW k \in 1 .. Len(Encoded(items[n]))
      PROVE  /\ Sent[Before(items, n - 1) + k] = Encoded(items[n])[k]
             /\ Before(items, n - 1) + k <= Len(Sent)
  <2>1. Sent[Before(items, n - 1) + k] = Encoded(items[n])[k]
    BY <1>1, <1>2 DEF Placed
  <2>2. /\ Before(items, n - 1) \in Nat
        /\ Before(items, n - 1) + Len(Encoded(items[n])) <= Len(Sent)
    BY <1>1, <1>2 DEF Placed
  <2>3. Before(items, n - 1) + k <= Len(Sent)
    BY <1>1, <1>4, <2>2
  <2> QED
    BY <2>1, <2>3
<1> QED
  BY <1>2, <1>3, <1>4, <1>5

LEMMA SizeStarts ==
  ASSUME TelnetTypes, SizesPlain, AfterIAC, at = "IAC", in_avail > 0, c = SB
  PROVE  \E n \in 1 .. Len(items) :
           items[n].kind = "size" /\ consumed + 1 = Before(items, n - 1) + 2
<1>1. items \in Seq(Item) /\ Sent = All(items) /\ Len(Sent) \in Nat
  BY SentIs DEF TelnetTypes
<1>2. consumed \in 1 .. Len(Sent) /\ Sent[consumed] = IAC /\ consumed + 1 \in 1 .. Len(Sent)
  BY <1>1, ReadIs DEF AfterIAC, TelnetTypes
<1>3. PICK n \in 1 .. Len(items) :
        \E k \in 1 .. Len(Encoded(items[n])) : consumed = Before(items, n - 1) + k
  <2>1. consumed \in 1 .. Len(All(items))
    BY <1>1, <1>2
  <2>2. \E n \in 1 .. Len(items) : \E k \in 1 .. Len(Encoded(items[n])) :
          consumed = Before(items, n - 1) + k
    BY <1>1, <2>1, Located
  <2> QED
    BY <2>2
<1>4. items[n] \in Item /\ SizePlain(items[n]) /\ Before(items, n - 1) \in Nat
  BY ItemsAre DEF Placed
<1>5. PICK k \in 1 .. Len(Encoded(items[n])) : consumed = Before(items, n - 1) + k
  BY <1>3
<1>6. Encoded(items[n])[k] = IAC
  BY <1>2, <1>5, ItemsAre
<1>7. /\ k + 1 \in 1 .. Len(Encoded(items[n]))
      /\ Encoded(items[n])[k + 1] = SB => items[n].kind = "size" /\ k = 1
  BY <1>4, <1>6, IacPlaces
<1>8. Sent[Before(items, n - 1) + (k + 1)] = Encoded(items[n])[k + 1]
  BY <1>7, ItemsAre
<1>9. consumed + 1 = Before(items, n - 1) + (k + 1) /\ k \in Nat
  BY <1>4, <1>5, <1>7
<1>10. items[n].kind = "size" /\ k = 1
  BY <1>7, <1>8, <1>9 DEF c
<1> QED
  BY <1>9, <1>10

LEMMA SizeByteRead ==
  ASSUME TelnetTypes, SizesPlain, in_avail > 0,
         NEW n \in 1 .. Len(items), NEW k \in 0 .. 6, Inside(n, k)
  PROVE  /\ c = Encoded(items[n])[3 + k]
         /\ k <= 4 => c \notin {SE, IAC}
         /\ k = 5 => c = IAC
         /\ k = 6 => c = SE
<1> DEFINE e == Encoded(items[n])
<1>1. /\ Len(e) = 9 /\ e[3] = NAWS /\ e[8] = IAC /\ e[9] = SE
      /\ \A i \in 1 .. 4 : e[3 + i] \notin {SE, IAC}
  BY ItemsAre, EncodedIs DEF Inside
<1>2. /\ Before(items, n - 1) \in Nat
      /\ \A i \in 1 .. Len(e) : Sent[Before(items, n - 1) + i] = e[i]
  BY ItemsAre DEF Placed
<1>3. NAWS \notin {SE, IAC}
  BY CommandsDiffer
<1> HIDE DEF e
<1>4. consumed + 1 = Before(items, n - 1) + (3 + k) /\ 3 + k \in 1 .. Len(e)
  <2>1. consumed = Before(items, n - 1) + 2 + k
    BY DEF Inside
  <2>2. 3 + k \in 1 .. Len(e)
    BY <1>1
  <2>3. \A before \in Nat : (before + 2 + k) + 1 = before + (3 + k)
    OBVIOUS
  <2> QED
    BY <1>2, <2>1, <2>2, <2>3, Zenon
<1>5. c = e[3 + k]
  BY <1>2, <1>4 DEF c
<1>6. ASSUME k <= 4 PROVE e[3 + k] \notin {SE, IAC}
  <2>1. CASE k = 0
    BY <1>1, <1>3, <2>1
  <2>2. CASE k # 0
    <3>1. k \in 1 .. 4
      BY <1>6, <2>2
    <3> QED
      BY <1>1, <3>1
  <2> QED
    BY <2>1, <2>2
<1>7. (k = 5 => 3 + k = 8) /\ (k = 6 => 3 + k = 9)
  OBVIOUS
<1> QED
  BY <1>1, <1>5, <1>6, <1>7 DEF e

LEMMA SizeByteKept ==
  ASSUME TelnetTypes, SizesPlain, Collect,
         NEW n \in 1 .. Len(items), NEW k \in 0 .. 5, Inside(n, k)
  PROVE  Inside(n, k + 1)' /\ UNCHANGED <<at, sizeVars, items>>
<1>1. in_avail > 0 /\ consumed' = consumed + 1 /\ UNCHANGED items
  BY DEF Collect, Get
<1>2. /\ c = Encoded(items[n])[3 + k]
      /\ k <= 4 => c \notin {SE, IAC}
      /\ k = 5 => c = IAC
  <2>1. k \in 0 .. 6
    OBVIOUS
  <2> QED
    BY <1>1, <2>1, SizeByteRead
<1>3. c # SE /\ SE # IAC
  BY <1>2, CommandsDiffer
<1>4. /\ buffer' = IF c = IAC THEN buffer ELSE Append(buffer, c)
      /\ UNCHANGED <<at, sizeVars>>
  BY <1>3, Zenon DEF Collect
<1>5. c \in Byte /\ buffer \in Seq(Byte) /\ Len(buffer) \in Nat
  BY <1>1, ReadIs, LenProperties DEF TelnetTypes
<1>6. consumed' = Before(items, n - 1) + 2 + (k + 1)
  <2>1. Before(items, n - 1) \in Nat
    BY ItemsAre DEF Placed
  <2> QED
    BY <1>1, <2>1 DEF Inside
<1>7. /\ Len(buffer') = IF k + 1 <= 5 THEN k + 1 ELSE 5
      /\ \A i \in 1 .. Len(buffer') : buffer'[i] = Encoded(items[n])[2 + i]
  <2>1. CASE k <= 4
    <3>1. /\ Len(buffer') = Len(buffer) + 1 /\ buffer'[Len(buffer) + 1] = c
          /\ \A i \in 1 .. Len(buffer) : buffer'[i] = buffer[i]
      BY <1>2, <1>4, <1>5, <2>1
    <3>2. Len(buffer) = k /\ \A i \in 1 .. k : buffer[i] = Encoded(items[n])[2 + i]
      BY <2>1 DEF Inside
    <3>3. 2 + (k + 1) = 3 + k /\ (k + 1 <= 5)
      BY <2>1
    <3>4. \A i \in 1 .. k + 1 : i \in 1 .. k \/ i = k + 1
      BY <2>1
    <3> QED
      BY <1>2, <3>1, <3>2, <3>3, <3>4
  <2>2. CASE k = 5
    <3>1. buffer' = buffer
      BY <1>2, <1>4, <2>2
    <3>2. Len(buffer) = 5 /\ (IF k + 1 <= 5 THEN k + 1 ELSE 5) = 5
      BY <2>2 DEF Inside
    <3>3. \A i \in 1 .. Len(buffer) : buffer[i] = Encoded(items[n])[2 + i]
      BY DEF Inside
    <3> QED
      BY <3>1, <3>2, <3>3, Zenon
  <2> QED
    BY <2>1, <2>2
<1> QED
  BY <1>1, <1>4, <1>6, <1>7, Zenon DEF Inside

LEMMA SizeMeant ==
  ASSUME TelnetTypes, SizesPlain, Collect, NEW n \in 1 .. Len(items), Inside(n, 6)
  PROVE  /\ at' = "loop"
         /\ termWidth' = items[n].width /\ termHeight' = items[n].height
<1> DEFINE e == Encoded(items[n])
           item == items[n]
<1>1. in_avail > 0 /\ c = SE
  <2>1. 6 \in 0 .. 6 /\ in_avail > 0
    BY DEF Collect, Get
  <2>2. PICK k \in 0 .. 6 : k = 6
    BY <2>1
  <2> QED
    BY <2>1, <2>2, SizeByteRead
<1>2. parseIacBuffer
  BY <1>1, Zenon DEF Collect
<1>3. /\ item \in Item /\ item.width \in Unsigned /\ item.height \in Unsigned
      /\ e[3] = NAWS
      /\ \A i \in 1 .. 4 : e[3 + i] = SizeBytes(item)[i]
  BY ItemsAre, ItemIs, EncodedIs DEF Inside
<1>4. Len(buffer) = 5 /\ \A i \in 1 .. 5 : buffer[i] = e[2 + i]
  BY DEF Inside
<1> HIDE DEF e, item
<1>5. /\ buffer[1] = NAWS
      /\ buffer[2] = High(item.width) /\ buffer[3] = Low(item.width)
      /\ buffer[4] = High(item.height) /\ buffer[5] = Low(item.height)
  <2>1. /\ buffer[1] = e[2 + 1] /\ buffer[2] = e[2 + 2] /\ buffer[3] = e[2 + 3]
        /\ buffer[4] = e[2 + 4] /\ buffer[5] = e[2 + 5]
    BY <1>4
  <2>2. /\ e[3 + 1] = High(item.width) /\ e[3 + 2] = Low(item.width)
        /\ e[3 + 3] = High(item.height) /\ e[3 + 4] = Low(item.height)
    BY <1>3 DEF SizeBytes
  <2> QED
    BY <1>3, <2>1, <2>2
<1>6. buffer # <<>>
  <2>1. Len(<<>>) # 5
    OBVIOUS
  <2> QED
    BY <1>4, <2>1, Zenon
<1>7. PICK stray \in [1 .. Max({0, 5 - Len(buffer)}) -> StrayBytes] :
        /\ at' = Skip
        /\ termWidth' = BigEndian((buffer \o stray)[2], (buffer \o stray)[3])
        /\ termHeight' = BigEndian((buffer \o stray)[4], (buffer \o stray)[5])
  BY <1>2, <1>5, <1>6, Zenon DEF parseIacBuffer
<1>8. \A i \in 1 .. 5 : (buffer \o stray)[i] = buffer[i]
  BY <1>4, ReadPastIs DEF TelnetTypes
<1> DEFINE read == buffer \o stray
<1>9. read[2] = buffer[2] /\ read[3] = buffer[3] /\ read[4] = buffer[4] /\ read[5] = buffer[5]
  <2>1. \A i \in 1 .. 5 : read[i] = buffer[i]
    BY <1>8
  <2> HIDE DEF read
  <2> QED
    BY <2>1
<1> HIDE DEF read
<1> QED
  BY <1>3, <1>5, <1>7, <1>9, WordIs DEF read, item, Skip

-----------------------------------------------------------------------------
(* What every step keeps.                                                  *)
SizeInv == TelnetTypes /\ PromptPlaced /\ AfterIAC /\ InSize /\ SizeNeverTorn

LEMMA ActionKeepsBuffer ==
  ASSUME TelnetTypes, Action PROVE buffer' \in Seq(Byte)
BY DEF TelnetTypes, Action

LEMMA CollectKeepsBuffer ==
  ASSUME TelnetTypes, Collect PROVE buffer' \in Seq(Byte)
<1>1. c \in Byte /\ buffer \in Seq(Byte)
  BY ReadIs DEF Collect, Get, TelnetTypes
<1>2. buffer' = <<>> \/ buffer' = buffer \/ buffer' = Append(buffer, c)
  BY Zenon DEF Collect
<1>3. <<>> \in Seq(Byte) /\ Append(buffer, c) \in Seq(Byte)
  BY <1>1
<1> QED
  BY <1>1, <1>2, <1>3, Zenon

LEMMA StepKinds ==
  ASSUME [Next]_vars
  PROVE  /\ items' = items /\ charMode' = charMode
         /\ \/ consumed' = consumed /\ arrived' = arrived
            \/ consumed' = consumed /\ arrived < Len(Sent) /\ arrived' = arrived + 1
            \/ in_avail > 0 /\ consumed' = consumed + 1 /\ arrived' = arrived
         /\ buffer' = buffer \/ buffer' = <<>> \/ Collect
         /\ UNCHANGED sizeVars \/ (Collect /\ parseIacBuffer)
<1>1. CASE Arrive
  BY <1>1, Zenon DEF Arrive, parserVars
<1>2. CASE selected
  BY <1>2, Zenon DEF selected, Stay, parserVars
<1>3. CASE ParsedAll
  BY <1>3, Zenon DEF ParsedAll, Stay
<1>4. CASE Typed
  BY <1>4, Zenon DEF Typed, Get, parserVars
<1>5. CASE Command
  BY <1>5, Zenon DEF Command, Get, parserVars
<1>6. CASE Action
  BY <1>6, Zenon DEF Action, Get
<1>7. CASE Option
  BY <1>7, Zenon DEF Option, Get, parserVars
<1>8. CASE Collect
  BY <1>8, Zenon DEF Collect, Get
<1>9. CASE GiveUp
  BY <1>9, Zenon DEF GiveUp, Stay
<1>10. CASE UNCHANGED vars
  BY <1>10, Zenon DEF vars, parserVars
<1> QED
  BY <1>1, <1>2, <1>3, <1>4, <1>5, <1>6, <1>7, <1>8, <1>9, <1>10, Zenon DEF Next, parseInput

LEMMA TypesKept ==
  ASSUME TelnetTypes, PromptPlaced, [Next]_vars
  PROVE  TelnetTypes' /\ PromptPlaced'
<1>1. /\ items' = items /\ charMode' = charMode /\ Sent' = Sent /\ Len(Sent) \in Nat
  BY StepKinds, SentIs DEF Sent, TelnetTypes
<1>2. /\ consumed' \in Nat /\ arrived' \in Nat
      /\ consumed' <= arrived' /\ arrived' <= Len(Sent)
  <2>1. \/ consumed' = consumed /\ arrived' = arrived
        \/ consumed' = consumed /\ arrived < Len(Sent) /\ arrived' = arrived + 1
        \/ in_avail > 0 /\ consumed' = consumed + 1 /\ arrived' = arrived
    BY StepKinds
  <2> QED
    BY <1>1, <2>1 DEF TelnetTypes, in_avail
<1>3. buffer' \in Seq(Byte)
  <2>1. CASE Collect
    BY <2>1, CollectKeepsBuffer
  <2>2. <<>> \in Seq(Byte) /\ buffer \in Seq(Byte)
    BY DEF TelnetTypes
  <2> QED
    BY <2>1, <2>2, StepKinds, Zenon
<1>4. termWidth' \in Unsigned /\ termHeight' \in Unsigned /\ PromptPlaced'
  <2>1. CASE UNCHANGED sizeVars
    BY <1>1, <2>1 DEF sizeVars, TelnetTypes, PromptPlaced
  <2>2. CASE parseIacBuffer
    BY <1>1, <2>2, SizeRead
  <2> QED
    BY <2>1, <2>2, StepKinds
<1> QED
  BY <1>1, <1>2, <1>3, <1>4, Zenon DEF TelnetTypes

LEMMA IacKept ==
  ASSUME TelnetTypes, AfterIAC, [Next]_vars
  PROVE  AfterIAC'
<1>1. Sent' = Sent
  BY StepKinds DEF Sent
<1>2. CASE Command
  <2>1. consumed' = consumed + 1 /\ Sent[consumed + 1] = IAC /\ consumed \in Nat
    BY <1>2 DEF Command, Get, c, TelnetTypes
  <2> QED
    BY <1>1, <2>1 DEF AfterIAC
<1>3. CASE UNCHANGED <<at, consumed>>
  BY <1>1, <1>3 DEF AfterIAC
<1>4. CASE at' # "IAC"
  BY <1>4 DEF AfterIAC
<1>5. Command \/ UNCHANGED <<at, consumed>> \/ at' # "IAC"
  <2>1. CASE Arrive
    BY <2>1, Zenon DEF Arrive
  <2>2. CASE selected \/ ParsedAll \/ Option
    BY <2>2 DEF selected, ParsedAll, Option
  <2>3. CASE Typed
    BY <2>3 DEF Typed
  <2>4. CASE Action
    BY <2>4 DEF Action
  <2>5. CASE Collect
    <3>1. at' \in {at, "terminated", Skip} /\ at = "SB"
      BY <2>5, Zenon DEF Collect, parseIacBuffer
    <3> QED
      BY <3>1 DEF Skip
  <2>6. CASE GiveUp
    BY <2>6 DEF GiveUp, Skip
  <2>7. CASE UNCHANGED vars
    BY <2>7 DEF vars
  <2> QED
    BY <2>1, <2>2, <2>3, <2>4, <2>5, <2>6, <2>7, Zenon DEF Next, parseInput
<1> QED
  BY <1>2, <1>3, <1>4, <1>5

LEMMA SizeKept ==
  ASSUME SizeInv, [Next]_vars
  PROVE  InSize' /\ SizeNeverTorn'
<1> USE DEF SizeInv
<1>1. items' = items /\ SizesPlain' = SizesPlain
  BY StepKinds DEF SizesPlain
<1>2. SUFFICES ASSUME SizesPlain
               PROVE  /\ at' = "SB" => \E n \in 1 .. Len(items'), k \in 0 .. 6 : Inside(n, k)'
                      /\ SizeNeverTorn'
  BY <1>1, Zenon DEF InSize, SizeNeverTorn
<1>3. ASSUME UNCHANGED sizeVars PROVE SizeNeverTorn'
  BY <1>1, <1>3, Zenon DEF SizeNeverTorn, SizeWhole, sizeVars
<1>4. CASE Collect
  <2>1. PICK n \in 1 .. Len(items), k \in 0 .. 6 : Inside(n, k)
    BY <1>2, <1>4, Zenon DEF InSize, Collect
  <2>2. CASE k = 6
    <3>1. Inside(n, 6)
      BY <2>1, <2>2
    <3>2. at' = "loop" /\ termWidth' = items[n].width /\ termHeight' = items[n].height
      BY <1>2, <1>4, <3>1, SizeMeant
    <3>3. n \in DOMAIN items' /\ items'[n].kind = "size"
      BY <1>1, <3>1, SentIs DEF TelnetTypes, Inside
    <3> QED
      BY <1>1, <3>2, <3>3 DEF SizeNeverTorn, SizeWhole
  <2>3. CASE k # 6
    <3>1. k \in 0 .. 5 /\ k + 1 \in 0 .. 6
      BY <2>3
    <3>2. Inside(n, k + 1)' /\ UNCHANGED <<at, sizeVars, items>>
      BY <1>2, <1>4, <2>1, <3>1, SizeByteKept
    <3>3. n \in 1 .. Len(items')
      BY <1>1
    <3>4. SizeNeverTorn'
      BY <1>1, <3>2, Zenon DEF SizeNeverTorn, SizeWhole, sizeVars
    <3> QED
      BY <3>1, <3>2, <3>3, <3>4, Zenon
  <2> QED
    BY <2>2, <2>3
<1>5. CASE ~Collect
  <2>1. UNCHANGED sizeVars
    BY <1>5, StepKinds
  <2>2. SizeNeverTorn'
    BY <1>3, <2>1
  <2>3. ASSUME at' = "SB" PROVE Action \/ UNCHANGED <<at, consumed, buffer>>
    <3>1. CASE Arrive \/ UNCHANGED vars
      BY <3>1, Zenon DEF Arrive, vars, parserVars
    <3>2. CASE selected \/ ParsedAll \/ Command \/ Option \/ GiveUp
      BY <2>3, <3>2 DEF selected, ParsedAll, Command, Option, GiveUp, Skip
    <3>3. CASE Typed
      BY <2>3, <3>3 DEF Typed
    <3> QED
      BY <1>5, <3>1, <3>2, <3>3, Zenon DEF Next, parseInput
  <2>4. ASSUME at' = "SB", Action
        PROVE  \E n \in 1 .. Len(items') : Inside(n, 0)'
    <3>1. at = "IAC" /\ in_avail > 0 /\ c = SB /\ buffer' = <<>> /\ consumed' = consumed + 1
      BY <2>4 DEF Action, Get
    <3>2. PICK n \in 1 .. Len(items) :
            items[n].kind = "size" /\ consumed + 1 = Before(items, n - 1) + 2
      BY <1>2, <3>1, SizeStarts
    <3>3. Before(items, n - 1) \in Nat
      BY ItemsAre DEF Placed
    <3>4. consumed' = Before(items, n - 1) + 2 + 0 /\ Len(buffer') = 0
      BY <3>1, <3>2, <3>3
    <3>5. Inside(n, 0)'
      BY <1>1, <3>2, <3>4 DEF Inside
    <3> QED
      BY <1>1, <3>5, Zenon
  <2>5. ASSUME at' = "SB", UNCHANGED <<at, consumed, buffer>>
        PROVE  \E n \in 1 .. Len(items'), k \in 0 .. 6 : Inside(n, k)'
    <3>1. PICK n \in 1 .. Len(items), k \in 0 .. 6 : Inside(n, k)
      BY <1>2, <2>5, Zenon DEF InSize
    <3>2. Inside(n, k)'
      BY <1>1, <2>5, <3>1, Zenon DEF Inside
    <3> QED
      BY <1>1, <3>2, Zenon
  <2>6. 0 \in 0 .. 6
    OBVIOUS
  <2> QED
    BY <2>2, <2>3, <2>4, <2>5, <2>6, Zenon
<1> QED
  BY <1>4, <1>5

LEMMA MinOfTwo ==
  ASSUME NEW a \in Nat, NEW b \in Nat
  PROVE  Min({a, b}) = IF a <= b THEN a ELSE b
<1> DEFINE m == IF a <= b THEN a ELSE b
<1>1. m \in {a, b} /\ \A x \in {a, b} : m <= x
  OBVIOUS
<1>2. \A y \in {a, b} : (\A x \in {a, b} : y <= x) => y = m
  OBVIOUS
<1> HIDE DEF m
<1>3. Min({a, b}) = m
  BY <1>1, <1>2 DEF Min
<1> QED
  BY <1>3 DEF m

LEMMA RowsFit ==
  ASSUME NEW height \in Unsigned, height >= 19, NEW entries \in Nat
  PROVE  HistoryRows(height, entries) \subseteq 18 .. height - 1
<1> DEFINE room == availableLines(height)
           kept == Kept(entries)
           first == startLine(height, kept)
           shown == Min({kept, room})
<1>1. room = height - 19 /\ room \in Nat
  BY DEF availableLines, UnsignedRange, Unsigned
<1>2. kept \in Nat
  BY MinOfTwo DEF Kept, KeptEntries
<1>3. first = IF kept < room THEN 18 + room - kept ELSE 18
  BY DEF startLine
<1>4. shown = IF kept <= room THEN kept ELSE room
  <2> HIDE DEF kept, room
  <2> QED
    BY <1>1, <1>2, MinOfTwo
<1>5. HistoryRows(height, entries) = {first + n : n \in 0 .. shown - 1}
  BY Zenon DEF HistoryRows
<1> HIDE DEF room, kept, first, shown
<1>6. \A n \in 0 .. shown - 1 : first + n \in 18 .. height - 1
  BY <1>1, <1>2, <1>3, <1>4 DEF Unsigned
<1> QED
  BY <1>5, <1>6

LEMMA SizeInvariant == Spec => []SizeInv
<1>1. Init => SizeInv
  <2> SUFFICES ASSUME Init PROVE SizeInv
    OBVIOUS
  <2>1. Len(Sent) \in Nat /\ items \in Conversations
    BY SentIs DEF Init
  <2>2. TelnetTypes
    <3>1. <<>> \in Seq(Byte) /\ 0 \in Unsigned
      BY DEF Unsigned
    <3> QED
      BY <2>1, <3>1 DEF Init, TelnetTypes
  <2> QED
    BY <2>2 DEF Init, SizeInv, PromptPlaced, AfterIAC, InSize, SizeNeverTorn, SizeWhole
<1>2. SizeInv /\ [Next]_vars => SizeInv'
  BY TypesKept, IacKept, SizeKept, Zenon DEF SizeInv
<1> QED
  BY <1>1, <1>2, PTL DEF Spec

(* At every moment, and also when a sub-negotiation was given up, the      *)
(* window has the width and the height of one size the client has sent: in *)
(* every conversation, answers parseInput does not know (DONT) and any     *)
(* typing included, whose sizes have no byte 240 or 255                    *)
(* (TelnetTerminal::parseInput and parseIacBuffer).                        *)
THEOREM SizesAreWhole == Spec => []SizeNeverTorn
<1>1. SizeInv => SizeNeverTorn
  BY DEF SizeInv
<1> QED
  BY <1>1, SizeInvariant, PTL

(* printCommandHistory writes between the panel and the prompt, for every  *)
(* window of at least 19 lines and any number of entries.                  *)
THEOREM HistoryStaysOnScreen == Spec => []HistoryOnScreen
<1>1. SizeInv => HistoryOnScreen
  <2> SUFFICES ASSUME TelnetTypes, PromptPlaced, ~charMode, termHeight >= 19,
                      NEW entries \in Entries
               PROVE  HistoryRows(termHeight, entries) \subseteq 18 .. inputLine - 1
    BY DEF SizeInv, HistoryOnScreen
  <2>1. termHeight \in Unsigned /\ entries \in Nat /\ inputLine = termHeight
    BY TelnetAssumption DEF TelnetTypes, PromptPlaced, Unsigned
  <2> QED
    BY <2>1, RowsFit
<1> QED
  BY <1>1, SizeInvariant, PTL

-----------------------------------------------------------------------------
(* The line that a person edits, from the recursive function in Edited.    *)
Texts == [line : Seq(Byte), lines : Seq(Seq(Byte))]

NoText == [line |-> <<>>, lines |-> <<>>]

LEMMA FrontIs ==
  ASSUME NEW X, NEW s \in Seq(X)
  PROVE  s # <<>> => Front(s) \in Seq(X)
<1> SUFFICES ASSUME s # <<>> PROVE SubSeq(s, 1, Len(s) - 1) \in Seq(X)
  BY DEF Front
<1>1. Len(s) \in Nat
  BY LenProperties
<1>2. \A i \in 1 .. Len(s) - 1 : s[i] \in X
  BY <1>1, ElementOfSeq
<1> QED
  BY <1>1, <1>2, SubSeqProperties

LEMMA EditedByIs ==
  ASSUME NEW text \in Texts, NEW byte \in Byte
  PROVE  /\ EditedBy(text, byte) \in Texts
         /\ isprint(byte) => /\ EditedBy(text, byte).line = Append(text.line, byte)
                             /\ EditedBy(text, byte).lines = text.lines
         /\ ~isprint(byte) /\ byte = 13 =>
               /\ EditedBy(text, byte).line = <<>>
               /\ EditedBy(text, byte).lines = Append(text.lines, text.line)
         /\ ~isprint(byte) /\ byte # 13 =>
               /\ EditedBy(text, byte).line = IF byte = 127 /\ text.line # <<>>
                                                THEN Front(text.line) ELSE text.line
               /\ EditedBy(text, byte).lines = text.lines
<1>1. text.line \in Seq(Byte) /\ text.lines \in Seq(Seq(Byte))
      /\ text = [line |-> text.line, lines |-> text.lines]
  BY DEF Texts
<1> DEFINE Is(t, l, ls) == t \in Texts /\ t.line = l /\ t.lines = ls
<1>2. ASSUME NEW l \in Seq(Byte), NEW ls \in Seq(Seq(Byte)), NEW t, t = [line |-> l, lines |-> ls]
      PROVE  Is(t, l, ls)
  BY <1>2 DEF Texts
<1> DEFINE after == EditedBy(text, byte)
<1> HIDE DEF Is
<1>3. CASE isprint(byte)
  <2>1. EditedBy(text, byte) = [line |-> Append(text.line, byte), lines |-> text.lines]
    BY <1>1, <1>3 DEF EditedBy
  <2>2. Append(text.line, byte) \in Seq(Byte)
    BY <1>1
  <2>3. Is(after, Append(text.line, byte), text.lines)
    BY <1>1, <1>2, <2>1, <2>2, Zenon
  <2> QED
    BY <1>3, <2>3, Zenon DEF Is
<1>4. CASE ~isprint(byte) /\ byte = 13
  <2>1. EditedBy(text, byte) = [line |-> <<>>, lines |-> Append(text.lines, text.line)]
    BY <1>4 DEF EditedBy
  <2>2. <<>> \in Seq(Byte) /\ Append(text.lines, text.line) \in Seq(Seq(Byte))
    BY <1>1
  <2>3. Is(after, <<>>, Append(text.lines, text.line))
    BY <1>2, <2>1, <2>2, Zenon
  <2> QED
    BY <1>4, <2>3, Zenon DEF Is
<1>5. CASE ~isprint(byte) /\ byte # 13 /\ byte = 127 /\ text.line # <<>>
  <2>1. EditedBy(text, byte) = [line |-> Front(text.line), lines |-> text.lines]
    BY <1>1, <1>5 DEF EditedBy
  <2>2. Front(text.line) \in Seq(Byte)
    BY <1>1, <1>5, FrontIs
  <2>3. Is(after, Front(text.line), text.lines)
    BY <1>1, <1>2, <2>1, <2>2, Zenon
  <2> QED
    BY <1>5, <2>3, Zenon DEF Is
<1>6. CASE ~isprint(byte) /\ byte # 13 /\ ~(byte = 127 /\ text.line # <<>>)
  <2>1. EditedBy(text, byte) = text
    BY <1>6, Zenon DEF EditedBy
  <2> QED
    BY <1>6, <2>1, Zenon
<1> QED
  BY <1>3, <1>4, <1>5, <1>6, Zenon

Edits(s, f) ==
  [k \in 0 .. Len(s) |-> IF k = 0 THEN NoText ELSE EditedBy(f[k - 1], s[k])]

LEMMA EditsExist ==
  ASSUME NEW s \in Seq(Byte)
  PROVE  \E f : f = Edits(s, f)
<1>1. Len(s) \in Nat /\ \A i \in 1 .. Len(s) : s[i] \in Byte
  BY LenProperties, ElementOfSeq
<1>2. NoText \in Texts
  <2>1. <<>> \in Seq(Byte) /\ <<>> \in Seq(Seq(Byte))
    OBVIOUS
  <2> QED
    BY <2>1 DEF NoText, Texts
<1> DEFINE Upto(n, f) == f[0] = NoText /\ \A k \in 1 .. n : f[k] = EditedBy(f[k - 1], s[k])
           Reached(n) == n <= Len(s) => \E f \in [0 .. n -> Texts] : Upto(n, f)
           S == {n \in Nat : Reached(n)}
<1>3. Reached(0)
  <2> DEFINE f == [k \in 0 .. 0 |-> NoText]
  <2>1. f \in [0 .. 0 -> Texts] /\ Upto(0, f)
    BY <1>2
  <2> QED
    BY <2>1
<1>4. ASSUME NEW n \in Nat, Reached(n) PROVE Reached(n + 1)
  <2> SUFFICES ASSUME n + 1 <= Len(s)
               PROVE  \E f \in [0 .. n + 1 -> Texts] : Upto(n + 1, f)
    OBVIOUS
  <2>1. PICK f \in [0 .. n -> Texts] : Upto(n, f)
    <3>1. n <= Len(s)
      BY <1>1
    <3> QED
      BY <1>4, <3>1, Zenon
  <2> DEFINE last == EditedBy(f[n], s[n + 1])
             g == [k \in 0 .. n + 1 |-> IF k = n + 1 THEN last ELSE f[k]]
  <2>2. last \in Texts
    <3>1. f[n] \in Texts /\ s[n + 1] \in Byte
      BY <1>1
    <3> QED
      BY <3>1, EditedByIs
  <2>3. g \in [0 .. n + 1 -> Texts]
    <3> HIDE DEF last
    <3> QED
      BY <2>2
  <2>4. g[0] = NoText
    <3> HIDE DEF last
    <3>1. 0 \in 0 .. n + 1 /\ 0 # n + 1
      OBVIOUS
    <3> QED
      BY <2>1, <3>1
  <2>5. ASSUME NEW k \in 1 .. n + 1 PROVE g[k] = EditedBy(g[k - 1], s[k])
    <3>1. k - 1 \in 0 .. n + 1 /\ k - 1 # n + 1 /\ k \in 0 .. n + 1
      OBVIOUS
    <3>2. g[k - 1] = f[k - 1]
      <4> HIDE DEF last
      <4> QED
        BY <3>1
    <3>3. CASE k = n + 1
      <4>1. g[k] = last /\ k - 1 = n
        BY <3>1, <3>3
      <4> QED
        BY <3>2, <3>3, <4>1
    <3>4. CASE k \in 1 .. n
      <4>1. g[k] = f[k]
        <5> HIDE DEF last
        <5>1. k # n + 1
          BY <3>4
        <5> QED
          BY <3>1, <5>1
      <4> HIDE DEF g
      <4> QED
        BY <2>1, <3>2, <3>4, <4>1
    <3> QED
      BY <3>3, <3>4
  <2> HIDE DEF g
  <2> QED
    BY <2>3, <2>4, <2>5
<1>5. Len(s) \in S
  <2> HIDE DEF Reached
  <2>1. 0 \in S /\ \A n \in Nat : n \in S => n + 1 \in S
    BY <1>3, <1>4
  <2> HIDE DEF S
  <2> QED
    BY <1>1, <2>1, SetInduction
<1>6. PICK f \in [0 .. Len(s) -> Texts] : Upto(Len(s), f)
  BY <1>1, <1>5
<1>7. f = Edits(s, f)
  <2>1. \A k \in 0 .. Len(s) : f[k] = IF k = 0 THEN NoText ELSE EditedBy(f[k - 1], s[k])
    BY <1>1, <1>6
  <2> QED
    BY <1>6, <2>1 DEF Edits
<1> QED
  BY <1>7

LEMMA EditedIs ==
  ASSUME NEW s \in Seq(Byte)
  PROVE  \E f : f = Edits(s, f) /\ Edited(s) = f[Len(s)]
<1> DEFINE g == CHOOSE f : f = Edits(s, f)
<1>1. g = Edits(s, g)
  BY EditsExist, Zenon
<1>2. Edited(s) = g[Len(s)]
  BY DEF Edited, Edits, NoText
<1> QED
  BY <1>1, <1>2

LEMMA EditsAre ==
  ASSUME NEW s \in Seq(Byte), NEW t \in Seq(Byte), Longer(s, t),
         NEW f, NEW g, f = Edits(s, f), g = Edits(t, g)
  PROVE  \A k \in 0 .. Len(s) : f[k] \in Texts /\ g[k] = f[k]
<1>1. /\ Len(s) \in Nat /\ Len(t) \in Nat /\ Len(s) <= Len(t)
      /\ \A i \in 1 .. Len(s) : s[i] \in Byte /\ t[i] = s[i]
  BY LenProperties, ElementOfSeq DEF Longer
<1>2. f[0] = NoText /\ \A k \in 1 .. Len(s) : f[k] = EditedBy(f[k - 1], s[k])
  BY <1>1 DEF Edits
<1>3. g[0] = NoText /\ \A k \in 1 .. Len(s) : g[k] = EditedBy(g[k - 1], s[k])
  <2>1. g[0] = NoText /\ \A k \in 1 .. Len(t) : g[k] = EditedBy(g[k - 1], t[k])
    BY <1>1 DEF Edits
  <2>2. \A k \in 1 .. Len(s) : k \in 1 .. Len(t)
    BY <1>1
  <2> QED
    BY <1>1, <2>1, <2>2
<1> DEFINE Same(n) == n <= Len(s) => f[n] \in Texts /\ g[n] = f[n]
           S == {n \in Nat : Same(n)}
<1>4. Same(0)
  <2>1. <<>> \in Seq(Byte) /\ <<>> \in Seq(Seq(Byte))
    OBVIOUS
  <2>2. NoText \in Texts
    BY <2>1 DEF NoText, Texts
  <2> QED
    BY <1>2, <1>3, <2>2
<1>5. ASSUME NEW n \in Nat, Same(n) PROVE Same(n + 1)
  <2> SUFFICES ASSUME n + 1 <= Len(s)
               PROVE  f[n + 1] \in Texts /\ g[n + 1] = f[n + 1]
    OBVIOUS
  <2>1. n <= Len(s) /\ n + 1 \in 1 .. Len(s) /\ (n + 1) - 1 = n
    BY <1>1
  <2>2. f[n] \in Texts /\ g[n] = f[n]
    BY <1>5, <2>1, Zenon
  <2>3. f[n + 1] = EditedBy(f[n], s[n + 1]) /\ g[n + 1] = EditedBy(g[n], s[n + 1])
    BY <1>2, <1>3, <2>1
  <2> QED
    BY <1>1, <2>1, <2>2, <2>3, EditedByIs
<1>6. \A n \in Nat : n \in S
  <2> HIDE DEF Same
  <2>1. 0 \in S /\ \A n \in Nat : n \in S => n + 1 \in S
    BY <1>4, <1>5
  <2> HIDE DEF S
  <2> QED
    BY <2>1, SetInduction
<1> QED
  BY <1>1, <1>6

LEMMA EditedAppend ==
  ASSUME NEW s \in Seq(Byte), NEW x \in Byte
  PROVE  /\ Edited(<<>>) = NoText
         /\ Edited(s) \in Texts /\ Edited(Append(s, x)) = EditedBy(Edited(s), x)
<1> DEFINE t == Append(s, x)
<1>1. /\ t \in Seq(Byte) /\ Len(s) \in Nat /\ Len(t) = Len(s) + 1
      /\ t[Len(s) + 1] = x /\ \A i \in 1 .. Len(s) : t[i] = s[i]
  BY AppendProperties, LenProperties
<1> HIDE DEF t
<1>2. Longer(s, t)
  BY <1>1 DEF Longer
<1>3. PICK f : f = Edits(s, f) /\ Edited(s) = f[Len(s)]
  BY EditedIs
<1>4. PICK g : g = Edits(t, g) /\ Edited(t) = g[Len(t)]
  BY <1>1, EditedIs
<1>5. f[Len(s)] \in Texts /\ g[Len(s)] = f[Len(s)]
  <2>1. \A k \in 0 .. Len(s) : f[k] \in Texts /\ g[k] = f[k]
    BY <1>1, <1>2, <1>3, <1>4, EditsAre
  <2> QED
    BY <1>1, <2>1
<1>6. g[Len(s) + 1] = EditedBy(g[Len(s)], x)
  <2>1. Len(s) + 1 \in 0 .. Len(t) /\ Len(s) + 1 # 0 /\ (Len(s) + 1) - 1 = Len(s)
    BY <1>1
  <2>2. \A k \in 0 .. Len(t) : g[k] = IF k = 0 THEN NoText ELSE EditedBy(g[k - 1], t[k])
    BY <1>4 DEF Edits
  <2> QED
    BY <1>1, <2>1, <2>2
<1>7. Edited(<<>>) = NoText
  <2>1. <<>> \in Seq(Byte) /\ Len(<<>>) = 0
    OBVIOUS
  <2>2. PICK h : h = Edits(<<>>, h) /\ Edited(<<>>) = h[0]
    BY <2>1, EditedIs
  <2>3. h[0] = NoText
    BY <2>1, <2>2 DEF Edits
  <2> QED
    BY <2>2, <2>3
<1> QED
  BY <1>1, <1>3, <1>4, <1>5, <1>6, <1>7 DEF t

-----------------------------------------------------------------------------
(* What one item adds to what the client has said.                         *)
LEMMA TypingIs ==
  ASSUME items \in Seq(Item)
  PROVE  /\ Typing \in Seq(Seq(Byte)) /\ Len(Typing) = Len(items)
         /\ \A n \in 1 .. Len(items) :
              Typing[n] = IF items[n].kind = "typed" THEN <<items[n].byte>> ELSE <<>>
<1>1. Len(items) \in Nat /\ DOMAIN items = 1 .. Len(items) /\ \A n \in 1 .. Len(items) : items[n] \in Item
  BY LenProperties, ElementOfSeq
<1> DEFINE key(n) == IF items[n].kind = "typed" THEN <<items[n].byte>> ELSE <<>>
<1>2. \A n \in 1 .. Len(items) : key(n) \in Seq(Byte)
  <2> TAKE n \in 1 .. Len(items)
  <2>1. items[n].kind = "typed" => items[n].byte \in Byte
    BY <1>1, ItemIs
  <2> QED
    BY <2>1
<1>3. Typing = [n \in 1 .. Len(items) |-> key(n)]
  BY <1>1, Zenon DEF Typing
<1> HIDE DEF key
<1>4. Typing \in [1 .. Len(items) -> Seq(Byte)] /\ \A n \in 1 .. Len(items) : Typing[n] = key(n)
  BY <1>2, <1>3
<1> QED
  BY <1>1, <1>4, FunctionIsSeq DEF key

LEMMA TypedBytesAre ==
  ASSUME items \in Seq(Item)
  PROVE  /\ TypedBytes(0) = <<>>
         /\ \A n \in 0 .. Len(items) : TypedBytes(n) \in Seq(Byte)
         /\ \A n \in 1 .. Len(items) :
              /\ items[n].kind = "typed" =>
                   TypedBytes(n) = Append(TypedBytes(n - 1), items[n].byte)
              /\ items[n].kind # "typed" => TypedBytes(n) = TypedBytes(n - 1)
<1> DEFINE s == Typing
<1>1. /\ s \in Seq(Seq(Byte)) /\ Len(s) = Len(items) /\ Len(items) \in Nat
      /\ \A n \in 1 .. Len(items) :
           s[n] = IF items[n].kind = "typed" THEN <<items[n].byte>> ELSE <<>>
  BY TypingIs, LenProperties
<1> HIDE DEF s
<1>2. TypedBytes(0) = <<>> /\ \A n \in 0 .. Len(items) : TypedBytes(n) \in Seq(Byte)
  BY <1>1, FlattenWhole DEF TypedBytes, s
<1>3. ASSUME NEW n \in 1 .. Len(items)
      PROVE  /\ items[n].kind = "typed" =>
                  TypedBytes(n) = Append(TypedBytes(n - 1), items[n].byte)
             /\ items[n].kind # "typed" => TypedBytes(n) = TypedBytes(n - 1)
  <2>1. TypedBytes(n) = TypedBytes(n - 1) \o s[n]
    BY <1>1, FlattenPrefix DEF TypedBytes, s
  <2>2. TypedBytes(n - 1) \in Seq(Byte) /\ s[n] \in Seq(Byte)
    <3>1. n - 1 \in 0 .. Len(items)
      BY <1>1
    <3> QED
      BY <1>1, <1>2, <3>1, ElementOfSeq
  <2>3. ASSUME items[n].kind = "typed" PROVE TypedBytes(n) = Append(TypedBytes(n - 1), items[n].byte)
    <3>1. s[n] = <<items[n].byte>> /\ items[n].byte \in Byte
      BY <1>1, <2>3, ItemIs, ElementOfSeq
    <3> QED
      BY <2>1, <2>2, <3>1, AppendIsConcat
  <2>4. ASSUME items[n].kind # "typed" PROVE TypedBytes(n) = TypedBytes(n - 1)
    <3>1. s[n] = <<>>
      BY <1>1, <2>4
    <3> QED
      BY <2>1, <2>2, <3>1, ConcatEmptySeq
  <2> QED
    BY <2>3, <2>4
<1> QED
  BY <1>2, <1>3

LEMMA TextStep ==
  ASSUME items \in Seq(Item), NEW n \in 1 .. Len(items)
  PROVE  /\ charMode => Text(n - 1).lines = <<>> /\ Text(n).lines = <<>>
         /\ ~charMode => Text(n - 1) \in Texts
         /\ items[n].kind # "typed" => Text(n) = Text(n - 1)
         /\ charMode /\ items[n].kind = "typed" =>
              Text(n).line = Append(Text(n - 1).line, items[n].byte)
         /\ ~charMode /\ items[n].kind = "typed" =>
              Text(n) = EditedBy(Text(n - 1), items[n].byte)
<1>1. /\ TypedBytes(n - 1) \in Seq(Byte)
      /\ items[n].kind = "typed" => TypedBytes(n) = Append(TypedBytes(n - 1), items[n].byte)
      /\ items[n].kind # "typed" => TypedBytes(n) = TypedBytes(n - 1)
  <2>1. n - 1 \in 0 .. Len(items)
    BY LenProperties
  <2> QED
    BY <2>1, TypedBytesAre
<1>2. items[n].kind = "typed" => items[n].byte \in Byte
  BY ItemIs, ElementOfSeq
<1>3. \A bytes : [line |-> bytes, lines |-> <<>>].line = bytes
                  /\ [line |-> bytes, lines |-> <<>>].lines = <<>>
  OBVIOUS
<1>4. Edited(TypedBytes(n - 1)) \in Texts
  <2>1. 0 \in Byte
    BY DEF Byte
  <2> QED
    BY <1>1, <2>1, EditedAppend
<1>5. items[n].kind = "typed" => Edited(TypedBytes(n)) = EditedBy(Edited(TypedBytes(n - 1)), items[n].byte)
  BY <1>1, <1>2, EditedAppend
<1> QED
  BY <1>1, <1>3, <1>4, <1>5, Zenon DEF Text

LEMMA KeepIs ==
  ASSUME TelnetTypes, NEW n \in 1 .. Len(items), Keep, UNCHANGED <<items, charMode>>,
         items[n].kind = "typed", c = items[n].byte,
         inputLineBuffer = Text(n - 1).line, lines = Text(n - 1).lines
  PROVE  inputLineBuffer' = Text(n).line /\ lines' = Text(n).lines
<1> DEFINE text == Text(n - 1)
<1>1. items \in Seq(Item) /\ c \in Byte
  BY SentIs, ItemIs, ElementOfSeq DEF TelnetTypes
<1>2. CASE charMode
  <2>1. inputLineBuffer' = Append(inputLineBuffer, c) /\ lines' = lines
    BY <1>2, Zenon DEF Keep
  <2> QED
    BY <1>1, <1>2, <2>1, TextStep
<1>3. CASE ~charMode
  <2>1. text \in Texts /\ Text(n) = EditedBy(text, c)
    BY <1>1, <1>3, TextStep
  <2> HIDE DEF text
  <2>2. /\ isprint(c) => /\ EditedBy(text, c).line = Append(text.line, c)
                          /\ EditedBy(text, c).lines = text.lines
        /\ ~isprint(c) /\ c = 13 =>
              /\ EditedBy(text, c).line = <<>>
              /\ EditedBy(text, c).lines = Append(text.lines, text.line)
        /\ ~isprint(c) /\ c # 13 =>
              /\ EditedBy(text, c).line = IF c = 127 /\ text.line # <<>>
                                            THEN Front(text.line) ELSE text.line
              /\ EditedBy(text, c).lines = text.lines
    BY <1>1, <2>1, EditedByIs
  <2>3. inputLineBuffer = text.line /\ lines = text.lines
    BY DEF text
  <2>4. CASE isprint(c)
    <3>1. inputLineBuffer' = Append(inputLineBuffer, c) /\ lines' = lines
      BY <2>4, Zenon DEF Keep
    <3> QED
      BY <2>1, <2>2, <2>3, <2>4, <3>1, Zenon
  <2>5. CASE ~isprint(c) /\ c = 13
    <3>1. lines' = Append(lines, inputLineBuffer) /\ inputLineBuffer' = <<>>
      BY <1>3, <2>5, Zenon DEF Keep
    <3> QED
      BY <2>1, <2>2, <2>3, <2>5, <3>1, Zenon
  <2>6. CASE ~isprint(c) /\ c # 13
    <3>1. lines' = lines
          /\ inputLineBuffer' = IF c = 127 /\ inputLineBuffer # <<>>
                                  THEN Front(inputLineBuffer) ELSE inputLineBuffer
      BY <1>3, <2>6, Zenon DEF Keep
    <3> QED
      BY <2>1, <2>2, <2>3, <2>6, <3>1, Zenon
  <2> QED
    BY <2>4, <2>5, <2>6
<1> QED
  BY <1>2, <1>3

LEMMA AgreedStep ==
  ASSUME NEW n \in Nat \ {0}, NEW option
  PROVE  /\ About(items[n], option) => (Agreed(n, option) <=> items[n].kind # "WONT")
         /\ ~About(items[n], option) => (Agreed(n, option) <=> Agreed(n - 1, option))
<1>1. n \in 1 .. n /\ n + 1 .. n = {}
  OBVIOUS
<1>2. \A k \in 1 .. n : k = n \/ (k \in 1 .. n - 1 /\ n \in k + 1 .. n)
  OBVIOUS
<1>3. \A k \in 1 .. n - 1 : k \in 1 .. n
  OBVIOUS
<1>4. \A k \in 1 .. n - 1 : \A later \in k + 1 .. n : later = n \/ later \in k + 1 .. n - 1
  OBVIOUS
<1>5. \A k \in 1 .. n - 1 : \A later \in k + 1 .. n - 1 : later \in k + 1 .. n
  OBVIOUS
<1>6. About(items[n], option) => (Agreed(n, option) <=> items[n].kind # "WONT")
  BY <1>1, <1>2, Zenon DEF Agreed
<1>7. ~About(items[n], option) => (Agreed(n, option) <=> Agreed(n - 1, option))
  BY <1>2, <1>3, <1>4, <1>5, Zenon DEF Agreed
<1> QED
  BY <1>6, <1>7

LEMMA LastSizeStep ==
  ASSUME NEW n \in Nat \ {0}, NEW size
  PROVE  /\ items[n].kind = "size" => LastSize(n, <<items[n].width, items[n].height>>)
         /\ items[n].kind # "size" => (LastSize(n, size) <=> LastSize(n - 1, size))
<1>1. n \in 1 .. n /\ n + 1 .. n = {}
  OBVIOUS
<1>2. \A k \in 1 .. n : k = n \/ k \in 1 .. n - 1
  OBVIOUS
<1>3. \A k \in 1 .. n - 1 : k \in 1 .. n
  OBVIOUS
<1>4. \A k \in 1 .. n - 1 : \A later \in k + 1 .. n : later = n \/ later \in k + 1 .. n - 1
  OBVIOUS
<1>5. \A k \in 1 .. n - 1 : \A later \in k + 1 .. n - 1 : later \in k + 1 .. n
  OBVIOUS
<1>6. items[n].kind = "size" => LastSize(n, <<items[n].width, items[n].height>>)
  BY <1>1, Zenon DEF LastSize
<1>7. ASSUME items[n].kind # "size" PROVE LastSize(n, size) <=> LastSize(n - 1, size)
  BY <1>2, <1>3, <1>4, <1>5, <1>7, Zenon DEF LastSize
<1> QED
  BY <1>6, <1>7

-----------------------------------------------------------------------------
(* The bytes read so far and the items they make.                          *)
LEMMA PlainSizes ==
  ASSUME AllPlain PROVE SizesPlain
BY Zenon DEF AllPlain, SizesPlain, Plain

LEMMA ItemBytes ==
  ASSUME TelnetTypes, AllPlain, NEW n \in 1 .. Len(items)
  PROVE  LET item == items[n]
             e == Encoded(items[n])
         IN  /\ item.kind \in {"typed", "DO", "WILL", "WONT", "size"}
             /\ item.kind = "typed" => Len(e) = 1 /\ e[1] = item.byte /\ e[1] # IAC
             /\ item.kind \in {"DO", "WILL", "WONT"} =>
                  /\ Len(e) = 3 /\ e[1] = IAC /\ e[3] = item.option
                  /\ e[2] = CASE item.kind = "DO" -> DO
                              [] item.kind = "WILL" -> WILL
                              [] OTHER -> WONT
             /\ item.kind = "size" => Len(e) = 9 /\ e[1] = IAC /\ e[2] = SB
<1> DEFINE item == items[n]
           e == Encoded(item)
<1>1. item \in Item /\ SizePlain(item) /\ item.kind # "DONT"
  <2>1. items[n] \in Item /\ n \in DOMAIN items
    BY ItemsAre, SentIs DEF TelnetTypes
  <2> QED
    BY <2>1 DEF AllPlain, Plain
<1>2. item.kind \in {"typed", "DO", "WILL", "WONT", "size"}
  BY <1>1, ItemIs
<1>3. item.kind = "typed" => Len(e) = 1 /\ e[1] = item.byte /\ e[1] # IAC
  <2>1. item.kind = "typed" => e = <<item.byte>> /\ item.byte # IAC
    BY <1>1, EncodedIs, ItemIs
  <2> HIDE DEF e
  <2> QED
    BY <2>1
<1>4. ASSUME NEW x, e = <<IAC, x, item.option>>
      PROVE  Len(e) = 3 /\ e[1] = IAC /\ e[2] = x /\ e[3] = item.option
  <2> HIDE DEF e
  <2> QED
    BY <1>4
<1>5. /\ item.kind = "DO" => e = <<IAC, DO, item.option>>
      /\ item.kind = "WILL" => e = <<IAC, WILL, item.option>>
      /\ item.kind = "WONT" => e = <<IAC, WONT, item.option>>
      /\ item.kind = "size" => Len(e) = 9 /\ e[1] = IAC /\ e[2] = SB
  BY <1>1, EncodedIs
<1>6. item.kind \in {"DO", "WILL", "WONT"} =>
        /\ Len(e) = 3 /\ e[1] = IAC /\ e[3] = item.option
        /\ e[2] = CASE item.kind = "DO" -> DO
                    [] item.kind = "WILL" -> WILL
                    [] OTHER -> WONT
  <2> HIDE DEF e
  <2> QED
    BY <1>4, <1>5
<1> QED
  BY <1>2, <1>3, <1>5, <1>6

LEMMA Grows ==
  ASSUME TelnetTypes, AllPlain, NEW n \in 1 .. Len(items)
  PROVE  /\ Before(items, n - 1) \in Nat /\ Before(items, n) \in Nat
         /\ Before(items, n - 1) < Before(items, n)
<1>1. Len(Encoded(items[n])) \in Nat /\ Len(Encoded(items[n])) >= 1
  BY ItemBytes
<1>2. /\ Before(items, n - 1) \in Nat
      /\ Before(items, n) = Before(items, n - 1) + Len(Encoded(items[n]))
  BY ItemsAre DEF Placed
<1> QED
  BY <1>1, <1>2

LEMMA Increasing ==
  ASSUME TelnetTypes, AllPlain, NEW m \in 0 .. Len(items), NEW n \in 0 .. Len(items), m < n
  PROVE  Before(items, m) < Before(items, n)
<1> DEFINE B(k) == Before(items, k)
           Reached(k) == m + k + 1 <= Len(items) => B(m) < B(m + k + 1)
           S == {k \in Nat : Reached(k)}
<1>1. \A k \in 1 .. Len(items) : B(k - 1) \in Nat /\ B(k) \in Nat /\ B(k - 1) < B(k)
  BY Grows
<1>2. Len(items) \in Nat
  BY SentIs DEF TelnetTypes
<1> HIDE DEF B
<1>3. Reached(0)
  <2> SUFFICES ASSUME m + 0 + 1 <= Len(items) PROVE B(m) < B(m + 0 + 1)
    OBVIOUS
  <2>1. m + 0 + 1 \in 1 .. Len(items) /\ (m + 0 + 1) - 1 = m
    BY <1>2
  <2> QED
    BY <1>1, <2>1
<1>4. ASSUME NEW k \in Nat, Reached(k) PROVE Reached(k + 1)
  <2> SUFFICES ASSUME m + (k + 1) + 1 <= Len(items) PROVE B(m) < B(m + (k + 1) + 1)
    OBVIOUS
  <2>1. /\ m + (k + 1) + 1 \in 1 .. Len(items) /\ (m + (k + 1) + 1) - 1 = m + k + 1
        /\ m + 1 \in 1 .. Len(items) /\ (m + 1) - 1 = m
        /\ m + k + 1 <= Len(items)
    BY <1>2
  <2>2. B(m + k + 1) < B(m + (k + 1) + 1) /\ B(m + k + 1) \in Nat /\ B(m + (k + 1) + 1) \in Nat
    BY <1>1, <2>1
  <2>3. B(m) < B(m + k + 1) /\ B(m) \in Nat
    BY <1>1, <1>4, <2>1
  <2> QED
    BY <2>2, <2>3
<1>5. \A k \in Nat : k \in S
  <2> HIDE DEF Reached
  <2>1. 0 \in S /\ \A k \in Nat : k \in S => k + 1 \in S
    BY <1>3, <1>4
  <2> HIDE DEF S
  <2> QED
    BY <2>1, SetInduction
<1>6. n - m - 1 \in Nat /\ m + (n - m - 1) + 1 = n
  BY <1>2
<1>7. Reached(n - m - 1)
  BY <1>5, <1>6
<1> QED
  BY <1>6, <1>7 DEF B

LEMMA PlaceUnique ==
  ASSUME TelnetTypes, AllPlain, NEW m \in 0 .. Len(items), NEW n \in 0 .. Len(items),
         Before(items, m) = Before(items, n)
  PROVE  m = n
<1>1. m < n \/ n < m \/ m = n
  BY SentIs DEF TelnetTypes
<1>2. Before(items, n) \in Nat
  <2>1. CASE n = 0
    BY <2>1, PlacedAre, SentIs DEF TelnetTypes
  <2>2. CASE n # 0
    <3>1. n \in 1 .. Len(items)
      BY <2>2
    <3> QED
      BY <3>1, Grows
  <2> QED
    BY <2>1, <2>2
<1>3. ~(Before(items, n) < Before(items, n))
  BY <1>2
<1> QED
  BY <1>1, <1>3, Increasing

LEMMA NextItem ==
  ASSUME TelnetTypes, AllPlain, in_avail > 0,
         NEW n \in 0 .. Len(items), consumed = Before(items, n)
  PROVE  /\ n + 1 \in 1 .. Len(items)
         /\ c = Encoded(items[n + 1])[1]
         /\ consumed = Before(items, (n + 1) - 1)
<1>1. /\ items \in Seq(Item) /\ Sent = All(items) /\ Len(items) \in Nat /\ Len(Sent) \in Nat
      /\ Before(items, Len(items)) = Len(Sent) /\ consumed + 1 \in 1 .. Len(Sent)
      /\ consumed \in Nat
  BY SentIs, PlacedAre, ReadIs DEF TelnetTypes
<1>2. n # Len(items)
  BY <1>1
<1>3. n + 1 \in 1 .. Len(items) /\ (n + 1) - 1 = n
  BY <1>1, <1>2
<1>4. Len(Encoded(items[n + 1])) \in Nat /\ Len(Encoded(items[n + 1])) >= 1
  BY <1>3, ItemBytes
<1>5. 1 \in 1 .. Len(Encoded(items[n + 1]))
  BY <1>4
<1>6. Sent[Before(items, (n + 1) - 1) + 1] = Encoded(items[n + 1])[1]
  BY <1>3, <1>5, ItemsAre
<1> QED
  BY <1>3, <1>6 DEF c

-----------------------------------------------------------------------------
(* Between two items, behind the first byte of a command, behind its       *)
(* second: what was read is what the items before say.                     *)
Between(n) == consumed = Before(items, n) /\ Knows(n)

Begun(n) ==
  consumed = Before(items, n - 1) + 1 /\ items[n].kind # "typed" /\ Knows(n - 1)

Answering(n) ==
  /\ consumed = Before(items, n - 1) + 2 /\ items[n].kind \in {"DO", "WILL", "WONT"}
  /\ actionState = IF items[n].kind = "WONT" THEN "OFF" ELSE "ON"
  /\ Knows(n - 1)

OnTrack ==
  AllPlain /\ ~cut =>
    /\ at \in {"idle", "loop"} => \E n \in 0 .. Len(items) : Between(n)
    /\ at = "IAC" => \E n \in 1 .. Len(items) : Begun(n)
    /\ at = "option" => \E n \in 1 .. Len(items) : Answering(n)
    /\ at = "SB" => \E n \in 1 .. Len(items), k \in 0 .. 6 : Inside(n, k) /\ Knows(n - 1)

LEMMA SaidSame ==
  ASSUME UNCHANGED <<items, charMode>>
  PROVE  /\ \A n : Text(n)' = Text(n)
         /\ \A n : \A option : Agreed(n, option)' = Agreed(n, option)
         /\ AllPlain' = AllPlain
<1>1. Typing' = Typing
  BY DEF Typing
<1> HIDE DEF Typing
<1>2. \A n : Text(n)' = Text(n)
  BY <1>1, Zenon DEF Text, TypedBytes
<1> QED
  BY <1>2 DEF Agreed, AllPlain

LEMMA KnowsSame ==
  ASSUME UNCHANGED <<items, charMode, inputVars, modeVars, termWidth, termHeight>>,
         NEW n, Knows(n)
  PROVE  Knows(n)'
<1>1. UNCHANGED <<items, charMode, inputLineBuffer, lines, naws, echoMode, suppressGoAhead, termWidth, termHeight>>
  BY Zenon DEF inputVars, modeVars
<1>2. Text(n)' = Text(n) /\ \A option : Agreed(n, option)' = Agreed(n, option)
  BY <1>1, SaidSame, Zenon
<1>3. LastSize(n, <<termWidth, termHeight>>)'
  BY <1>1, Zenon DEF Knows, LastSize
<1>4. /\ inputLineBuffer' = Text(n)'.line /\ lines' = Text(n)'.lines
      /\ naws' = Agreed(n, NAWS)' /\ echoMode' = Agreed(n, ECHO)'
      /\ suppressGoAhead' = Agreed(n, SUPPRESS_GO_AHEAD)'
  BY <1>1, <1>2, Zenon DEF Knows
<1> QED
  BY <1>3, <1>4, Zenon DEF Knows

LEMMA TypedStep ==
  ASSUME TelnetTypes, AllPlain, Typed, NEW n \in 0 .. Len(items), Between(n)
  PROVE  n + 1 \in 1 .. Len(items) /\ Between(n + 1)'
<1>1. /\ in_avail > 0 /\ c # IAC /\ consumed' = consumed + 1 /\ Keep
      /\ UNCHANGED <<items, charMode, naws, echoMode, suppressGoAhead, termWidth, termHeight>>
  BY Zenon DEF Typed, Get, modeVars, sizeVars
<1>2. PICK m \in 1 .. Len(items) : m = n + 1 /\ m - 1 = n
  BY <1>1, NextItem DEF Between
<1>3. c = Encoded(items[m])[1] /\ consumed = Before(items, m - 1)
  BY <1>1, <1>2, NextItem DEF Between
<1>4. items[m].kind = "typed" /\ items[m].byte = c /\ Len(Encoded(items[m])) = 1
  BY <1>1, <1>3, ItemBytes
<1>5. consumed' = Before(items, m)
  BY <1>1, <1>3, <1>4, ItemsAre DEF Placed
<1>6. Knows(m - 1)
  BY <1>2 DEF Between
<1>7. inputLineBuffer' = Text(m).line /\ lines' = Text(m).lines
  BY <1>1, <1>4, <1>6, KeepIs DEF Knows
<1>8. \A option : Agreed(m, option) = Agreed(m - 1, option)
  <2>1. \A option : ~About(items[m], option)
    BY <1>4 DEF About
  <2>2. \A option : Agreed(m, option) <=> Agreed(m - 1, option)
    BY <2>1, AgreedStep
  <2>3. \A option : Agreed(m, option) \in BOOLEAN /\ Agreed(m - 1, option) \in BOOLEAN
    BY DEF Agreed
  <2> QED
    BY <2>2, <2>3
<1>9. LastSize(m, <<termWidth, termHeight>>)
  <2> DEFINE size == <<termWidth, termHeight>>
  <2>1. m \in Nat \ {0} /\ items[m].kind # "size"
    BY <1>4, SentIs DEF TelnetTypes
  <2>2. LastSize(m - 1, size)
    BY <1>6, Zenon DEF Knows
  <2> HIDE DEF size
  <2>3. LastSize(m, size) <=> LastSize(m - 1, size)
    BY <2>1, LastSizeStep
  <2> QED
    BY <2>2, <2>3 DEF size
<1>10. Knows(m)'
  <2>1. Text(m)' = Text(m) /\ \A option : Agreed(m, option)' = Agreed(m, option)
    BY <1>1, SaidSame, Zenon
  <2>2. LastSize(m, <<termWidth, termHeight>>)'
    BY <1>1, <1>9, Zenon DEF LastSize
  <2>3. /\ inputLineBuffer' = Text(m)'.line /\ lines' = Text(m)'.lines
        /\ naws' = Agreed(m, NAWS)' /\ echoMode' = Agreed(m, ECHO)'
        /\ suppressGoAhead' = Agreed(m, SUPPRESS_GO_AHEAD)'
    BY <1>1, <1>6, <1>7, <1>8, <2>1, Zenon DEF Knows
  <2> QED
    BY <2>2, <2>3, Zenon DEF Knows
<1>11. Between(m)'
  BY <1>1, <1>5, <1>10, Zenon DEF Between
<1> QED
  BY <1>2, <1>11

LEMMA CommandStep ==
  ASSUME TelnetTypes, AllPlain, Command, NEW n \in 0 .. Len(items), Between(n)
  PROVE  n + 1 \in 1 .. Len(items) /\ Begun(n + 1)'
<1>1. /\ in_avail > 0 /\ c = IAC /\ consumed' = consumed + 1
      /\ UNCHANGED <<items, charMode, inputVars, modeVars, termWidth, termHeight>>
  BY Zenon DEF Command, Get, sizeVars
<1>2. PICK m \in 1 .. Len(items) : m = n + 1 /\ m - 1 = n
  BY <1>1, NextItem DEF Between
<1>3. c = Encoded(items[m])[1] /\ consumed = Before(items, m - 1)
  BY <1>1, <1>2, NextItem DEF Between
<1>4. items[m].kind # "typed"
  BY <1>1, <1>3, ItemBytes
<1>5. Knows(m - 1)'
  BY <1>1, <1>2, KnowsSame DEF Between
<1>6. Begun(m)'
  BY <1>1, <1>3, <1>4, <1>5, Zenon DEF Begun
<1> QED
  BY <1>2, <1>6

LEMMA ActionStep ==
  ASSUME TelnetTypes, AllPlain, Action, NEW n \in 1 .. Len(items), Begun(n)
  PROVE  \/ at' = "option" /\ Answering(n)'
         \/ at' = "SB" /\ Inside(n, 0)' /\ Knows(n - 1)'
<1>1. /\ in_avail > 0 /\ consumed' = consumed + 1
      /\ at' = IF c = SB THEN "SB" ELSE "option"
      /\ actionState' = CASE c = SB -> "BUFFER"
                          [] c \in {DO, WILL} -> "ON"
                          [] c = WONT -> "OFF"
                          [] OTHER -> actionState
      /\ buffer' = IF c = SB THEN <<>> ELSE buffer
      /\ UNCHANGED <<items, charMode, inputVars, modeVars, termWidth, termHeight>>
  BY Zenon DEF Action, Get, sizeVars
<1>2. Knows(n - 1)'
  BY <1>1, KnowsSame DEF Begun
<1> DEFINE item == items[n]
           e == Encoded(item)
<1>3. /\ item.kind \in {"DO", "WILL", "WONT", "size"}
      /\ item.kind \in {"DO", "WILL", "WONT"} =>
           /\ Len(e) = 3
           /\ e[2] = CASE item.kind = "DO" -> DO
                       [] item.kind = "WILL" -> WILL
                       [] OTHER -> WONT
      /\ item.kind = "size" => Len(e) = 9 /\ e[2] = SB
  BY ItemBytes DEF Begun
<1>4. 2 \in 1 .. Len(e)
  BY <1>3
<1>5. Before(items, n - 1) \in Nat /\ Sent[Before(items, n - 1) + 2] = e[2]
  BY <1>4, ItemsAre DEF Placed
<1>6. consumed' = Before(items, n - 1) + 2 /\ c = e[2]
  BY <1>1, <1>5 DEF Begun, c
<1> HIDE DEF e
<1>7. CASE item.kind \in {"DO", "WILL", "WONT"}
  <2>1. c # SB /\ (item.kind = "WONT" => c = WONT) /\ (item.kind # "WONT" => c \in {DO, WILL})
    BY <1>3, <1>6, <1>7, CommandsDiffer
  <2>2. actionState' = IF item.kind = "WONT" THEN "OFF" ELSE "ON"
    BY <1>1, <2>1, CommandsDiffer
  <2>3. Answering(n)'
    BY <1>1, <1>2, <1>6, <1>7, <2>2, Zenon DEF Answering
  <2> QED
    BY <1>1, <2>1, <2>3
<1>8. CASE item.kind = "size"
  <2>1. c = SB
    BY <1>3, <1>6, <1>8
  <2>2. consumed' = Before(items, n - 1) + 2 + 0 /\ buffer' = <<>> /\ Len(buffer') = 0
    BY <1>1, <1>5, <1>6, <2>1
  <2>3. Inside(n, 0)'
    BY <1>1, <1>8, <2>2 DEF Inside
  <2> QED
    BY <1>1, <1>2, <2>1, <2>3
<1> QED
  BY <1>3, <1>7, <1>8

LEMMA OptionStep ==
  ASSUME TelnetTypes, AllPlain, Option, NEW n \in 1 .. Len(items), Answering(n)
  PROVE  Between(n)'
<1>1. /\ in_avail > 0 /\ consumed' = consumed + 1
      /\ naws' = IF c = NAWS THEN actionState = "ON" ELSE naws
      /\ echoMode' = IF c = ECHO THEN actionState = "ON" ELSE echoMode
      /\ suppressGoAhead' = IF c = SUPPRESS_GO_AHEAD THEN actionState = "ON" ELSE suppressGoAhead
      /\ UNCHANGED <<items, charMode, inputLineBuffer, lines, termWidth, termHeight>>
  BY Zenon DEF Option, Get, inputVars, sizeVars
<1> DEFINE item == items[n]
           e == Encoded(item)
<1>2. /\ item.kind \in {"DO", "WILL", "WONT"} /\ Len(e) = 3 /\ e[3] = item.option
      /\ consumed = Before(items, n - 1) + 2
      /\ actionState = IF item.kind = "WONT" THEN "OFF" ELSE "ON"
      /\ Knows(n - 1)
  BY ItemBytes DEF Answering
<1>3. 3 \in 1 .. Len(e)
  BY <1>2
<1>4. /\ Before(items, n - 1) \in Nat /\ Sent[Before(items, n - 1) + 3] = e[3]
      /\ Before(items, n) = Before(items, n - 1) + Len(e)
  BY <1>3, ItemsAre DEF Placed
<1>5. consumed' = Before(items, n) /\ c = item.option
  BY <1>1, <1>2, <1>4 DEF c
<1>6. items \in Seq(Item) /\ n \in Nat \ {0}
  BY SentIs DEF TelnetTypes
<1> HIDE DEF e
<1>7. ASSUME NEW option
      PROVE  Agreed(n, option) = IF c = option THEN actionState = "ON" ELSE Agreed(n - 1, option)
  <2>1. About(item, option) <=> c = option
    BY <1>2, <1>5, Zenon DEF About
  <2>2. (actionState = "ON") <=> item.kind # "WONT"
    BY <1>2
  <2>3. Agreed(n, option) <=> IF c = option THEN item.kind # "WONT" ELSE Agreed(n - 1, option)
    BY <1>6, <2>1, AgreedStep
  <2>4. Agreed(n, option) \in BOOLEAN /\ Agreed(n - 1, option) \in BOOLEAN
    BY DEF Agreed
  <2> QED
    BY <2>2, <2>3, <2>4
<1>8. Text(n) = Text(n - 1)
  BY <1>2, <1>6, TextStep
<1>9. LastSize(n, <<termWidth, termHeight>>)
  <2> DEFINE size == <<termWidth, termHeight>>
  <2>1. LastSize(n - 1, size) /\ item.kind # "size"
    BY <1>2 DEF Knows
  <2> HIDE DEF size
  <2>2. LastSize(n, size) <=> LastSize(n - 1, size)
    BY <1>6, <2>1, LastSizeStep
  <2> QED
    BY <2>1, <2>2 DEF size
<1>10. Knows(n)'
  <2>1. Text(n)' = Text(n) /\ \A option : Agreed(n, option)' = Agreed(n, option)
    BY <1>1, SaidSame, Zenon
  <2>2. LastSize(n, <<termWidth, termHeight>>)'
    BY <1>1, <1>9, Zenon DEF LastSize
  <2>3. naws' = Agreed(n, NAWS) /\ echoMode' = Agreed(n, ECHO)
        /\ suppressGoAhead' = Agreed(n, SUPPRESS_GO_AHEAD)
    BY <1>1, <1>2, <1>7, Zenon DEF Knows
  <2>4. inputLineBuffer' = Text(n)'.line /\ lines' = Text(n)'.lines
    BY <1>1, <1>2, <1>8, <2>1, Zenon DEF Knows
  <2> QED
    BY <2>1, <2>2, <2>3, <2>4, Zenon DEF Knows
<1> QED
  BY <1>1, <1>5, <1>10, Zenon DEF Between

LEMMA CollectStep ==
  ASSUME TelnetTypes, AllPlain, Collect,
         NEW n \in 1 .. Len(items), NEW k \in 0 .. 6, Inside(n, k), Knows(n - 1)
  PROVE  \/ at' = "loop" /\ Between(n)'
         \/ k \in 0 .. 5 /\ at' = at /\ Inside(n, k + 1)' /\ Knows(n - 1)'
<1>1. consumed' = consumed + 1 /\ UNCHANGED <<items, charMode, inputVars, modeVars>>
  BY Zenon DEF Collect, Get
<1>2. CASE k \in 0 .. 5
  <2>1. Inside(n, k + 1)' /\ UNCHANGED <<at, sizeVars, items>>
    BY <1>2, PlainSizes, SizeByteKept
  <2>2. Knows(n - 1)'
    BY <1>1, <2>1, KnowsSame DEF sizeVars
  <2> QED
    BY <1>2, <2>1, <2>2
<1>3. CASE k = 6
  <2>1. Inside(n, 6)
    BY <1>3
  <2>2. at' = "loop" /\ termWidth' = items[n].width /\ termHeight' = items[n].height
    BY <2>1, PlainSizes, SizeMeant
  <2>3. /\ items[n].kind = "size" /\ Len(Encoded(items[n])) = 9
        /\ consumed = Before(items, n - 1) + 2 + 6
    BY <2>1, ItemBytes DEF Inside
  <2>4. consumed' = Before(items, n)
    <3>1. /\ Before(items, n - 1) \in Nat
          /\ Before(items, n) = Before(items, n - 1) + Len(Encoded(items[n]))
      BY ItemsAre DEF Placed
    <3> QED
      BY <1>1, <2>3, <3>1
  <2>5. items \in Seq(Item) /\ n \in Nat \ {0}
    BY SentIs DEF TelnetTypes
  <2>6. LastSize(n, <<items[n].width, items[n].height>>)
    BY <2>3, <2>5, LastSizeStep
  <2>7. \A option : Agreed(n, option) = Agreed(n - 1, option)
    <3>1. \A option : ~About(items[n], option)
      BY <2>3 DEF About
    <3>2. \A option : Agreed(n, option) <=> Agreed(n - 1, option)
      BY <2>5, <3>1, AgreedStep
    <3>3. \A option : Agreed(n, option) \in BOOLEAN /\ Agreed(n - 1, option) \in BOOLEAN
      BY DEF Agreed
    <3> QED
      BY <3>2, <3>3
  <2>8. Text(n) = Text(n - 1)
    BY <2>3, <2>5, TextStep
  <2>9. UNCHANGED <<inputLineBuffer, lines, naws, echoMode, suppressGoAhead>>
    BY <1>1, Zenon DEF inputVars, modeVars
  <2>10. Knows(n)'
    <3>1. Text(n)' = Text(n) /\ \A option : Agreed(n, option)' = Agreed(n, option)
      BY <1>1, SaidSame, Zenon
    <3>2. LastSize(n, <<termWidth, termHeight>>)'
      BY <1>1, <2>2, <2>6, Zenon DEF LastSize
    <3>3. /\ inputLineBuffer' = Text(n)'.line /\ lines' = Text(n)'.lines
          /\ naws' = Agreed(n, NAWS)' /\ echoMode' = Agreed(n, ECHO)'
          /\ suppressGoAhead' = Agreed(n, SUPPRESS_GO_AHEAD)'
      BY <2>7, <2>8, <2>9, <3>1, Zenon DEF Knows
    <3> QED
      BY <3>2, <3>3, Zenon DEF Knows
  <2> QED
    BY <1>1, <2>2, <2>4, <2>10, Zenon DEF Between
<1> QED
  BY <1>2, <1>3

LEMMA TrackKept ==
  ASSUME TelnetTypes, OnTrack, [Next]_vars
  PROVE  OnTrack'
<1>1. UNCHANGED <<items, charMode>>
  BY StepKinds
<1>2. AllPlain' = AllPlain /\ Len(items) \in Nat
  BY <1>1, SaidSame, SentIs DEF TelnetTypes
<1>3. CASE ~(AllPlain /\ ~cut')
  BY <1>2, <1>3, Zenon DEF OnTrack
<1>4. CASE AllPlain /\ ~cut'
  <2>1. ~cut
    <3>1. cut => cut'
      BY Zenon DEF Next, parseInput, Arrive, selected, ParsedAll, Typed, Command, Action, Option,
                   Collect, GiveUp, vars
    <3> QED
      BY <1>4, <3>1
  <2>2. /\ at \in {"idle", "loop"} => \E n \in 0 .. Len(items) : Between(n)
        /\ at = "IAC" => \E n \in 1 .. Len(items) : Begun(n)
        /\ at = "option" => \E n \in 1 .. Len(items) : Answering(n)
        /\ at = "SB" => \E n \in 1 .. Len(items), k \in 0 .. 6 : Inside(n, k) /\ Knows(n - 1)
    BY <1>4, <2>1, Zenon DEF OnTrack
  <2>3. SUFFICES
          /\ at' \in {"idle", "loop"} => \E n \in 0 .. Len(items) : Between(n)'
          /\ at' = "IAC" => \E n \in 1 .. Len(items) : Begun(n)'
          /\ at' = "option" => \E n \in 1 .. Len(items) : Answering(n)'
          /\ at' = "SB" => \E n \in 1 .. Len(items), k \in 0 .. 6 : Inside(n, k)' /\ Knows(n - 1)'
    BY <1>1, Zenon DEF OnTrack
  <2>4. ASSUME UNCHANGED <<consumed, inputVars, modeVars, sizeVars>>
        PROVE  /\ \A n : Between(n) => Between(n)'
               /\ \A n : Begun(n) => Begun(n)'
               /\ \A n : actionState' = actionState /\ Answering(n) => Answering(n)'
               /\ \A n : \A k : buffer' = buffer /\ Inside(n, k) /\ Knows(n - 1)
                                => Inside(n, k)' /\ Knows(n - 1)'
    <3>1. UNCHANGED <<termWidth, termHeight>>
      BY <2>4, Zenon DEF sizeVars
    <3>2. \A n : Knows(n) => Knows(n)'
      BY <1>1, <2>4, <3>1, KnowsSame, Zenon
    <3>3. \A n : Between(n) => Between(n)'
      BY <1>1, <2>4, <3>2, Zenon DEF Between
    <3>4. \A n : Begun(n) => Begun(n)'
      BY <1>1, <2>4, <3>2, Zenon DEF Begun
    <3>5. \A n : actionState' = actionState /\ Answering(n) => Answering(n)'
      BY <1>1, <2>4, <3>2, Zenon DEF Answering
    <3>6. \A n : \A k : buffer' = buffer /\ Inside(n, k) /\ Knows(n - 1)
                        => Inside(n, k)' /\ Knows(n - 1)'
      BY <1>1, <2>4, <3>2, Zenon DEF Inside
    <3> QED
      BY <3>3, <3>4, <3>5, <3>6, Zenon
  <2>5. CASE Arrive \/ UNCHANGED vars
    <3>1. UNCHANGED <<at, actionState, buffer, consumed, inputVars, modeVars, sizeVars>>
      BY <2>5, Zenon DEF Arrive, vars, parserVars
    <3> QED
      BY <2>2, <2>4, <3>1, Zenon
  <2>6. CASE selected \/ ParsedAll
    <3>1. /\ UNCHANGED <<consumed, inputVars, modeVars, sizeVars>>
          /\ at \in {"idle", "loop"} /\ at' \in {"idle", "loop"}
      BY <2>6, Zenon DEF selected, ParsedAll, Stay
    <3>2. at' # "IAC" /\ at' # "option" /\ at' # "SB"
      BY <3>1
    <3> QED
      BY <2>2, <2>4, <3>1, <3>2, Zenon
  <2>7. CASE Typed
    <3>1. at = "loop" /\ at' = "loop"
      BY <2>7, Zenon DEF Typed
    <3>2. PICK n \in 0 .. Len(items) : Between(n)
      BY <2>2, <3>1
    <3>3. n + 1 \in 0 .. Len(items) /\ Between(n + 1)'
      BY <1>2, <1>4, <2>7, <3>2, TypedStep
    <3> QED
      BY <3>1, <3>3
  <2>8. CASE Command
    <3>1. at = "loop" /\ at' = "IAC"
      BY <2>8, Zenon DEF Command
    <3>2. PICK n \in 0 .. Len(items) : Between(n)
      BY <2>2, <3>1
    <3>3. n + 1 \in 1 .. Len(items) /\ Begun(n + 1)'
      BY <1>4, <2>8, <3>2, CommandStep
    <3> QED
      BY <3>1, <3>3
  <2>9. CASE Action
    <3>1. at = "IAC"
      BY <2>9, Zenon DEF Action
    <3>2. PICK n \in 1 .. Len(items) : Begun(n)
      BY <2>2, <3>1
    <3>3. \/ at' = "option" /\ Answering(n)'
          \/ at' = "SB" /\ Inside(n, 0)' /\ Knows(n - 1)'
      BY <1>4, <2>9, <3>2, ActionStep
    <3>4. 0 \in 0 .. 6
      OBVIOUS
    <3> QED
      BY <3>3, <3>4
  <2>10. CASE Option
    <3>1. at = "option" /\ at' = "loop"
      BY <2>10, Zenon DEF Option
    <3>2. PICK n \in 1 .. Len(items) : Answering(n)
      BY <2>2, <3>1
    <3>3. n \in 0 .. Len(items) /\ Between(n)'
      BY <1>4, <2>10, <3>2, OptionStep
    <3> QED
      BY <3>1, <3>3
  <2>11. CASE Collect
    <3>1. at = "SB"
      BY <2>11, Zenon DEF Collect
    <3>2. PICK n \in 1 .. Len(items), k \in 0 .. 6 : Inside(n, k) /\ Knows(n - 1)
      BY <2>2, <3>1
    <3>3. \/ at' = "loop" /\ Between(n)'
          \/ k \in 0 .. 5 /\ at' = at /\ Inside(n, k + 1)' /\ Knows(n - 1)'
      BY <1>4, <2>11, <3>2, CollectStep
    <3>4. n \in 0 .. Len(items) /\ (k \in 0 .. 5 => k + 1 \in 0 .. 6)
      OBVIOUS
    <3> QED
      BY <3>1, <3>3, <3>4
  <2>12. CASE GiveUp
    BY <1>4, <2>12 DEF GiveUp
  <2> QED
    BY <2>5, <2>6, <2>7, <2>8, <2>9, <2>10, <2>11, <2>12, Zenon DEF Next, parseInput
<1> QED
  BY <1>3, <1>4

TelnetInv == SizeInv /\ OnTrack

LEMMA TrackStarts ==
  ASSUME Init PROVE OnTrack
<1>1. items \in Seq(Item) /\ Len(items) \in Nat
  BY SentIs DEF Init
<1>2. consumed = Before(items, 0)
  BY <1>1, PlacedAre DEF Init
<1>3. Text(0).line = <<>> /\ Text(0).lines = <<>>
  <2>1. TypedBytes(0) = <<>>
    BY <1>1, TypedBytesAre
  <2>2. <<>> \in Seq(Byte) /\ 0 \in Byte
    BY DEF Byte
  <2>3. Edited(<<>>) = NoText
    BY <2>2, EditedAppend
  <2> QED
    BY <2>1, <2>3 DEF Text, NoText
<1>4. \A option : Agreed(0, option) = FALSE
  BY DEF Agreed
<1>5. LastSize(0, <<0, 0>>)
  <2>1. 1 .. 0 = {}
    OBVIOUS
  <2> QED
    BY <2>1, Zenon DEF LastSize
<1>6. Knows(0)
  BY <1>3, <1>4, <1>5, Zenon DEF Knows, Init
<1>7. at = "idle" /\ 0 \in 0 .. Len(items)
  BY <1>1 DEF Init
<1> QED
  BY <1>2, <1>6, <1>7 DEF OnTrack, Between

LEMMA TelnetInvariant == Spec => []TelnetInv
<1>1. Init => OnTrack
  BY TrackStarts
<1>2. SizeInv /\ OnTrack /\ [Next]_vars => OnTrack'
  BY TrackKept, Zenon DEF SizeInv
<1> QED
  BY <1>1, <1>2, SizeInvariant, PTL DEF Spec, TelnetInv

(* After each item the window knows exactly what was said so far, for      *)
(* every conversation that parseInput can understand and every division of *)
(* its bytes among the reads, as long as no sub-negotiation was given up.  *)
THEOREM ClientIsUnderstood == Spec => []Understood
<1>1. TelnetInv => Understood
  <2> SUFFICES ASSUME TelnetTypes, OnTrack, NEW n \in 0 .. Len(items), ~cut,
                      at \in {"idle", "loop"}, consumed = EndOf(n), AllPlain
               PROVE  Knows(n)
    BY Zenon DEF TelnetInv, SizeInv, Understood
  <2>1. PICK m \in 0 .. Len(items) : consumed = Before(items, m) /\ Knows(m)
    BY Zenon DEF OnTrack, Between
  <2>2. EndOf(n) = Before(items, n)
    BY Zenon DEF EndOf, Before
  <2>3. m = n
    BY <2>1, <2>2, PlaceUnique
  <2> QED
    BY <2>1, <2>3
<1> QED
  BY <1>1, TelnetInvariant, PTL

(* When every byte has been read, parseInput does not wait in get() for    *)
(* the rest of a command, for every conversation it can understand.        *)
THEOREM NobodyIsLeftWaiting == Spec => []NeverLeftWaiting
<1>1. TelnetInv => NeverLeftWaiting
  <2> SUFFICES ASSUME TelnetTypes, OnTrack, AllPlain, ~cut, consumed = Len(Sent)
               PROVE  at \notin {"IAC", "option"}
    BY Zenon DEF TelnetInv, SizeInv, NeverLeftWaiting
  <2>1. Sent = All(items) /\ items \in Seq(Item)
    BY SentIs DEF TelnetTypes
  <2>2. ASSUME NEW n \in 1 .. Len(items), Len(Encoded(items[n])) > 2
        PROVE  Before(items, n - 1) \in Nat /\ Before(items, n - 1) + 2 < Len(Sent)
    <3>1. /\ Before(items, n - 1) \in Nat /\ Len(Encoded(items[n])) \in Nat
          /\ Before(items, n) = Before(items, n - 1) + Len(Encoded(items[n]))
          /\ Before(items, n) <= Len(Sent) /\ Len(Sent) \in Nat
      BY <2>1, ItemsAre, PlacedAre DEF Placed
    <3> QED
      BY <2>2, <3>1
  <2>3. ASSUME at = "IAC" PROVE FALSE
    <3>1. PICK n \in 1 .. Len(items) :
            consumed = Before(items, n - 1) + 1 /\ items[n].kind # "typed"
      BY <2>3, Zenon DEF OnTrack, Begun
    <3>2. Len(Encoded(items[n])) = 3 \/ Len(Encoded(items[n])) = 9
      BY <3>1, ItemBytes
    <3>3. \A length : length = 3 \/ length = 9 => length > 2
      OBVIOUS
    <3>4. Len(Encoded(items[n])) > 2
      BY <3>2, <3>3, Zenon
    <3> QED
      BY <2>2, <3>1, <3>4
  <2>4. ASSUME at = "option" PROVE FALSE
    <3>1. PICK n \in 1 .. Len(items) :
            consumed = Before(items, n - 1) + 2 /\ items[n].kind \in {"DO", "WILL", "WONT"}
      BY <2>4, Zenon DEF OnTrack, Answering
    <3>2. Len(Encoded(items[n])) > 2
      BY <3>1, ItemBytes
    <3> QED
      BY <2>2, <3>1, <3>2
  <2> QED
    BY <2>3, <2>4
<1> QED
  BY <1>1, TelnetInvariant, PTL
=============================================================================
