-------------------------- MODULE DECWriter_proofs --------------------------
(***************************************************************************)
(* What every call into the DECWriter preserves, for every alphabet, every *)
(* window size and every line of input.  The proofs about the device on    *)
(* its own and about the whole machine cite these lemmas.                  *)
(***************************************************************************)
EXTENDS DECWriter, SequenceTheorems, TLAPS

(* The invariant of the device, in the form that every call preserves.     *)
DeviceInv == DECWriterTypeOK /\ NoStrandedInput /\ PrinterAlwaysReady

Byte == 0 .. \o377

(* What is kept of the screen after a byte is printed is a screen again.   *)
LEMMA PutType ==
  ASSUME screen \in Seq(Byte), NEW byte \in Byte
  PROVE  Put(byte) \in Seq(Byte)
<1> DEFINE bytes == IF byte = CarriageReturn THEN <<byte, LineFeed>> ELSE <<byte>>
           shown == IF terminal THEN screen ELSE << >>
           all == shown \o bytes
           excess == Len(all) - ScreenSize
<1>1. bytes \in Seq(Byte)
  <2>1. LineFeed \in Byte
    BY DEF Byte, LineFeed
  <2>2. <<byte>> \in Seq(Byte) /\ <<byte, LineFeed>> \in Seq(Byte)
    BY <2>1
  <2> QED
    BY <2>2
<1>2. shown \in Seq(Byte)
  BY EmptySeq
<1> HIDE DEF bytes, shown
<1>3. all \in Seq(Byte)
  BY <1>1, <1>2, ConcatProperties
<1> HIDE DEF all
<1>4. ASSUME excess > 0
      PROVE  SubSeq(all, excess + 1, Len(all)) \in Seq(Byte)
  <2>1. ScreenSize \in Nat /\ Len(all) \in Nat
    BY <1>3, DECWriterAssumption, LenProperties
  <2>2. \A i \in excess + 1 .. Len(all) : all[i] \in Byte
    BY <1>3, <1>4, <2>1, ElementOfSeq
  <2>3. excess + 1 \in Int /\ Len(all) \in Int
    BY <2>1
  <2> HIDE DEF excess
  <2> QED
    BY <2>2, <2>3, SubSeqProperties
<1>5. Put(byte) = IF excess > 0 THEN SubSeq(all, excess + 1, Len(all)) ELSE all
  BY DEF Put, all, shown, bytes
<1> HIDE DEF excess
<1> QED
  BY <1>3, <1>4, <1>5

(* The keyboard takes a character or not; in both cases the flag says so,  *)
(* and whoever still waits does so behind a character.                     *)
LEMMA NextCharType ==
  ASSUME NEW flag \in BOOLEAN, NEW line \in Seq(Chars),
         keyboardBuffer \in Byte, nextChar(flag, line)
  PROVE  /\ keyboardFlag' \in BOOLEAN
         /\ keyboardBuffer' \in Byte
         /\ inputLineBuffer' \in Seq(Chars)
         /\ inputLineBuffer' # << >> => keyboardFlag'
<1>1. keyboardFlag' \in BOOLEAN
  BY Zenon DEF nextChar
<1>2. CASE flag \/ line = << >>
  BY <1>2, <1>1, Zenon DEF nextChar
<1>3. CASE ~(flag \/ line = << >>)
  <2>1. Head(line) \in Chars /\ Tail(line) \in Seq(Chars)
    BY <1>3, HeadTailProperties
  <2>2. Head(line) \in 0 .. \o376
    BY <2>1, DECWriterAssumption, Zenon
  <2>3. Head(line) \in Byte
    BY <2>2, SMT DEF Byte
  <2> QED
    BY <1>1, <1>3, <2>1, <2>3, Zenon DEF nextChar
<1> QED
  BY <1>2, <1>3

(* performInputOutput, whatever flags and print buffer it is called with.  *)
LEMMA InputOutputType ==
  ASSUME DeviceInv, NEW kbd \in BOOLEAN, NEW prn \in BOOLEAN, NEW buffer \in Byte,
         performInputOutput(kbd, prn, buffer), UNCHANGED interruptEnable
  PROVE  DeviceInv'
<1> DEFINE line == IF terminal THEN inputLineBuffer ELSE << >>
<1>1. line \in Seq(Chars) /\ keyboardBuffer \in Byte /\ screen \in Seq(Byte)
  BY EmptySeq DEF DeviceInv, DECWriterTypeOK, Byte
<1>2. nextChar(kbd, line)
  BY Zenon DEF performInputOutput
<1> HIDE DEF line
<1>3. /\ keyboardFlag' \in BOOLEAN
      /\ keyboardBuffer' \in Byte
      /\ inputLineBuffer' \in Seq(Chars)
      /\ inputLineBuffer' # << >> => keyboardFlag'
  BY <1>1, <1>2, NextCharType
<1>4. screen' \in Seq(Byte)
  <2>1. CASE ~prn
    <3>1. screen' = Put(buffer)
      BY <2>1, Zenon DEF performInputOutput
    <3> QED
      BY <3>1, <1>1, PutType
  <2>2. CASE prn
    <3>1. screen' = IF terminal THEN screen ELSE << >>
      BY <2>2, Zenon DEF performInputOutput
    <3> QED
      BY <3>1, <1>1, EmptySeq
  <2> QED
    BY <2>1, <2>2
<1>5. terminal' = TRUE /\ printerFlag' = TRUE /\ printerBuffer' = buffer
  BY Zenon DEF performInputOutput
<1> QED
  BY <1>3, <1>4, <1>5, Zenon
     DEF DeviceInv, DECWriterTypeOK, NoStrandedInput, PrinterAlwaysReady, Byte

(* A byte of an accumulator.                                               *)
LEMMA AsciiType == ASSUME NEW acc \in Word PROVE getAscii(acc) \in Byte
BY DEF Word, getAscii, Byte

LEMMA KeyboardStep ==
  ASSUME DeviceInv, NEW op, NEW acc \in Word, KeyboardOperation(op, acc)
  PROVE  DeviceInv'
<1> USE DEF DeviceInv, DECWriterTypeOK, NoStrandedInput, PrinterAlwaysReady
<1>1. printerBuffer \in Byte /\ printerFlag \in BOOLEAN
  BY Zenon DEF Byte
<1>2. CASE KCF \/ KRB
  <2>1. performInputOutput(FALSE, printerFlag, printerBuffer) /\ UNCHANGED interruptEnable
    BY <1>2, Zenon DEF KCF, KRB
  <2> HIDE DEF DeviceInv
  <2> QED
    BY <1>1, <2>1, InputOutputType, Zenon
<1>3. CASE KIE(acc)
  BY <1>3, Zenon DEF KIE, keyboardVars, printerVars
<1>4. CASE UNCHANGED decVars
  BY <1>4, Zenon DEF decVars, keyboardVars, printerVars
<1> QED
  BY <1>2, <1>3, <1>4, Zenon DEF KeyboardOperation

LEMMA PrinterStep ==
  ASSUME DeviceInv, NEW op, NEW acc \in Word, PrinterOperation(op, acc)
  PROVE  DeviceInv'
<1> USE DEF DeviceInv, DECWriterTypeOK, NoStrandedInput, PrinterAlwaysReady
<1>1. printerBuffer \in Byte /\ keyboardFlag \in BOOLEAN /\ getAscii(acc) \in Byte
  BY AsciiType, Zenon DEF Byte
<1>2. CASE TFL
  BY <1>2, Zenon DEF TFL, keyboardVars
<1>3. CASE TCF
  <2>1. performInputOutput(keyboardFlag, FALSE, printerBuffer) /\ UNCHANGED interruptEnable
    BY <1>3, Zenon DEF TCF
  <2> HIDE DEF DeviceInv
  <2> QED
    BY <1>1, <2>1, InputOutputType, Zenon
<1>4. CASE TPC(acc)
  BY <1>1, <1>4, Zenon DEF TPC, keyboardVars, Byte
<1>5. CASE TLS(acc)
  <2>1. performInputOutput(keyboardFlag, FALSE, getAscii(acc)) /\ UNCHANGED interruptEnable
    BY <1>5, Zenon DEF TLS
  <2> HIDE DEF DeviceInv
  <2> QED
    BY <1>1, <2>1, InputOutputType, Zenon
<1>6. CASE UNCHANGED decVars
  BY <1>6, Zenon DEF decVars, keyboardVars, printerVars
<1> QED
  BY <1>2, <1>3, <1>4, <1>5, <1>6, Zenon DEF PrinterOperation

LEMMA TypedLines == ASSUME NEW chars \in Typed PROVE chars \in Seq(Chars)
<1>1. CASE \E c \in Chars : chars = <<c>>
  BY <1>1
<1>2. CASE \E c, d \in Chars : chars = <<c, d>>
  BY <1>2
<1> QED
  BY <1>1, <1>2 DEF Typed

LEMMA SelectedStep ==
  ASSUME DeviceInv, NEW chars \in Seq(Chars), selected(chars)
  PROVE  DeviceInv'
<1>1. inputLineBuffer \o chars \in Seq(Chars)
  BY ConcatProperties DEF DeviceInv, DECWriterTypeOK
<1>2. keyboardBuffer \in Byte /\ keyboardFlag \in BOOLEAN
  BY Zenon DEF DeviceInv, DECWriterTypeOK, Byte
<1>3. nextChar(keyboardFlag, inputLineBuffer \o chars)
  BY Zenon DEF selected
<1>4. /\ keyboardFlag' \in BOOLEAN
      /\ keyboardBuffer' \in Byte
      /\ inputLineBuffer' \in Seq(Chars)
      /\ inputLineBuffer' # << >> => keyboardFlag'
  BY <1>1, <1>2, <1>3, NextCharType
<1> QED
  BY <1>4, Zenon DEF selected, printerVars, Byte, DeviceInv, DECWriterTypeOK,
                     NoStrandedInput, PrinterAlwaysReady

LEMMA DisconnectStep == ASSUME DeviceInv, disconnectCallback PROVE DeviceInv'
<1>1. << >> \in Seq(Chars) /\ << >> \in Seq(Byte)
  BY EmptySeq
<1> QED
  BY <1>1, Zenon DEF disconnectCallback, Byte, DeviceInv, DECWriterTypeOK,
                     NoStrandedInput, PrinterAlwaysReady

LEMMA DeviceStart == DECWriterInit => DeviceInv
<1>1. << >> \in Seq(Chars) /\ << >> \in Seq(0 .. \o377) /\ 0 \in 0 .. \o377
  BY EmptySeq
<1> QED
  BY <1>1, Zenon DEF DECWriterInit, DeviceInv, DECWriterTypeOK, NoStrandedInput,
                     PrinterAlwaysReady

-----------------------------------------------------------------------------
(* What the device holds of the typed text: the keyboard buffer, then the  *)
(* window.                                                                 *)
Held == InBuffer \o inputLineBuffer

LEMMA Reassociate ==
  ASSUME NEW s \in Seq(Byte), NEW t \in Seq(Byte), NEW u \in Seq(Byte)
  PROVE  (s \o t) \o u = s \o (t \o u)
BY ConcatAssociative

Associates(s, t, u) == (s \o t) \o u = s \o (t \o u)

LEMMA AllAssociate ==
  ASSUME NEW s \in Seq(Byte), NEW t \in Seq(Byte), NEW u \in Seq(Byte)
  PROVE  Associates(s, t, u)
BY ConcatAssociative DEF Associates

(* nextChar moves a character from the front of the line to the empty      *)
(* buffer: what is held is the line, behind the buffer if that was full.   *)
LEMMA NextCharHolds ==
  ASSUME NEW flag \in BOOLEAN, NEW line \in Seq(Chars), nextChar(flag, line)
  PROVE  Held' = (IF flag THEN <<keyboardBuffer>> ELSE << >>) \o line
<1>1. CASE flag
  BY <1>1, Zenon DEF nextChar, Held, InBuffer
<1>2. CASE ~flag /\ line = << >>
  BY <1>2, Zenon DEF nextChar, Held, InBuffer
<1>3. CASE ~flag /\ line # << >>
  <2>1. Held' = <<Head(line)>> \o Tail(line)
    BY <1>3, Zenon DEF nextChar, Held, InBuffer
  <2>2. <<Head(line)>> \o Tail(line) = line
    BY <1>3, HeadTailProperties
  <2>3. << >> \o line = line
    BY ConcatEmptySeq
  <2> QED
    BY <1>3, <2>1, <2>2, <2>3
<1> QED
  BY <1>1, <1>2, <1>3

(* performInputOutput keeps what is held, but for the buffer if its flag   *)
(* was cleared.                                                            *)
LEMMA InputOutputHolds ==
  ASSUME DeviceInv, NEW kbd \in BOOLEAN, NEW prn, NEW buffer,
         performInputOutput(kbd, prn, buffer)
  PROVE  Held' = (IF kbd THEN <<keyboardBuffer>> ELSE << >>) \o inputLineBuffer
<1>1. inputLineBuffer \in Seq(Chars) /\ nextChar(kbd, inputLineBuffer)
  BY Zenon DEF performInputOutput, DeviceInv, DECWriterTypeOK
<1> QED
  BY <1>1, NextCharHolds
=============================================================================
