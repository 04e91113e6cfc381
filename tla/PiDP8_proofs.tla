---------------------------- MODULE PiDP8_proofs ----------------------------
(***************************************************************************)
(* The whole machine, for every program, every console and every set of    *)
(* connected devices.  The registers keep their widths and the devices     *)
(* their promises.  With a careful console memoryAddress is the operand's  *)
(* address when an instruction executes, and instructions store nowhere    *)
(* else; and the simulator implements the instruction set: the cycles      *)
(* before the last change nothing that the instruction set knows of, and   *)
(* the last one does the instruction.  At the end the sample program that  *)
(* echoes is followed through the machine.                                 *)
(***************************************************************************)
EXTENDS PiDP8Isa, MCPromises, DECWriter_proofs, Data_proofs

(* Every operator of the machine stays inside its registers: words are 12  *)
(* bits wide (see Data_proofs) and the link with the accumulator 13.       *)
-----------------------------------------------------------------------------
(* The accessors of the 13-bit link and accumulator.                       *)
LEMMA AccType == ASSUME NEW l \in Lac PROVE Acc(l) \in Word /\ Link(l) \in {0, 1}
<1>1. Acc(l) \in Word
  BY DEF Lac, Acc, Word, WordSize
<1>2. Link(l) \in {0, 1}
  BY DEF Lac, Link, WordSize
<1> QED
  BY <1>1, <1>2

LEMMA JoinType == ASSUME NEW h \in {0, WordSize}, NEW w \in Word PROVE h + w \in Lac
BY DEF Lac, Word, WordSize

LEMMA WithAccType == ASSUME NEW l \in Lac, NEW w \in Int PROVE WithAcc(l, w) \in Lac
<1>1. l - Acc(l) \in {0, WordSize}
  BY DEF Lac, Acc, WordSize
<1>2. ToWord(w) \in Word
  BY ToWordType
<1> QED
  BY <1>1, <1>2, JoinType, Zenon DEF WithAcc

LEMMA WithLinkType == ASSUME NEW l \in Lac, NEW b \in {0, 1} PROVE WithLink(l, b) \in Lac
<1>1. ASSUME NEW w \in Word PROVE w + WordSize * b \in Lac
  BY SMTT(40) DEF Word, WordSize, Lac
<1> QED
  BY <1>1, AccType, Zenon DEF WithLink

LEMMA PlusType == ASSUME NEW l \in Lac, NEW w \in Word PROVE Plus(l, w) \in Lac
BY SMTT(40) DEF Plus, Lac, Word

LEMMA RotateType ==
  ASSUME NEW l \in Lac
  PROVE  RotateRight(l) \in Lac /\ RotateLeft(l) \in Lac /\ ByteSwap(l) \in Lac
<1>1. RotateRight(l) \in Lac
  BY SMTT(40) DEF RotateRight, Lac, WordSize
<1>2. RotateLeft(l) \in Lac
  BY SMTT(40) DEF RotateLeft, Link, Lac, WordSize
<1>3. 64 * (l % 64) + Acc(l) \div 64 \in Int
  <2>1. l % 64 \in Int /\ Acc(l) \in Int
    BY DEF Lac, Acc, WordSize
  <2> QED
    BY <2>1
<1> QED
  BY <1>1, <1>2, <1>3, WithAccType DEF ByteSwap

(* Group 1 keeps 13 bits, whatever its bits are.                           *)
LEMMA Group1Type == ASSUME NEW bits \in Nat, NEW l \in Lac PROVE Group1(bits, l) \in Lac
<1>1. ASSUME NEW k \in Lac PROVE ClearStep(bits, k) \in Lac
  BY <1>1, WithAccType, WithLinkType DEF ClearStep
<1>2. ASSUME NEW k \in Lac PROVE ComplementStep(bits, k) \in Lac
  <2> DEFINE cma == IF Bit(bits, \o40) THEN WithAcc(k, Complement(Acc(k))) ELSE k
  <2>1. Complement(Acc(k)) \in Int
    <3>1. ASSUME NEW w \in Word PROVE Complement(w) \in Int
      BY DEF Complement, Word
    <3> QED
      BY <3>1, AccType, Zenon
  <2>2. cma \in Lac
    BY <1>2, <2>1, WithAccType
  <2>3. ComplementStep(bits, k) = IF Bit(bits, \o20) THEN WithLink(cma, 1 - Link(cma)) ELSE cma
    BY DEF ComplementStep
  <2> HIDE DEF cma
  <2>4. 1 - Link(cma) \in {0, 1}
    BY <2>2, AccType
  <2> QED
    BY <2>2, <2>3, <2>4, WithLinkType
<1>3. ASSUME NEW k \in Lac PROVE IncrementStep(bits, k) \in Lac
  <2>1. 1 \in Word
    BY DEF Word
  <2> QED
    BY <1>3, <2>1, PlusType DEF IncrementStep
<1>4. ASSUME NEW code, NEW k \in Lac PROVE RotateStep(code, k) \in Lac
  <2>1. RotateRight(k) \in Lac /\ RotateLeft(k) \in Lac /\ ByteSwap(k) \in Lac
    BY RotateType
  <2>2. RotateRight(RotateRight(k)) \in Lac /\ RotateLeft(RotateLeft(k)) \in Lac
    BY <2>1, RotateType
  <2> QED
    BY <1>4, <2>1, <2>2 DEF RotateStep
<1> QED
  BY <1>1, <1>2, <1>3, <1>4 DEF Group1

LEMMA Group2Type ==
  ASSUME NEW bits \in Nat, NEW l \in Lac, NEW switches \in Word
  PROVE  Group2(bits, l, switches) \in Lac
<1> DEFINE cla == IF Bit(bits, \o200) THEN WithAcc(l, 0) ELSE l
<1>1. cla \in Lac
  BY WithAccType
<1>2. Group2(bits, l, switches) =
        IF Bit(bits, 4) THEN WithAcc(cla, Or(Acc(cla), switches)) ELSE cla
  BY DEF Group2
<1> HIDE DEF cla
<1>3. Or(Acc(cla), switches) \in Int
  <2>1. Acc(cla) \in Word
    BY <1>1, AccType
  <2>2. Or(Acc(cla), switches) \in Word
    BY <2>1, AndOrType
  <2> QED
    BY <2>2, WordIsInt
<1> QED
  BY <1>1, <1>2, <1>3, WithAccType

LEMMA Group3Type ==
  ASSUME NEW bits \in Nat, NEW l \in Lac, NEW mq \in Word
  PROVE  Group3(bits, l, mq) \in Lac /\ Group3MQ(bits, l, mq) \in Word
<1>1. mq \in Int /\ Or(Acc(l), mq) \in Int /\ 0 \in Word /\ Acc(l) \in Word
  <2>1. Acc(l) \in Word
    BY AccType
  <2>2. Or(Acc(l), mq) \in Word
    BY <2>1, AndOrType
  <2> QED
    BY <2>1, <2>2, WordIsInt, ZeroWord
<1>2. WithAcc(l, 0) \in Lac /\ WithAcc(l, mq) \in Lac /\ WithAcc(l, Or(Acc(l), mq)) \in Lac
  BY <1>1, WithAccType
<1> HIDE DEF Group3Code
<1>3. Group3(bits, l, mq) \in Lac
  BY <1>2, ZenonT(40) DEF Group3
<1> QED
  BY <1>1, <1>3 DEF Group3MQ

-----------------------------------------------------------------------------
(* The fields of an instruction.                                           *)
LEMMA FieldsType ==
  ASSUME NEW w \in Word
  PROVE  /\ OprBits(w) \in Nat /\ DeviceOpr(w) \in 0 .. 7
         /\ FieldReg(w) \in Field /\ w % 8 \in Field
         /\ OpCode(w) \in 0 .. 7
<1>1. OprBits(w) \in Nat
  BY DEF Word, OprBits
<1>2. DeviceOpr(w) \in 0 .. 7 /\ w % 8 \in Field
  BY DEF Word, DeviceOpr, Field
<1>3. FieldReg(w) \in Field
  BY DEF Word, FieldReg, Field
<1>4. OpCode(w) \in 0 .. 7
  BY DEF Word, OpCode
<1> QED
  BY <1>1, <1>2, <1>3, <1>4

LEMMA ImmediateAddressType ==
  ASSUME NEW at \in Word, NEW w \in Word
  PROVE  ImmediateAddress(at, w) \in Word
<1>1. w % \o200 \in 0 .. \o177
  BY DEF Word
<1>2. PICK page \in 0 .. \o37 : at - (at % \o200) = \o200 * page
  <2>1. at \div \o200 \in 0 .. \o37 /\ at - (at % \o200) = \o200 * (at \div \o200)
    BY DEF Word
  <2> QED
    BY <2>1
<1>3. CASE ZeroPage(w)
  BY <1>1, <1>3 DEF ImmediateAddress, Address, Word
<1>4. CASE ~ZeroPage(w)
  <2>1. ImmediateAddress(at, w) = (w % \o200) + (at - (at % \o200))
    BY <1>4, Zenon DEF ImmediateAddress, Address
  <2> QED
    BY <1>1, <1>2, <2>1 DEF Word
<1> QED
  BY <1>3, <1>4

(* The address an instruction names lies on the page it names it from, or  *)
(* on page zero: naming it again from there changes nothing.  Defer relies *)
(* on it, which computes the pointer from memoryAddress.                   *)
LEMMA ImmediateAddressTwice ==
  ASSUME NEW at \in Word, NEW w \in Word
  PROVE  ImmediateAddress(ImmediateAddress(at, w), w) = ImmediateAddress(at, w)
<1>1. CASE ZeroPage(w)
  BY <1>1 DEF ImmediateAddress
<1>2. CASE ~ZeroPage(w)
  <2> DEFINE page == at - (at % \o200)
  <2>1. page \in Nat /\ page % \o200 = 0 /\ Address(w) \in 0 .. \o177
    BY DEF Word, Address
  <2>2. ImmediateAddress(at, w) = Address(w) + page
    BY <1>2 DEF ImmediateAddress
  <2>3. ImmediateAddress(Address(w) + page, w)
          = Address(w) + ((Address(w) + page) - ((Address(w) + page) % \o200))
    BY <1>2 DEF ImmediateAddress
  <2> HIDE DEF page, Address
  <2>4. (Address(w) + page) % \o200 = Address(w)
    BY <2>1
  <2> QED
    BY <2>1, <2>2, <2>3, <2>4
<1> QED
  BY <1>1, <1>2

-----------------------------------------------------------------------------

(* What a step that leaves a group of registers alone does to its type.    *)
LEMMA KeepMemory == MemoryTypeOK /\ UNCHANGED memVars => MemoryTypeOK'
BY Zenon DEF MemoryTypeOK, memVars

LEMMA KeepRegisters ==
  RegisterTypeOK /\ UNCHANGED <<programCounter, instructionReg, fieldVars>> => RegisterTypeOK'
BY Zenon DEF RegisterTypeOK, fieldVars

LEMMA KeepAcc == AccTypeOK /\ UNCHANGED accVars => AccTypeOK'
BY Zenon DEF AccTypeOK, accVars

LEMMA KeepControlType ==
  ControlTypeOK /\ UNCHANGED <<interruptVars, idleVars, runVars, cycleVars, process>>
    => ControlTypeOK'
BY Zenon DEF ControlTypeOK, interruptVars, idleVars, runVars, cycleVars

LEMMA KeepDevice == DeviceInv /\ UNCHANGED decVars => DeviceInv'
<1> SUFFICES ASSUME DeviceInv, UNCHANGED decVars PROVE DeviceInv'
  OBVIOUS
<1> QED
  BY Zenon DEF DeviceInv, DECWriterTypeOK, NoStrandedInput, PrinterAlwaysReady,
               decVars, keyboardVars, printerVars

LEMMA KeepClock == ClockTypeOK /\ UNCHANGED clockVars => ClockTypeOK'
BY Zenon DEF ClockTypeOK, clockVars

-----------------------------------------------------------------------------
(* Memory.                                                                 *)
LEMMA ReadType == ASSUME MemoryTypeOK, NEW a PROVE Read(a) \in Word
BY ZeroWord, Zenon DEF MemoryTypeOK, Read

LEMMA WrittenType ==
  ASSUME MemoryTypeOK, NEW a \in Address15, NEW w \in Word
  PROVE  /\ DOMAIN Written(a, w) \subseteq Address15
         /\ \A c \in DOMAIN Written(a, w) : Written(a, w)[c] \in Word
BY Zenon DEF MemoryTypeOK, Written

LEMMA AddressType ==
  ASSUME NEW f \in Field, NEW w \in Word
  PROVE  <<f, w>> \in Address15 /\ <<f, w>>[1] = f /\ <<f, w>>[2] = w
BY DEF Address15

LEMMA AddressParts ==
  ASSUME NEW a \in Address15
  PROVE  a[1] \in Field /\ a[2] \in Word
BY DEF Address15

LEMMA HereType == ASSUME RegisterTypeOK PROVE Here \in Address15
BY AddressType, Zenon DEF RegisterTypeOK, Here

LEMMA WriteStep == ASSUME MemoryTypeOK, NEW w \in Word, Write(w) PROVE MemoryTypeOK'
<1>1. memoryAddress \in Address15
  BY Zenon DEF MemoryTypeOK
<1>2. /\ DOMAIN Written(memoryAddress, w) \subseteq Address15
      /\ \A c \in DOMAIN Written(memoryAddress, w) : Written(memoryAddress, w)[c] \in Word
  BY <1>1, WrittenType
<1> QED
  BY <1>1, <1>2, Zenon DEF MemoryTypeOK, Write

LEMMA LoadStep == ASSUME MemoryTypeOK, Load PROVE MemoryTypeOK'
BY ReadType, Zenon DEF MemoryTypeOK, Load

LEMMA SkipType ==
  ASSUME RegisterTypeOK, NEW condition, Skip(condition)
  PROVE  programCounter' \in Word
BY IncType, Zenon DEF RegisterTypeOK, Skip

(* The rim loader is a program.                                            *)
LEMMA RimWordsType == ASSUME NEW i \in 1 .. 18 PROVE RimWords[i] \in Word
<1>1. /\ \o6014 \in Word /\ \o6011 \in Word /\ \o5357 \in Word /\ \o6016 \in Word
      /\ \o7106 \in Word /\ \o7006 \in Word /\ \o7510 \in Word /\ \o5367 \in Word
      /\ \o7420 \in Word /\ \o3776 \in Word /\ \o3376 \in Word /\ 0 \in Word
  BY DEF Word
<1>2. RimWords \in Seq(Word) /\ Len(RimWords) = 18
  BY <1>1 DEF RimWords
<1> QED
  BY <1>2, ElementOfSeq

LEMMA RimIsImage == IsImage(RimImage) /\ RimImage.last \in DOMAIN RimImage.cells
<1> DEFINE cells == [w \in \o7756 .. \o7777 |-> RimWords[w - \o7755]]
<1>2. \A w \in \o7756 .. \o7777 : w - \o7755 \in 1 .. 18
  OBVIOUS
<1>3. DOMAIN cells = \o7756 .. \o7777 /\ \A w \in \o7756 .. \o7777 : cells[w] \in Word
  BY RimWordsType, <1>2
<1>4. RimImage.cells = cells /\ RimImage.last = \o7777 /\ RimImage.start = \o7756
  BY DEF RimImage
<1> HIDE DEF cells
<1>5. \o7756 .. \o7777 \subseteq Word
  BY DEF Word
<1>6. \o7777 \in \o7756 .. \o7777 /\ \o7756 \in \o7756 .. \o7777
  OBVIOUS
<1> QED
  BY <1>3, <1>4, <1>5, <1>6 DEF IsImage

LEMMA InFieldType ==
  ASSUME NEW image, IsImage(image), NEW f \in Field
  PROVE  /\ InField(f, image) \subseteq Address15
         /\ \A c \in InField(f, image) : c[2] \in DOMAIN image.cells /\ image.cells[c[2]] \in Word
<1> SUFFICES ASSUME NEW c \in InField(f, image)
             PROVE  /\ c \in Address15
                    /\ c[2] \in DOMAIN image.cells /\ image.cells[c[2]] \in Word
  OBVIOUS
<1>1. PICK w \in DOMAIN image.cells : c = <<f, w>>
  BY Zenon DEF InField
<1>2. w \in Word /\ image.cells[w] \in Word
  BY Zenon DEF IsImage
<1> QED
  BY <1>1, <1>2, AddressType

LEMMA DepositedStep ==
  ASSUME MemoryTypeOK, RegisterTypeOK, NEW image, IsImage(image),
         image.last \in DOMAIN image.cells, deposited(image)
  PROVE  MemoryTypeOK' /\ programCounter' \in Word
<1> DEFINE cells == InField(instField, image)
<1>1. instField \in Field
  BY Zenon DEF RegisterTypeOK
<1>2. /\ cells \subseteq Address15
      /\ \A c \in cells : image.cells[c[2]] \in Word
  BY <1>1, InFieldType
<1>3. image.last \in Word /\ image.start \in Word /\ image.cells[image.last] \in Word
  BY Zenon DEF IsImage
<1>4. <<instField, image.last>> \in Address15
  BY <1>1, <1>3, AddressType
<1>5. /\ core' = [c \in DOMAIN core \cup cells |-> IF c \in cells THEN image.cells[c[2]] ELSE core[c]]
      /\ memoryAddress' = <<instField, image.last>>
      /\ memoryBuffer' = image.cells[image.last]
      /\ programCounter' = image.start
  BY Zenon DEF deposited
<1> HIDE DEF cells
<1>6. DOMAIN core' = DOMAIN core \cup cells
  BY <1>5, Zenon
<1>7. \A c \in DOMAIN core' : core'[c] \in Word
  BY <1>2, <1>5, Zenon DEF MemoryTypeOK
<1> QED
  BY <1>2, <1>3, <1>4, <1>5, <1>6, <1>7, Zenon DEF MemoryTypeOK

-----------------------------------------------------------------------------
(* The inductive invariant behind TypeOK: the DECWriter keeps its promises *)
(* too, because performInputOutput is only as well typed as what it finds. *)
TypeInv ==
  MemoryTypeOK /\ RegisterTypeOK /\ AccTypeOK /\ ControlTypeOK /\ DeviceInv /\ ClockTypeOK

(* Most actions leave most of the machine alone.                           *)
LEMMA KeepAll ==
  TypeInv /\ UNCHANGED <<cpuVars, devVars>> => TypeInv'
<1> SUFFICES ASSUME TypeInv, UNCHANGED <<cpuVars, devVars>> PROVE TypeInv'
  OBVIOUS
<1>1. /\ UNCHANGED memVars /\ UNCHANGED <<programCounter, instructionReg, fieldVars>>
      /\ UNCHANGED accVars
      /\ UNCHANGED <<interruptVars, idleVars, runVars, cycleVars, process>>
      /\ UNCHANGED decVars /\ UNCHANGED clockVars
  BY Zenon DEF cpuVars, devVars
<1> QED
  BY <1>1, KeepMemory, KeepRegisters, KeepAcc, KeepControlType, KeepDevice, KeepClock,
     Zenon DEF TypeInv

LEMMA ThrowStep == ASSUME TypeInv, Throw PROVE TypeInv'
<1>1. ControlTypeOK'
  BY Zenon DEF TypeInv, Throw, ControlTypeOK, interruptVars, idleVars, runVars, cycleVars
<1>2. /\ UNCHANGED memVars /\ UNCHANGED <<programCounter, instructionReg, fieldVars>>
      /\ UNCHANGED accVars /\ UNCHANGED decVars /\ UNCHANGED clockVars
  BY Zenon DEF Throw, devVars
<1> QED
  BY <1>1, <1>2, KeepMemory, KeepRegisters, KeepAcc, KeepDevice, KeepClock, Zenon DEF TypeInv

(* The Interrupt cycle.                                                    *)
LEMMA InterruptCycleStep == ASSUME TypeInv, InterruptCycle PROVE TypeInv'
<1>1. CASE PollDevices
  <2>1. ControlTypeOK'
    BY <1>1, Zenon DEF TypeInv, PollDevices, ControlTypeOK, idleVars, runVars
  <2>2. /\ UNCHANGED memVars /\ UNCHANGED <<programCounter, instructionReg, fieldVars>>
        /\ UNCHANGED accVars /\ UNCHANGED decVars /\ UNCHANGED clockVars
    BY <1>1, Zenon DEF PollDevices, devVars
  <2> QED
    BY <2>1, <2>2, KeepMemory, KeepRegisters, KeepAcc, KeepDevice, KeepClock, Zenon DEF TypeInv
<1>2. ASSUME NEW request \in BOOLEAN, NEW state \in CycleState, Polled(request, state)
      PROVE  TypeInv'
  <2>1. ControlTypeOK'
    BY <1>2, Zenon DEF TypeInv, Polled, ControlTypeOK, idleVars, runVars
  <2>2. /\ UNCHANGED memVars /\ UNCHANGED <<programCounter, instructionReg, fieldVars>>
        /\ UNCHANGED accVars /\ UNCHANGED decVars /\ UNCHANGED clockVars
    BY <1>2, Zenon DEF Polled, devVars
  <2> QED
    BY <2>1, <2>2, KeepMemory, KeepRegisters, KeepAcc, KeepDevice, KeepClock, Zenon DEF TypeInv
<1>3. interrupt_request \in BOOLEAN /\ FALSE \in BOOLEAN
      /\ "Interrupt" \in CycleState /\ "Fetch" \in CycleState
  BY Zenon DEF TypeInv, ControlTypeOK, CycleState
<1>4. CASE TakeInterrupt
  BY <1>2, <1>3, <1>4, Zenon DEF TakeInterrupt
<1>5. CASE AwaitService
  BY <1>2, <1>3, <1>5, Zenon DEF AwaitService
<1>6. CASE NoInterrupt
  BY <1>2, <1>3, <1>6, Zenon DEF NoInterrupt
<1>7. CASE AwaitUnconnected
  BY <1>7, ThrowStep, Zenon DEF AwaitUnconnected
<1> QED
  BY <1>1, <1>4, <1>5, <1>6, <1>7, Zenon DEF InterruptCycle

LEMMA FetchStep == ASSUME TypeInv, Fetch PROVE TypeInv'
<1> DEFINE word == Read(Here)
<1>1. word \in Word /\ Here \in Address15
  BY ReadType, HereType, Zenon DEF TypeInv
<1>2. programCounter \in Word /\ instField \in Field
  BY Zenon DEF TypeInv, RegisterTypeOK
<1>3. <<instField, ImmediateAddress(programCounter, word)>> \in Address15
  BY <1>1, <1>2, ImmediateAddressType, AddressType
<1>4. /\ instructionReg' = word
      /\ memoryBuffer' = word
      /\ memoryAddress' = IF Here \in DOMAIN core /\ IsMemoryInstruction(word)
                            THEN <<instField, ImmediateAddress(programCounter, word)>>
                            ELSE Here
      /\ programCounter' = Inc(programCounter)
      /\ cycle_state' = IF Indirect(word) THEN "Defer" ELSE "Execute"
      /\ core' = core
  BY Zenon DEF Fetch
<1> HIDE DEF word
<1>5. MemoryTypeOK'
  BY <1>1, <1>3, <1>4, Zenon DEF TypeInv, MemoryTypeOK
<1>6. RegisterTypeOK'
  BY <1>1, <1>2, <1>4, IncType, Zenon DEF TypeInv, RegisterTypeOK, Fetch, fieldVars
<1>7. ControlTypeOK'
  <2>1. cycle_state' \in CycleState
    BY <1>4, Zenon DEF CycleState
  <2> QED
    BY <2>1, Zenon DEF TypeInv, ControlTypeOK, Fetch, interruptVars, idleVars
<1>8. UNCHANGED accVars /\ UNCHANGED decVars /\ UNCHANGED clockVars
  BY Zenon DEF Fetch, devVars
<1> QED
  BY <1>5, <1>6, <1>7, <1>8, KeepAcc, KeepDevice, KeepClock, Zenon DEF TypeInv

LEMMA DeferStep == ASSUME TypeInv, Defer PROVE TypeInv'
<1> DEFINE pointer == <<memoryAddress[1], ImmediateAddress(memoryAddress[2], instructionReg)>>
           auto    == AutoIndexed(instructionReg)
           target  == IF auto THEN Inc(Read(pointer)) ELSE Read(pointer)
           field   == IF UsesDataField(instructionReg) THEN dataField ELSE memoryAddress[1]
<1>1. /\ core' = IF auto THEN Written(pointer, target) ELSE core
      /\ memoryBuffer' = target
      /\ memoryAddress' = <<field, target>>
  BY Zenon DEF Defer
<1>2. memoryAddress[1] \in Field /\ memoryAddress[2] \in Word
  BY AddressParts, Zenon DEF TypeInv, MemoryTypeOK
<1>3. instructionReg \in Word /\ dataField \in Field
  BY Zenon DEF TypeInv, RegisterTypeOK
<1>4. pointer \in Address15
  BY <1>2, <1>3, ImmediateAddressType, AddressType
<1>5. target \in Word
  <2>1. Read(pointer) \in Word
    BY ReadType, Zenon DEF TypeInv
  <2> QED
    BY <2>1, IncType, Zenon
<1>6. field \in Field
  BY <1>2, <1>3, Zenon
<1> HIDE DEF pointer, target, field, auto
<1>7. <<field, target>> \in Address15
  BY <1>5, <1>6, AddressType
<1>8. /\ DOMAIN Written(pointer, target) \subseteq Address15
      /\ \A c \in DOMAIN Written(pointer, target) : Written(pointer, target)[c] \in Word
  BY <1>4, <1>5, WrittenType, Zenon DEF TypeInv
<1>9. MemoryTypeOK'
  BY <1>1, <1>5, <1>7, <1>8, Zenon DEF TypeInv, MemoryTypeOK
<1>10. ControlTypeOK'
  BY Zenon DEF TypeInv, ControlTypeOK, CycleState, Defer, interruptVars, idleVars
<1>11. /\ UNCHANGED <<programCounter, instructionReg, fieldVars>>
       /\ UNCHANGED accVars /\ UNCHANGED decVars /\ UNCHANGED clockVars
  BY Zenon DEF Defer, devVars
<1> QED
  BY <1>9, <1>10, <1>11, KeepRegisters, KeepAcc, KeepDevice, KeepClock, Zenon DEF TypeInv

-----------------------------------------------------------------------------
(* The Execute cycle.  Its end, in the control registers.                  *)
LEMMA EndExecuteType ==
  ASSUME TypeInv, EndExecute, UNCHANGED <<interruptVars, idleVars, run_flag>>
  PROVE  ControlTypeOK'
BY Zenon DEF TypeInv, ControlTypeOK, CycleState, EndExecute, interruptVars, idleVars, cycleVars

(* An instruction that only computes: what is left to show is what it      *)
(* computes.                                                               *)
LEMMA ComputeStep ==
  ASSUME TypeInv, EndExecute, KeepControl,
         MemoryTypeOK', AccTypeOK', programCounter' \in Word
  PROVE  TypeInv'
<1>1. ControlTypeOK'
  BY EndExecuteType, Zenon DEF KeepControl
<1>2. RegisterTypeOK'
  BY Zenon DEF TypeInv, RegisterTypeOK, KeepControl, EndExecute, fieldVars
<1>3. UNCHANGED decVars /\ UNCHANGED clockVars
  BY Zenon DEF KeepControl, devVars
<1> QED
  BY <1>1, <1>2, <1>3, KeepDevice, KeepClock, Zenon DEF TypeInv

LEMMA AccStep ==
  ASSUME TypeInv, KeepMQ, accumulator' \in Lac
  PROVE  AccTypeOK'
BY Zenon DEF TypeInv, AccTypeOK, KeepMQ

LEMMA KeepPc == ASSUME TypeInv, UNCHANGED programCounter PROVE programCounter' \in Word
BY Zenon DEF TypeInv, RegisterTypeOK

LEMMA JumpType == ASSUME TypeInv, Jump, UNCHANGED instructionReg PROVE RegisterTypeOK'
<1>1. memoryAddress[2] \in Word
  BY AddressParts, Zenon DEF TypeInv, MemoryTypeOK
<1> QED
  BY <1>1, Zenon DEF Jump, TypeInv, RegisterTypeOK

LEMMA MemoryReferenceStep == ASSUME TypeInv, MemoryReference PROVE TypeInv'
<1>1. /\ Read(memoryAddress) \in Word /\ Inc(Read(memoryAddress)) \in Word
      /\ accumulator \in Lac /\ Acc(accumulator) \in Word
      /\ programCounter \in Word
      /\ memoryAddress[2] \in Word
  BY ReadType, IncType, AccType, AddressParts, Zenon
     DEF TypeInv, AccTypeOK, RegisterTypeOK, MemoryTypeOK
<1>2. CASE ExecuteAND
  <2>1. MemoryTypeOK'
    BY <1>2, LoadStep, Zenon DEF ExecuteAND, TypeInv
  <2>2. AccTypeOK'
    <3>1. And(Acc(accumulator), Read(memoryAddress)) \in Int
      BY <1>1, AndOrType, WordIsInt
    <3>2. accumulator' \in Lac
      BY <1>1, <1>2, <3>1, WithAccType, Zenon DEF ExecuteAND
    <3> QED
      BY <1>2, <3>2, AccStep, Zenon DEF ExecuteAND
  <2> QED
    BY <1>2, <2>1, <2>2, KeepPc, ComputeStep, Zenon DEF ExecuteAND
<1>3. CASE ExecuteTAD
  <2>1. MemoryTypeOK'
    BY <1>3, LoadStep, Zenon DEF ExecuteTAD, TypeInv
  <2>2. AccTypeOK'
    BY <1>1, <1>3, PlusType, AccStep, Zenon DEF ExecuteTAD
  <2> QED
    BY <1>3, <2>1, <2>2, KeepPc, ComputeStep, Zenon DEF ExecuteTAD
<1>4. CASE ExecuteISZ
  <2>1. MemoryTypeOK'
    BY <1>1, <1>4, WriteStep, Zenon DEF ExecuteISZ, TypeInv
  <2>2. AccTypeOK'
    BY <1>4, KeepAcc, Zenon DEF ExecuteISZ, TypeInv
  <2>3. programCounter' \in Word
    BY <1>4, SkipType, Zenon DEF ExecuteISZ, TypeInv
  <2> QED
    BY <1>4, <2>1, <2>2, <2>3, ComputeStep, Zenon DEF ExecuteISZ
<1>5. CASE ExecuteDCA
  <2>1. MemoryTypeOK'
    BY <1>1, <1>5, WriteStep, Zenon DEF ExecuteDCA, TypeInv
  <2>2. AccTypeOK'
    <3>1. 0 \in Int
      OBVIOUS
    <3> QED
      BY <1>1, <1>5, <3>1, WithAccType, AccStep, Zenon DEF ExecuteDCA
  <2> QED
    BY <1>5, <2>1, <2>2, KeepPc, ComputeStep, Zenon DEF ExecuteDCA
<1>6. CASE ExecuteJMS
  <2>1. MemoryTypeOK'
    BY <1>1, <1>6, WriteStep, Zenon DEF ExecuteJMS, TypeInv
  <2>2. AccTypeOK'
    BY <1>6, KeepAcc, Zenon DEF ExecuteJMS, TypeInv
  <2>3. programCounter' \in Word
    BY <1>1, <1>6, IncType, Zenon DEF ExecuteJMS
  <2> QED
    BY <1>6, <2>1, <2>2, <2>3, ComputeStep, Zenon DEF ExecuteJMS
<1>7. CASE ExecuteJMP
  <2>1. ControlTypeOK'
    BY <1>7, EndExecuteType, Zenon DEF ExecuteJMP
  <2>2. RegisterTypeOK'
    BY <1>7, JumpType, Zenon DEF ExecuteJMP, EndExecute
  <2>3. UNCHANGED memVars /\ UNCHANGED accVars /\ UNCHANGED decVars /\ UNCHANGED clockVars
    BY <1>7, Zenon DEF ExecuteJMP, devVars
  <2> QED
    BY <2>1, <2>2, <2>3, KeepMemory, KeepAcc, KeepDevice, KeepClock, Zenon DEF TypeInv
<1>8. CASE JumpToPrevious
  <2>1. ControlTypeOK'
    BY <1>1, <1>8, Zenon DEF JumpToPrevious, TypeInv, ControlTypeOK, CycleState, EndExecute,
                            interruptVars, cycleVars
  <2>2. RegisterTypeOK'
    BY <1>8, JumpType, Zenon DEF JumpToPrevious, EndExecute
  <2>3. MemoryTypeOK'
    BY <1>8, LoadStep, Zenon DEF JumpToPrevious, TypeInv
  <2>4. UNCHANGED accVars /\ UNCHANGED decVars /\ UNCHANGED clockVars
    BY <1>8, Zenon DEF JumpToPrevious, devVars
  <2> QED
    BY <2>1, <2>2, <2>3, <2>4, KeepAcc, KeepDevice, KeepClock, Zenon DEF TypeInv
<1>9. CASE JumpToSelfWaiting
  <2>1. ControlTypeOK'
    BY <1>9, Zenon DEF JumpToSelfWaiting, TypeInv, ControlTypeOK, CycleState, EndExecute, cycleVars
  <2>2. /\ UNCHANGED <<programCounter, instructionReg, fieldVars>> /\ UNCHANGED memVars
        /\ UNCHANGED accVars /\ UNCHANGED decVars /\ UNCHANGED clockVars
    BY <1>9, Zenon DEF JumpToSelfWaiting, EndExecute, devVars
  <2> QED
    BY <2>1, <2>2, KeepMemory, KeepRegisters, KeepAcc, KeepDevice, KeepClock, Zenon DEF TypeInv
<1>10. CASE JumpToSelfStopping
  <2>1. ControlTypeOK'
    BY <1>10, Zenon DEF JumpToSelfStopping, TypeInv, ControlTypeOK, CycleState, EndExecute,
                        cycleVars, interruptVars, idleVars
  <2>2. RegisterTypeOK'
    BY <1>10, JumpType, Zenon DEF JumpToSelfStopping, EndExecute
  <2>3. UNCHANGED memVars /\ UNCHANGED accVars /\ UNCHANGED decVars /\ UNCHANGED clockVars
    BY <1>10, Zenon DEF JumpToSelfStopping, devVars
  <2> QED
    BY <2>1, <2>2, <2>3, KeepMemory, KeepAcc, KeepDevice, KeepClock, Zenon DEF TypeInv
<1> QED
  BY <1>2, <1>3, <1>4, <1>5, <1>6, <1>7, <1>8, <1>9, <1>10, Zenon DEF MemoryReference

(* What GTF and the keyboard put into the accumulator is a number.         *)
LEMMA FlagsType ==
  ASSUME NEW k \in {0, 1}, NEW g \in {0, 1}, NEW r \in {0, 1}, NEW e \in {0, 1},
         NEW i \in Field, NEW d \in Field
  PROVE  \o4000 * k + \o2000 * g + \o1000 * r + \o200 * e + 8 * i + d \in Int
BY DEF Field

LEMMA KeyboardAccType ==
  ASSUME TypeInv, NEW op, NEW acc \in Word
  PROVE  KeyboardAcc(op, acc) \in Int
<1>1. keyboardBuffer \in Byte
  BY Zenon DEF TypeInv, DeviceInv, DECWriterTypeOK, Byte
<1>2. keyboardBuffer % \o400 \in Word
  BY <1>1 DEF Byte, Word
<1>3. Or(acc, keyboardBuffer % \o400) \in Word
  BY <1>2, AndOrType
<1> QED
  BY <1>2, <1>3, WordIsInt, Zenon DEF KeyboardAcc

(* The processor's own IOTs.                                               *)
LEMMA ProcessorStep ==
  ASSUME TypeInv, SKON \/ ION \/ IOF \/ SRQ \/ GTF \/ RTF \/ SGT \/ CAF
  PROVE  TypeInv'
<1> USE DEF ProcessorIOT
<1>1. ASSUME NEW op, ProcessorIOT(op), ControlTypeOK', RegisterTypeOK', AccTypeOK'
      PROVE  TypeInv'
  <2>1. UNCHANGED memVars /\ UNCHANGED decVars /\ UNCHANGED clockVars
    BY <1>1, Zenon DEF devVars
  <2> QED
    BY <1>1, <2>1, KeepMemory, KeepDevice, KeepClock, Zenon DEF TypeInv
<1>2. accumulator \in Lac /\ Acc(accumulator) \in Word /\ Link(accumulator) \in {0, 1}
  BY AccType, Zenon DEF TypeInv, AccTypeOK
<1>3. ASSUME NEW op, NEW condition, SkipIOT(op, condition)
      PROVE  TypeInv'
  <2>1. ControlTypeOK'
    BY <1>3, EndExecuteType, Zenon DEF SkipIOT
  <2>2. programCounter' \in Word
    BY <1>3, SkipType, Zenon DEF SkipIOT, TypeInv
  <2>3. RegisterTypeOK'
    BY <1>3, <2>2, Zenon DEF SkipIOT, EndExecute, TypeInv, RegisterTypeOK, fieldVars
  <2>4. AccTypeOK'
    BY <1>3, KeepAcc, Zenon DEF SkipIOT, TypeInv
  <2> QED
    BY <1>1, <1>3, <2>1, <2>3, <2>4, Zenon DEF SkipIOT
<1>4. CASE SKON \/ SRQ \/ SGT
  BY <1>3, <1>4, Zenon DEF SKON, SRQ, SGT
<1>5. CASE ION
  <2>1. ControlTypeOK'
    BY <1>5, Zenon DEF ION, TypeInv, ControlTypeOK, CycleState, EndExecute, idleVars, cycleVars
  <2>2. UNCHANGED accVars /\ UNCHANGED <<programCounter, instructionReg, fieldVars>>
    BY <1>5, Zenon DEF ION, EndExecute
  <2> QED
    BY <1>1, <1>5, <2>1, <2>2, KeepAcc, KeepRegisters, Zenon DEF ION, TypeInv
<1>6. CASE IOF
  <2>1. ControlTypeOK'
    BY <1>6, Zenon DEF IOF, TypeInv, ControlTypeOK, CycleState, EndExecute, idleVars, cycleVars
  <2>2. UNCHANGED accVars /\ UNCHANGED <<programCounter, instructionReg, fieldVars>>
    BY <1>6, Zenon DEF IOF, EndExecute
  <2> QED
    BY <1>1, <1>6, <2>1, <2>2, KeepAcc, KeepRegisters, Zenon DEF IOF, TypeInv
<1>7. CASE GTF
  <2> DEFINE flags == \o4000 * Link(accumulator) + \o2000 * BitOf(greater_than_flag)
                        + \o1000 * BitOf(interrupt_request) + \o200 * BitOf(interrupt_enable)
                        + 8 * instField + dataField
  <2>1. flags \in Int
    <3>1. /\ BitOf(greater_than_flag) \in {0, 1} /\ BitOf(interrupt_request) \in {0, 1}
          /\ BitOf(interrupt_enable) \in {0, 1}
      BY BitOfType, Zenon
    <3>2. instField \in Field /\ dataField \in Field
      BY Zenon DEF TypeInv, RegisterTypeOK
    <3> QED
      BY <1>2, <3>1, <3>2, FlagsType
  <2>2. accumulator' \in Lac
    <3>1. accumulator' = WithAcc(accumulator, flags)
      BY <1>7, Zenon DEF GTF
    <3> HIDE DEF flags
    <3> QED
      BY <1>2, <2>1, <3>1, WithAccType, Zenon
  <2>3. AccTypeOK'
    BY <1>7, <2>2, Zenon DEF GTF, TypeInv, AccTypeOK
  <2>4. ControlTypeOK'
    BY <1>7, EndExecuteType, Zenon DEF GTF
  <2>5. UNCHANGED <<programCounter, instructionReg, fieldVars>>
    BY <1>7, Zenon DEF GTF, EndExecute
  <2> QED
    BY <1>1, <1>7, <2>3, <2>4, <2>5, KeepRegisters, Zenon DEF GTF, TypeInv
<1>8. CASE RTF
  <2>1. FieldReg(Acc(accumulator)) \in Field /\ Acc(accumulator) % 8 \in Field
    BY <1>2, FieldsType
  <2>2. RegisterTypeOK'
    BY <1>8, <2>1, Zenon DEF RTF, EndExecute, TypeInv, RegisterTypeOK
  <2>3. accumulator' \in Lac
    <3>1. accumulator' = WithLink(accumulator, 0) \/ accumulator' = WithLink(accumulator, 1)
      BY <1>8 DEF RTF, BitOf
    <3>2. 0 \in {0, 1} /\ 1 \in {0, 1}
      OBVIOUS
    <3> QED
      BY <1>2, <3>1, <3>2, WithLinkType, Zenon
  <2>4. greater_than_flag' \in BOOLEAN
    <3>1. greater_than_flag' = Bit(Acc(accumulator), \o2000)
      BY <1>8, Zenon DEF RTF
    <3>2. Bit(Acc(accumulator), \o2000) \in BOOLEAN
      BY ZenonT(40) DEF Bit
    <3> QED
      BY <3>1, <3>2
  <2>5. AccTypeOK'
    BY <1>8, <2>3, <2>4, ZenonT(40) DEF RTF, TypeInv, AccTypeOK
  <2>6. interrupt_delayed' \in {0, 2}
    BY <1>8, Zenon DEF RTF, TypeInv, ControlTypeOK
  <2>7. ControlTypeOK'
    BY <1>8, <2>6, Zenon DEF RTF, TypeInv, ControlTypeOK, CycleState, EndExecute, idleVars, cycleVars
  <2> QED
    BY <1>1, <1>8, <2>2, <2>5, <2>7, Zenon DEF RTF
<1>9. CASE CAF
  <2>1. RegisterTypeOK'
    BY <1>9, ZeroWord, Zenon DEF CAF, reset, EndExecute, TypeInv, RegisterTypeOK, fieldVars
  <2>2. 0 \in Lac
    BY DEF Lac
  <2>3. AccTypeOK'
    BY <1>9, <2>2, Zenon DEF CAF, reset, TypeInv, AccTypeOK
  <2>4. ControlTypeOK'
    BY <1>9, Zenon DEF CAF, reset, TypeInv, ControlTypeOK, CycleState, EndExecute, idleVars, cycleVars
  <2> QED
    BY <1>1, <1>9, <2>1, <2>3, <2>4, Zenon DEF CAF, reset
<1> QED
  BY <1>4, <1>5, <1>6, <1>7, <1>8, <1>9, Zenon

LEMMA FieldChangeStep == ASSUME TypeInv, CDF_CIF PROVE TypeInv'
<1>1. ControlTypeOK'
  BY EndExecuteType, Zenon DEF CDF_CIF
<1>2. RegisterTypeOK'
  <2>1. FieldReg(instructionReg) \in Field
    BY FieldsType, Zenon DEF TypeInv, RegisterTypeOK
  <2> QED
    BY <2>1, Zenon DEF CDF_CIF, EndExecute, TypeInv, RegisterTypeOK
<1>3. UNCHANGED memVars /\ UNCHANGED accVars /\ UNCHANGED decVars /\ UNCHANGED clockVars
  BY Zenon DEF CDF_CIF, devVars
<1> QED
  BY <1>1, <1>2, <1>3, KeepMemory, KeepAcc, KeepDevice, KeepClock, Zenon DEF TypeInv

(* What every device operation has in common.                              *)
LEMMA DeviceStep ==
  ASSUME TypeInv, NEW device, DeviceIOT(device),
         ControlTypeOK', programCounter' \in Word, accumulator' \in Lac,
         UNCHANGED instructionReg, DeviceInv', ClockTypeOK'
  PROVE  TypeInv'
<1>1. RegisterTypeOK'
  BY Zenon DEF DeviceIOT, TypeInv, RegisterTypeOK, fieldVars
<1>2. AccTypeOK'
  BY Zenon DEF DeviceIOT, TypeInv, AccTypeOK
<1> QED
  BY <1>1, <1>2, KeepMemory, Zenon DEF DeviceIOT, TypeInv

LEMMA DevicesStep ==
  ASSUME TypeInv, KeyboardIOT \/ PrinterIOT \/ ClockIOT \/ CLSKTest \/ CLSKClear
  PROVE  TypeInv'
<1>1. accumulator \in Lac /\ Acc(accumulator) \in Word /\ programCounter \in Word
  BY AccType, Zenon DEF TypeInv, AccTypeOK, RegisterTypeOK
<1>2. ASSUME NEW device, DeviceIOT(device), EndExecute
      PROVE  ControlTypeOK' /\ UNCHANGED instructionReg
  BY <1>2, EndExecuteType, Zenon DEF DeviceIOT, EndExecute
<1>3. CASE KeyboardIOT
  <2> DEFINE op == DeviceOpr(instructionReg)
  <2>1. /\ DeviceIOT(keyboardDevice) /\ EndExecute
        /\ KeyboardOperation(op, Acc(accumulator))
        /\ accumulator' = WithAcc(accumulator, KeyboardAcc(op, Acc(accumulator)))
        /\ Skip(KeyboardSkip(op))
        /\ UNCHANGED clockVars
    BY <1>3, Zenon DEF KeyboardIOT
  <2> HIDE DEF op
  <2>2. DeviceInv'
    BY <1>1, <2>1, KeyboardStep, Zenon DEF TypeInv
  <2>3. accumulator' \in Lac
    BY <1>1, <2>1, KeyboardAccType, WithAccType, Zenon
  <2>4. programCounter' \in Word
    BY <2>1, SkipType, Zenon DEF TypeInv
  <2> QED
    BY <1>2, <2>1, <2>2, <2>3, <2>4, KeepClock, DeviceStep, Zenon DEF TypeInv
<1>4. CASE PrinterIOT
  <2> DEFINE op == DeviceOpr(instructionReg)
  <2>1. /\ DeviceIOT(printerDevice) /\ EndExecute
        /\ PrinterOperation(op, Acc(accumulator))
        /\ Skip(PrinterSkip(op))
        /\ UNCHANGED <<accumulator, clockVars>>
    BY <1>4, Zenon DEF PrinterIOT
  <2> HIDE DEF op
  <2>2. DeviceInv'
    BY <1>1, <2>1, PrinterStep, Zenon DEF TypeInv
  <2>3. programCounter' \in Word
    BY <2>1, SkipType, Zenon DEF TypeInv
  <2> QED
    BY <1>1, <1>2, <2>1, <2>2, <2>3, KeepClock, DeviceStep, Zenon DEF TypeInv
<1>5. CASE ClockIOT
  <2>1. /\ DeviceIOT(clockDevice) /\ EndExecute
        /\ UNCHANGED <<programCounter, accumulator, decVars>>
    BY <1>5, Zenon DEF ClockIOT
  <2>2. ClockTypeOK'
    BY <1>5, Zenon DEF ClockIOT, CLEI, CLDI, TypeInv, ClockTypeOK, clockVars
  <2> QED
    BY <1>1, <1>2, <2>1, <2>2, KeepDevice, DeviceStep, Zenon DEF TypeInv
<1>6. CASE CLSKTest
  <2>1. DeviceIOT(clockDevice) /\ UNCHANGED <<instructionReg, accumulator, decVars>>
    BY <1>6, Zenon DEF CLSKTest
  <2>2. ClockTypeOK'
    BY <1>6, Zenon DEF CLSKTest, TestClockFlag, TypeInv, ClockTypeOK
  <2>3. programCounter' \in Word
    BY <1>6, SkipType, Zenon DEF CLSKTest, TypeInv
  <2>4. ControlTypeOK'
    BY <1>6, Zenon DEF CLSKTest, DeviceIOT, TypeInv, ControlTypeOK, interruptVars, idleVars, cycleVars
  <2> QED
    BY <1>1, <2>1, <2>2, <2>3, <2>4, KeepDevice, DeviceStep, Zenon DEF TypeInv
<1>7. CASE CLSKClear
  <2>1. ClockTypeOK'
    BY <1>7, Zenon DEF CLSKClear, ClearClockFlag, TypeInv, ClockTypeOK
  <2>2. ControlTypeOK'
    BY <1>7, EndExecuteType, Zenon DEF CLSKClear
  <2>3. /\ UNCHANGED <<programCounter, instructionReg, fieldVars>> /\ UNCHANGED memVars
        /\ UNCHANGED accVars /\ UNCHANGED decVars
    BY <1>7, Zenon DEF CLSKClear, EndExecute
  <2> QED
    BY <2>1, <2>2, <2>3, KeepMemory, KeepRegisters, KeepAcc, KeepDevice, Zenon DEF TypeInv
<1> QED
  BY <1>3, <1>4, <1>5, <1>6, <1>7, Zenon

LEMMA InputOutputStep == ASSUME TypeInv, InputOutput PROVE TypeInv'
<1>1. CASE UnconnectedIOT
  <2>1. MemoryTypeOK' /\ AccTypeOK' /\ programCounter' \in Word
    BY <1>1, KeepMemory, KeepAcc, KeepPc, Zenon DEF UnconnectedIOT, TypeInv
  <2> QED
    BY <1>1, <2>1, ComputeStep, Zenon DEF UnconnectedIOT
<1>2. CASE BadDeviceOperation
  BY <1>2, ThrowStep, Zenon DEF BadDeviceOperation
<1> QED
  BY <1>1, <1>2, ProcessorStep, FieldChangeStep, DevicesStep, Zenon DEF InputOutput

LEMMA OperateStep == ASSUME TypeInv, Operate PROVE TypeInv'
<1>1. /\ accumulator \in Lac /\ mulQuotient \in Word /\ greater_than_flag \in BOOLEAN
      /\ Bits \in Nat /\ SwitchRegister \in Word
  BY FieldsType, PDP8Assumption, Zenon DEF TypeInv, AccTypeOK, RegisterTypeOK, Bits
<1>2. CASE OPRGroup1
  <2>1. AccTypeOK'
    BY <1>1, <1>2, Group1Type, AccStep, Zenon DEF OPRGroup1
  <2>2. MemoryTypeOK' /\ programCounter' \in Word
    BY <1>2, KeepMemory, KeepPc, Zenon DEF OPRGroup1, TypeInv
  <2> QED
    BY <1>2, <2>1, <2>2, ComputeStep, Zenon DEF OPRGroup1
<1>3. CASE OPRGroup2
  <2>1. accumulator' \in Lac
    BY <1>1, <1>3, Group2Type, Zenon DEF OPRGroup2
  <2>2. AccTypeOK'
    BY <1>1, <1>3, <2>1, Zenon DEF OPRGroup2, AccTypeOK
  <2>3. programCounter' \in Word
    BY <1>3, SkipType, Zenon DEF OPRGroup2, TypeInv
  <2>4. RegisterTypeOK'
    BY <1>3, <2>3, Zenon DEF OPRGroup2, EndExecute, TypeInv, RegisterTypeOK, fieldVars
  <2>5. run_flag' \in BOOLEAN
    BY <1>3, Zenon DEF OPRGroup2
  <2>6. ControlTypeOK'
    BY <1>3, <2>5, Zenon DEF OPRGroup2, TypeInv, ControlTypeOK, CycleState, EndExecute,
                            interruptVars, idleVars, cycleVars
  <2>7. UNCHANGED memVars /\ UNCHANGED decVars /\ UNCHANGED clockVars
    BY <1>3, Zenon DEF OPRGroup2, devVars
  <2> QED
    BY <2>2, <2>4, <2>6, <2>7, KeepMemory, KeepDevice, KeepClock, Zenon DEF TypeInv
<1>4. CASE OPRGroup3
  <2>1. AccTypeOK'
    BY <1>1, <1>4, Group3Type, Zenon DEF OPRGroup3, AccTypeOK
  <2>2. MemoryTypeOK' /\ programCounter' \in Word
    BY <1>4, KeepMemory, KeepPc, Zenon DEF OPRGroup3, TypeInv
  <2> QED
    BY <1>4, <2>1, <2>2, ComputeStep, Zenon DEF OPRGroup3
<1>5. CASE BadOPR
  BY <1>5, ThrowStep, Zenon DEF BadOPR
<1> QED
  BY <1>2, <1>3, <1>4, <1>5, Zenon DEF Operate

-----------------------------------------------------------------------------
(* The person at the console.                                              *)
LEMMA AtMemoryStep ==
  ASSUME TypeInv, NEW command, AtMemory(command), MemoryTypeOK', programCounter' \in Word
  PROVE  TypeInv'
<1>1. RegisterTypeOK'
  BY Zenon DEF AtMemory, TypeInv, RegisterTypeOK, fieldVars
<1>2. /\ UNCHANGED accVars
      /\ UNCHANGED <<interruptVars, idleVars, runVars, cycleVars, process>>
      /\ UNCHANGED decVars /\ UNCHANGED clockVars
  BY Zenon DEF AtMemory, devVars
<1> QED
  BY <1>1, <1>2, KeepAcc, KeepControlType, KeepDevice, KeepClock, Zenon DEF TypeInv

LEMMA KeepAllButStep ==
  ASSUME TypeInv, NEW command, KeepAllBut(command), ControlTypeOK'
  PROVE  TypeInv'
<1>1. /\ UNCHANGED <<programCounter, instructionReg, fieldVars>> /\ UNCHANGED memVars
      /\ UNCHANGED accVars /\ UNCHANGED decVars /\ UNCHANGED clockVars
  BY Zenon DEF KeepAllBut, devVars
<1> QED
  BY <1>1, KeepMemory, KeepRegisters, KeepAcc, KeepDevice, KeepClock, Zenon DEF TypeInv

LEMMA ConsoleStep == ASSUME TypeInv, Console PROVE TypeInv'
<1>1. /\ Here \in Address15 /\ programCounter \in Word
      /\ instField \in Field /\ memoryAddress[1] \in Field
  BY HereType, AddressParts, Zenon DEF TypeInv, RegisterTypeOK, MemoryTypeOK
<1>2. ASSUME NEW n \in Arguments PROVE ToWord(n) \in Word
  BY ToWordType, PiDP8Assumption
<1>3. ASSUME NEW n \in Words PROVE ToWord(n) \in Word
  BY ToWordType, PiDP8Assumption
<1>4. ASSUME NEW n \in Arguments, LoadAddress(n) PROVE TypeInv'
  <2>1. <<memoryAddress[1], ToWord(n)>> \in Address15
    BY <1>1, <1>2, AddressType
  <2>2. MemoryTypeOK' /\ programCounter' \in Word
    BY <1>2, <1>4, <2>1, Zenon DEF LoadAddress, TypeInv, MemoryTypeOK
  <2> QED
    BY <1>4, <2>2, AtMemoryStep, Zenon DEF LoadAddress
<1>5. ASSUME NEW n \in Arguments, ExamineAt(n) PROVE TypeInv'
  <2>1. <<instField, ToWord(n)>> \in Address15
    BY <1>1, <1>2, AddressType
  <2>2. Read(<<instField, ToWord(n)>>) \in Word
    BY ReadType, Zenon DEF TypeInv
  <2>3. MemoryTypeOK' /\ programCounter' \in Word
    BY <1>1, <1>5, <2>1, <2>2, Zenon DEF ExamineAt, TypeInv, MemoryTypeOK
  <2> QED
    BY <1>5, <2>3, AtMemoryStep, Zenon DEF ExamineAt
<1>6. ASSUME NEW n \in Words, Deposit(n) PROVE TypeInv'
  <2>1. /\ DOMAIN Written(Here, ToWord(n)) \subseteq Address15
        /\ \A c \in DOMAIN Written(Here, ToWord(n)) : Written(Here, ToWord(n))[c] \in Word
    BY <1>1, <1>3, WrittenType, Zenon DEF TypeInv
  <2>2. MemoryTypeOK' /\ programCounter' \in Word
    BY <1>1, <1>3, <1>6, <2>1, IncType, Zenon DEF Deposit, deposit, MemoryTypeOK
  <2> QED
    BY <1>6, <2>2, AtMemoryStep, Zenon DEF Deposit
<1>7. CASE Examine
  <2>1. Read(Here) \in Word
    BY ReadType, Zenon DEF TypeInv
  <2>2. MemoryTypeOK' /\ programCounter' \in Word
    BY <1>1, <1>7, <2>1, IncType, Zenon DEF Examine, examine, TypeInv, MemoryTypeOK
  <2> QED
    BY <1>7, <2>2, AtMemoryStep, Zenon DEF Examine
<1>8. CASE LoadRim
  <2>1. MemoryTypeOK' /\ programCounter' \in Word
    BY <1>8, RimIsImage, DepositedStep, Zenon DEF LoadRim, TypeInv
  <2> QED
    BY <1>8, <2>1, AtMemoryStep, Zenon DEF LoadRim
<1>9. ASSUME NEW image \in Tapes, LoadTape(image) PROVE TypeInv'
  <2>1. MemoryTypeOK' /\ programCounter' \in Word
    BY <1>9, PiDP8Assumption, DepositedStep, Zenon DEF LoadTape, TypeInv
  <2> QED
    BY <1>9, <2>1, AtMemoryStep, Zenon DEF LoadTape
<1>10. CASE Cycle \/ Step \/ Continue \/ Stop \/ Quit
  <2>1. ControlTypeOK'
    BY <1>10, ZenonT(40) DEF Cycle, Step, Continue, Stop, Quit, KeepAllBut, TypeInv, ControlTypeOK,
                        interruptVars, idleVars, cycleVars, runVars
  <2> QED
    BY <1>10, <2>1, KeepAllButStep, Zenon DEF Cycle, Step, Continue, Stop, Quit
<1> QED
  BY <1>4, <1>5, <1>6, <1>7, <1>8, <1>9, <1>10, Zenon DEF Console

(* The window and the clock thread.                                        *)
LEMMA OutsideStep == ASSUME TypeInv, Window \/ ClockThread PROVE TypeInv'
<1>1. ASSUME UNCHANGED cpuVars, DeviceInv', ClockTypeOK' PROVE TypeInv'
  <2>1. /\ UNCHANGED <<programCounter, instructionReg, fieldVars>> /\ UNCHANGED memVars
        /\ UNCHANGED accVars
        /\ UNCHANGED <<interruptVars, idleVars, runVars, cycleVars, process>>
    BY <1>1, Zenon DEF cpuVars
  <2> QED
    BY <1>1, <2>1, KeepMemory, KeepRegisters, KeepAcc, KeepControlType, Zenon DEF TypeInv
<1>2. CASE WindowClosed
  <2>1. DeviceInv'
    BY <1>2, DisconnectStep, Zenon DEF WindowClosed, TypeInv
  <2> QED
    BY <1>1, <1>2, <2>1, KeepClock, Zenon DEF WindowClosed, AtWindow, TypeInv
<1>3. ASSUME NEW chars \in Typed, WindowInput(chars) PROVE TypeInv'
  <2>1. DeviceInv'
    BY <1>3, TypedLines, SelectedStep, Zenon DEF WindowInput, TypeInv
  <2> QED
    BY <1>1, <1>3, <2>1, KeepClock, Zenon DEF WindowInput, AtWindow, TypeInv
<1>4. CASE ClockThread
  <2>1. ClockTypeOK'
    BY <1>4, Zenon DEF ClockThread, Tick, TypeInv, ClockTypeOK
  <2> QED
    BY <1>1, <1>4, <2>1, KeepDevice, Zenon DEF ClockThread, TypeInv
<1> QED
  BY <1>2, <1>3, <1>4, Zenon DEF Window

LEMMA TypeStart == Init => TypeInv
<1> SUFFICES ASSUME NEW image \in Images, PDP8Init(image) PROVE TypeInv
  BY Zenon DEF Init
<1>1. IsImage(image)
  BY PiDP8Assumption
<1>2. 0 \in Field /\ 0 \in Lac /\ 0 \in {0, 2} /\ 0 \in Word
  BY DEF Field, Lac, Word
<1>3. image.last \in Word /\ image.start \in Word
  BY <1>1, Zenon DEF IsImage
<1>4. MemoryTypeOK
  <2>1. /\ InField(0, image) \subseteq Address15
        /\ \A c \in InField(0, image) : image.cells[c[2]] \in Word
    BY <1>1, <1>2, InFieldType
  <2>2. memoryAddress \in Address15
    BY <1>2, <1>3, AddressType, Zenon DEF PDP8Init
  <2>3. memoryBuffer \in Word
    BY <1>1, <1>2, Zenon DEF PDP8Init, IsImage
  <2>4. core = [c \in InField(0, image) |-> image.cells[c[2]]]
    BY Zenon DEF PDP8Init
  <2> QED
    BY <2>1, <2>2, <2>3, <2>4, Zenon DEF MemoryTypeOK
<1>5. RegisterTypeOK
  BY <1>2, <1>3, Zenon DEF PDP8Init, RegisterTypeOK
<1>6. AccTypeOK
  BY <1>2, Zenon DEF PDP8Init, AccTypeOK
<1>7. ControlTypeOK
  BY <1>2, Zenon DEF PDP8Init, ControlTypeOK, CycleState
<1>8. DeviceInv /\ ClockTypeOK
  BY DeviceStart, Zenon DEF PDP8Init, ClockInit, ClockTypeOK
<1> QED
  BY <1>4, <1>5, <1>6, <1>7, <1>8, Zenon DEF TypeInv

LEMMA TypeInvariant == Spec => []TypeInv
<1>1. TypeInv /\ [Next]_vars => TypeInv'
  <2> SUFFICES ASSUME TypeInv, [Next]_vars PROVE TypeInv'
    OBVIOUS
  <2>1. CASE instructionStep
    BY <2>1, InterruptCycleStep, FetchStep, DeferStep, MemoryReferenceStep, InputOutputStep,
       OperateStep, Zenon DEF instructionStep, Execute
  <2>2. CASE Console
    BY <2>2, ConsoleStep
  <2>3. CASE Window \/ ClockThread
    BY <2>3, OutsideStep
  <2>4. CASE UNCHANGED vars
    BY <2>4, KeepAll, Zenon DEF vars
  <2> QED
    BY <2>1, <2>2, <2>3, <2>4, Zenon DEF Next
<1> QED
  BY <1>1, TypeStart, PTL DEF Spec

(* Every register, every initialised cell and both devices keep values of  *)
(* their widths, for every program, console and choice of devices.         *)
THEOREM TypeCorrect == Spec => []TypeOK
<1>1. TypeInv => TypeOK
  BY Zenon DEF TypeInv, TypeOK, DeviceInv
<1> QED
  BY <1>1, TypeInvariant, PTL

(* In the whole machine too, no character waits in the window without one  *)
(* in the keyboard buffer whose flag announces it.                         *)
THEOREM MachineStrandsNoInput == Spec => []NoStrandedInput
<1>1. TypeInv => NoStrandedInput
  BY Zenon DEF TypeInv, DeviceInv
<1> QED
  BY <1>1, TypeInvariant, PTL

-----------------------------------------------------------------------------
(* What an instruction does.  The invariants say how far the address has   *)
(* been built up in each cycle.                                            *)

(* After Fetch, with an indirect reference to follow.                      *)
PointerAddressed ==
  cycle_state = "Defer" =>
    /\ Indirect(instructionReg)
    /\ FetchedFrom \in DOMAIN core
    /\ memoryAddress = NamedCell

AddressInv == PointerAddressed /\ OperandAddressed

(* The program counter has moved on by one since the fetch.                *)
LEMMA OneBack == ASSUME NEW p \in Word PROVE (Inc(p) + \o7777) % WordSize = p
BY DEF Inc, Word, WordSize

LEMMA IndirectIsMemory ==
  ASSUME NEW w \in Word, Indirect(w)
  PROVE  IsMemoryInstruction(w) /\ w # 0
<1>1. OpCode(w) < IOT /\ OpCode(w) \in 0 .. 7
  BY FieldsType DEF Indirect
<1>2. IsMemoryInstruction(w)
  BY <1>1 DEF IsMemoryInstruction, IOT, OPR
<1>3. w # 0
  BY DEF Indirect, Bit
<1> QED
  BY <1>2, <1>3

LEMMA DeviceIsNotMemory ==
  ASSUME NEW w, OpCode(w) = IOT \/ OpCode(w) = OPR
  PROVE  ~IsMemoryInstruction(w)
BY DEF IsMemoryInstruction

LEMMA AddressStart == Init => AddressInv
BY Zenon DEF Init, PDP8Init, AddressInv, PointerAddressed, OperandAddressed

(* In the cycles between instructions the invariant promises nothing.      *)
LEMMA Between ==
  ASSUME cycle_state' \in {"Interrupt", "Fetch"}
  PROVE  AddressInv'
BY Zenon DEF AddressInv, PointerAddressed, OperandAddressed

LEMMA KeepAddress ==
  ASSUME AddressInv,
         UNCHANGED <<cycle_state, instructionReg, core, memoryAddress, programCounter,
                     instField, dataField>>
  PROVE  AddressInv'
<1>1. FetchedFrom' = FetchedFrom /\ NamedCell' = NamedCell
  BY DEF FetchedFrom, NamedCell
<1>2. Read(NamedCell)' = Read(NamedCell)
  BY <1>1, Zenon DEF Read
<1>3. EffectiveAddress' = EffectiveAddress
  BY <1>1, <1>2, Zenon DEF EffectiveAddress
<1> QED
  BY <1>1, <1>3, Zenon DEF AddressInv, PointerAddressed, OperandAddressed

(* Fetch leaves memoryAddress at the cell the instruction names.           *)
LEMMA FetchAddresses == ASSUME TypeInv, Fetch PROVE AddressInv'
<1> DEFINE word == Read(Here)
<1>1. word \in Word /\ programCounter \in Word
  BY ReadType, Zenon DEF TypeInv, RegisterTypeOK
<1>2. /\ instructionReg' = word
      /\ memoryAddress' = IF Here \in DOMAIN core /\ IsMemoryInstruction(word)
                            THEN <<instField, ImmediateAddress(programCounter, word)>>
                            ELSE Here
      /\ programCounter' = Inc(programCounter)
      /\ cycle_state' = IF Indirect(word) THEN "Defer" ELSE "Execute"
      /\ core' = core /\ instField' = instField
  BY Zenon DEF Fetch, fieldVars
<1>3. Here \notin DOMAIN core => word = 0
  BY Zenon DEF Read
<1> HIDE DEF word
<1>4. (programCounter' + \o7777) % WordSize = programCounter
  BY <1>1, <1>2, OneBack
<1>5. FetchedFrom' = Here /\ FetchedFrom[2]' = programCounter
  BY <1>2, <1>4 DEF FetchedFrom, Here
<1>6. NamedCell' = <<instField, ImmediateAddress(programCounter, word)>>
  BY <1>2, <1>5 DEF NamedCell
<1>7. CASE Indirect(word)
  <2>1. IsMemoryInstruction(word) /\ Here \in DOMAIN core
    BY <1>1, <1>3, <1>7, IndirectIsMemory
  <2>2. PointerAddressed'
    BY <1>2, <1>5, <1>6, <1>7, <2>1, Zenon DEF PointerAddressed
  <2>3. OperandAddressed'
    BY <1>2, <1>7 DEF OperandAddressed
  <2> QED
    BY <2>2, <2>3, Zenon DEF AddressInv
<1>8. CASE ~Indirect(word)
  <2>1. PointerAddressed'
    BY <1>2, <1>8 DEF PointerAddressed
  <2>2. OperandAddressed'
    BY <1>2, <1>5, <1>6, <1>8, Zenon DEF OperandAddressed, EffectiveAddress
  <2> QED
    BY <2>1, <2>2, Zenon DEF AddressInv
<1> QED
  BY <1>7, <1>8

(* Defer follows the pointer that Fetch addressed: the cell it computes    *)
(* from memoryAddress is the cell the instruction names.                   *)
LEMMA PointerIsNamed ==
  ASSUME TypeInv, PointerAddressed, cycle_state = "Defer"
  PROVE  /\ memoryAddress[1] = instField
         /\ <<memoryAddress[1], ImmediateAddress(memoryAddress[2], instructionReg)>> = NamedCell
<1>1. FetchedFrom[2] \in Word
  <2>1. programCounter \in Word
    BY Zenon DEF TypeInv, RegisterTypeOK
  <2> QED
    BY <2>1 DEF FetchedFrom, Word, WordSize
<1>2. instructionReg \in Word
  BY Zenon DEF TypeInv, RegisterTypeOK
<1>3. memoryAddress = NamedCell
  BY Zenon DEF PointerAddressed
<1>4. /\ memoryAddress[1] = instField
      /\ memoryAddress[2] = ImmediateAddress(FetchedFrom[2], instructionReg)
  BY <1>3 DEF NamedCell
<1> QED
  BY <1>1, <1>2, <1>4, ImmediateAddressTwice DEF NamedCell

LEMMA DeferAddresses == ASSUME TypeInv, PointerAddressed, Defer PROVE AddressInv'
<1> DEFINE pointer == <<memoryAddress[1], ImmediateAddress(memoryAddress[2], instructionReg)>>
           auto    == AutoIndexed(instructionReg)
           target  == IF auto THEN Inc(Read(pointer)) ELSE Read(pointer)
           field   == IF UsesDataField(instructionReg) THEN dataField ELSE memoryAddress[1]
<1>1. cycle_state = "Defer"
  BY Zenon DEF Defer, Stepping
<1>2. pointer = NamedCell /\ memoryAddress[1] = instField
  BY <1>1, PointerIsNamed
<1>3. /\ core' = IF auto THEN Written(pointer, target) ELSE core
      /\ memoryAddress' = <<field, target>>
      /\ cycle_state' = "Execute"
      /\ UNCHANGED <<programCounter, instructionReg, instField, dataField>>
  BY Zenon DEF Defer, fieldVars
<1>4. field = IF UsesDataField(instructionReg) THEN dataField ELSE instField
  BY <1>2
<1>5. ~auto => target = Read(pointer)
  OBVIOUS
<1> HIDE DEF pointer, target, field, auto
<1>6. FetchedFrom' = FetchedFrom /\ NamedCell' = NamedCell
  BY <1>3 DEF FetchedFrom, NamedCell
<1>7. FetchedFrom \in DOMAIN core' /\ Indirect(instructionReg)
  BY <1>1, <1>3, Zenon DEF PointerAddressed, Written
<1>8. Read(NamedCell)' = target
  <2>1. CASE auto
    <3>1. core' = [c \in DOMAIN core \cup {pointer} |-> IF c = pointer THEN target ELSE core[c]]
      BY <1>3, <2>1, Zenon DEF Written
    <3>2. pointer \in DOMAIN core' /\ core'[pointer] = target
      BY <3>1, Zenon
    <3> QED
      BY <1>2, <1>6, <3>2, Zenon DEF Read
  <2>2. CASE ~auto
    BY <1>2, <1>3, <1>5, <1>6, <2>2, Zenon DEF Read
  <2> QED
    BY <2>1, <2>2
<1>9. OperandAddressed'
  BY <1>3, <1>4, <1>6, <1>7, <1>8, Zenon DEF OperandAddressed, EffectiveAddress
<1>10. PointerAddressed'
  BY <1>3 DEF PointerAddressed
<1> QED
  BY <1>9, <1>10, Zenon DEF AddressInv

(* Execute ends the instruction, but for the two steps of CLSK.            *)
LEMMA ExecuteEnds ==
  ASSUME Execute
  PROVE  \/ cycle_state' = "Interrupt"
         \/ cycle_state' = cycle_state /\ CLSKTest
         \/ Throw
<1>1. ASSUME EndExecute PROVE cycle_state' = "Interrupt"
  BY <1>1, Zenon DEF EndExecute
<1>2. CASE MemoryReference
  BY <1>1, <1>2, Zenon
     DEF MemoryReference, ExecuteAND, ExecuteTAD, ExecuteISZ, ExecuteDCA, ExecuteJMS,
         ExecuteJMP, JumpToPrevious, JumpToSelfWaiting, JumpToSelfStopping
<1>3. CASE InputOutput
  <2>1. ASSUME NEW op, ProcessorIOT(op) PROVE EndExecute
    BY <2>1, Zenon DEF ProcessorIOT
  <2>2. CASE SKON \/ ION \/ IOF \/ SRQ \/ GTF \/ RTF \/ SGT \/ CAF
    <3>1. CASE SKON \/ SRQ \/ SGT
      BY <1>1, <2>1, <3>1, Zenon DEF SKON, SRQ, SGT, SkipIOT
    <3>2. CASE ION \/ IOF
      BY <1>1, <2>1, <3>2, Zenon DEF ION, IOF
    <3>3. CASE GTF
      <4>1. ProcessorIOT(4)
        BY <3>3 DEF GTF
      <4> QED
        BY <1>1, <2>1, <4>1
    <3>4. CASE RTF
      BY <1>1, <2>1, <3>4, Zenon DEF RTF
    <3>5. CASE CAF
      <4>1. ProcessorIOT(7)
        BY <3>5 DEF CAF
      <4> QED
        BY <1>1, <2>1, <4>1
    <3> QED
      BY <2>2, <3>1, <3>2, <3>3, <3>4, <3>5, Zenon
  <2>3. CASE CDF_CIF \/ KeyboardIOT \/ PrinterIOT \/ ClockIOT \/ CLSKClear \/ UnconnectedIOT
    BY <1>1, <2>3, Zenon
       DEF CDF_CIF, KeyboardIOT, PrinterIOT, ClockIOT, CLSKClear, UnconnectedIOT
  <2>4. CASE CLSKTest
    BY <2>4, Zenon DEF CLSKTest, cycleVars
  <2>5. CASE BadDeviceOperation
    BY <2>5, Zenon DEF BadDeviceOperation
  <2> QED
    BY <1>3, <2>2, <2>3, <2>4, <2>5, Zenon DEF InputOutput
<1>4. CASE Operate
  BY <1>1, <1>4, Zenon DEF Operate, OPRGroup1, OPRGroup2, OPRGroup3, BadOPR
<1> QED
  BY <1>2, <1>3, <1>4, Zenon DEF Execute

LEMMA ThrowKeepsAddress == ASSUME AddressInv, Throw PROVE AddressInv'
BY KeepAddress, Zenon DEF Throw, memVars, fieldVars, cycleVars

LEMMA ExecuteAddresses == ASSUME AddressInv, Execute PROVE AddressInv'
<1>1. CASE cycle_state' = "Interrupt"
  BY <1>1, Between
<1>2. CASE cycle_state' = cycle_state /\ CLSKTest
  <2>1. /\ cycle_state' = "Execute"
        /\ OpCode(instructionReg) = IOT
        /\ instructionReg' = instructionReg
    BY <1>2, Zenon DEF CLSKTest, DeviceIOT, Executing, Stepping
  <2>2. ~IsMemoryInstruction(instructionReg')
    BY <2>1, DeviceIsNotMemory
  <2>3. OperandAddressed'
    BY <2>2, Zenon DEF OperandAddressed
  <2>4. PointerAddressed'
    BY <2>1 DEF PointerAddressed
  <2> QED
    BY <2>3, <2>4, Zenon DEF AddressInv
<1>3. CASE Throw
  BY <1>3, ThrowKeepsAddress
<1> QED
  BY <1>1, <1>2, <1>3, ExecuteEnds

LEMMA InterruptCycleAddresses == ASSUME AddressInv, InterruptCycle PROVE AddressInv'
<1>1. CASE PollDevices
  BY <1>1, Between, Zenon DEF PollDevices, Stepping
<1>2. CASE TakeInterrupt \/ AwaitService \/ NoInterrupt
  BY <1>2, Between, Zenon DEF TakeInterrupt, AwaitService, NoInterrupt, Polled
<1>3. CASE AwaitUnconnected
  BY <1>3, ThrowKeepsAddress, Zenon DEF AwaitUnconnected
<1> QED
  BY <1>1, <1>2, <1>3, Zenon DEF InterruptCycle

(* A careful console uses memory when the invariant promises nothing.      *)
LEMMA ConsoleAddresses == ASSUME Careful, AddressInv, Console PROVE AddressInv'
<1>1. ASSUME NEW command, AtMemory(command) PROVE AddressInv'
  <2>1. cycle_state' \in {"Interrupt", "Fetch"}
    BY <1>1, Zenon DEF AtMemory, BetweenInstructions, cycleVars
  <2> QED
    BY <2>1, Between
<1>2. ASSUME NEW command, KeepAllBut(command) PROVE AddressInv'
  BY <1>2, KeepAddress, Zenon DEF KeepAllBut, memVars, fieldVars, cycleVars
<1> QED
  BY <1>1, <1>2, Zenon
     DEF Console, LoadAddress, ExamineAt, Deposit, Examine, LoadRim, LoadTape, Cycle, Step,
         Continue, Stop, Quit

LEMMA CpuKeepsAddress == ASSUME AddressInv, UNCHANGED cpuVars PROVE AddressInv'
BY KeepAddress, Zenon DEF cpuVars, memVars, fieldVars, cycleVars

LEMMA AddressStep == ASSUME Careful, TypeInv, AddressInv, [Next]_vars PROVE AddressInv'
<1>1. CASE instructionStep
  BY <1>1, InterruptCycleAddresses, FetchAddresses, DeferAddresses, ExecuteAddresses,
     Zenon DEF instructionStep, AddressInv
<1>2. CASE Console
  BY <1>2, ConsoleAddresses
<1>3. CASE Window \/ ClockThread
  BY <1>3, CpuKeepsAddress, Zenon
     DEF Window, WindowInput, WindowClosed, AtWindow, ClockThread
<1>4. CASE UNCHANGED vars
  BY <1>4, CpuKeepsAddress, Zenon DEF vars
<1> QED
  BY <1>1, <1>2, <1>3, <1>4, Zenon DEF Next

(* For every program and every way a careful person uses the console, an   *)
(* instruction finds its operand's address in memoryAddress.               *)
THEOREM OperandCorrect == ASSUME Careful PROVE Spec => []OperandAddressed
<1>1. TypeInv /\ AddressInv /\ [Next]_vars => AddressInv'
  BY AddressStep
<1>2. AddressInv => OperandAddressed
  BY Zenon DEF AddressInv
<1> QED
  BY <1>1, <1>2, AddressStart, TypeInvariant, PTL DEF Spec

-----------------------------------------------------------------------------
(* A step that leaves memory alone stores nowhere.                         *)
LEMMA NothingStored == ASSUME core' = core PROVE StoresRight
BY Zenon DEF StoresRight, Changed

LEMMA WriteChanges ==
  ASSUME NEW w, Write(w)
  PROVE  \A c \in Changed : c = memoryAddress
BY Zenon DEF Write, Written, Changed

(* The instructions that store do so at the operand's address.             *)
LEMMA StoringInstructions ==
  ASSUME OperandAddressed, ExecuteISZ \/ ExecuteDCA \/ ExecuteJMS
  PROVE  StoresRight
<1>1. OpCode(instructionReg) \in {ISZ, DCA, JMS} /\ cycle_state = "Execute"
  BY Zenon DEF ExecuteISZ, ExecuteDCA, ExecuteJMS, Executing, Stepping
<1>2. IsMemoryInstruction(instructionReg)
  BY <1>1 DEF IsMemoryInstruction, ISZ, DCA, JMS, IOT, OPR
<1>3. \E w : Write(w)
  BY Zenon DEF ExecuteISZ, ExecuteDCA, ExecuteJMS
<1>4. \A c \in Changed : c = EffectiveAddress
  BY <1>1, <1>2, <1>3, WriteChanges, Zenon DEF OperandAddressed
<1> QED
  BY <1>1, <1>4, Zenon DEF StoresRight

(* All the others leave memory alone.                                      *)
LEMMA OtherInstructions ==
  ASSUME Execute, ~(ExecuteISZ \/ ExecuteDCA \/ ExecuteJMS)
  PROVE  core' = core
<1>1. CASE ExecuteAND \/ ExecuteTAD
  BY <1>1, Zenon DEF ExecuteAND, ExecuteTAD, Load
<1>2. CASE ExecuteJMP \/ JumpToSelfWaiting \/ JumpToSelfStopping
  BY <1>2, Zenon DEF ExecuteJMP, JumpToSelfWaiting, JumpToSelfStopping, memVars
<1>3. CASE JumpToPrevious
  BY <1>3, Zenon DEF JumpToPrevious, Load
<1>4. CASE InputOutput
  <2>1. ASSUME NEW op, ProcessorIOT(op) PROVE core' = core
    BY <2>1, Zenon DEF ProcessorIOT, memVars
  <2>2. ASSUME NEW device, DeviceIOT(device) PROVE core' = core
    BY <2>2, Zenon DEF DeviceIOT, memVars
  <2>3. CASE SKON \/ SRQ \/ SGT
    BY <2>1, <2>3, Zenon DEF SKON, SRQ, SGT, SkipIOT
  <2>4. CASE ION \/ IOF
    BY <2>1, <2>4, Zenon DEF ION, IOF
  <2>5. CASE GTF
    <3>1. ProcessorIOT(4)
      BY <2>5 DEF GTF
    <3> QED
      BY <2>1, <3>1
  <2>6. CASE RTF
    BY <2>1, <2>6, Zenon DEF RTF
  <2>7. CASE CAF
    <3>1. ProcessorIOT(7)
      BY <2>7 DEF CAF
    <3> QED
      BY <2>1, <3>1
  <2>8. CASE CDF_CIF \/ CLSKClear \/ UnconnectedIOT \/ BadDeviceOperation
    BY <2>8, Zenon DEF CDF_CIF, CLSKClear, UnconnectedIOT, BadDeviceOperation, Throw, memVars
  <2>9. CASE KeyboardIOT \/ PrinterIOT \/ ClockIOT \/ CLSKTest
    BY <2>2, <2>9, Zenon DEF KeyboardIOT, PrinterIOT, ClockIOT, CLSKTest
  <2> QED
    BY <1>4, <2>3, <2>4, <2>5, <2>6, <2>7, <2>8, <2>9, Zenon DEF InputOutput
<1>5. CASE Operate
  BY <1>5, Zenon DEF Operate, OPRGroup1, OPRGroup2, OPRGroup3, BadOPR, Throw, memVars
<1> QED
  BY <1>1, <1>2, <1>3, <1>4, <1>5, Zenon DEF Execute, MemoryReference

LEMMA DeferStores == ASSUME TypeInv, PointerAddressed, Defer PROVE StoresRight
<1> DEFINE pointer == <<memoryAddress[1], ImmediateAddress(memoryAddress[2], instructionReg)>>
           target  == IF AutoIndexed(instructionReg) THEN Inc(Read(pointer)) ELSE Read(pointer)
<1>1. cycle_state = "Defer"
  BY Zenon DEF Defer, Stepping
<1>2. pointer = NamedCell
  BY <1>1, PointerIsNamed
<1>3. core' = IF AutoIndexed(instructionReg) THEN Written(pointer, target) ELSE core
  BY Zenon DEF Defer
<1> HIDE DEF pointer, target
<1>4. CASE AutoIndexed(instructionReg)
  <2>1. \A c \in Changed : c = pointer
    BY <1>3, <1>4, Zenon DEF Changed, Written
  <2> QED
    BY <1>1, <1>2, <1>4, <2>1, Zenon DEF StoresRight
<1>5. CASE ~AutoIndexed(instructionReg)
  BY <1>3, <1>5, NothingStored, Zenon
<1> QED
  BY <1>4, <1>5

LEMMA StoreStep == ASSUME Careful, TypeInv, AddressInv, Next PROVE StoresRight
<1>1. CASE InterruptCycle
  BY <1>1, NothingStored, Zenon
     DEF InterruptCycle, PollDevices, TakeInterrupt, AwaitService, NoInterrupt, Polled,
         AwaitUnconnected, Throw, memVars
<1>2. CASE Fetch
  BY <1>2, NothingStored, Zenon DEF Fetch
<1>3. CASE Defer
  BY <1>3, DeferStores, Zenon DEF AddressInv
<1>4. CASE Execute
  BY <1>4, StoringInstructions, OtherInstructions, NothingStored, Zenon DEF AddressInv
<1>5. CASE Console
  <2>1. ASSUME NEW command, AtMemory(command) \/ KeepAllBut(command)
        PROVE  cycle_state' = cycle_state
    BY <2>1, Zenon DEF AtMemory, KeepAllBut, cycleVars
  <2>2. cycle_state' = cycle_state
    BY <1>5, <2>1, Zenon
       DEF Console, LoadAddress, ExamineAt, Deposit, Examine, LoadRim, LoadTape, Cycle, Step,
           Continue, Stop, Quit
  <2> QED
    BY <2>2, Zenon DEF StoresRight
<1>6. CASE Window \/ ClockThread
  BY <1>6, NothingStored, Zenon
     DEF Window, WindowInput, WindowClosed, AtWindow, ClockThread, cpuVars, memVars
<1> QED
  BY <1>1, <1>2, <1>3, <1>4, <1>5, <1>6, Zenon DEF Next, instructionStep

(* For every program, and in the hands of a careful person, no instruction *)
(* writes a cell other than the one it designates.                         *)
THEOREM StoresCorrect == ASSUME Careful PROVE Spec => StoresWhereAddressed
<1>1. TypeInv /\ AddressInv /\ [Next]_vars => AddressInv'
  BY AddressStep
<1>2. TypeInv /\ AddressInv /\ [Next]_vars => [StoresRight]_vars
  BY StoreStep
<1> QED
  BY <1>1, <1>2, AddressStart, TypeInvariant, PTL DEF Spec, StoresWhereAddressed

-----------------------------------------------------------------------------
(* What the registers between the cycles owe to the instruction under way, *)
(* which was found at PcBefore in CoreBefore.                              *)
Latched == instructionReg = Architecture!Inst /\ PcBefore \in Word

DeferLatched ==
  cycle_state = "Defer" =>
    /\ Latched
    /\ Indirect(instructionReg)
    /\ core = CoreBefore
    /\ programCounter = Architecture!NextPc
    /\ memoryAddress = Architecture!Named

ExecuteLatched ==
  cycle_state = "Execute" =>
    /\ Latched
    /\ core = Architecture!Indexed
    /\ IF clsk THEN /\ OpCode(instructionReg) = IOT
                    /\ programCounter \in {Architecture!NextPc, Inc(Architecture!NextPc)}
               ELSE programCounter = Architecture!NextPc
    /\ IsMemoryInstruction(instructionReg) => memoryAddress = Architecture!Operand

IsaInv == DeferLatched /\ ExecuteLatched /\ (clsk => cycle_state = "Execute")

(* What the instruction set sees.                                          *)
Seen == <<CoreBefore, PcBefore, fieldVars, accumulator>>

LEMMA SameInstruction ==
  ASSUME UNCHANGED Seen
  PROVE  /\ Architecture!Inst' = Architecture!Inst
         /\ Architecture!Here' = Architecture!Here
         /\ Architecture!NextPc' = Architecture!NextPc
         /\ Architecture!Named' = Architecture!Named
         /\ Architecture!Indexed' = Architecture!Indexed
         /\ Architecture!Operand' = Architecture!Operand
         /\ UNCHANGED Architecture!vars
<1>1. /\ CoreBefore' = CoreBefore /\ PcBefore' = PcBefore /\ accumulator' = accumulator
      /\ dataField' = dataField /\ instField' = instField /\ instBuffer' = instBuffer
  BY Zenon DEF Seen, fieldVars
<1>2. Architecture!Here' = Architecture!Here
  BY <1>1, Zenon DEF Architecture!Here
<1>3. ASSUME NEW a PROVE Architecture!Read(a)' = Architecture!Read(a)
  BY <1>1, Zenon DEF Architecture!Read
<1>4. Architecture!Inst' = Architecture!Inst
  BY <1>2, <1>1, Zenon DEF Architecture!Inst, Architecture!Read
<1>5. Architecture!NextPc' = Architecture!NextPc
  BY <1>1, Zenon DEF Architecture!NextPc
<1>6. Architecture!Named' = Architecture!Named
  BY <1>1, <1>2, <1>4, Zenon DEF Architecture!Named
<1>7. Architecture!Read(Architecture!Named)' = Architecture!Read(Architecture!Named)
  BY <1>1, <1>6, Zenon DEF Architecture!Read
<1>8. Architecture!Indexed' = Architecture!Indexed
  BY <1>1, <1>4, <1>6, <1>7, Zenon DEF Architecture!Indexed, Architecture!Written
<1>9. Architecture!Operand' = Architecture!Operand
  BY <1>1, <1>4, <1>6, <1>7, Zenon DEF Architecture!Operand
<1>10. UNCHANGED Architecture!vars
  BY <1>1, Zenon DEF Architecture!vars
<1> QED
  BY <1>2, <1>4, <1>5, <1>6, <1>8, <1>9, <1>10, Zenon
-----------------------------------------------------------------------------
(* The instruction set reads words as the simulator does.                  *)
LEMMA SameFields ==
  ASSUME NEW w, NEW a
  PROVE  /\ Architecture!OpCode(w) = OpCode(w)
         /\ Architecture!Indirect(w) = Indirect(w)
         /\ Architecture!AutoIndexed(w) = AutoIndexed(w)
         /\ Architecture!UsesDataField(w) = UsesDataField(w)
         /\ Architecture!ImmediateAddress(a, w) = ImmediateAddress(a, w)
<1>1. \A b, n : Architecture!Bit(b, n) = Bit(b, n)
  BY Zenon DEF Architecture!Bit, Bit
<1>2. Architecture!OpCode(w) = OpCode(w)
  BY Zenon DEF Architecture!OpCode, OpCode
<1>3. Architecture!Indirect(w) = Indirect(w)
  BY <1>1, <1>2, Zenon DEF Architecture!Indirect, Indirect, Architecture!IOT, IOT
<1>4. Architecture!ZeroPage(w) = ZeroPage(w) /\ Architecture!Address(w) = Address(w)
  BY <1>1, Zenon DEF Architecture!ZeroPage, ZeroPage, Architecture!Address, Address
<1>5. Architecture!AutoIndexed(w) = AutoIndexed(w)
  BY <1>3, <1>4, Zenon DEF Architecture!AutoIndexed, AutoIndexed
<1>6. Architecture!UsesDataField(w) = UsesDataField(w)
  BY <1>2, <1>3, Zenon
     DEF Architecture!UsesDataField, UsesDataField, Architecture!AND, AND, Architecture!TAD,
         TAD, Architecture!ISZ, ISZ, Architecture!DCA, DCA
<1>7. Architecture!ImmediateAddress(a, w) = ImmediateAddress(a, w)
  BY <1>4, Zenon DEF Architecture!ImmediateAddress, ImmediateAddress
<1> QED
  BY <1>2, <1>3, <1>5, <1>6, <1>7, Zenon

LEMMA SameRanges == Architecture!Field = Field /\ Architecture!Lac = Lac
BY DEF Architecture!Field, Field, Architecture!Lac, Lac

LEMMA SameArithmetic ==
  ASSUME NEW v, NEW w
  PROVE  /\ Architecture!Inc(w) = Inc(w)
         /\ Architecture!Acc(v) = Acc(v)
         /\ Architecture!And(v, w) = And(v, w)
         /\ Architecture!WithAcc(v, w) = WithAcc(v, w)
         /\ Architecture!Plus(v, w) = Plus(v, w)
<1>1. Architecture!WordSize = WordSize
  BY Zenon DEF Architecture!WordSize, WordSize
<1>2. \A a, b : Architecture!AndDigit(a, b) = AndDigit(a, b)
  BY Zenon DEF Architecture!AndDigit, AndDigit, Architecture!Both, Both, Architecture!Bit, Bit
<1>3. Architecture!And(v, w) = And(v, w)
  BY <1>2, Zenon DEF Architecture!And, And
<1>4. Architecture!Inc(w) = Inc(w) /\ Architecture!Acc(v) = Acc(v)
  BY <1>1, Zenon DEF Architecture!Inc, Inc, Architecture!Acc, Acc
<1>5. Architecture!WithAcc(v, w) = WithAcc(v, w)
  BY <1>1, <1>4, Zenon DEF Architecture!WithAcc, WithAcc, Architecture!ToWord, ToWord
<1>6. Architecture!Plus(v, w) = Plus(v, w)
  BY SMT DEF Architecture!Plus, Plus
<1> QED
  BY <1>3, <1>4, <1>5, <1>6, Zenon

(* Between instructions the instruction set sees the machine as it is.     *)
LEMMA SeenBetween ==
  ASSUME cycle_state \in {"Interrupt", "Fetch"}
  PROVE  CoreBefore = core /\ PcBefore = programCounter
BY Zenon DEF CoreBefore, PcBefore, WithinInstruction

LEMMA SeenBetweenNext ==
  ASSUME cycle_state' \in {"Interrupt", "Fetch"}
  PROVE  CoreBefore' = core' /\ PcBefore' = programCounter'
BY Zenon DEF CoreBefore, PcBefore, WithinInstruction

LEMMA InvBetween ==
  ASSUME cycle_state' \in {"Interrupt", "Fetch"}, ~clsk'
  PROVE  IsaInv'
BY Zenon DEF IsaInv, DeferLatched, ExecuteLatched

(* A cycle that does not end leaves the instruction found.                 *)
LEMMA FoundKept ==
  ASSUME RecordFetch, UNCHANGED cycle_state, UNCHANGED <<fieldVars, accumulator>>,
         WithinInstruction \/ UNCHANGED <<core, programCounter>>
  PROVE  UNCHANGED Seen
<1>1. CASE WithinInstruction
  <2>1. fetched' = fetched /\ WithinInstruction'
    BY <1>1, Zenon DEF RecordFetch, WithinInstruction
  <2> QED
    BY <1>1, <2>1, Zenon DEF Seen, CoreBefore, PcBefore
<1>2. CASE ~WithinInstruction
  <2>1. ~WithinInstruction'
    BY <1>2, Zenon DEF WithinInstruction
  <2> QED
    BY <1>2, <2>1, Zenon DEF Seen, CoreBefore, PcBefore
<1> QED
  BY <1>1, <1>2

LEMMA InvKept ==
  ASSUME IsaInv, RecordFetch,
         UNCHANGED <<core, programCounter, fieldVars, accumulator, cycle_state,
                     instructionReg, memoryAddress, clsk>>
  PROVE  IsaInv' /\ UNCHANGED Seen
<1>1. UNCHANGED Seen
  BY FoundKept, Zenon
<1>2. CoreBefore' = CoreBefore /\ PcBefore' = PcBefore
  BY <1>1, Zenon DEF Seen
<1>3. Latched' = Latched
  BY <1>1, <1>2, SameInstruction, Zenon DEF Latched
<1>4. DeferLatched'
  BY <1>1, <1>2, <1>3, SameInstruction, Zenon DEF IsaInv, DeferLatched
<1>5. ExecuteLatched'
  BY <1>1, <1>3, SameInstruction, Zenon DEF IsaInv, ExecuteLatched
<1> QED
  BY <1>1, <1>4, <1>5, Zenon DEF IsaInv
-----------------------------------------------------------------------------
(* Fetch finds the instruction and names its cell.                         *)
LEMMA FetchFinds ==
  ASSUME TypeInv, IsaInv, Fetch, RecordFetch
  PROVE  IsaInv' /\ UNCHANGED Seen
<1> DEFINE word == Read(Here)
<1>1. cycle_state = "Fetch" /\ ~clsk
  BY Zenon DEF Fetch, Stepping, IsaInv
<1>2. /\ instructionReg' = word
      /\ memoryAddress' = IF Here \in DOMAIN core /\ IsMemoryInstruction(word)
                            THEN <<instField, ImmediateAddress(programCounter, word)>>
                            ELSE Here
      /\ programCounter' = Inc(programCounter)
      /\ cycle_state' = IF Indirect(word) THEN "Defer" ELSE "Execute"
      /\ core' = core /\ UNCHANGED fieldVars /\ accumulator' = accumulator /\ clsk' = clsk
  BY Zenon DEF Fetch, accVars, devVars, clockVars
<1>3. word \in Word /\ programCounter \in Word
  BY ReadType, Zenon DEF TypeInv, RegisterTypeOK
<1>4. CoreBefore = core /\ PcBefore = programCounter
  BY <1>1, SeenBetween, Zenon
<1>5. Architecture!Inst = word /\ Architecture!Here = Here
  BY <1>4, Zenon DEF Architecture!Inst, Architecture!Here, Architecture!Read, Here, Read
<1>6. Here \notin DOMAIN core => word = 0
  BY Zenon DEF Read
<1> HIDE DEF word
<1>7. CoreBefore' = core /\ PcBefore' = programCounter
  <2>1. fetched' = <<core, programCounter>> /\ WithinInstruction'
    BY <1>1, <1>2, Zenon DEF RecordFetch, WithinInstruction
  <2> QED
    BY <2>1 DEF CoreBefore, PcBefore
<1>8. UNCHANGED Seen
  BY <1>2, <1>4, <1>7, Zenon DEF Seen
<1>9. Latched' /\ programCounter' = Architecture!NextPc'
  BY <1>2, <1>3, <1>4, <1>5, <1>7, <1>8, SameInstruction, SameArithmetic, Zenon
     DEF Latched, Architecture!NextPc
<1>10. IsMemoryInstruction(word) => memoryAddress' = Architecture!Named
  BY <1>2, <1>4, <1>5, SameFields, Zenon DEF Architecture!Named
<1>11. DeferLatched'
  <2>1. ASSUME Indirect(word) PROVE IsMemoryInstruction(word)
    BY <1>3, <2>1, IndirectIsMemory
  <2> QED
    BY <1>2, <1>7, <1>8, <1>9, <1>10, <2>1, SameInstruction, Zenon DEF DeferLatched
<1>12. ExecuteLatched'
  <2> SUFFICES ASSUME ~Indirect(word) PROVE ExecuteLatched'
    BY <1>2, Zenon DEF ExecuteLatched
  <2>1. ~AutoIndexed(word)
    BY Zenon DEF AutoIndexed
  <2>2. Architecture!Indexed = core
    BY <1>4, <1>5, <2>1, SameFields, Zenon DEF Architecture!Indexed
  <2>3. Architecture!Operand = Architecture!Named
    BY <1>5, SameFields, Zenon DEF Architecture!Operand
  <2> QED
    BY <1>1, <1>2, <1>8, <1>9, <1>10, <2>2, <2>3, SameInstruction, Zenon DEF ExecuteLatched
<1> QED
  BY <1>1, <1>2, <1>8, <1>11, <1>12, Zenon DEF IsaInv

(* Defer completes the operand's address, and memory is then as the        *)
(* instruction's indexing leaves it.                                       *)
LEMMA DeferFinds ==
  ASSUME TypeInv, IsaInv, Defer, RecordFetch
  PROVE  IsaInv' /\ UNCHANGED Seen
<1> DEFINE pointer == <<memoryAddress[1], ImmediateAddress(memoryAddress[2], instructionReg)>>
           auto    == AutoIndexed(instructionReg)
           target  == IF auto THEN Inc(Read(pointer)) ELSE Read(pointer)
           field   == IF UsesDataField(instructionReg) THEN dataField ELSE memoryAddress[1]
<1>1. cycle_state = "Defer" /\ ~clsk /\ WithinInstruction
  BY Zenon DEF Defer, Stepping, IsaInv, WithinInstruction
<1>2. /\ core' = IF auto THEN Written(pointer, target) ELSE core
      /\ memoryAddress' = <<field, target>>
      /\ cycle_state' = "Execute"
      /\ UNCHANGED <<programCounter, instructionReg, fieldVars, accumulator, clsk>>
  BY Zenon DEF Defer, accVars, devVars, clockVars
<1>3. /\ Latched /\ Indirect(instructionReg) /\ core = CoreBefore
      /\ programCounter = Architecture!NextPc /\ memoryAddress = Architecture!Named
  BY <1>1, Zenon DEF IsaInv, DeferLatched
<1>4. UNCHANGED Seen
  <2>1. fetched' = fetched /\ WithinInstruction'
    BY <1>1, <1>2, Zenon DEF RecordFetch, WithinInstruction
  <2> QED
    BY <1>1, <1>2, <2>1, Zenon DEF Seen, CoreBefore, PcBefore
<1>5. /\ Architecture!Inst = instructionReg /\ PcBefore \in Word
      /\ instructionReg \in Word
  BY <1>3, Zenon DEF Latched, TypeInv, RegisterTypeOK
<1>6. Architecture!Here \in DOMAIN CoreBefore
  <2>1. instructionReg # 0
    BY <1>3, <1>5, IndirectIsMemory
  <2> QED
    BY <1>5, <2>1, Zenon DEF Architecture!Inst, Architecture!Read
<1>7. memoryAddress = <<instField, ImmediateAddress(PcBefore, instructionReg)>>
  BY <1>3, <1>5, <1>6, SameFields, Zenon DEF Architecture!Named
<1>8. memoryAddress[1] = instField /\ memoryAddress[2] = ImmediateAddress(PcBefore, instructionReg)
  BY <1>7
<1>9. pointer = Architecture!Named
  <2>1. ImmediateAddress(memoryAddress[2], instructionReg) = ImmediateAddress(PcBefore, instructionReg)
    BY <1>5, <1>8, ImmediateAddressTwice
  <2> QED
    BY <1>3, <1>7, <1>8, <2>1, Zenon
<1>10. field = IF UsesDataField(instructionReg) THEN dataField ELSE instField
  BY <1>8, Zenon
<1>11. target = IF auto THEN Inc(Read(pointer)) ELSE Read(pointer)
  OBVIOUS
<1>12. Read(pointer) = Architecture!Read(Architecture!Named)
  BY <1>3, <1>9, Zenon DEF Read, Architecture!Read
<1>13. auto <=> Architecture!AutoIndexed(Architecture!Inst)
  BY <1>5, SameFields, Zenon
<1> HIDE DEF pointer, target, field, auto
<1>14. core' = Architecture!Indexed
  BY <1>2, <1>3, <1>9, <1>11, <1>12, <1>13, SameArithmetic, Zenon
     DEF Architecture!Indexed, Architecture!Written, Written
<1>15. memoryAddress' = Architecture!Operand
  BY <1>2, <1>3, <1>5, <1>10, <1>11, <1>12, <1>13, SameArithmetic, SameFields, Zenon
     DEF Architecture!Operand
<1>16. Latched'
  BY <1>2, <1>3, <1>4, SameInstruction, Zenon DEF Latched, Seen
<1>17. ExecuteLatched'
  BY <1>1, <1>2, <1>3, <1>4, <1>14, <1>15, <1>16, SameInstruction, Zenon DEF ExecuteLatched
<1>18. DeferLatched'
  BY <1>2 DEF DeferLatched
<1> QED
  BY <1>2, <1>4, <1>17, <1>18, Zenon DEF IsaInv

LEMMA InterruptCycleFinds ==
  ASSUME IsaInv, InterruptCycle, RecordFetch
  PROVE  IsaInv' /\ UNCHANGED Seen
<1>1. CASE AwaitUnconnected
  BY <1>1, InvKept, Zenon
     DEF AwaitUnconnected, Throw, memVars, accVars, cycleVars, devVars, clockVars
<1>2. CASE PollDevices
  BY <1>2, InvKept, Zenon DEF PollDevices, memVars, accVars, devVars, clockVars
<1>3. CASE TakeInterrupt \/ AwaitService \/ NoInterrupt
  <2>1. /\ cycle_state \in {"Interrupt", "Fetch"} /\ cycle_state' \in {"Interrupt", "Fetch"}
        /\ UNCHANGED <<core, programCounter, fieldVars, accumulator, clsk>>
    BY <1>3, Zenon DEF TakeInterrupt, AwaitService, NoInterrupt, Idling, Stepping, Polled,
       memVars, accVars, devVars, clockVars
  <2>2. ~clsk'
    BY <2>1, Zenon DEF IsaInv
  <2>3. UNCHANGED Seen
    BY <2>1, SeenBetween, SeenBetweenNext, Zenon DEF Seen
  <2> QED
    BY <2>1, <2>2, <2>3, InvBetween
<1> QED
  BY <1>1, <1>2, <1>3, Zenon DEF InterruptCycle
-----------------------------------------------------------------------------
(* What Execute starts from.                                               *)
LEMMA Found ==
  ASSUME IsaInv, cycle_state = "Execute", ~clsk
  PROVE  /\ Architecture!Inst = instructionReg
         /\ core = Architecture!Indexed
         /\ programCounter = Architecture!NextPc
         /\ IsMemoryInstruction(instructionReg) =>
              memoryAddress = Architecture!Operand /\ Read(memoryAddress) = Architecture!Content
<1>1. /\ Architecture!Inst = instructionReg
      /\ core = Architecture!Indexed
      /\ programCounter = Architecture!NextPc
      /\ IsMemoryInstruction(instructionReg) => memoryAddress = Architecture!Operand
  BY Zenon DEF IsaInv, ExecuteLatched, Latched
<1>2. ASSUME memoryAddress = Architecture!Operand PROVE Read(memoryAddress) = Architecture!Content
  BY <1>1, <1>2, Zenon DEF Read, Architecture!Content
<1> QED
  BY <1>1, <1>2, Zenon

(* What the instruction set sees of its end.                               *)
LEMMA Ended ==
  ASSUME EndExecute
  PROVE  /\ cycle_state' = "Interrupt"
         /\ CoreBefore' = core' /\ PcBefore' = programCounter'
<1>1. cycle_state' = "Interrupt"
  BY Zenon DEF EndExecute
<1> QED
  BY <1>1, SeenBetweenNext, Zenon

LEMMA StoreEffect ==
  ASSUME NEW w, Write(w), core = Architecture!Indexed, memoryAddress = Architecture!Operand,
         CoreBefore' = core'
  PROVE  Architecture!Store(w)
BY Zenon DEF Write, Written, Architecture!Store

LEMMA ComputingEffect ==
  ASSUME IsaInv, ExecuteAND \/ ExecuteTAD
  PROVE  Architecture!OneInstruction
<1>1. /\ cycle_state = "Execute" /\ ~clsk /\ EndExecute
      /\ OpCode(instructionReg) \in {AND, TAD}
      /\ core' = core /\ programCounter' = programCounter /\ UNCHANGED fieldVars
  BY Zenon DEF ExecuteAND, ExecuteTAD, Executing, Stepping, Load, KeepControl
<1>2. IsMemoryInstruction(instructionReg)
  BY <1>1 DEF IsMemoryInstruction, AND, TAD, IOT, OPR
<1>3. /\ Architecture!Inst = instructionReg /\ Read(memoryAddress) = Architecture!Content
      /\ CoreBefore' = Architecture!Indexed /\ PcBefore' = Architecture!NextPc
  BY <1>1, <1>2, Found, Ended, Zenon
<1>4. UNCHANGED Architecture!fields
  BY <1>1, Zenon DEF fieldVars, Architecture!fields
<1>5. CASE ExecuteAND
  <2>1. /\ OpCode(instructionReg) = AND
        /\ accumulator' = WithAcc(accumulator, And(Acc(accumulator), Read(memoryAddress)))
    BY <1>5, Zenon DEF ExecuteAND, Executing
  <2>2. Architecture!LogicalAnd
    BY <1>3, <1>4, <2>1, SameFields, SameArithmetic, Zenon
       DEF Architecture!LogicalAnd, Architecture!AND, AND
  <2> QED
    BY <2>2, Zenon DEF Architecture!OneInstruction
<1>6. CASE ExecuteTAD
  <2>1. /\ OpCode(instructionReg) = TAD
        /\ accumulator' = Plus(accumulator, Read(memoryAddress))
    BY <1>6, Zenon DEF ExecuteTAD, Executing
  <2>2. Architecture!TwosAdd
    BY <1>3, <1>4, <2>1, SameFields, SameArithmetic, Zenon
       DEF Architecture!TwosAdd, Architecture!TAD, TAD
  <2> QED
    BY <2>2, Zenon DEF Architecture!OneInstruction
<1> QED
  BY <1>5, <1>6

LEMMA StoringEffect ==
  ASSUME IsaInv, ExecuteISZ \/ ExecuteDCA \/ ExecuteJMS
  PROVE  Architecture!OneInstruction
<1>1. /\ cycle_state = "Execute" /\ ~clsk /\ EndExecute
      /\ OpCode(instructionReg) \in {ISZ, DCA, JMS}
      /\ UNCHANGED fieldVars
  BY Zenon DEF ExecuteISZ, ExecuteDCA, ExecuteJMS, Executing, Stepping, KeepControl
<1>2. IsMemoryInstruction(instructionReg)
  BY <1>1 DEF IsMemoryInstruction, ISZ, DCA, JMS, IOT, OPR
<1>3. /\ Architecture!Inst = instructionReg /\ Read(memoryAddress) = Architecture!Content
      /\ memoryAddress = Architecture!Operand
      /\ programCounter = Architecture!NextPc
      /\ PcBefore' = programCounter'
  BY <1>1, <1>2, Found, Ended, Zenon
<1>4. UNCHANGED Architecture!fields
  BY <1>1, Zenon DEF fieldVars, Architecture!fields
<1>5. ASSUME NEW w, Write(w) PROVE Architecture!Store(w)
  BY <1>1, <1>2, <1>5, Found, Ended, StoreEffect
<1>6. CASE ExecuteISZ
  <2>1. /\ OpCode(instructionReg) = ISZ /\ Write(Inc(Read(memoryAddress)))
        /\ Skip(Inc(Read(memoryAddress)) = 0) /\ accumulator' = accumulator
    BY <1>6, Zenon DEF ExecuteISZ, Executing, accVars
  <2>2. /\ Architecture!Inc(Architecture!Content) = Inc(Read(memoryAddress))
        /\ Architecture!Inc(Architecture!NextPc) = Inc(programCounter)
    BY <1>3, SameArithmetic, Zenon
  <2>3. Architecture!OpCode(Architecture!Inst) = Architecture!ISZ
    BY <1>3, <2>1, SameFields, Zenon DEF Architecture!ISZ, ISZ
  <2>4. Architecture!IncrementSkip
    BY <1>3, <1>4, <1>5, <2>1, <2>2, <2>3, Zenon DEF Architecture!IncrementSkip, Skip
  <2> QED
    BY <2>4, Zenon DEF Architecture!OneInstruction
<1>7. CASE ExecuteDCA
  <2>1. /\ OpCode(instructionReg) = DCA /\ Write(Acc(accumulator))
        /\ programCounter' = programCounter /\ accumulator' = WithAcc(accumulator, 0)
    BY <1>7, Zenon DEF ExecuteDCA, Executing
  <2>2. Architecture!DepositClear
    BY <1>3, <1>4, <1>5, <2>1, SameFields, SameArithmetic, Zenon
       DEF Architecture!DepositClear, Architecture!DCA, DCA
  <2> QED
    BY <2>2, Zenon DEF Architecture!OneInstruction
<1>8. CASE ExecuteJMS
  <2>1. /\ OpCode(instructionReg) = JMS /\ Write(programCounter)
        /\ programCounter' = Inc(memoryAddress[2]) /\ accumulator' = accumulator
    BY <1>8, Zenon DEF ExecuteJMS, Executing, accVars
  <2>2. Architecture!JumpSubroutine
    BY <1>3, <1>4, <1>5, <2>1, SameFields, SameArithmetic, Zenon
       DEF Architecture!JumpSubroutine, Architecture!JMS, JMS
  <2> QED
    BY <2>2, Zenon DEF Architecture!OneInstruction
<1> QED
  BY <1>6, <1>7, <1>8

LEMMA BackByOne ==
  ASSUME NEW p \in Word, NEW m \in Word, Inc(p) - 1 = m
  PROVE  m = p
<1>1. p = \o7777 \/ p \in 0 .. \o7776
  BY DEF Word
<1>2. CASE p = \o7777
  <2>1. Inc(p) = 0
    BY <1>2 DEF Inc, WordSize
  <2> QED
    BY <2>1 DEF Word
<1>3. CASE p \in 0 .. \o7776
  <2>1. Inc(p) = p + 1
    BY <1>3 DEF Inc, WordSize
  <2> QED
    BY <1>3, <2>1 DEF Word
<1> QED
  BY <1>1, <1>2, <1>3

(* A jump over one instruction back is still a jump; one that is taken for *)
(* a wait was a jump to itself.                                            *)
LEMMA JumpEffect ==
  ASSUME TypeInv, IsaInv,
         ExecuteJMP \/ JumpToPrevious \/ JumpToSelfWaiting \/ JumpToSelfStopping
  PROVE  Architecture!OneInstruction
<1>1. /\ cycle_state = "Execute" /\ ~clsk /\ EndExecute
      /\ OpCode(instructionReg) = JMP
      /\ core' = core /\ dataField' = dataField /\ instBuffer' = instBuffer
      /\ accumulator' = accumulator
      /\ \/ programCounter' = memoryAddress[2] /\ instField' = instBuffer
         \/ /\ BackBy(1)
            /\ programCounter' = programCounter /\ instField' = instField
  BY Zenon DEF ExecuteJMP, JumpToPrevious, JumpToSelfWaiting, JumpToSelfStopping, Executing,
     Stepping, Load, Jump, memVars, fieldVars, accVars
<1>2. IsMemoryInstruction(instructionReg)
  BY <1>1 DEF IsMemoryInstruction, JMP, IOT, OPR
<1>3. /\ Architecture!Inst = instructionReg
      /\ memoryAddress = Architecture!Operand
      /\ programCounter = Architecture!NextPc
      /\ CoreBefore' = Architecture!Indexed /\ PcBefore' = programCounter'
  BY <1>1, <1>2, Found, Ended, Zenon
<1>4. ASSUME BackBy(1) PROVE Architecture!Operand = Architecture!Here
  <2>1. ~Indirect(instructionReg) /\ programCounter - 1 = memoryAddress[2]
    BY <1>4, Zenon DEF BackBy
  <2>2. PcBefore \in Word /\ programCounter = Inc(PcBefore) /\ memoryAddress[2] \in Word
    BY <1>1, <1>3, SameArithmetic, AddressParts, Zenon
       DEF IsaInv, ExecuteLatched, Latched, Architecture!NextPc, TypeInv, MemoryTypeOK
  <2>3. memoryAddress[2] = PcBefore
    BY <2>1, <2>2, BackByOne
  <2>4. memoryAddress = Architecture!Named
    BY <1>3, <2>1, SameFields, Zenon DEF Architecture!Operand
  <2>5. memoryAddress = Architecture!Here
    BY <1>3, <2>3, <2>4 DEF Architecture!Named, Architecture!Here
  <2> QED
    BY <1>3, <2>5, Zenon
<1>5. Architecture!Jump
  BY <1>1, <1>3, <1>4, SameFields, Zenon DEF Architecture!Jump, Architecture!JMP, JMP
<1> QED
  BY <1>5, Zenon DEF Architecture!OneInstruction
(* An input/output or operate instruction leaves memory and the            *)
(* instruction field alone, and its program counter is one of three.       *)
LEMMA ProcessorReach ==
  ASSUME SKON \/ ION \/ IOF \/ SRQ \/ GTF \/ RTF \/ SGT \/ CAF
  PROVE  /\ Executing(IOT) /\ EndExecute
         /\ UNCHANGED <<core, instField, clsk>>
         /\ programCounter' \in {programCounter, Inc(programCounter), 0}
<1>1. ASSUME NEW op, ProcessorIOT(op)
      PROVE  Executing(IOT) /\ EndExecute /\ core' = core /\ clsk' = clsk
  BY <1>1, Zenon DEF ProcessorIOT, memVars, devVars, clockVars
<1>2. ASSUME NEW op, NEW condition, SkipIOT(op, condition)
      PROVE  /\ ProcessorIOT(op) /\ instField' = instField
             /\ programCounter' \in {programCounter, Inc(programCounter), 0}
  BY <1>2, Zenon DEF SkipIOT, Skip, fieldVars
<1>3. CASE SKON \/ SRQ \/ SGT
  BY <1>1, <1>2, <1>3, Zenon DEF SKON, SRQ, SGT
<1>4. CASE ION \/ IOF \/ RTF
  <2>1. /\ \E op : ProcessorIOT(op)
        /\ programCounter' = programCounter /\ instField' = instField
    <3>1. CASE ION
      BY <1>4, <3>1, Zenon DEF ION, fieldVars
    <3>2. CASE IOF
      BY <1>4, <3>2, Zenon DEF IOF, fieldVars
    <3>3. CASE RTF
      BY <1>4, <3>3, Zenon DEF RTF
    <3> QED
      BY <1>4, <3>1, <3>2, <3>3
  <2> QED
    BY <1>1, <2>1, Zenon
<1>5. CASE GTF
  <2>1. ProcessorIOT(4) /\ programCounter' = programCounter /\ instField' = instField
    BY <1>5 DEF GTF, fieldVars
  <2> QED
    BY <1>1, <2>1, Zenon
<1>6. CASE CAF
  <2>1. ProcessorIOT(7) /\ programCounter' = 0 /\ instField' = instField
    BY <1>6 DEF CAF, fieldVars
  <2> QED
    BY <1>1, <2>1, Zenon
<1> QED
  BY <1>3, <1>4, <1>5, <1>6

LEMMA DeviceReach ==
  ASSUME KeyboardIOT \/ PrinterIOT \/ ClockIOT \/ CDF_CIF \/ UnconnectedIOT
  PROVE  /\ Executing(IOT) /\ EndExecute
         /\ UNCHANGED <<core, instField, clsk>>
         /\ programCounter' \in {programCounter, Inc(programCounter), 0}
<1>1. ASSUME NEW device, DeviceIOT(device)
      PROVE  Executing(IOT) /\ UNCHANGED <<core, instField>>
  BY <1>1, Zenon DEF DeviceIOT, memVars, fieldVars
<1>2. CASE KeyboardIOT \/ PrinterIOT
  BY <1>1, <1>2, Zenon DEF KeyboardIOT, PrinterIOT, Skip, clockVars
<1>3. CASE ClockIOT
  BY <1>1, <1>3, Zenon DEF ClockIOT, CLEI, CLDI, clockVars
<1>4. CASE CDF_CIF \/ UnconnectedIOT
  BY <1>4, Zenon DEF CDF_CIF, UnconnectedIOT, KeepControl, memVars, fieldVars, devVars, clockVars
<1> QED
  BY <1>2, <1>3, <1>4

LEMMA OperateReach ==
  ASSUME OPRGroup1 \/ OPRGroup2 \/ OPRGroup3
  PROVE  /\ Executing(OPR) /\ EndExecute
         /\ UNCHANGED <<core, instField, clsk>>
         /\ programCounter' \in {programCounter, Inc(programCounter), 0}
BY Zenon DEF OPRGroup1, OPRGroup2, OPRGroup3, Skip, KeepControl, memVars, fieldVars, devVars,
             clockVars

LEMMA MemoryReach == ASSUME MemoryReference PROVE EndExecute /\ ~clsk'
<1>1. /\ \E op : Executing(op)
      /\ EndExecute /\ UNCHANGED devVars
  BY Zenon
     DEF MemoryReference, ExecuteAND, ExecuteTAD, ExecuteISZ, ExecuteDCA, ExecuteJMS, ExecuteJMP,
         JumpToPrevious, JumpToSelfWaiting, JumpToSelfStopping, KeepControl
<1> QED
  BY <1>1, Zenon DEF Executing, devVars, clockVars

(* The end of such an instruction, wherever its first half left the        *)
(* program counter.                                                        *)
LEMMA OtherEffect ==
  ASSUME TypeInv', IsaInv, cycle_state = "Execute", EndExecute,
         OpCode(instructionReg) \in {IOT, OPR},
         UNCHANGED <<core, instField>>,
         programCounter' \in {Architecture!NextPc, Inc(Architecture!NextPc), 0}
  PROVE  Architecture!OneInstruction
<1>1. Architecture!Inst = instructionReg /\ core = Architecture!Indexed
  BY Zenon DEF IsaInv, ExecuteLatched, Latched
<1>2. ~AutoIndexed(instructionReg)
  <2>1. ~(OpCode(instructionReg) < IOT)
    BY DEF IOT, OPR
  <2> QED
    BY <2>1, Zenon DEF AutoIndexed, Indirect
<1>3. core = CoreBefore
  BY <1>1, <1>2, SameFields, Zenon DEF Architecture!Indexed
<1>4. dataField' \in Architecture!Field /\ instBuffer' \in Architecture!Field
      /\ accumulator' \in Architecture!Lac
  <2>1. dataField' \in Field /\ instBuffer' \in Field /\ accumulator' \in Lac
    BY Zenon DEF TypeInv, RegisterTypeOK, AccTypeOK
  <2> QED
    BY <2>1, SameRanges, Zenon
<1>5. Architecture!OpCode(Architecture!Inst) \in {Architecture!IOT, Architecture!OPR}
  BY <1>1, SameFields, Zenon DEF Architecture!IOT, IOT, Architecture!OPR, OPR
<1>6. PcBefore' \in {Architecture!NextPc, Architecture!Inc(Architecture!NextPc), 0}
  BY Ended, SameArithmetic, Zenon
<1>7. CoreBefore' = CoreBefore
  BY <1>3, Ended, Zenon
<1>8. Architecture!InputOutputOrOperate
  BY <1>4, <1>5, <1>6, <1>7, Zenon DEF Architecture!InputOutputOrOperate
<1> QED
  BY <1>8, Zenon DEF Architecture!OneInstruction

(* CLSK has skipped or not, and the flag is not cleared yet.               *)
LEMMA CLSKTestFinds ==
  ASSUME IsaInv, CLSKTest, RecordFetch
  PROVE  IsaInv' /\ UNCHANGED Seen
<1>1. /\ cycle_state = "Execute" /\ cycle_state' = "Execute" /\ ~clsk /\ clsk'
      /\ OpCode(instructionReg) = IOT
      /\ UNCHANGED <<core, fieldVars, accumulator, instructionReg, cycle_state>>
      /\ programCounter' \in {programCounter, Inc(programCounter)}
  BY Zenon DEF CLSKTest, TestClockFlag, DeviceIOT, Executing, Stepping, memVars, cycleVars, Skip
<1>2. UNCHANGED Seen
  BY <1>1, FoundKept, Zenon DEF WithinInstruction
<1>3. /\ Latched /\ core = Architecture!Indexed /\ programCounter = Architecture!NextPc
  BY <1>1, Zenon DEF IsaInv, ExecuteLatched
<1>4. Latched'
  BY <1>1, <1>2, <1>3, SameInstruction, Zenon DEF Latched, Seen
<1>5. ~IsMemoryInstruction(instructionReg)
  BY <1>1, DeviceIsNotMemory
<1>6. ExecuteLatched'
  BY <1>1, <1>2, <1>3, <1>4, <1>5, SameInstruction, Zenon DEF ExecuteLatched
<1>7. DeferLatched'
  BY <1>1 DEF DeferLatched
<1> QED
  BY <1>1, <1>2, <1>6, <1>7, Zenon DEF IsaInv

(* The last cycle of an instruction is the instruction, but for the first  *)
(* half of CLSK and the operations that end the program.                   *)
LEMMA ExecuteDoes ==
  ASSUME TypeInv, TypeInv', IsaInv, Execute, RecordFetch
  PROVE  IsaInv' /\ (Architecture!OneInstruction \/ UNCHANGED Seen)
<1>1. CASE Throw
  BY <1>1, InvKept, Zenon DEF Throw, memVars, accVars, cycleVars, devVars, clockVars
<1>2. CASE CLSKTest
  BY <1>2, CLSKTestFinds, Zenon
<1>3. CASE CLSKClear
  <2>1. /\ cycle_state = "Execute" /\ EndExecute /\ ~clsk'
        /\ UNCHANGED <<core, instField, programCounter>>
    BY <1>3, Zenon DEF CLSKClear, ClearClockFlag, IsaInv, memVars, fieldVars
  <2>2. OpCode(instructionReg) = IOT
        /\ programCounter \in {Architecture!NextPc, Inc(Architecture!NextPc)}
    BY <1>3, <2>1, Zenon DEF IsaInv, ExecuteLatched, CLSKClear, ClearClockFlag
  <2>3. Architecture!OneInstruction
    BY <2>1, <2>2, OtherEffect, Zenon
  <2> QED
    BY <2>1, <2>3, Ended, InvBetween, Zenon
<1>4. ASSUME Executing(IOT) \/ Executing(OPR), EndExecute, UNCHANGED <<core, instField, clsk>>,
             programCounter' \in {programCounter, Inc(programCounter), 0}
      PROVE  IsaInv' /\ Architecture!OneInstruction
  <2>1. /\ cycle_state = "Execute" /\ ~clsk /\ ~clsk'
        /\ OpCode(instructionReg) \in {IOT, OPR}
    BY <1>4, Zenon DEF Executing, Stepping
  <2>2. Architecture!OneInstruction
    BY <1>4, <2>1, Found, OtherEffect, Zenon
  <2> QED
    BY <1>4, <2>1, <2>2, Ended, InvBetween, Zenon
<1>5. CASE MemoryReference
  <2>1. EndExecute /\ ~clsk'
    BY <1>5, MemoryReach
  <2> QED
    BY <1>5, <2>1, ComputingEffect, StoringEffect, JumpEffect, Ended, InvBetween, Zenon
       DEF MemoryReference
<1>6. CASE InputOutput
  BY <1>1, <1>2, <1>3, <1>4, <1>6, ProcessorReach, DeviceReach, Zenon
     DEF InputOutput, BadDeviceOperation
<1>7. CASE Operate
  BY <1>1, <1>4, <1>7, OperateReach, Zenon DEF Operate, BadOPR
<1> QED
  BY <1>5, <1>6, <1>7, Zenon DEF Execute
-----------------------------------------------------------------------------
(* The console, between instructions, does what the instruction set lets   *)
(* a console do; the commands that only look, or set a flag, do nothing.   *)
LEMMA AtMemoryBetween ==
  ASSUME Careful, NEW command, AtMemory(command), IsaInv
  PROVE  /\ command \in Commands
         /\ cycle_state \in {"Interrupt", "Fetch"} /\ IsaInv'
         /\ CoreBefore = core /\ PcBefore = programCounter
         /\ CoreBefore' = core' /\ PcBefore' = programCounter'
         /\ UNCHANGED <<dataField, instField, instBuffer, accumulator>>
<1>1. /\ command \in Commands /\ ~clsk'
      /\ cycle_state \in {"Interrupt", "Fetch"} /\ cycle_state' = cycle_state
      /\ UNCHANGED <<dataField, instField, instBuffer, accumulator>>
  BY Zenon
     DEF AtMemory, AtConsole, BetweenInstructions, cycleVars, fieldVars, accVars, devVars, clockVars
<1> QED
  BY <1>1, SeenBetween, SeenBetweenNext, InvBetween, Zenon

LEMMA ConsoleDoes ==
  ASSUME Careful, IsaInv, Console, RecordFetch
  PROVE  IsaInv' /\ (Architecture!Next \/ UNCHANGED Seen)
<1>1. ASSUME NEW n \in Arguments, LoadAddress(n) PROVE IsaInv' /\ Architecture!LoadAddress
  <2>1. AtMemory("l") /\ programCounter' = ToWord(n) /\ core' = core
    BY <1>1, Zenon DEF LoadAddress
  <2> QED
    BY <2>1, AtMemoryBetween, Zenon DEF Architecture!LoadAddress, Architecture!fields
<1>2. ASSUME NEW n \in Arguments, ExamineAt(n) PROVE IsaInv' /\ UNCHANGED Seen
  <2>1. AtMemory("E") /\ programCounter' = programCounter /\ core' = core
    BY <1>2, Zenon DEF ExamineAt
  <2> QED
    BY <2>1, AtMemoryBetween, Zenon DEF Seen, fieldVars
<1>3. ASSUME NEW n \in Words, Deposit(n) PROVE IsaInv' /\ Architecture!Deposit
  <2>1. /\ AtMemory("d") /\ programCounter' = Inc(programCounter)
        /\ core' = Written(Here, ToWord(n))
    BY <1>3, Zenon DEF Deposit, deposit
  <2> QED
    BY <2>1, AtMemoryBetween, SameArithmetic, Zenon
       DEF Architecture!Deposit, Architecture!fields, Architecture!NextPc, Architecture!Written,
           Written, Architecture!Here, Here
<1>4. ASSUME Examine PROVE IsaInv' /\ Architecture!Examine
  <2>1. AtMemory("e") /\ programCounter' = Inc(programCounter) /\ core' = core
    BY <1>4, Zenon DEF Examine, examine
  <2> QED
    BY <2>1, AtMemoryBetween, SameArithmetic, Zenon
       DEF Architecture!Examine, Architecture!fields, Architecture!NextPc
<1>5. ASSUME NEW image, NEW command, AtMemory(command), deposited(image),
             image \in IF "RIM" \in Commands THEN Tapes \cup {RimImage} ELSE Tapes
      PROVE  IsaInv' /\ Architecture!LoadProgram
  BY <1>5, AtMemoryBetween, Zenon
     DEF deposited, InField, Architecture!LoadProgram, Architecture!fields
<1>6. CASE LoadRim
  <2>1. AtMemory("RIM") /\ deposited(RimImage)
    BY <1>6, Zenon DEF LoadRim
  <2>2. "RIM" \in Commands
    BY <2>1, AtMemoryBetween
  <2> QED
    BY <1>5, <2>1, <2>2, Zenon DEF Architecture!Next
<1>7. CASE \E image \in Tapes : LoadTape(image)
  <2>1. PICK image \in Tapes : AtMemory("tape") /\ deposited(image)
    BY <1>7, Zenon DEF LoadTape
  <2>2. image \in IF "RIM" \in Commands THEN Tapes \cup {RimImage} ELSE Tapes
    OBVIOUS
  <2> QED
    BY <1>5, <2>1, <2>2, Zenon DEF Architecture!Next
<1>8. ASSUME NEW command, KeepAllBut(command) PROVE IsaInv' /\ UNCHANGED Seen
  BY <1>8, InvKept, Zenon DEF KeepAllBut, memVars, accVars, cycleVars, devVars, clockVars
<1>9. CASE Cycle \/ Step \/ Continue \/ Stop \/ Quit
  BY <1>8, <1>9, Zenon DEF Cycle, Step, Continue, Stop, Quit
<1> QED
  BY <1>1, <1>2, <1>3, <1>4, <1>6, <1>7, <1>9, Zenon DEF Console, Architecture!Next

-----------------------------------------------------------------------------
LEMMA SeenIsVars == UNCHANGED Seen => UNCHANGED Architecture!vars
BY SameInstruction

LEMMA IsaStart == ASSUME HistoryInit PROVE IsaInv /\ Architecture!Init
<1>1. PICK image \in Images : PDP8Init(image)
  BY Zenon DEF HistoryInit, Init
<1>2. /\ cycle_state = "Interrupt" /\ ~clsk
      /\ core = [c \in InField(0, image) |-> image.cells[c[2]]]
      /\ programCounter = image.start
      /\ dataField = 0 /\ instField = 0 /\ instBuffer = 0 /\ accumulator = 0
  BY <1>1, Zenon DEF PDP8Init, ClockInit
<1>3. IsaInv
  BY <1>2 DEF IsaInv, DeferLatched, ExecuteLatched
<1>4. CoreBefore = core /\ PcBefore = programCounter
  BY <1>2, SeenBetween, Zenon
<1>5. <<CoreBefore, PcBefore>> \in InitialMemories
  BY <1>2, <1>4, Zenon DEF InitialMemories, InField
<1> QED
  BY <1>2, <1>3, <1>5, Zenon DEF Architecture!Init

LEMMA IsaStep ==
  ASSUME Careful, TypeInv, TypeInv', IsaInv, [HistoryNext]_historyVars
  PROVE  IsaInv' /\ [Architecture!Next]_(Architecture!vars)
<1>1. CASE UNCHANGED historyVars
  <2>1. /\ UNCHANGED <<core, programCounter, fieldVars, accumulator, cycle_state,
                       instructionReg, memoryAddress, clsk>>
        /\ UNCHANGED fetched
    BY <1>1, Zenon
       DEF historyVars, vars, cpuVars, memVars, accVars, cycleVars, devVars, clockVars
  <2>2. UNCHANGED Seen
    BY <2>1, Zenon DEF Seen, CoreBefore, PcBefore, WithinInstruction
  <2>3. Latched' = Latched
    BY <2>1, <2>2, SameInstruction, Zenon DEF Latched, Seen
  <2>4. IsaInv'
    BY <2>1, <2>2, <2>3, SameInstruction, Zenon
       DEF IsaInv, DeferLatched, ExecuteLatched, Seen
  <2> QED
    BY <2>2, <2>4, SeenIsVars
<1>2. CASE Next /\ RecordFetch
  <2>1. CASE InterruptCycle
    BY <1>2, <2>1, InterruptCycleFinds, SeenIsVars
  <2>2. CASE Fetch
    BY <1>2, <2>2, FetchFinds, SeenIsVars
  <2>3. CASE Defer
    BY <1>2, <2>3, DeferFinds, SeenIsVars
  <2>4. CASE Execute
    BY <1>2, <2>4, ExecuteDoes, SeenIsVars, Zenon DEF Architecture!Next
  <2>5. CASE Console
    BY <1>2, <2>5, ConsoleDoes, SeenIsVars
  <2>6. CASE Window \/ ClockThread
    <3>1. UNCHANGED <<core, programCounter, fieldVars, accumulator, cycle_state,
                      instructionReg, memoryAddress, clsk>>
      BY <2>6, Zenon
         DEF Window, WindowInput, WindowClosed, AtWindow, ClockThread, Tick, cpuVars, memVars,
             accVars, cycleVars, clockVars
    <3> QED
      BY <1>2, <3>1, InvKept, SeenIsVars
  <2> QED
    BY <1>2, <2>1, <2>2, <2>3, <2>4, <2>5, <2>6, Zenon DEF Next, instructionStep
<1> QED
  BY <1>1, <1>2, Zenon DEF HistoryNext

LEMMA HistoryIsSpec == HistorySpec => Spec
<1>1. HistoryInit => Init
  BY Zenon DEF HistoryInit
<1>2. [HistoryNext]_historyVars => [Next]_vars
  BY Zenon DEF HistoryNext, historyVars
<1> QED
  BY <1>1, <1>2, PTL DEF HistorySpec, Spec

(* For every program, every set of devices and every careful console, the  *)
(* machine does what the instruction set says and nothing else: what the   *)
(* clock, the window, the console and the interrupt logic do between two   *)
(* cycles never shows in memory, program counter, fields or accumulator.   *)
THEOREM MachineImplementsIsa == ASSUME Careful PROVE HistorySpec => ImplementsIsa
<1>1. HistoryInit => IsaInv /\ Architecture!Init
  BY IsaStart
<1>2. TypeInv /\ TypeInv' /\ IsaInv /\ [HistoryNext]_historyVars
        => IsaInv' /\ [Architecture!Next]_(Architecture!vars)
  BY IsaStep
<1> QED
  BY <1>1, <1>2, HistoryIsSpec, TypeInvariant, PTL
     DEF HistorySpec, ImplementsIsa, Architecture!Spec

-----------------------------------------------------------------------------
(* The DECWriter sample program, followed instruction by instruction.      *)
EchoCore == [c \in InField(0, EchoProgram) |-> EchoProgram.cells[c[2]]]

(* The instruction at each address of the program.                         *)
Stored(at, word) == <<0, at>> \in DOMAIN core /\ Read(<<0, at>>) = word

LEMMA EchoWords ==
  ASSUME core = EchoCore
  PROVE  /\ Stored(\o177, \o0041)
         /\ Stored(\o200, \o1177) /\ Stored(\o201, \o6046) /\ Stored(\o202, \o6031)
         /\ Stored(\o203, \o5202) /\ Stored(\o204, \o6036) /\ Stored(\o205, \o5201)
<1> DEFINE words == <<\o0041, \o1177, \o6046, \o6031, \o5202, \o6036, \o5201>>
<1>1. EchoProgram.cells = [w \in \o177 .. \o205 |-> words[w - \o177 + 1]]
  BY DEF EchoProgram, Program
<1>2. /\ words[\o177 - \o177 + 1] = \o0041 /\ words[\o200 - \o177 + 1] = \o1177
      /\ words[\o201 - \o177 + 1] = \o6046 /\ words[\o202 - \o177 + 1] = \o6031
      /\ words[\o203 - \o177 + 1] = \o5202 /\ words[\o204 - \o177 + 1] = \o6036
      /\ words[\o205 - \o177 + 1] = \o5201
  OBVIOUS
<1> HIDE DEF words
<1>3. ASSUME NEW at \in \o177 .. \o205
      PROVE  Stored(at, words[at - \o177 + 1])
  <2>1. at \in DOMAIN EchoProgram.cells /\ EchoProgram.cells[at] = words[at - \o177 + 1]
    BY <1>1
  <2>2. <<0, at>> \in InField(0, EchoProgram) /\ <<0, at>>[2] = at
    BY <2>1 DEF InField
  <2>3. core[<<0, at>>] = words[at - \o177 + 1]
    BY <2>1, <2>2, Zenon DEF EchoCore
  <2>4. <<0, at>> \in DOMAIN core
    BY <2>2, Zenon DEF EchoCore
  <2> QED
    BY <2>3, <2>4, Zenon DEF Stored, Read
<1>4. \A at \in {\o177, \o200, \o201, \o202, \o203, \o204, \o205} : at \in \o177 .. \o205
  OBVIOUS
<1> QED
  BY <1>2, <1>3, <1>4

(* What they are.                                                          *)
LEMMA EchoDecoded ==
  /\ OpCode(\o1177) = TAD /\ ImmediateAddress(\o200, \o1177) = \o177
  /\ OpCode(\o6046) = IOT /\ DeviceSel(\o6046) = printerDevice /\ DeviceOpr(\o6046) = 6
  /\ OpCode(\o6031) = IOT /\ DeviceSel(\o6031) = keyboardDevice /\ DeviceOpr(\o6031) = 1
  /\ OpCode(\o5202) = JMP /\ ImmediateAddress(\o203, \o5202) = \o202
  /\ OpCode(\o6036) = IOT /\ DeviceSel(\o6036) = keyboardDevice /\ DeviceOpr(\o6036) = 6
  /\ OpCode(\o5201) = JMP /\ ImmediateAddress(\o205, \o5201) = \o201
  /\ ~Bit(\o6046, \o200) /\ ~Bit(\o6031, \o200) /\ ~Bit(\o6036, \o200)
  /\ \A w \in {\o1177, \o6046, \o6031, \o5202, \o6036, \o5201} : ~Indirect(w)
BY DEF OpCode, TAD, IOT, JMP, DeviceSel, DeviceOpr, printerDevice, keyboardDevice, Bit, Indirect,
       ImmediateAddress, ZeroPage, Address

(* Where the machine is: before the instruction at an address, or in its   *)
(* Execute cycle.                                                          *)
Ahead(at) == cycle_state \in {"Interrupt", "Fetch"} /\ programCounter = at

Amid(at) ==
  /\ cycle_state = "Execute" /\ programCounter = at + 1
  /\ instructionReg = Read(<<0, at>>)
  /\ IsMemoryInstruction(instructionReg)
       => memoryAddress = <<0, ImmediateAddress(at, instructionReg)>>

(* What was typed is on the screen, in the accumulator, or with the        *)
(* device.                                                                 *)
Echoing(held) ==
  /\ terminal
  /\ \E printed \in Seq(Chars) :
       screen = <<\o41>> \o printed /\ typed = printed \o (held \o Held)

Holding == \E c \in Chars : Acc(accumulator) = c /\ Echoing(<<c>>)

Fresh == ~terminal /\ typed = << >> /\ ~keyboardFlag /\ inputLineBuffer = << >>

(* What each instruction finds.                                            *)
Finds(at) ==
  \/ at = \o200 /\ Fresh /\ accumulator = 0
  \/ at = \o201 /\ (Holding \/ (Fresh /\ accumulator = \o41))
  \/ at \in {\o202, \o203} /\ Echoing(<< >>)
  \/ at = \o204 /\ keyboardFlag /\ Echoing(<< >>)
  \/ at = \o205 /\ Holding

EchoAddresses == {\o200, \o201, \o202, \o203, \o204, \o205}

Unchanging == core = EchoCore /\ instField = 0 /\ instBuffer = 0 /\ ~clsk

EchoInv ==
  /\ Unchanging
  /\ typed \in Seq(Chars) /\ Len(typed) <= MaxTyped
  /\ \E at \in EchoAddresses : (Ahead(at) \/ Amid(at)) /\ Finds(at)

LEMMA FoundAgain ==
  ASSUME NEW at, Finds(at), UNCHANGED <<accumulator, typed, terminal, screen, keyboardVars>>
  PROVE  Finds(at)'
<1>1. Held' = Held /\ keyboardFlag' = keyboardFlag /\ inputLineBuffer' = inputLineBuffer
  BY Zenon DEF keyboardVars, Held, InBuffer
<1>2. ASSUME NEW held, Echoing(held) PROVE Echoing(held)'
  BY <1>1, <1>2, Zenon DEF Echoing
<1>3. Holding => Holding'
  BY <1>2, Zenon DEF Holding
<1>4. Fresh => Fresh'
  BY <1>1, Zenon DEF Fresh
<1>5. Echoing(<< >>) => Echoing(<< >>)'
  BY <1>2
<1>6. accumulator' = accumulator
  OBVIOUS
<1> QED
  BY <1>1, <1>3, <1>4, <1>5, <1>6, Zenon DEF Finds

(* A step between two cycles.                                              *)
EchoView == <<core, instField, instBuffer, clsk, programCounter, instructionReg, memoryAddress,
              accumulator, terminal, screen, keyboardVars>>

LEMMA EchoKept ==
  ASSUME EchoInv, UNCHANGED <<EchoView, typed>>,
         cycle_state' = cycle_state \/ ({cycle_state, cycle_state'} \subseteq {"Interrupt", "Fetch"})
  PROVE  EchoInv'
<1>1. PICK at \in EchoAddresses : (Ahead(at) \/ Amid(at)) /\ Finds(at)
  BY Zenon DEF EchoInv
<1>2. Finds(at)'
  BY <1>1, FoundAgain, Zenon DEF EchoView
<1>3. Ahead(at) => Ahead(at)'
  BY Zenon DEF Ahead, EchoView
<1>4. Amid(at) => Amid(at)'
  BY Zenon DEF Amid, EchoView, Read
<1>5. Unchanging'
  BY Zenon DEF EchoInv, Unchanging, EchoView
<1> QED
  BY <1>1, <1>2, <1>3, <1>4, <1>5, Zenon DEF EchoInv, EchoView

(* The commands that leave memory alone.                                   *)
RunCommands == {"c", "s", "C", "S", "quit"}

LEMMA EchoInterrupts == ASSUME EchoInv, InterruptCycle, UNCHANGED typed PROVE EchoInv'
<1>1. UNCHANGED EchoView
  BY Zenon
     DEF InterruptCycle, PollDevices, TakeInterrupt, AwaitService, AwaitUnconnected, NoInterrupt,
         Polled, Throw, EchoView, memVars, fieldVars, accVars, devVars, decVars, printerVars,
         clockVars
<1>2. cycle_state' = cycle_state \/ ({cycle_state, cycle_state'} \subseteq {"Interrupt", "Fetch"})
  BY Zenon
     DEF InterruptCycle, PollDevices, TakeInterrupt, AwaitService, AwaitUnconnected, NoInterrupt,
         Idling, Stepping, Polled, Throw, cycleVars
<1> QED
  BY <1>1, <1>2, EchoKept

LEMMA EchoConsole ==
  ASSUME Commands \subseteq RunCommands, EchoInv, Console, UNCHANGED typed
  PROVE  EchoInv'
<1>1. \A command \in {"l", "d", "E", "e", "RIM", "tape"} : command \notin Commands
  BY DEF RunCommands
<1>2. \A command : AtMemory(command) => command \in Commands
  BY Zenon DEF AtMemory, AtConsole
<1>3. PICK command : KeepAllBut(command)
  BY <1>1, <1>2, Zenon
     DEF Console, LoadAddress, ExamineAt, Deposit, Examine, LoadRim, LoadTape, Cycle, Step,
         Continue, Stop, Quit
<1>4. UNCHANGED EchoView /\ cycle_state' = cycle_state
  BY <1>3, Zenon
     DEF KeepAllBut, EchoView, memVars, fieldVars, accVars, cycleVars, devVars, decVars,
         printerVars, clockVars
<1> QED
  BY <1>4, EchoKept

LEMMA EchoTicks == ASSUME EchoInv, ClockThread, UNCHANGED typed PROVE EchoInv'
<1>1. UNCHANGED EchoView /\ cycle_state' = cycle_state
  BY Zenon
     DEF ClockThread, Tick, EchoView, cpuVars, memVars, fieldVars, accVars, cycleVars, decVars,
         printerVars
<1> QED
  BY <1>1, EchoKept

(* Typing: the characters go behind those the device holds.                *)
LEMMA WindowHolds ==
  ASSUME TypeInv, NEW chars \in Seq(Chars), WindowInput(chars)
  PROVE  Held' = Held \o chars
<1>1. /\ keyboardFlag \in BOOLEAN /\ inputLineBuffer \in Seq(Chars)
      /\ keyboardBuffer \in Byte
      /\ inputLineBuffer # << >> => keyboardFlag
  BY Zenon DEF TypeInv, DeviceInv, DECWriterTypeOK, NoStrandedInput, Byte
<1>2. nextChar(keyboardFlag, inputLineBuffer \o chars)
  BY Zenon DEF WindowInput, selected
<1>3. inputLineBuffer \o chars \in Seq(Chars)
  BY <1>1, ConcatProperties
<1>4. Held' = InBuffer \o (inputLineBuffer \o chars)
  BY <1>1, <1>2, <1>3, NextCharHolds, Zenon DEF InBuffer
<1>5. CASE keyboardFlag
  <2>1. Chars \subseteq Byte
    BY DECWriterAssumption DEF Byte
  <2>2. /\ <<keyboardBuffer>> \in Seq(Byte)
        /\ inputLineBuffer \in Seq(Byte) /\ chars \in Seq(Byte)
    BY <1>1, <2>1, SeqMonotonic
  <2>3. InBuffer \o (inputLineBuffer \o chars) = (InBuffer \o inputLineBuffer) \o chars
    <3>1. InBuffer = <<keyboardBuffer>>
      BY <1>5, Zenon DEF InBuffer
    <3> HIDE DEF InBuffer
    <3> QED
      BY <2>2, <3>1, ConcatAssociative
  <2> QED
    BY <1>4, <2>3, Zenon DEF Held
<1>6. CASE ~keyboardFlag
  <2>1. InBuffer = << >> /\ inputLineBuffer = << >>
    BY <1>1, <1>6, Zenon DEF InBuffer
  <2> QED
    BY <1>4, <2>1, ConcatEmptySeq DEF Held
<1> QED
  BY <1>5, <1>6

LEMMA EchoingMore ==
  ASSUME TypeInv, NEW chars \in Seq(Chars), WindowInput(chars), typed \in Seq(Chars),
         typed' = typed \o chars,
         NEW held \in Seq(Chars), Echoing(held)
  PROVE  Echoing(held)'
<1>1. PICK printed \in Seq(Chars) : screen = <<\o41>> \o printed /\ typed = printed \o (held \o Held)
  BY Zenon DEF Echoing
<1>2. Held \in Seq(Byte)
  <2>1. keyboardBuffer \in Byte /\ inputLineBuffer \in Seq(Chars)
    BY Zenon DEF TypeInv, DeviceInv, DECWriterTypeOK, Byte
  <2>2. Chars \subseteq Byte
    BY DECWriterAssumption DEF Byte
  <2>3. inputLineBuffer \in Seq(Byte) /\ <<keyboardBuffer>> \in Seq(Byte) /\ << >> \in Seq(Byte)
    BY <2>1, <2>2, SeqMonotonic, EmptySeq
  <2>4. InBuffer \in Seq(Byte)
    BY <2>3, Zenon DEF InBuffer
  <2> QED
    BY <2>3, <2>4, ConcatProperties, Zenon DEF Held
<1>3. printed \in Seq(Byte) /\ held \in Seq(Byte) /\ chars \in Seq(Byte)
  <2>1. Chars \subseteq Byte
    BY DECWriterAssumption DEF Byte
  <2> QED
    BY <2>1, SeqMonotonic
<1>4. typed \o chars = printed \o (held \o (Held \o chars))
  <2>1. held \o Held \in Seq(Byte)
    BY <1>2, <1>3, ConcatProperties
  <2>2. Associates(printed, held \o Held, chars) /\ Associates(held, Held, chars)
    BY <1>2, <1>3, <2>1, AllAssociate, Zenon
  <2> QED
    BY <1>1, <2>2, Zenon DEF Associates
<1>5. Held' = Held \o chars
  BY WindowHolds
<1>6. UNCHANGED <<terminal, screen>>
  BY Zenon DEF WindowInput, selected, printerVars
<1> QED
  BY <1>1, <1>4, <1>5, <1>6, Zenon DEF Echoing

LEMMA EchoTyping ==
  ASSUME TypeInv, EchoInv, NEW chars \in Typed, Type(chars)
  PROVE  EchoInv'
<1>1. chars \in Seq(Chars) /\ typed \in Seq(Chars) /\ WindowInput(chars) /\ typed' = typed \o chars
  BY TypedLines, Zenon DEF Type, EchoInv
<1>2. UNCHANGED <<core, instField, instBuffer, clsk, programCounter, instructionReg,
                  memoryAddress, accumulator, cycle_state>> /\ terminal
  BY <1>1, Zenon DEF WindowInput, AtWindow, cpuVars, memVars, fieldVars, accVars, cycleVars,
                     clockVars, selected
<1>3. typed' \in Seq(Chars) /\ Len(typed') <= MaxTyped
  BY <1>1, ConcatProperties DEF Type
<1>4. PICK at \in EchoAddresses : (Ahead(at) \/ Amid(at)) /\ Finds(at)
  BY Zenon DEF EchoInv
<1>5. Finds(at)'
  <2>1. << >> \in Seq(Chars) /\ \A c \in Chars : <<c>> \in Seq(Chars)
    BY EmptySeq
  <2>2. Echoing(<< >>) => Echoing(<< >>)'
    BY <1>1, <2>1, EchoingMore
  <2>3. Holding => Holding'
    <3> SUFFICES ASSUME NEW c \in Chars, Acc(accumulator) = c, Echoing(<<c>>)
                 PROVE  Holding'
      BY Zenon DEF Holding
    <3>1. Echoing(<<c>>)'
      BY <1>1, <2>1, EchoingMore
    <3> QED
      BY <1>2, <3>1, Zenon DEF Holding
  <2>4. keyboardFlag => keyboardFlag'
    BY <1>1, Zenon DEF WindowInput, selected, nextChar
  <2>5. ~Fresh
    BY <1>2 DEF Fresh
  <2> QED
    BY <1>4, <2>2, <2>3, <2>4, <2>5, Zenon DEF Finds
<1>6. (Ahead(at) \/ Amid(at))'
  BY <1>2, <1>4, Zenon DEF Ahead, Amid, Read
<1>7. Unchanging'
  BY <1>2, Zenon DEF EchoInv, Unchanging
<1> QED
  BY <1>3, <1>5, <1>6, <1>7, Zenon DEF EchoInv

LEMMA EchoFetches == ASSUME EchoInv, Fetch, UNCHANGED typed PROVE EchoInv'
<1>1. PICK at \in EchoAddresses : (Ahead(at) \/ Amid(at)) /\ Finds(at)
  BY Zenon DEF EchoInv
<1>2. cycle_state = "Fetch" /\ programCounter = at
  <2>1. cycle_state = "Fetch"
    BY Zenon DEF Fetch, Stepping
  <2> QED
    BY <1>1, <2>1 DEF Ahead, Amid
<1>3. at \in 0 .. \o7776
  BY DEF EchoAddresses
<1>4. Here = <<0, at>> /\ instField = 0
  BY <1>2, Zenon DEF Here, EchoInv, Unchanging
<1>5. Here \in DOMAIN core /\ ~Indirect(Read(Here))
  <2>1. core = EchoCore
    BY Zenon DEF EchoInv, Unchanging
  <2>2. \E word : Stored(at, word) /\ ~Indirect(word)
    BY <2>1, EchoWords, EchoDecoded DEF EchoAddresses
  <2> QED
    BY <1>4, <2>2, Zenon DEF Stored
<1>6. /\ cycle_state' = "Execute" /\ programCounter' = at + 1
      /\ instructionReg' = Read(Here) /\ core' = core
      /\ IsMemoryInstruction(instructionReg')
           => memoryAddress' = <<0, ImmediateAddress(at, instructionReg')>>
  <2>1. programCounter' = at + 1
    <3>1. programCounter' = Inc(at)
      BY <1>2, Zenon DEF Fetch
    <3> QED
      BY <1>3, <3>1 DEF Inc, WordSize
  <2>2. cycle_state' = "Execute" /\ instructionReg' = Read(Here) /\ core' = core
    BY <1>5, Zenon DEF Fetch
  <2>3. IsMemoryInstruction(Read(Here)) => memoryAddress' = <<0, ImmediateAddress(at, Read(Here))>>
    BY <1>2, <1>4, <1>5, Zenon DEF Fetch
  <2> QED
    BY <2>1, <2>2, <2>3, Zenon
<1>7. Read(<<0, at>>)' = Read(Here)
  BY <1>4, <1>6, Zenon DEF Read
<1>8. Amid(at)'
  BY <1>6, <1>7, Zenon DEF Amid
<1>9. UNCHANGED <<accumulator, terminal, screen, keyboardVars, instField, instBuffer, clsk>>
  BY Zenon DEF Fetch, accVars, fieldVars, devVars, decVars, printerVars, clockVars
<1>10. Finds(at)'
  BY <1>1, <1>9, FoundAgain, Zenon
<1>11. Unchanging'
  BY <1>6, <1>9, Zenon DEF EchoInv, Unchanging
<1> QED
  BY <1>8, <1>10, <1>11, Zenon DEF EchoInv

(* What an input or output instruction is, apart from the operations of    *)
(* keyboard and printer.                                                   *)
LEMMA InputOutputReach ==
  ASSUME InputOutput, ~CLSKClear
  PROVE  /\ Executing(IOT)
         /\ \/ DeviceSel(instructionReg) \in {0, clockDevice}
            \/ Bit(instructionReg, \o200)
            \/ DeviceSel(instructionReg) \notin Connected
            \/ KeyboardIOT \/ PrinterIOT
            \/ DeviceSel(instructionReg) = keyboardDevice
                 /\ DeviceOpr(instructionReg) \notin KeyboardOps
            \/ DeviceSel(instructionReg) = printerDevice
                 /\ DeviceOpr(instructionReg) \notin PrinterOps
<1>1. SKON \/ SRQ \/ SGT \/ ION \/ IOF \/ GTF \/ RTF \/ CAF
        => Executing(IOT) /\ DeviceSel(instructionReg) = 0
  <2>1. \A op : ProcessorIOT(op)
                  => Executing(IOT) /\ DeviceSel(instructionReg) = 0
    BY Zenon DEF ProcessorIOT
  <2>2. SKON \/ SRQ \/ SGT => \E op : ProcessorIOT(op)
    BY Zenon DEF SKON, SRQ, SGT, SkipIOT
  <2>3. ION \/ IOF => \E op : ProcessorIOT(op)
    BY Zenon DEF ION, IOF
  <2>4. (GTF => ProcessorIOT(4)) /\ (RTF => ProcessorIOT(5))
    BY DEF GTF, RTF
  <2>5. CAF => \E op : ProcessorIOT(op)
    BY Zenon DEF CAF
  <2> QED
    BY <2>1, <2>2, <2>3, <2>4, <2>5, Zenon
<1>2. CDF_CIF => Executing(IOT) /\ Bit(instructionReg, \o200)
  BY Zenon DEF CDF_CIF, IsMemoryExtension
<1>3. ClockIOT \/ CLSKTest
        => Executing(IOT) /\ DeviceSel(instructionReg) = clockDevice
  BY Zenon DEF ClockIOT, CLSKTest, DeviceIOT
<1>4. KeyboardIOT \/ PrinterIOT => Executing(IOT)
  BY Zenon DEF KeyboardIOT, PrinterIOT, DeviceIOT
<1>5. UnconnectedIOT
        => Executing(IOT) /\ DeviceSel(instructionReg) \notin Connected
  BY Zenon DEF UnconnectedIOT
<1>6. BadDeviceOperation
        => /\ Executing(IOT)
           /\ \/ DeviceSel(instructionReg) = keyboardDevice
                /\ DeviceOpr(instructionReg) \notin KeyboardOps
              \/ DeviceSel(instructionReg) = printerDevice
                /\ DeviceOpr(instructionReg) \notin PrinterOps
  BY Zenon DEF BadDeviceOperation
<1> QED
  BY <1>1, <1>2, <1>3, <1>4, <1>5, <1>6, Zenon DEF InputOutput

(* Which instruction an Execute cycle performs.                            *)
LEMMA Performs ==
  ASSUME Execute, ~clsk
  PROVE  /\ cycle_state = "Execute"
         /\ OpCode(instructionReg) = TAD => ExecuteTAD
         /\ OpCode(instructionReg) = JMP
              => EndExecute /\ (Jump \/ BackBy(1))
                            /\ UNCHANGED <<core, devVars, accumulator>>
         /\ OpCode(instructionReg) = IOT => InputOutput /\ ~CLSKClear
<1>1. AND # TAD /\ ISZ # TAD /\ DCA # TAD /\ JMS # TAD /\ JMP # TAD /\ IOT # TAD /\ OPR # TAD
  BY DEF AND, TAD, ISZ, DCA, JMS, JMP, IOT, OPR
<1>2. AND # JMP /\ ISZ # JMP /\ DCA # JMP /\ JMS # JMP /\ IOT # JMP /\ OPR # JMP
  BY DEF AND, TAD, ISZ, DCA, JMS, JMP, IOT, OPR
<1>3. AND # IOT /\ ISZ # IOT /\ DCA # IOT /\ JMS # IOT /\ OPR # IOT
  BY DEF AND, TAD, ISZ, DCA, JMS, JMP, IOT, OPR
<1>4. ~CLSKClear
  BY Zenon DEF CLSKClear, ClearClockFlag
<1>5. Operate => Executing(OPR)
  BY Zenon DEF Operate, OPRGroup1, BadOPR, OPRGroup2, OPRGroup3
<1>6. InputOutput => Executing(IOT)
  BY <1>4, InputOutputReach
<1>7. MemoryReference
        => \/ ExecuteTAD /\ Executing(TAD)
           \/ Executing(AND) \/ Executing(ISZ) \/ Executing(DCA) \/ Executing(JMS)
           \/ /\ Executing(JMP)
              /\ ExecuteJMP \/ JumpToPrevious \/ JumpToSelfStopping \/ JumpToSelfWaiting
  BY Zenon
     DEF MemoryReference, ExecuteAND, ExecuteTAD, ExecuteISZ, ExecuteDCA, ExecuteJMS, ExecuteJMP,
         JumpToPrevious, JumpToSelfWaiting, JumpToSelfStopping
<1>8. ExecuteJMP \/ JumpToPrevious \/ JumpToSelfStopping \/ JumpToSelfWaiting
        => /\ EndExecute /\ UNCHANGED <<core, devVars, accumulator>>
           /\ Jump \/ BackBy(1)
  BY Zenon
     DEF ExecuteJMP, JumpToPrevious, JumpToSelfWaiting, JumpToSelfStopping, Load, memVars, accVars
<1>9. \A op : Executing(op) => cycle_state = "Execute" /\ OpCode(instructionReg) = op
  BY Zenon DEF Executing, Stepping
<1>10. OpCode(instructionReg) = TAD => ExecuteTAD
  BY <1>1, <1>5, <1>6, <1>7, <1>9, Zenon DEF Execute
<1>11. OpCode(instructionReg) = JMP
         => ExecuteJMP \/ JumpToPrevious \/ JumpToSelfStopping \/ JumpToSelfWaiting
  BY <1>1, <1>2, <1>5, <1>6, <1>7, <1>9, Zenon DEF Execute
<1>12. OpCode(instructionReg) = IOT => InputOutput
  BY <1>1, <1>2, <1>3, <1>5, <1>7, <1>9, Zenon DEF Execute
<1>13. cycle_state = "Execute"
  BY <1>5, <1>6, <1>7, <1>9, Zenon DEF Execute
<1> QED
  BY <1>4, <1>8, <1>10, <1>11, <1>12, <1>13, Zenon

LEMMA KeyboardPerforms ==
  ASSUME InputOutput, ~CLSKClear,
         keyboardDevice \in Connected, DeviceSel(instructionReg) = keyboardDevice,
         ~Bit(instructionReg, \o200), DeviceOpr(instructionReg) \in KeyboardOps
  PROVE  KeyboardIOT
<1>1. keyboardDevice \notin {0, clockDevice} /\ keyboardDevice # printerDevice
  BY DEF keyboardDevice, printerDevice, clockDevice
<1>2. PrinterIOT => DeviceSel(instructionReg) = printerDevice
  BY Zenon DEF PrinterIOT, DeviceIOT
<1> QED
  BY <1>1, <1>2, InputOutputReach, Zenon

LEMMA PrinterPerforms ==
  ASSUME InputOutput, ~CLSKClear,
         printerDevice \in Connected, DeviceSel(instructionReg) = printerDevice,
         ~Bit(instructionReg, \o200), DeviceOpr(instructionReg) \in PrinterOps
  PROVE  PrinterIOT
<1>1. printerDevice \notin {0, clockDevice} /\ printerDevice # keyboardDevice
  BY DEF keyboardDevice, printerDevice, clockDevice
<1>2. KeyboardIOT => DeviceSel(instructionReg) = keyboardDevice
  BY Zenon DEF KeyboardIOT, DeviceIOT
<1> QED
  BY <1>1, <1>2, InputOutputReach, Zenon

(* The end of an instruction of the program.                               *)
LEMMA EchoEnds ==
  ASSUME EchoInv, UNCHANGED typed, core' = core, instBuffer' = instBuffer, clsk' = clsk,
         instField' = 0, cycle_state' = "Interrupt",
         NEW next \in EchoAddresses, programCounter' = next, Finds(next)'
  PROVE  EchoInv'
<1>1. Ahead(next)'
  BY Zenon DEF Ahead
<1>2. Unchanging'
  BY Zenon DEF EchoInv, Unchanging
<1> QED
  BY <1>1, <1>2, Zenon DEF EchoInv

(* TAD: the exclamation mark.                                              *)
LEMMA EchoAdds ==
  ASSUME EchoInv, UNCHANGED typed, Execute, Amid(\o200), Finds(\o200)
  PROVE  EchoInv'
<1>1. core = EchoCore /\ ~clsk /\ instField = 0
  BY Zenon DEF EchoInv, Unchanging
<1>2. instructionReg = \o1177 /\ programCounter = \o201
  BY <1>1, EchoWords DEF Amid, Stored
<1>3. ExecuteTAD
  <2>1. OpCode(instructionReg) = TAD
    BY <1>2, EchoDecoded
  <2> QED
    BY <1>1, <2>1, Performs, Zenon
<1>4. Read(memoryAddress) = \o0041
  <2>1. IsMemoryInstruction(instructionReg)
    BY <1>2 DEF IsMemoryInstruction, OpCode, IOT, OPR
  <2>2. ImmediateAddress(\o200, instructionReg) = \o177
    BY <1>2, EchoDecoded
  <2>3. memoryAddress = <<0, \o177>>
    BY <2>1, <2>2 DEF Amid
  <2> QED
    BY <1>1, <2>3, EchoWords DEF Stored
<1>5. Fresh /\ accumulator = 0
  BY DEF Finds
<1>6. accumulator' = \o41
  <2>1. accumulator' = Plus(accumulator, Read(memoryAddress))
    BY <1>3, Zenon DEF ExecuteTAD
  <2> QED
    BY <1>4, <1>5, <2>1 DEF Plus
<1>7. /\ UNCHANGED <<core, instField, instBuffer, clsk, programCounter, terminal, keyboardFlag,
                     inputLineBuffer>>
      /\ cycle_state' = "Interrupt"
  BY <1>3, Zenon
     DEF ExecuteTAD, EndExecute, Load, KeepControl, fieldVars, devVars, decVars, keyboardVars,
         clockVars
<1>8. Fresh'
  BY <1>5, <1>7, Zenon DEF Fresh
<1>9. Finds(\o201)'
  BY <1>6, <1>8 DEF Finds
<1> QED
  BY <1>1, <1>2, <1>7, <1>9, EchoEnds DEF EchoAddresses

(* JMP to an address of the program.                                       *)
LEMMA EchoJumps ==
  ASSUME EchoInv, UNCHANGED typed, Execute, NEW at \in EchoAddresses, NEW next \in EchoAddresses,
         Amid(at), OpCode(instructionReg) = JMP,
         ImmediateAddress(at, instructionReg) = next, next < at,
         Finds(at), Finds(at) => Finds(next)
  PROVE  EchoInv'
<1>1. ~clsk /\ instField = 0 /\ instBuffer = 0
  BY Zenon DEF EchoInv, Unchanging
<1>2. EndExecute /\ (Jump \/ BackBy(1)) /\ UNCHANGED <<core, devVars, accumulator>>
  BY <1>1, Performs, Zenon
<1>3. IsMemoryInstruction(instructionReg)
  BY DEF IsMemoryInstruction, JMP, IOT, OPR
<1>4. memoryAddress[2] = next /\ programCounter = at + 1
  BY <1>3 DEF Amid
<1>5. Jump
  <2>1. at \in Nat /\ next \in Nat
    BY DEF EchoAddresses
  <2>2. programCounter - 1 # memoryAddress[2]
    BY <1>4, <2>1
  <2> QED
    BY <1>2, <2>2, Zenon DEF BackBy
<1>6. programCounter' = next /\ instField' = 0 /\ instBuffer' = instBuffer
  BY <1>1, <1>4, <1>5, Zenon DEF Jump
<1>7. /\ UNCHANGED <<accumulator, terminal, screen, keyboardVars>> /\ clsk' = clsk
      /\ cycle_state' = "Interrupt"
  BY <1>2, Zenon DEF EndExecute, devVars, decVars, printerVars, clockVars
<1>8. Finds(next)'
  BY <1>7, FoundAgain, Zenon
<1> QED
  BY <1>2, <1>6, <1>7, <1>8, EchoEnds, Zenon

(* What the device's instructions leave alone.                             *)
LEMMA DeviceKeeps ==
  ASSUME KeyboardIOT \/ PrinterIOT
  PROVE  /\ UNCHANGED <<core, instField, instBuffer, clsk>>
         /\ cycle_state' = "Interrupt"
BY Zenon DEF KeyboardIOT, PrinterIOT, DeviceIOT, EndExecute, memVars, fieldVars, clockVars

(* KSF: the loop goes on until a character is there.                       *)
LEMMA EchoWaits ==
  ASSUME keyboardDevice \in Connected,
         EchoInv, UNCHANGED typed, Execute, Amid(\o202), Finds(\o202)
  PROVE  EchoInv'
<1>1. core = EchoCore /\ ~clsk /\ instField = 0
  BY Zenon DEF EchoInv, Unchanging
<1>2. instructionReg = \o6031 /\ programCounter = \o203
  BY <1>1, EchoWords DEF Amid, Stored
<1>3. DeviceOpr(instructionReg) = 1 /\ 1 \in KeyboardOps /\ 1 \notin {0, 5, 6}
  BY <1>2, EchoDecoded DEF KeyboardOps
<1>4. KeyboardIOT
  <2>1. /\ OpCode(instructionReg) = IOT /\ DeviceSel(instructionReg) = keyboardDevice
        /\ ~Bit(instructionReg, \o200)
    BY <1>2, EchoDecoded
  <2> QED
    BY <1>1, <1>3, <2>1, Performs, KeyboardPerforms, Zenon
<1>5. UNCHANGED decVars
  BY <1>3, <1>4, Zenon DEF KeyboardIOT, KeyboardOperation
<1>6. Echoing(<< >>)
  BY DEF Finds
<1>7. Echoing(<< >>)'
  <2>1. UNCHANGED <<terminal, screen>> /\ Held' = Held
    BY <1>5, Zenon DEF decVars, keyboardVars, printerVars, Held, InBuffer
  <2> QED
    BY <1>6, <2>1, Zenon DEF Echoing
<1>8. CASE keyboardFlag
  <2>1. programCounter' = \o204
    <3>1. programCounter' = Inc(programCounter)
      BY <1>3, <1>4, <1>8, Zenon DEF KeyboardIOT, Skip, KeyboardSkip
    <3> QED
      BY <1>2, <3>1 DEF Inc, WordSize
  <2>2. keyboardFlag'
    BY <1>5, <1>8, Zenon DEF decVars, keyboardVars
  <2>3. Finds(\o204)'
    BY <1>7, <2>2, Zenon DEF Finds
  <2>4. \o204 \in EchoAddresses
    BY DEF EchoAddresses
  <2> QED
    BY <1>1, <1>4, <2>1, <2>3, <2>4, DeviceKeeps, EchoEnds, Zenon
<1>9. CASE ~keyboardFlag
  <2>1. programCounter' = \o203
    <3>1. programCounter' = programCounter
      BY <1>4, <1>9, Zenon DEF KeyboardIOT, Skip, KeyboardSkip
    <3> QED
      BY <1>2, <3>1
  <2>2. Finds(\o203)'
    BY <1>7 DEF Finds
  <2>3. \o203 \in EchoAddresses
    BY DEF EchoAddresses
  <2> QED
    BY <1>1, <1>4, <2>1, <2>2, <2>3, DeviceKeeps, EchoEnds, Zenon
<1> QED
  BY <1>8, <1>9

LEMMA HeldType ==
  ASSUME TypeInv
  PROVE  /\ keyboardBuffer \in Byte /\ keyboardFlag \in BOOLEAN /\ printerFlag
         /\ inputLineBuffer \in Seq(Chars) /\ inputLineBuffer \in Seq(Byte)
         /\ Held \in Seq(Byte)
<1>1. /\ keyboardBuffer \in Byte /\ keyboardFlag \in BOOLEAN /\ printerFlag
      /\ inputLineBuffer \in Seq(Chars)
  BY Zenon DEF TypeInv, DeviceInv, DECWriterTypeOK, PrinterAlwaysReady, Byte
<1>2. Chars \subseteq Byte
  BY DECWriterAssumption DEF Byte
<1>3. inputLineBuffer \in Seq(Byte) /\ <<keyboardBuffer>> \in Seq(Byte) /\ << >> \in Seq(Byte)
  BY <1>1, <1>2, SeqMonotonic, EmptySeq
<1>4. InBuffer \in Seq(Byte)
  BY <1>3, Zenon DEF InBuffer
<1> QED
  BY <1>1, <1>3, <1>4, ConcatProperties, Zenon DEF Held

(* KRB: the character goes from the device to the accumulator.             *)
LEMMA EchoReads ==
  ASSUME keyboardDevice \in Connected,
         TypeInv, EchoInv, UNCHANGED typed, Execute, Amid(\o204), Finds(\o204)
  PROVE  EchoInv'
<1>1. core = EchoCore /\ ~clsk /\ instField = 0
  BY Zenon DEF EchoInv, Unchanging
<1>2. instructionReg = \o6036 /\ programCounter = \o205
  BY <1>1, EchoWords DEF Amid, Stored
<1>3. DeviceOpr(instructionReg) = 6 /\ 6 \in KeyboardOps /\ 6 \notin {0, 1, 4, 5}
  BY <1>2, EchoDecoded DEF KeyboardOps
<1>4. KeyboardIOT
  <2>1. /\ OpCode(instructionReg) = IOT /\ DeviceSel(instructionReg) = keyboardDevice
        /\ ~Bit(instructionReg, \o200)
    BY <1>2, EchoDecoded
  <2> QED
    BY <1>1, <1>3, <2>1, Performs, KeyboardPerforms, Zenon
<1>5. /\ performInputOutput(FALSE, printerFlag, printerBuffer)
      /\ programCounter' = programCounter
      /\ accumulator' = WithAcc(accumulator, keyboardBuffer % \o400)
  <2>1. KRB
    BY <1>3, <1>4, Zenon DEF KeyboardIOT, KeyboardOperation
  <2>2. accumulator' = WithAcc(accumulator, KeyboardAcc(6, Acc(accumulator)))
    BY <1>3, <1>4, Zenon DEF KeyboardIOT
  <2>3. KeyboardAcc(6, Acc(accumulator)) = keyboardBuffer % \o400
    BY DEF KeyboardAcc
  <2>4. programCounter' = programCounter
    BY <1>3, <1>4, Zenon DEF KeyboardIOT, Skip, KeyboardSkip
  <2> QED
    BY <2>1, <2>2, <2>3, <2>4, Zenon DEF KRB
<1>6. keyboardFlag /\ Echoing(<< >>)
  BY DEF Finds
<1>7. PICK printed \in Seq(Chars) :
        screen = <<\o41>> \o printed /\ typed = printed \o (<< >> \o Held)
  BY <1>6, Zenon DEF Echoing
<1>8. Held = <<keyboardBuffer>> \o inputLineBuffer
  BY <1>6, Zenon DEF Held, InBuffer
<1>9. Held' = inputLineBuffer
  <2>1. Held' = << >> \o inputLineBuffer
    BY <1>5, InputOutputHolds, Zenon DEF TypeInv
  <2> QED
    BY <2>1, HeldType, ConcatEmptySeq, Zenon
<1>10. typed = printed \o (<<keyboardBuffer>> \o Held')
  <2>1. << >> \o Held = Held
    BY HeldType, ConcatEmptySeq
  <2> QED
    BY <1>7, <1>8, <1>9, <2>1, Zenon
<1>11. keyboardBuffer \in Chars
  <2>1. printed \in Seq(Byte)
    <3>1. Chars \subseteq Byte
      BY DECWriterAssumption DEF Byte
    <3> QED
      BY <3>1, SeqMonotonic
  <2>2. typed = printed \o Held /\ Held \in Seq(Byte) /\ Len(Held) > 0 /\ Held[1] = keyboardBuffer
    <3>1. << >> \o Held = Held
      BY HeldType, ConcatEmptySeq
    <3>2. <<keyboardBuffer>> \in Seq(Byte) /\ inputLineBuffer \in Seq(Byte)
      BY HeldType
    <3>3. Len(<<keyboardBuffer>> \o inputLineBuffer) > 0
          /\ (<<keyboardBuffer>> \o inputLineBuffer)[1] = keyboardBuffer
      BY <3>2
    <3> QED
      BY <1>7, <1>8, <3>1, <3>3, HeldType, Zenon
  <2> HIDE DEF Held
  <2>3. typed[Len(printed) + 1] = keyboardBuffer /\ Len(printed) + 1 \in 1 .. Len(typed)
    BY <2>1, <2>2, ConcatProperties, LenProperties
  <2>4. typed \in Seq(Chars)
    BY Zenon DEF EchoInv
  <2> QED
    BY <2>3, <2>4, ElementOfSeq
<1>12. PICK char \in Chars : char = keyboardBuffer
  BY <1>11
<1>13. Echoing(<<char>>)'
  <2>1. terminal' = TRUE /\ screen' = screen
    BY <1>5, <1>6, HeldType, Zenon DEF performInputOutput, Echoing
  <2>2. typed' = printed \o (<<char>> \o Held')
    BY <1>10, <1>12, Zenon
  <2> QED
    BY <1>7, <2>1, <2>2, Zenon DEF Echoing
<1>14. Acc(accumulator') = char
  <2>1. accumulator \in 0 .. \o17777 /\ keyboardBuffer \in 0 .. \o377
    <3>1. accumulator \in Lac /\ keyboardBuffer \in Byte
      BY HeldType, Zenon DEF TypeInv, AccTypeOK
    <3> QED
      BY <3>1, Zenon DEF Lac, Byte
  <2>2. accumulator' = (accumulator - (accumulator % WordSize))
                         + ((keyboardBuffer % \o400) % WordSize)
    BY <1>5, Zenon DEF WithAcc, Acc, ToWord
  <2>3. (keyboardBuffer % \o400) % WordSize = keyboardBuffer
    BY <2>1 DEF WordSize
  <2>4. ((accumulator - (accumulator % WordSize)) + keyboardBuffer) % WordSize = keyboardBuffer
    BY <2>1 DEF WordSize
  <2> QED
    BY <1>12, <2>2, <2>3, <2>4, ZenonT(30) DEF Acc
<1>15. Finds(\o205)'
  <2>1. Acc(accumulator)' = char
    BY <1>14, Zenon DEF Acc
  <2>2. Holding'
    BY <1>13, <2>1, Zenon DEF Holding
  <2> QED
    BY <2>2 DEF Finds
<1>16. programCounter' = \o205 /\ \o205 \in EchoAddresses
  BY <1>2, <1>5 DEF EchoAddresses
<1> QED
  BY <1>1, <1>4, <1>15, <1>16, DeviceKeeps, EchoEnds, Zenon

(* TLS: the character goes from the accumulator to the screen.             *)
LEMMA PutAppends ==
  ASSUME NEW shown \in Seq(Byte), shown = (IF terminal THEN screen ELSE << >>),
         NEW byte \in Byte, byte # CarriageReturn, Len(shown) < ScreenSize
  PROVE  Put(byte) = shown \o <<byte>>
<1>1. shown \o <<byte>> \in Seq(Byte) /\ Len(shown \o <<byte>>) = Len(shown) + 1
  OBVIOUS
<1>2. ~(Len(shown \o <<byte>>) - ScreenSize > 0)
  BY <1>1, DECWriterAssumption, LenProperties
<1> QED
  BY <1>2, Zenon DEF Put

LEMMA EchoPrints ==
  ASSUME printerDevice \in Connected, CarriageReturn \notin Chars, MaxTyped < ScreenSize,
         TypeInv, EchoInv, UNCHANGED typed, Execute, Amid(\o201), Finds(\o201)
  PROVE  EchoInv'
<1>1. core = EchoCore /\ ~clsk /\ instField = 0
  BY Zenon DEF EchoInv, Unchanging
<1>2. instructionReg = \o6046 /\ programCounter = \o202
  BY <1>1, EchoWords DEF Amid, Stored
<1>3. DeviceOpr(instructionReg) = 6 /\ 6 \in PrinterOps /\ 6 \notin {0, 1, 2, 4, 5}
  BY <1>2, EchoDecoded DEF PrinterOps
<1>4. PrinterIOT
  <2>1. /\ OpCode(instructionReg) = IOT /\ DeviceSel(instructionReg) = printerDevice
        /\ ~Bit(instructionReg, \o200)
    BY <1>2, EchoDecoded
  <2> QED
    BY <1>1, <1>3, <2>1, Performs, PrinterPerforms, Zenon
<1>5. /\ performInputOutput(keyboardFlag, FALSE, getAscii(Acc(accumulator)))
      /\ programCounter' = programCounter
  <2>1. TLS(Acc(accumulator))
    BY <1>3, <1>4, Zenon DEF PrinterIOT, PrinterOperation
  <2>2. programCounter' = programCounter
    BY <1>3, <1>4, Zenon DEF PrinterIOT, Skip, PrinterSkip
  <2> QED
    BY <2>1, <2>2, Zenon DEF TLS
<1>6. terminal' = TRUE /\ screen' = Put(getAscii(Acc(accumulator)))
  BY <1>5, Zenon DEF performInputOutput
<1>7. Held' = Held
  BY <1>5, HeldType, InputOutputHolds, Zenon DEF TypeInv, Held, InBuffer
<1>8. MaxTyped \in Nat /\ ScreenSize \in Nat /\ Chars \subseteq Byte
  BY PromisesAssumption, DECWriterAssumption DEF Byte
<1>9. Echoing(<< >>)'
  <2>1. CASE Fresh /\ accumulator = \o41
    <3>1. getAscii(Acc(accumulator)) = \o41
      BY <2>1 DEF getAscii, Acc, WordSize
    <3>2. Put(\o41) = << >> \o <<\o41>>
      <4>1. \o41 \in Byte /\ \o41 # CarriageReturn
        BY DEF Byte, CarriageReturn
      <4>2. << >> \in Seq(Byte) /\ Len(<< >>) < ScreenSize
        BY <1>8, DECWriterAssumption, EmptySeq
      <4>3. << >> = (IF terminal THEN screen ELSE << >>)
        BY <2>1, Zenon DEF Fresh
      <4> QED
        BY <4>1, <4>2, <4>3, PutAppends
    <3>3. screen' = <<\o41>> \o << >>
      BY <1>6, <3>1, <3>2
    <3>4. Held' = << >>
      BY <1>7, <2>1, ConcatEmptySeq DEF Fresh, Held, InBuffer
    <3>5. << >> = << >> \o (<< >> \o << >>) /\ << >> \in Seq(Chars)
      BY EmptySeq
    <3> QED
      BY <1>6, <2>1, <3>3, <3>4, <3>5, Zenon DEF Echoing, Fresh
  <2>2. CASE Holding
    <3>1. PICK c \in Chars : Acc(accumulator) = c /\ Echoing(<<c>>)
      BY <2>2, Zenon DEF Holding
    <3>2. PICK printed \in Seq(Chars) :
            screen = <<\o41>> \o printed /\ typed = printed \o (<<c>> \o Held)
      BY <3>1, Zenon DEF Echoing
    <3>3. c \in Byte /\ getAscii(Acc(accumulator)) = c /\ c # CarriageReturn
      BY <1>8, <3>1 DEF getAscii, Byte
    <3>4. printed \in Seq(Byte) /\ <<c>> \in Seq(Byte) /\ <<\o41>> \in Seq(Byte)
          /\ << >> \in Seq(Byte) /\ Held \in Seq(Byte)
      <4>1. \o41 \in Byte
        BY DEF Byte
      <4> QED
        BY <1>8, <3>3, <4>1, HeldType, SeqMonotonic, EmptySeq
    <3>5. printed \o <<c>> \in Seq(Chars)
      BY <3>1, <3>2
    <3> HIDE DEF Held
    <3>6. typed = (printed \o <<c>>) \o (<< >> \o Held)
      BY <3>2, <3>4, ConcatAssociative, ConcatEmptySeq
    <3>7. Len(screen) < ScreenSize /\ screen \in Seq(Byte)
      <4>1. Len(typed) <= MaxTyped
        BY Zenon DEF EchoInv
      <4>2. Len(typed) = Len(printed) + (1 + Len(Held)) /\ Len(Held) \in Nat
        BY <3>2, <3>4, ConcatProperties, LenProperties
      <4>3. Len(screen) = 1 + Len(printed) /\ screen \in Seq(Byte)
        BY <3>2, <3>4, ConcatProperties
      <4> QED
        BY <1>8, <3>4, <4>1, <4>2, <4>3, LenProperties
    <3>8. Put(c) = screen \o <<c>>
      <4>1. screen = IF terminal THEN screen ELSE << >>
        BY <3>1, Zenon DEF Echoing
      <4> QED
        BY <3>3, <3>7, <4>1, PutAppends
    <3>9. screen' = <<\o41>> \o (printed \o <<c>>)
      <4>1. (<<\o41>> \o printed) \o <<c>> = <<\o41>> \o (printed \o <<c>>)
        BY <3>4, ConcatAssociative
      <4> QED
        BY <1>6, <3>2, <3>3, <3>8, <4>1, Zenon
    <3>10. typed' = (printed \o <<c>>) \o (<< >> \o Held')
      BY <1>7, <3>6, Zenon
    <3> QED
      BY <1>6, <3>5, <3>9, <3>10, Zenon DEF Echoing
  <2> QED
    BY <2>1, <2>2 DEF Finds
<1>10. Finds(\o202)'
  BY <1>9 DEF Finds
<1>11. programCounter' = \o202 /\ \o202 \in EchoAddresses
  BY <1>2, <1>5 DEF EchoAddresses
<1> QED
  BY <1>1, <1>4, <1>10, <1>11, DeviceKeeps, EchoEnds, Zenon

(* Any Execute cycle of the program.                                       *)
LEMMA EchoExecutes ==
  ASSUME {keyboardDevice, printerDevice} \subseteq Connected,
         CarriageReturn \notin Chars, MaxTyped < ScreenSize,
         TypeInv, EchoInv, UNCHANGED typed, Execute
  PROVE  EchoInv'
<1>1. PICK at \in EchoAddresses : (Ahead(at) \/ Amid(at)) /\ Finds(at)
  BY Zenon DEF EchoInv
<1>2. core = EchoCore /\ ~clsk
  BY Zenon DEF EchoInv, Unchanging
<1>3. Amid(at)
  <2>1. cycle_state = "Execute"
    BY <1>2, Performs, Zenon
  <2> QED
    BY <1>1, <2>1 DEF Ahead
<1>4. CASE at = \o200
  BY <1>1, <1>3, <1>4, EchoAdds, Zenon
<1>5. CASE at = \o201
  BY <1>1, <1>3, <1>5, EchoPrints, Zenon
<1>6. CASE at = \o202
  BY <1>1, <1>3, <1>6, EchoWaits, Zenon
<1>7. CASE at = \o203
  <2>1. instructionReg = \o5202
    BY <1>2, <1>3, <1>7, EchoWords DEF Amid, Stored
  <2>2. OpCode(instructionReg) = JMP /\ ImmediateAddress(at, instructionReg) = \o202
    BY <1>7, <2>1, EchoDecoded
  <2>3. \o202 < at /\ \o202 \in EchoAddresses /\ (Finds(at) => Finds(\o202))
    BY <1>7 DEF EchoAddresses, Finds
  <2> QED
    BY <1>1, <1>3, <2>2, <2>3, EchoJumps, Zenon
<1>8. CASE at = \o204
  BY <1>1, <1>3, <1>8, EchoReads, Zenon
<1>9. CASE at = \o205
  <2>1. instructionReg = \o5201
    BY <1>2, <1>3, <1>9, EchoWords DEF Amid, Stored
  <2>2. OpCode(instructionReg) = JMP /\ ImmediateAddress(at, instructionReg) = \o201
    BY <1>9, <2>1, EchoDecoded
  <2>3. \o201 < at /\ \o201 \in EchoAddresses /\ (Finds(at) => Finds(\o201))
    BY <1>9 DEF EchoAddresses, Finds
  <2> QED
    BY <1>1, <1>3, <2>2, <2>3, EchoJumps, Zenon
<1> QED
  BY <1>1, <1>4, <1>5, <1>6, <1>7, <1>8, <1>9 DEF EchoAddresses

LEMMA EchoNoDefer == ASSUME EchoInv PROVE ~Defer
<1>1. PICK at : Ahead(at) \/ Amid(at)
  BY Zenon DEF EchoInv
<1>2. cycle_state # "Defer"
  BY <1>1 DEF Ahead, Amid
<1> QED
  BY <1>2, Zenon DEF Defer, Stepping

LEMMA EchoStep ==
  ASSUME {keyboardDevice, printerDevice} \subseteq Connected,
         CarriageReturn \notin Chars, MaxTyped < ScreenSize, Commands \subseteq RunCommands,
         TypeInv, EchoInv, [PromiseNext]_promiseVars
  PROVE  EchoInv'
<1>1. CASE Untyped(instructionStep)
  BY <1>1, EchoInterrupts, EchoFetches, EchoNoDefer, EchoExecutes,
     Zenon DEF Untyped, instructionStep
<1>2. CASE Untyped(Console)
  BY <1>2, EchoConsole, Zenon DEF Untyped
<1>3. CASE Untyped(ClockThread)
  BY <1>3, EchoTicks, Zenon DEF Untyped
<1>4. CASE \E chars \in Typed : Type(chars)
  BY <1>4, EchoTyping, Zenon
<1>5. CASE UNCHANGED promiseVars
  <2>1. UNCHANGED EchoView /\ UNCHANGED typed /\ cycle_state' = cycle_state
    BY <1>5, Zenon
       DEF promiseVars, vars, cpuVars, memVars, fieldVars, accVars, cycleVars, devVars, decVars,
           printerVars, clockVars, EchoView
  <2> QED
    BY <2>1, EchoKept
<1> QED
  BY <1>1, <1>2, <1>3, <1>4, <1>5, Zenon DEF PromiseNext

LEMMA EchoStart == ASSUME Images = EchoImage, PromiseInit PROVE EchoInv
<1>1. PDP8Init(EchoProgram) /\ typed = << >>
  BY Zenon DEF PromiseInit, Init, EchoImage
<1>2. EchoProgram.start = \o200
  BY DEF EchoProgram, Program
<1>3. Unchanging
  BY <1>1, Zenon DEF PDP8Init, EchoCore, ClockInit, Unchanging
<1>4. Ahead(\o200)
  BY <1>1, <1>2, Zenon DEF PDP8Init, Ahead
<1>5. Fresh /\ accumulator = 0
  BY <1>1, Zenon DEF PDP8Init, DECWriterInit, Fresh
<1>6. \o200 \in EchoAddresses /\ Finds(\o200)
  BY <1>5 DEF EchoAddresses, Finds
<1>7. typed \in Seq(Chars) /\ Len(typed) <= MaxTyped
  BY <1>1, EmptySeq, PromisesAssumption
<1> QED
  BY <1>3, <1>4, <1>6, <1>7, Zenon DEF EchoInv

LEMMA EchoShows == ASSUME TypeInv, EchoInv PROVE EchoInOrder
<1> SUFFICES ASSUME terminal
             PROVE  \E n \in 0 .. Len(typed) : screen = <<\o41>> \o SubSeq(typed, 1, n)
  BY DEF EchoInOrder
<1>1. PICK held \in Seq(Chars) : Echoing(held)
  <2>1. << >> \in Seq(Chars) /\ \A c \in Chars : <<c>> \in Seq(Chars)
    BY EmptySeq
  <2>2. ~Fresh
    BY DEF Fresh
  <2> QED
    BY <2>1, <2>2, Zenon DEF EchoInv, Finds, Holding
<1>2. PICK printed \in Seq(Chars) : screen = <<\o41>> \o printed /\ typed = printed \o (held \o Held)
  BY <1>1, Zenon DEF Echoing
<1>3. printed \in Seq(Byte) /\ held \o Held \in Seq(Byte)
  <2>1. Chars \subseteq Byte
    BY DECWriterAssumption DEF Byte
  <2>2. printed \in Seq(Byte) /\ held \in Seq(Byte)
    BY <2>1, SeqMonotonic
  <2> QED
    BY <2>2, HeldType, ConcatProperties
<1>4. SubSeq(typed, 1, Len(printed)) = printed
  BY <1>2, <1>3, SubSeqOfConcat1, SubSeqFull
<1>5. Len(printed) \in 0 .. Len(typed)
  <2>1. Len(typed) = Len(printed) + Len(held \o Held)
    BY <1>2, <1>3, ConcatProperties
  <2>2. Len(printed) \in Nat /\ Len(held \o Held) \in Nat
    BY <1>3, LenProperties
  <2> QED
    BY <2>1, <2>2
<1> QED
  BY <1>2, <1>4, <1>5, Zenon

LEMMA PromiseIsSpec == PromiseSpec => Spec
<1>1. PromiseInit => Init
  BY Zenon DEF PromiseInit
<1>2. [PromiseNext]_promiseVars => [Next]_vars
  BY Zenon DEF PromiseNext, promiseVars, Untyped, Type, Next, Window
<1> QED
  BY <1>1, <1>2, PTL DEF PromiseSpec, Spec

(* The DECWriter sample program echoes what is typed in order, for every   *)
(* alphabet, every amount typed and every interleaving of typing, clock,   *)
(* machine cycles and the commands that run and stop the machine; the      *)
(* screen of the model has room for what is typed, and no carriage return, *)
(* which is echoed with a line feed, is typed.                             *)
THEOREM EchoIsInOrder ==
  ASSUME Images = EchoImage, Commands \subseteq RunCommands,
         {keyboardDevice, printerDevice} \subseteq Connected,
         CarriageReturn \notin Chars, MaxTyped < ScreenSize
  PROVE  PromiseSpec => []EchoInOrder
<1>1. PromiseInit => EchoInv
  BY EchoStart
<1>2. TypeInv /\ EchoInv /\ [PromiseNext]_promiseVars => EchoInv'
  BY EchoStep
<1>3. TypeInv /\ EchoInv => EchoInOrder
  BY EchoShows
<1> QED
  BY <1>1, <1>2, <1>3, PromiseIsSpec, TypeInvariant, PTL DEF PromiseSpec
=============================================================================
