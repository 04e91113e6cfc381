-------------------------------- MODULE Isa --------------------------------
(***************************************************************************)
(* What the CPU promises to a program about memory and control: one        *)
(* instruction is one step.  The memory reference instructions are given   *)
(* in full; of the others only what they may do to memory, the program     *)
(* counter and the fields.  There are no machine cycles, no memoryAddress  *)
(* and no memoryBuffer here, and the console acts between instructions.    *)
(***************************************************************************)
EXTENDS Instruction, Opr

VARIABLES core, pc, dataField, instField, instBuffer, lac

vars == <<core, pc, dataField, instField, instBuffer, lac>>
fields == <<dataField, instField, instBuffer>>

Read(a) == IF a \in DOMAIN core THEN core[a] ELSE 0

Written(a, w) == [c \in DOMAIN core \cup {a} |-> IF c = a THEN w ELSE core[c]]

Here == <<instField, pc>>
Inst == Read(Here)
NextPc == Inc(pc)

(* A cell never written holds no instruction: it is executed as an AND     *)
(* with itself, which clears the accumulator.                              *)
Named == IF Here \in DOMAIN core THEN <<instField, ImmediateAddress(pc, Inst)>> ELSE Here

(* Memory after the reference, with the auto-index cell incremented, and   *)
(* the operand's address.                                                  *)
Indexed == IF AutoIndexed(Inst) THEN Written(Named, Inc(Read(Named))) ELSE core

Operand ==
  IF ~Indirect(Inst) THEN Named
  ELSE <<IF UsesDataField(Inst) THEN dataField ELSE instField,
         IF AutoIndexed(Inst) THEN Inc(Read(Named)) ELSE Read(Named)>>

Content == IF Operand \in DOMAIN Indexed THEN Indexed[Operand] ELSE 0

Store(w) == core' = [c \in DOMAIN Indexed \cup {Operand} |->
                      IF c = Operand THEN w ELSE Indexed[c]]

-----------------------------------------------------------------------------
LogicalAnd ==
  /\ OpCode(Inst) = AND
  /\ lac' = WithAcc(lac, And(Acc(lac), Content))
  /\ pc' = NextPc /\ core' = Indexed /\ UNCHANGED fields

TwosAdd ==
  /\ OpCode(Inst) = TAD
  /\ lac' = Plus(lac, Content)
  /\ pc' = NextPc /\ core' = Indexed /\ UNCHANGED fields

IncrementSkip ==
  /\ OpCode(Inst) = ISZ
  /\ Store(Inc(Content))
  /\ pc' = IF Inc(Content) = 0 THEN Inc(NextPc) ELSE NextPc
  /\ UNCHANGED <<fields, lac>>

DepositClear ==
  /\ OpCode(Inst) = DCA
  /\ Store(Acc(lac))
  /\ lac' = WithAcc(lac, 0)
  /\ pc' = NextPc /\ UNCHANGED fields

JumpSubroutine ==
  /\ OpCode(Inst) = JMS
  /\ Store(NextPc)
  /\ pc' = Inc(Operand[2])
  /\ UNCHANGED <<fields, lac>>

(* A jump enters the field prepared in instBuffer.  A jump to itself may   *)
(* instead fall through: it was taken for a wait.                          *)
Jump ==
  /\ OpCode(Inst) = JMP
  /\ \/ pc' = Operand[2] /\ instField' = instBuffer
     \/ Operand = Here /\ pc' = NextPc /\ UNCHANGED instField
  /\ core' = Indexed
  /\ UNCHANGED <<dataField, instBuffer, lac>>

(* Input/output and operate instructions touch no memory, cannot move the  *)
(* instruction field, and skip at most one instruction; CAF goes to 0.     *)
InputOutputOrOperate ==
  /\ OpCode(Inst) \in {IOT, OPR}
  /\ pc' \in {NextPc, Inc(NextPc), 0}
  /\ dataField' \in Field /\ instBuffer' \in Field /\ lac' \in Lac
  /\ UNCHANGED <<core, instField>>

OneInstruction ==
  \/ LogicalAnd \/ TwosAdd \/ IncrementSkip \/ DepositClear \/ JumpSubroutine
  \/ Jump \/ InputOutputOrOperate

-----------------------------------------------------------------------------
CONSTANTS
  Loads,     \* the addresses the console may load
  Deposits,  \* the words it may deposit
  Programs,  \* the images it may load, as in PDP8.tla
  Initial    \* what memory and program counter may be at the start

LoadAddress == \E a \in Loads : pc' = a /\ UNCHANGED <<core, fields, lac>>

Deposit == \E w \in Deposits :
  /\ core' = Written(Here, w)
  /\ pc' = NextPc
  /\ UNCHANGED <<fields, lac>>

Examine == pc' = NextPc /\ UNCHANGED <<core, fields, lac>>

LoadProgram == \E image \in Programs :
  LET cells == {<<instField, w>> : w \in DOMAIN image.cells}
  IN  /\ core' = [c \in DOMAIN core \cup cells |->
                   IF c \in cells THEN image.cells[c[2]] ELSE core[c]]
      /\ pc' = image.start
      /\ UNCHANGED <<fields, lac>>

Next == OneInstruction \/ LoadAddress \/ Deposit \/ Examine \/ LoadProgram

Init ==
  /\ <<core, pc>> \in Initial
  /\ dataField = 0 /\ instField = 0 /\ instBuffer = 0
  /\ lac = 0

Spec == Init /\ [][Next]_vars
=============================================================================
