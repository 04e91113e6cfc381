------------------------------- MODULE PDP8 --------------------------------
(***************************************************************************)
(* The CPU (PDP8.cpp) with its memory, its interrupt and idle flags and    *)
(* the two devices of main.cpp.  instructionStep() performs one machine    *)
(* cycle per call: Interrupt, Fetch, Defer, Execute.  Between the cycles   *)
(* of one instruction everything lives in registers that the rest of the   *)
(* program can reach: memoryAddress, memoryBuffer, instructionReg.         *)
(*                                                                         *)
(* One action below is one cycle, or one instruction's Execute cycle.  Two *)
(* of them are split where the clock thread can run in the middle: the     *)
(* Interrupt cycle polls the devices for interrupts and then asks one of   *)
(* them for service, and CLSK tests and then clears the clock flag.        *)
(***************************************************************************)
EXTENDS Instruction, Opr, DECWriter, DK8_EA

CONSTANTS
  Connected,       \* the keys of iotDevices
  SwitchRegister   \* the operator switches; nothing in the program sets them

ASSUME PDP8Assumption ==
  /\ Connected \subseteq {keyboardDevice, printerDevice, clockDevice}
  /\ SwitchRegister \in Word

VARIABLES
  core,              \* the words of the initialised cells, by <<field, word>>
  memoryAddress,     \* <<field, word>>
  memoryBuffer,
  programCounter,
  dataField, instField, instBuffer,
  instructionReg,
  accumulator,       \* 13 bits: see Accumulator.tla
  mulQuotient,
  greater_than_flag,
  interrupt_enable, interrupt_request, interrupt_delayed,
  idle_flag, wait_instruction,
  run_flag, step_flag, instruction_flag,
  cycle_state,
  polled,            \* the Interrupt cycle has polled and not acted yet
  process            \* "running", "quit", or "terminated" by an uncaught exception

memVars       == <<core, memoryAddress, memoryBuffer>>
fieldVars     == <<dataField, instField, instBuffer>>
accVars       == <<accumulator, mulQuotient, greater_than_flag>>
interruptVars == <<interrupt_enable, interrupt_request, interrupt_delayed>>
idleVars      == <<idle_flag, wait_instruction>>
runVars       == <<run_flag, step_flag, instruction_flag>>
cycleVars     == <<cycle_state, polled>>
devVars       == <<decVars, clockVars>>

cpuVars == <<memVars, programCounter, fieldVars, instructionReg, accVars,
             interruptVars, idleVars, runVars, cycleVars, process>>

CycleState == {"Interrupt", "Fetch", "Defer", "Execute"}

Address15 == Field \X Word

(* A program as the binary loader leaves it: the words it deposits, the    *)
(* address it deposits last and the origin it ends with.                   *)
IsImage(image) ==
  /\ DOMAIN image.cells \subseteq Word
  /\ \A w \in DOMAIN image.cells : image.cells[w] \in Word
  /\ image.last \in Word /\ image.start \in Word

(* What a machine that has no program holds when it starts.                *)
NoImage == [cells |-> << >>, last |-> 0, start |-> \o200]

InField(field, image) == {<<field, w>> : w \in DOMAIN image.cells}

(* The constructed machine after the loader has deposited image.           *)
PDP8Init(image) ==
  /\ core = [c \in InField(0, image) |-> image.cells[c[2]]]
  /\ memoryAddress = <<0, image.last>>
  /\ memoryBuffer = IF image.last \in DOMAIN image.cells THEN image.cells[image.last] ELSE 0
  /\ programCounter = image.start
  /\ dataField = 0 /\ instField = 0 /\ instBuffer = 0
  /\ instructionReg = 0
  /\ accumulator = 0 /\ mulQuotient = 0
  /\ greater_than_flag = FALSE
  /\ interrupt_enable = FALSE /\ interrupt_request = FALSE
  /\ interrupt_delayed = 0
  /\ idle_flag = FALSE /\ wait_instruction = 0
  /\ run_flag = FALSE /\ step_flag = FALSE /\ instruction_flag = FALSE
  /\ cycle_state = "Interrupt"
  /\ polled = FALSE
  /\ process = "running"
  /\ DECWriterInit
  /\ ClockInit

-----------------------------------------------------------------------------
(* Memory.h.  A cell never written reads as zero and counts as             *)
(* uninitialised: it is not in the domain of core.                         *)
Read(a) == IF a \in DOMAIN core THEN core[a] ELSE 0

Written(a, w) == [c \in DOMAIN core \cup {a} |-> IF c = a THEN w ELSE core[c]]

(* A slip: direct references, too, go to the data field.                   *)
WriteInDataField(w) ==
  /\ core' = Written(<<dataField, memoryAddress[2]>>, w)
  /\ memoryBuffer' = w
  /\ UNCHANGED memoryAddress

(* memoryBuffer := w; write(): the cell memoryAddress points at.           *)
Write(w) ==
  /\ core' = Written(memoryAddress, w)
  /\ memoryBuffer' = w
  /\ UNCHANGED memoryAddress

(* memoryBuffer := core[memoryAddress].                                    *)
Load == memoryBuffer' = Read(memoryAddress) /\ UNCHANGED <<core, memoryAddress>>

(* examine(), deposit(): the cell at the program counter, which moves on.  *)
Here == <<instField, programCounter>>

examine ==
  /\ memoryAddress' = Here
  /\ memoryBuffer' = Read(Here)
  /\ programCounter' = Inc(programCounter)
  /\ UNCHANGED core

(* A slip: the address switches do not step.                               *)
depositInPlace(w) ==
  /\ memoryAddress' = Here
  /\ memoryBuffer' = w
  /\ core' = Written(Here, w)
  /\ UNCHANGED programCounter

deposit(w) ==
  /\ memoryAddress' = Here
  /\ memoryBuffer' = w
  /\ core' = Written(Here, w)
  /\ programCounter' = Inc(programCounter)

-----------------------------------------------------------------------------
(* instructionStep does nothing unless one of the three flags is set.      *)
Stepping(state) ==
  /\ process = "running"
  /\ run_flag \/ step_flag \/ instruction_flag
  /\ cycle_state = state

Throw ==
  /\ process' = "terminated"
  /\ UNCHANGED <<memVars, programCounter, fieldVars, instructionReg, accVars,
                 interruptVars, idleVars, runVars, cycleVars, devVars>>

(* CycleState::Interrupt, first half: ask every device.                    *)
InterruptRequest(device) ==
  \/ DECWriterRequest(device)
  \/ device = clockDevice /\ ClockInterruptRequest

ServiceRequest(device) ==
  \/ DECWriterRequest(device)
  \/ device = clockDevice /\ ClockServiceRequest

PollDevices ==
  /\ Stepping("Interrupt") /\ ~polled
  /\ interrupt_request' = \E d \in Connected : InterruptRequest(d)
  /\ polled' = TRUE
  /\ UNCHANGED <<memVars, programCounter, fieldVars, instructionReg, accVars,
                 interrupt_enable, interrupt_delayed, idleVars, runVars,
                 cycle_state, process, devVars>>

(* Second half, in its three outcomes.  An interrupt that is taken goes    *)
(* nowhere: the request is dropped and the cycle starts again.             *)
Polled(request, state) ==
  /\ interrupt_request' = request
  /\ cycle_state' = state
  /\ polled' = FALSE
  /\ UNCHANGED <<memVars, programCounter, fieldVars, instructionReg, accVars,
                 interrupt_enable, interrupt_delayed, idleVars, runVars,
                 process, devVars>>

Interrupting == interrupt_enable /\ interrupt_request

TakeInterrupt == Stepping("Interrupt") /\ polled /\ Interrupting /\ Polled(FALSE, "Interrupt")

Idling == Stepping("Interrupt") /\ polled /\ ~Interrupting /\ idle_flag

(* A slip: the test for service inverted.                                  *)
AwaitNoService ==
  /\ Idling /\ DeviceSel(wait_instruction) \in Connected
  /\ Polled(interrupt_request,
            IF ServiceRequest(DeviceSel(wait_instruction)) THEN "Interrupt" ELSE "Fetch")

AwaitService ==
  /\ Idling /\ DeviceSel(wait_instruction) \in Connected
  /\ Polled(interrupt_request,
            IF ServiceRequest(DeviceSel(wait_instruction)) THEN "Fetch" ELSE "Interrupt")

AwaitUnconnected == Idling /\ DeviceSel(wait_instruction) \notin Connected /\ Throw

NoInterrupt ==
  /\ Stepping("Interrupt") /\ polled /\ ~Interrupting /\ ~idle_flag
  /\ Polled(interrupt_request, "Fetch")

-----------------------------------------------------------------------------
(* CycleState::Fetch.  An uninitialised cell leaves memoryAddress at the   *)
(* instruction itself.                                                     *)
Fetch ==
  /\ Stepping("Fetch")
  /\ LET word == Read(Here)
     IN  /\ instructionReg' = word
         /\ memoryBuffer' = word
         /\ memoryAddress' = IF Here \in DOMAIN core /\ IsMemoryInstruction(word)
                               THEN <<instField, ImmediateAddress(programCounter, word)>>
                               ELSE Here
         /\ cycle_state' = IF Indirect(word) THEN "Defer" ELSE "Execute"
  /\ programCounter' = Inc(programCounter)
  /\ step_flag' = FALSE
  /\ UNCHANGED <<core, fieldVars, accVars, interruptVars, idleVars, run_flag,
                 instruction_flag, polled, process, devVars>>

(* A slip: an auto-indexed reference uses the address before the increment. *)
DeferThenIndex ==
  /\ Stepping("Defer")
  /\ LET pointer == <<memoryAddress[1], ImmediateAddress(memoryAddress[2], instructionReg)>>
         field   == IF UsesDataField(instructionReg) THEN dataField ELSE memoryAddress[1]
     IN  /\ core' = IF AutoIndexed(instructionReg)
                      THEN Written(pointer, Inc(Read(pointer))) ELSE core
         /\ memoryBuffer' = Read(pointer)
         /\ memoryAddress' = <<field, Read(pointer)>>
  /\ cycle_state' = "Execute"
  /\ step_flag' = FALSE
  /\ UNCHANGED <<programCounter, fieldVars, instructionReg, accVars, interruptVars,
                 idleVars, run_flag, instruction_flag, polled, process, devVars>>

(* CycleState::Defer.  The pointer is on the page memoryAddress is on.     *)
Defer ==
  /\ Stepping("Defer")
  /\ LET pointer == <<memoryAddress[1], ImmediateAddress(memoryAddress[2], instructionReg)>>
         auto    == AutoIndexed(instructionReg)
         target  == IF auto THEN Inc(Read(pointer)) ELSE Read(pointer)
         field   == IF UsesDataField(instructionReg) THEN dataField ELSE memoryAddress[1]
     IN  /\ core' = IF auto THEN Written(pointer, target) ELSE core
         /\ memoryBuffer' = target
         /\ memoryAddress' = <<field, target>>
  /\ cycle_state' = "Execute"
  /\ step_flag' = FALSE
  /\ UNCHANGED <<programCounter, fieldVars, instructionReg, accVars, interruptVars,
                 idleVars, run_flag, instruction_flag, polled, process, devVars>>

-----------------------------------------------------------------------------
(* CycleState::Execute: the instruction in instructionReg, by op code.     *)
Executing(op) ==
  /\ Stepping("Execute") /\ ~clsk
  /\ OpCode(instructionReg) = op

EndExecute ==
  /\ cycle_state' = "Interrupt"
  /\ step_flag' = FALSE /\ instruction_flag' = FALSE
  /\ UNCHANGED <<instructionReg, polled, process>>

(* What the instructions that only compute leave alone.                    *)
KeepControl == UNCHANGED <<fieldVars, interruptVars, idleVars, run_flag, devVars>>

KeepMQ == UNCHANGED <<mulQuotient, greater_than_flag>>

Skip(condition) ==
  programCounter' = IF condition THEN Inc(programCounter) ELSE programCounter

ExecuteAND ==
  /\ Executing(AND) /\ EndExecute
  /\ Load
  /\ accumulator' = WithAcc(accumulator, And(Acc(accumulator), Read(memoryAddress)))
  /\ UNCHANGED programCounter /\ KeepMQ /\ KeepControl

ExecuteTAD ==
  /\ Executing(TAD) /\ EndExecute
  /\ Load
  /\ accumulator' = Plus(accumulator, Read(memoryAddress))
  /\ UNCHANGED programCounter /\ KeepMQ /\ KeepControl

ExecuteISZ ==
  /\ Executing(ISZ) /\ EndExecute
  /\ Write(Inc(Read(memoryAddress)))
  /\ Skip(Inc(Read(memoryAddress)) = 0)
  /\ UNCHANGED accVars /\ KeepControl

ExecuteDCA ==
  /\ Executing(DCA) /\ EndExecute
  /\ Write(Acc(accumulator))
  /\ accumulator' = WithAcc(accumulator, 0)
  /\ UNCHANGED programCounter /\ KeepMQ /\ KeepControl

ExecuteJMS ==
  /\ Executing(JMS) /\ EndExecute
  /\ Write(programCounter)
  /\ programCounter' = Inc(memoryAddress[2])
  /\ UNCHANGED accVars /\ KeepControl

(* A slip: the prepared instruction field never comes into force.          *)
JumpInField == programCounter' = memoryAddress[2] /\ UNCHANGED fieldVars

(* JMP.  A direct jump back over one instruction is taken for a device     *)
(* wait loop, whatever the instruction jumped to; a direct jump to itself  *)
(* waits for an interrupt, or stops the CPU if none can come.  The         *)
(* comparisons are made before the 12-bit wrap: at 07777 they never hold.  *)
Jump ==
  /\ programCounter' = memoryAddress[2]
  /\ instField' = instBuffer
  /\ UNCHANGED <<dataField, instBuffer>>

BackBy(n) == ~Indirect(instructionReg) /\ programCounter - n = memoryAddress[2]

CanInterrupt == interrupt_enable \/ interrupt_delayed > 0

ExecuteJMP ==
  /\ Executing(JMP) /\ EndExecute
  /\ Jump
  /\ ~BackBy(1) /\ ~BackBy(2)
  /\ UNCHANGED <<memVars, accVars, interruptVars, idleVars, run_flag, devVars>>

JumpToPrevious ==
  /\ Executing(JMP) /\ EndExecute
  /\ BackBy(2)
  /\ Jump
  /\ Load
  /\ wait_instruction' = Read(memoryAddress)
  /\ idle_flag' = TRUE
  /\ UNCHANGED <<accVars, interruptVars, run_flag, devVars>>

JumpToSelfWaiting ==
  /\ Executing(JMP) /\ EndExecute
  /\ BackBy(1) /\ CanInterrupt
  /\ interrupt_enable' = TRUE
  /\ interrupt_delayed' = 0
  /\ idle_flag' = TRUE
  /\ UNCHANGED <<memVars, programCounter, fieldVars, accVars, interrupt_request,
                 wait_instruction, run_flag, devVars>>

(* A slip: the CPU is not stopped.                                         *)
JumpToSelfEndless ==
  /\ Executing(JMP) /\ EndExecute
  /\ BackBy(1) /\ ~CanInterrupt
  /\ Jump
  /\ UNCHANGED <<memVars, accVars, interruptVars, idleVars, run_flag, devVars>>

JumpToSelfStopping ==
  /\ Executing(JMP) /\ EndExecute
  /\ BackBy(1) /\ ~CanInterrupt
  /\ run_flag' = FALSE
  /\ Jump
  /\ UNCHANGED <<memVars, accVars, interruptVars, idleVars, devVars>>

-----------------------------------------------------------------------------
(* execute_iot, device 0: the processor itself.                            *)
ProcessorIOT(op) ==
  /\ Executing(IOT) /\ EndExecute
  /\ DeviceSel(instructionReg) = 0 /\ DeviceOpr(instructionReg) = op
  /\ UNCHANGED <<memVars, devVars, idleVars>>

SkipIOT(op, condition) ==
  /\ ProcessorIOT(op)
  /\ Skip(condition)
  /\ UNCHANGED <<fieldVars, accVars, interruptVars, run_flag>>

SKON == SkipIOT(0, interrupt_enable)
SRQ  == SkipIOT(3, interrupt_request)
SGT  == SkipIOT(6, greater_than_flag)

(* The delay that ION starts is counted by nothing: JMP . is what turns it *)
(* into interrupt_enable.                                                  *)
ION ==
  /\ ProcessorIOT(1)
  /\ interrupt_delayed' = 2
  /\ UNCHANGED <<programCounter, fieldVars, accVars, interrupt_enable,
                 interrupt_request, run_flag>>

IOF ==
  /\ ProcessorIOT(2)
  /\ interrupt_enable' = FALSE
  /\ UNCHANGED <<programCounter, fieldVars, accVars, interrupt_request,
                 interrupt_delayed, run_flag>>

GTF ==
  /\ ProcessorIOT(4)
  /\ accumulator' =
       WithAcc(accumulator,
               \o4000 * Link(accumulator) + \o2000 * BitOf(greater_than_flag)
                 + \o1000 * BitOf(interrupt_request) + \o200 * BitOf(interrupt_enable)
                 + 8 * instField + dataField)
  /\ UNCHANGED <<programCounter, fieldVars, mulQuotient, greater_than_flag,
                 interruptVars, run_flag>>

(* A slip: the instruction field is restored at once.                      *)
RTFAtOnce ==
  /\ ProcessorIOT(5)
  /\ LET acc == Acc(accumulator)
     IN  /\ accumulator' = WithLink(accumulator, BitOf(Bit(acc, \o4000)))
         /\ greater_than_flag' = Bit(acc, \o2000)
         /\ interrupt_delayed' = IF Bit(acc, \o200) THEN 2 ELSE interrupt_delayed
         /\ instField' = FieldReg(acc)
         /\ dataField' = acc % 8
  /\ UNCHANGED <<programCounter, instBuffer, mulQuotient, interrupt_enable,
                 interrupt_request, run_flag>>

RTF ==
  /\ ProcessorIOT(5)
  /\ LET acc == Acc(accumulator)
     IN  /\ accumulator' = WithLink(accumulator, BitOf(Bit(acc, \o4000)))
         /\ greater_than_flag' = Bit(acc, \o2000)
         /\ interrupt_delayed' = IF Bit(acc, \o200) THEN 2 ELSE interrupt_delayed
         /\ instBuffer' = FieldReg(acc)
         /\ dataField' = acc % 8
  /\ UNCHANGED <<programCounter, instField, mulQuotient, interrupt_enable,
                 interrupt_request, run_flag>>

(* CAF is reset(): greater_than_flag, the idle flag and the devices keep   *)
(* their state.                                                            *)
reset ==
  /\ accumulator' = 0
  /\ interrupt_enable' = FALSE /\ interrupt_request' = FALSE /\ interrupt_delayed' = 0
  /\ run_flag' = FALSE

CAF ==
  /\ ProcessorIOT(7)
  /\ programCounter' = 0
  /\ reset
  /\ UNCHANGED <<fieldVars, mulQuotient, greater_than_flag>>

(* Device codes with the bit 020 set: the memory extension, of which only  *)
(* CDF, CIF and their combination do anything.                             *)
IsMemoryExtension(w) == DeviceSel(w) # 0 /\ Bit(w, \o200)

(* A slip: the field taken with the bits of the device code around it.     *)
CDF_CIFUnmasked ==
  /\ Executing(IOT) /\ EndExecute
  /\ IsMemoryExtension(instructionReg)
  /\ dataField'  = IF Bit(instructionReg, 1) THEN DeviceSel(instructionReg) ELSE dataField
  /\ instBuffer' = IF Bit(instructionReg, 2) THEN DeviceSel(instructionReg) ELSE instBuffer
  /\ UNCHANGED <<memVars, programCounter, instField, accVars, interruptVars,
                 idleVars, run_flag, devVars>>

CDF_CIF ==
  /\ Executing(IOT) /\ EndExecute
  /\ IsMemoryExtension(instructionReg)
  /\ dataField'  = IF Bit(instructionReg, 1) THEN FieldReg(instructionReg) ELSE dataField
  /\ instBuffer' = IF Bit(instructionReg, 2) THEN FieldReg(instructionReg) ELSE instBuffer
  /\ UNCHANGED <<memVars, programCounter, instField, accVars, interruptVars,
                 idleVars, run_flag, devVars>>

-----------------------------------------------------------------------------
(* execute_iot, a device: operation() of the one connected under the code. *)
DeviceIOT(device) ==
  /\ Executing(IOT)
  /\ device \in Connected /\ DeviceSel(instructionReg) = device
  /\ UNCHANGED <<memVars, fieldVars, mulQuotient, greater_than_flag,
                 interruptVars, idleVars, run_flag>>

KeyboardIOT ==
  LET op == DeviceOpr(instructionReg)
  IN  /\ DeviceIOT(keyboardDevice) /\ EndExecute
      /\ op \in KeyboardOps
      /\ KeyboardOperation(op, Acc(accumulator))
      /\ accumulator' = WithAcc(accumulator, KeyboardAcc(op, Acc(accumulator)))
      /\ Skip(KeyboardSkip(op))
      /\ UNCHANGED clockVars

PrinterIOT ==
  LET op == DeviceOpr(instructionReg)
  IN  /\ DeviceIOT(printerDevice) /\ EndExecute
      /\ op \in PrinterOps
      /\ PrinterOperation(op, Acc(accumulator))
      /\ Skip(PrinterSkip(op))
      /\ UNCHANGED <<accumulator, clockVars>>

ClockIOT ==
  LET op == DeviceOpr(instructionReg)
  IN  /\ DeviceIOT(clockDevice) /\ EndExecute
      /\ \/ op = 1 /\ CLEI
         \/ op = 2 /\ CLDI
         \/ op \notin {1, 2, 3} /\ UNCHANGED clockVars
      /\ UNCHANGED <<programCounter, accumulator, decVars>>

CLSKTest ==
  /\ DeviceIOT(clockDevice) /\ DeviceOpr(instructionReg) = 3
  /\ TestClockFlag
  /\ Skip(ClockSkip)
  /\ UNCHANGED <<instructionReg, accumulator, step_flag, instruction_flag,
                 cycleVars, process, decVars>>

CLSKClear ==
  /\ process = "running"
  /\ ClearClockFlag /\ EndExecute
  /\ UNCHANGED <<memVars, programCounter, fieldVars, accVars, interruptVars,
                 idleVars, run_flag, decVars>>

UnconnectedIOT ==
  /\ Executing(IOT) /\ EndExecute
  /\ DeviceSel(instructionReg) \notin Connected \cup {0}
  /\ ~IsMemoryExtension(instructionReg)
  /\ UNCHANGED <<memVars, programCounter, accVars>> /\ KeepControl

(* An operation the keyboard or the printer does not have throws.          *)
BadDeviceOperation ==
  /\ Executing(IOT)
  /\ DeviceSel(instructionReg) \in Connected
  /\ \/ /\ DeviceSel(instructionReg) = keyboardDevice
        /\ DeviceOpr(instructionReg) \notin KeyboardOps
     \/ /\ DeviceSel(instructionReg) = printerDevice
        /\ DeviceOpr(instructionReg) \notin PrinterOps
  /\ Throw

-----------------------------------------------------------------------------
(* execute_opr.                                                            *)
Bits == OprBits(instructionReg)

IsGroup1 == ~Bit(Bits, \o400)
IsGroup2 == Bit(Bits, \o400) /\ Bits % 2 = 0
IsGroup3 == Bit(Bits, \o400) /\ Bits % 2 = 1

OPRGroup1 ==
  /\ Executing(OPR) /\ EndExecute
  /\ IsGroup1 /\ RotateCode(Bits) \notin BadRotates
  /\ accumulator' = Group1(Bits, accumulator)
  /\ UNCHANGED <<memVars, programCounter>> /\ KeepMQ /\ KeepControl

BadOPR == Executing(OPR) /\ IsGroup1 /\ RotateCode(Bits) \in BadRotates /\ Throw

OPRGroup2 ==
  /\ Executing(OPR) /\ EndExecute
  /\ IsGroup2
  /\ accumulator' = Group2(Bits, accumulator, SwitchRegister)
  /\ run_flag' = (run_flag /\ ~Bit(Bits, 2))      \* HLT
  /\ Skip(Group2Skip(Bits, accumulator))
  /\ UNCHANGED <<memVars, fieldVars, mulQuotient, greater_than_flag,
                 interruptVars, idleVars, devVars>>

OPRGroup3 ==
  /\ Executing(OPR) /\ EndExecute
  /\ IsGroup3
  /\ accumulator' = Group3(Bits, accumulator, mulQuotient)
  /\ mulQuotient' = Group3MQ(Bits, accumulator, mulQuotient)
  /\ UNCHANGED <<memVars, programCounter, greater_than_flag>> /\ KeepControl

-----------------------------------------------------------------------------
InterruptCycle ==
  PollDevices \/ TakeInterrupt \/ AwaitService \/ AwaitUnconnected \/ NoInterrupt

MemoryReference ==
  \/ ExecuteAND \/ ExecuteTAD \/ ExecuteISZ \/ ExecuteDCA \/ ExecuteJMS
  \/ ExecuteJMP \/ JumpToPrevious \/ JumpToSelfWaiting \/ JumpToSelfStopping

InputOutput ==
  \/ SKON \/ ION \/ IOF \/ SRQ \/ GTF \/ RTF \/ SGT \/ CAF \/ CDF_CIF
  \/ KeyboardIOT \/ PrinterIOT \/ ClockIOT \/ CLSKTest \/ CLSKClear
  \/ UnconnectedIOT \/ BadDeviceOperation

Operate == OPRGroup1 \/ BadOPR \/ OPRGroup2 \/ OPRGroup3

Execute == MemoryReference \/ InputOutput \/ Operate

instructionStep == InterruptCycle \/ Fetch \/ Defer \/ Execute

-----------------------------------------------------------------------------
(* readBinaryFormat and rimLoader deposit word after word through the same *)
(* registers as everything else, in the instruction field.                 *)
deposited(image) ==
  /\ core' = [c \in DOMAIN core \cup InField(instField, image) |->
                IF c \in InField(instField, image) THEN image.cells[c[2]] ELSE core[c]]
  /\ memoryAddress' = <<instField, image.last>>
  /\ memoryBuffer' = image.cells[image.last]
  /\ programCounter' = image.start

(* RIM_LOADER.                                                             *)
RimWords == << \o6014, \o6011, \o5357, \o6016, \o7106, \o7006, \o7510, \o5357, \o7006,
               \o6011, \o5367, \o6016, \o7420, \o3776, \o3376, \o5357, 0, 0 >>

RimImage ==
  [cells |-> [w \in \o7756 .. \o7777 |-> RimWords[w - \o7755]],
   last  |-> \o7777, start |-> \o7756]
=============================================================================
