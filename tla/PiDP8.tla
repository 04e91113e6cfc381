------------------------------- MODULE PiDP8 -------------------------------
(***************************************************************************)
(* The program of main.cpp: the CPU and its devices driven by the main     *)
(* loop, with the person at the console (Pdp8Terminal.cpp), the person at  *)
(* the DECWriter window and the clock thread.                              *)
(*                                                                         *)
(* The main loop is one thread.  Its timer tick makes one call of          *)
(* instructionStep while run_flag is set; the commands c and s loop on     *)
(* instructionStep until the flag they raised is down, and nothing else    *)
(* happens in that thread meanwhile.                                       *)
(***************************************************************************)
EXTENDS PDP8

CONSTANTS
  Images,       \* the programs one of which is in core at the start
  Tapes,        \* the programs the console can load later
  Commands,     \* the console commands used, named by their letters
  Arguments,    \* the numbers given to l and E
  Words,        \* the numbers given to d
  Careful       \* l, d, E, e and loading are used between instructions only

AllCommands == {"l", "d", "E", "e", "c", "s", "C", "S", "RIM", "tape", "quit"}

ASSUME PiDP8Assumption ==
  /\ \A image \in Images : IsImage(image)
  /\ \A image \in Tapes : IsImage(image) /\ image.last \in DOMAIN image.cells
  /\ Commands \subseteq AllCommands
  /\ Arguments \subseteq Nat /\ Words \subseteq Nat
  /\ Careful \in BOOLEAN

vars == <<cpuVars, devVars>>

Init == \E image \in Images : PDP8Init(image)

-----------------------------------------------------------------------------
(* The main thread is in none of the loops and in no call of               *)
(* instructionStep.                                                        *)
AtConsole(command) ==
  /\ command \in Commands
  /\ process = "running"
  /\ ~polled /\ ~clsk
  /\ ~step_flag /\ ~instruction_flag

BetweenInstructions == cycle_state \in {"Interrupt", "Fetch"}

(* The commands that use memoryAddress and memoryBuffer.                   *)
AtMemory(command) ==
  /\ AtConsole(command)
  /\ Careful => BetweenInstructions
  /\ UNCHANGED <<fieldVars, instructionReg, accVars, interruptVars, idleVars,
                 runVars, cycleVars, process, devVars>>

(* l: the address goes to the program counter and the low part of          *)
(* memoryAddress; no field changes.                                        *)
LoadAddress(number) ==
  /\ AtMemory("l")
  /\ memoryAddress' = <<memoryAddress[1], ToWord(number)>>
  /\ programCounter' = ToWord(number)
  /\ UNCHANGED <<core, memoryBuffer>>

Deposit(number) == AtMemory("d") /\ deposit(ToWord(number))

ExamineAt(number) ==
  /\ AtMemory("E")
  /\ memoryAddress' = <<instField, ToWord(number)>>
  /\ memoryBuffer' = Read(<<instField, ToWord(number)>>)
  /\ UNCHANGED <<core, programCounter>>

Examine == AtMemory("e") /\ examine

LoadRim == AtMemory("RIM") /\ deposited(RimImage)

(* PING PONG, FORTH and DECW: assemble, and load the binary.               *)
LoadTape(image) == AtMemory("tape") /\ deposited(image)

KeepAllBut(command) ==
  /\ AtConsole(command)
  /\ UNCHANGED <<memVars, programCounter, fieldVars, instructionReg, accVars,
                 interruptVars, idleVars, cycleVars, devVars>>

Cycle ==
  /\ KeepAllBut("c")
  /\ step_flag' = TRUE
  /\ UNCHANGED <<run_flag, instruction_flag, process>>

Step ==
  /\ KeepAllBut("s")
  /\ instruction_flag' = TRUE
  /\ UNCHANGED <<run_flag, step_flag, process>>

Continue ==
  /\ KeepAllBut("C")
  /\ run_flag' = TRUE
  /\ UNCHANGED <<step_flag, instruction_flag, process>>

Stop ==
  /\ KeepAllBut("S")
  /\ run_flag' = FALSE
  /\ UNCHANGED <<step_flag, instruction_flag, process>>

Quit ==
  /\ KeepAllBut("quit")
  /\ process' = "quit"
  /\ UNCHANGED runVars

Console ==
  \/ \E n \in Arguments : LoadAddress(n) \/ ExamineAt(n)
  \/ \E n \in Words : Deposit(n)
  \/ Examine \/ LoadRim
  \/ \E image \in Tapes : LoadTape(image)
  \/ Cycle \/ Step \/ Continue \/ Stop \/ Quit

-----------------------------------------------------------------------------
(* The main loop services the DECWriter window between two calls of        *)
(* instructionStep, in the same thread.                                    *)
AtWindow ==
  /\ process = "running"
  /\ ~polled /\ ~clsk /\ ~step_flag /\ ~instruction_flag
  /\ UNCHANGED <<cpuVars, clockVars>>

WindowInput(chars) == AtWindow /\ selected(chars)

WindowClosed == AtWindow /\ disconnectCallback

Window == WindowClosed \/ \E chars \in Typed : WindowInput(chars)

(* The clock thread needs no lock and waits for nobody.                    *)
ClockThread ==
  /\ process = "running"
  /\ Tick
  /\ UNCHANGED <<cpuVars, decVars>>

Next == instructionStep \/ Console \/ Window \/ ClockThread

Spec == Init /\ [][Next]_vars

(* The main loop keeps calling instructionStep while a flag asks for it,   *)
(* and the clock thread keeps waking up.                                   *)
FairSpec == Spec /\ WF_vars(instructionStep) /\ WF_vars(ClockThread)

-----------------------------------------------------------------------------
MemoryTypeOK ==
  /\ DOMAIN core \subseteq Address15
  /\ \A c \in DOMAIN core : core[c] \in Word
  /\ memoryAddress \in Address15
  /\ memoryBuffer \in Word

RegisterTypeOK ==
  /\ programCounter \in Word /\ instructionReg \in Word
  /\ dataField \in Field /\ instField \in Field /\ instBuffer \in Field

AccTypeOK ==
  /\ accumulator \in Lac /\ mulQuotient \in Word
  /\ greater_than_flag \in BOOLEAN

ControlTypeOK ==
  /\ interrupt_enable \in BOOLEAN /\ interrupt_request \in BOOLEAN
  /\ interrupt_delayed \in {0, 2}
  /\ idle_flag \in BOOLEAN /\ wait_instruction \in Word
  /\ run_flag \in BOOLEAN /\ step_flag \in BOOLEAN /\ instruction_flag \in BOOLEAN
  /\ cycle_state \in CycleState
  /\ polled \in BOOLEAN
  /\ process \in {"running", "quit", "terminated"}

(* Every register holds a value of its width, whatever the instructions    *)
(* and the console commands that wrote it, and so do the initialised cells *)
(* of memory and the devices.                                              *)
TypeOK ==
  MemoryTypeOK /\ RegisterTypeOK /\ AccTypeOK /\ ControlTypeOK /\ DECWriterTypeOK /\ ClockTypeOK

(* The cell the instruction in instructionReg was fetched from, and the    *)
(* cell it names, computed from the instruction and memory alone.          *)
FetchedFrom == <<instField, (programCounter + \o7777) % WordSize>>

NamedCell == <<instField, ImmediateAddress(FetchedFrom[2], instructionReg)>>

EffectiveAddress ==
  IF FetchedFrom \notin DOMAIN core THEN FetchedFrom
  ELSE IF ~Indirect(instructionReg) THEN NamedCell
  ELSE <<IF UsesDataField(instructionReg) THEN dataField ELSE instField, Read(NamedCell)>>

(* The operand register is right when it is used: in the Execute cycle of  *)
(* a memory instruction memoryAddress, built up by Fetch and Defer and     *)
(* reachable by every console command in between, is the address the       *)
(* instruction designates.                                                 *)
OperandAddressed ==
  cycle_state = "Execute" /\ IsMemoryInstruction(instructionReg)
    => memoryAddress = EffectiveAddress

(* The cells a step writes with another word, or for the first time.       *)
Changed == {c \in DOMAIN core' : c \notin DOMAIN core \/ core'[c] # core[c]}

StoresRight ==
  cycle_state' # cycle_state =>
    \A c \in Changed :
      \/ /\ cycle_state = "Execute" /\ c = EffectiveAddress
         /\ OpCode(instructionReg) \in {ISZ, DCA, JMS}
      \/ /\ cycle_state = "Defer" /\ c = NamedCell
         /\ AutoIndexed(instructionReg)

(* An instruction stores where it says: Execute changes no cell but the    *)
(* operand of an ISZ, DCA or JMS, and Defer none but the auto-index cell   *)
(* it goes through.                                                        *)
StoresWhereAddressed == [][StoresRight]_vars
=============================================================================
