------------------------------- MODULE MCIsa -------------------------------
(***************************************************************************)
(* Every program of three memory instructions and every one of two device, *)
(* clock and operate instructions, at 0200, with an auto-index cell and a  *)
(* pointer on page zero, run in every way the console commands allow.      *)
(***************************************************************************)
EXTENDS PiDP8Isa, TLC

CONSTANTS
  MaxInstructions,   \* bound: instructions executed in a behaviour
  MaxCommands        \* bound: console commands that touch memory or the program counter

VARIABLES executed, issued

(* A program of three may execute one instruction more than one of two.    *)
MCInit ==
  /\ HistoryInit
  /\ executed = IF <<0, \o202>> \in DOMAIN core THEN 0 ELSE 1
  /\ issued = 0

CPU ==
  /\ executed < MaxInstructions
  /\ instructionStep
  /\ executed' = IF cycle_state = "Execute" /\ cycle_state' # "Execute"
                   THEN executed + 1 ELSE executed
  /\ UNCHANGED issued

Operator ==
  /\ issued < MaxCommands
  /\ Console
  /\ issued' = IF UNCHANGED <<memVars, programCounter>> THEN issued ELSE issued + 1
  /\ UNCHANGED executed

Outside == (Window \/ ClockThread) /\ UNCHANGED <<executed, issued>>

MCNext == (CPU \/ Operator \/ Outside) /\ RecordFetch

MCSpec == MCInit /\ [][MCNext]_<<historyVars, executed, issued>>

-----------------------------------------------------------------------------
(* AND 20, TAD 201, TAD I 10, ISZ 202, DCA 201, DCA I 10, JMS 201,         *)
(* JMS I 20, JMP 200, JMP I 20, CDF 10, CIF 10, IAC                        *)
MemoryInstructions ==
  { \o0020, \o1201, \o1410, \o2202, \o3201, \o3410, \o4201, \o4420, \o5200,
    \o5420, \o6211, \o6212, \o7001 }

(* The processor's own IOTs, CDF CIF 10, the keyboard's, the printer's and *)
(* the clock's operations, some that do not exist, an unconnected device,  *)
(* a choice from the groups of OPR (7016 has no meaning), JMP 201.         *)
DeviceInstructions ==
  \o6000 .. \o6007 \cup {\o6213}
  \cup {\o6030, \o6031, \o6032, \o6034, \o6035, \o6036}
  \cup {\o6040, \o6041, \o6042, \o6043, \o6044, \o6045, \o6046}
  \cup {\o6130, \o6131, \o6132, \o6133, \o6011}
  \cup {\o7001, \o7016, \o7120, \o7240, \o7402, \o7440, \o7510, \o7604}
  \cup {\o7421, \o7501, \o7521, \o7621, \o7701}
  \cup {\o5201}

MCImage(code) ==
  [cells |-> (\o10 :> \o200) @@ (\o20 :> \o201) @@ (\o200 :> code[1]) @@ (\o201 :> code[2])
               @@ (IF Len(code) = 3 THEN \o202 :> code[3] ELSE <<>>),
   last |-> \o177 + Len(code), start |-> \o200]

MCImages ==
  {MCImage(code) : code \in [1 .. 3 -> MemoryInstructions] \cup [1 .. 2 -> DeviceInstructions]}

(* A machine without a program, and one that stores through its pointers.  *)
ConsoleImages ==
  {NoImage, [cells |-> [w \in {\o10, \o200, \o201} |->
                         CASE w = \o10 -> \o177 [] w = \o200 -> \o3410 [] OTHER -> \o5200],
             last |-> \o201, start |-> \o200]}

(* TAD 201; DCA 177.                                                       *)
ConsoleTapes ==
  {[cells |-> [w \in {\o200, \o201} |-> IF w = \o200 THEN \o1201 ELSE \o3177],
    last |-> \o201, start |-> \o200]}

AllDevices == {keyboardDevice, printerDevice, clockDevice}
None == {}
=============================================================================
