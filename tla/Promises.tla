------------------------------ MODULE Promises ------------------------------
(***************************************************************************)
(* What the README, the comments and the names of the commands promise of  *)
(* the running program, stated as properties of PiDP8.  A history variable *)
(* records what was typed.                                                 *)
(***************************************************************************)
EXTENDS PiDP8

CONSTANT MaxTyped     \* bound: characters typed in a behaviour

ASSUME PromisesAssumption == MaxTyped \in Nat

VARIABLE typed        \* the characters typed into the window

promiseVars == <<vars, typed>>

PromiseInit == Init /\ typed = << >>

Type(chars) ==
  /\ Len(typed) + Len(chars) <= MaxTyped
  /\ WindowInput(chars)
  /\ typed' = typed \o chars

Untyped(action) == action /\ UNCHANGED typed

PromiseNext ==
  \/ Untyped(instructionStep) \/ Untyped(Console) \/ Untyped(ClockThread)
  \/ \E chars \in Typed : Type(chars)

PromiseSpec == PromiseInit /\ [][PromiseNext]_promiseVars

(* The fairness of FairSpec.                                               *)
FairPromiseSpec ==
  /\ PromiseSpec
  /\ WF_promiseVars(Untyped(instructionStep))
  /\ WF_promiseVars(Untyped(ClockThread))

-----------------------------------------------------------------------------
(* The DECWriter sample program (TestPrograms.h) prints an exclamation     *)
(* mark and then echoes: whatever the interleaving of typing and machine   *)
(* cycles, the window shows a prefix of what was typed, in order, nothing  *)
(* twice and nothing made up.                                              *)
EchoInOrder ==
  terminal => \E n \in 0 .. Len(typed) : screen = <<\o41>> \o SubSeq(typed, 1, n)

(* "idle loop detected" (PDP8.cpp:130): a CPU that sleeps in a wait loop   *)
(* wakes up when the device is ready, so what was typed is echoed in the   *)
(* end although nobody types any more.                                     *)
EverythingEchoed ==
  [](run_flag /\ typed # << >>
       => <>(screen = <<\o41>> \o typed \/ ~run_flag \/ process # "running"))

(* A CPU asleep in a wait loop misses no character: each one the keyboard  *)
(* holds is taken by the program, however typing falls between the poll of *)
(* the devices and the end of the cycle.                                   *)
EverythingTaken == run_flag /\ keyboardFlag ~> (~keyboardFlag \/ ~run_flag)

(* A wait for a device ends: the program that runs a delay loop on CLSK    *)
(* comes to its HLT, however the clock ticks fall between the cycles.      *)
HasHalt == \E c \in DOMAIN core : core[c] = \o7402

RunHalts == run_flag /\ HasHalt ~> ~run_flag

(* A jump to itself that no interrupt can end stops the CPU: "run_flag =   *)
(* false; // endless loop;" (PDP8.cpp:140).  In the last word of memory it *)
(* does not, the comparison that finds it knows no wrap at 12 bits.        *)
AtEndlessLoop ==
  /\ cycle_state = "Fetch" /\ Here \in DOMAIN core /\ programCounter # \o7777
  /\ OpCode(Read(Here)) = JMP /\ ~Indirect(Read(Here))
  /\ ImmediateAddress(programCounter, Read(Here)) = programCounter
  /\ instBuffer = instField /\ ~CanInterrupt

EndlessLoopStops == run_flag /\ AtEndlessLoop ~> ~run_flag

(* README.md:58-60: Step completes the current instruction or steps        *)
(* through a full one, and the console has the prompt back.                *)
StepCompletes == instruction_flag ~> ~instruction_flag

(* README.md:63-64: in run mode the CPU runs until HLT or Stop; it does    *)
(* not stay for ever in front of one instruction.                          *)
KeepsRunning == run_flag ~> (cycle_state = "Fetch" \/ ~run_flag)
=============================================================================
