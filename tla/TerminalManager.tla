-------------------------- MODULE TerminalManager --------------------------
(***************************************************************************)
(* The main loop and its windows: serviceTerminals called until the list   *)
(* of windows is empty, the queue of one place for a window opened while   *)
(* the list is in use, the console whose commands load programs and run    *)
(* the CPU, the DECWriter that opens its window when it is operated, and   *)
(* people who type into windows and close them at any time.                *)
(*                                                                         *)
(* Windows are numbered in the order they were opened, the console is 1.   *)
(* They are appended to the list in this order and removed from anywhere,  *)
(* so the list is a set, serviced from its smallest member on.             *)
(***************************************************************************)
EXTENDS Integers

CONSTANTS
  MaxWindows,   \* bound: windows opened in a behaviour
  MaxInput      \* bound: things typed into a window and not yet read

ASSUME WindowsAssumption == MaxWindows \in Nat \ {0} /\ MaxInput \in Nat

NoWindow == 0
Pdp8Terminal == 1
Windows == 1 .. MaxWindows

VARIABLES
  opened,          \* number of windows opened so far
  decWindows,      \* those the DECWriter opened; the others show listings
  list,            \* the members of the TerminalManager
  terminalQueue,   \* a window to be appended, or NoWindow
  terminal,        \* the DECWriter's window, or NoWindow
  disconnected,    \* windows marked for removal
  service, runConsole, run_flag,
  waiting,         \* the CPU is in an Interrupt cycle that only a person can end
  phase,           \* of serviceTerminals: begin, serve, tick, erase, ended; of a
                   \* command in serve: step, assembly; of the process: killed
  readable,        \* windows select found readable and not serviced yet
  serving,         \* the window whose commands are being read, or NoWindow
  closed,          \* windows the person at it has closed
  input,           \* what was typed into each window and not yet read
  openedBefore,    \* history: opened, when this round began
  displaced        \* history: windows another took the queue from

deviceVars == <<opened, decWindows, terminalQueue, terminal, displaced>>
flagVars   == <<service, runConsole, run_flag, waiting>>
roundVars  == <<list, disconnected, phase, readable, serving, openedBefore>>
peopleVars == <<closed, input>>
vars == <<deviceVars, flagVars, roundVars, peopleVars>>

Init ==
  /\ opened = 1 /\ decWindows = {}
  /\ list = {Pdp8Terminal} /\ terminalQueue = NoWindow
  /\ terminal = NoWindow
  /\ disconnected = {}
  /\ service = TRUE /\ runConsole = TRUE /\ run_flag = FALSE
  /\ waiting = FALSE
  /\ phase = "begin" /\ readable = {} /\ serving = NoWindow
  /\ closed = {} /\ input = [w \in Windows |-> 0]
  /\ openedBefore = 1 /\ displaced = {}

-----------------------------------------------------------------------------
(* People.                                                                 *)
Open == (list \cup {terminalQueue, terminal}) \ {NoWindow}

Type(w) ==
  /\ w \in Open \ closed /\ input[w] < MaxInput
  /\ input' = [input EXCEPT ![w] = @ + 1]
  /\ UNCHANGED <<deviceVars, flagVars, roundVars, closed>>

CloseWindow(w) ==
  /\ w \in Open \ closed
  /\ closed' = closed \cup {w}
  /\ UNCHANGED <<deviceVars, flagVars, roundVars, input>>

-----------------------------------------------------------------------------
(* Opening: the new window takes the queue, whatever was in it.            *)
Enqueue ==
  /\ opened < MaxWindows
  /\ opened' = opened + 1
  /\ terminalQueue' = opened + 1
  /\ displaced' = displaced \cup ({terminalQueue} \ {NoWindow})

(* loadSourceStream.                                                       *)
OpenListing == Enqueue /\ UNCHANGED <<decWindows, terminal>>

(* DECWriter::performInputOutput.                                          *)
OpenDECWriter ==
  /\ terminal = NoWindow
  /\ Enqueue
  /\ decWindows' = decWindows \cup {opened + 1}
  /\ terminal' = opened + 1

(* Cycles of an instruction that operates the DECWriter, or of another     *)
(* one; it may halt the CPU, and begin a wait: for a key typed at the      *)
(* DECWriter, or in an interrupt that is requested and never entered.  (A  *)
(* wait for the clock ends by itself, in the clock's thread.)              *)
instructionStep ==
  /\ ~waiting
  /\ OpenDECWriter \/ UNCHANGED deviceVars
  /\ run_flag' \in {run_flag, FALSE} /\ waiting' \in BOOLEAN

(* The clock's thread requests an interrupt, wherever the main thread is.  *)
ClockThread ==
  /\ ~waiting /\ phase \notin {"ended", "killed"}
  /\ waiting' = TRUE
  /\ UNCHANGED <<deviceVars, service, runConsole, run_flag, roundVars, peopleVars>>

-----------------------------------------------------------------------------
(* serviceTerminals, begun while the list has members (main).              *)
MainEnds ==
  /\ phase = "begin" /\ list = {}
  /\ phase' = "ended"
  /\ UNCHANGED <<deviceVars, flagVars, peopleVars, list, disconnected, readable, serving, openedBefore>>

(* A slip: the windows go and the DECWriter is not told.                   *)
CallNobody(gone) == UNCHANGED terminal

(* disconnectCallback, which only a DECWriterTerminal has.                 *)
CallBack(gone) ==
  terminal' = IF gone \cap decWindows # {} THEN NoWindow ELSE terminal

(* A slip: only the windows with a callback are dropped.                   *)
DropNotified == list' = list \ decWindows

clear == list' = {}

(* After closeAll.                                                         *)
CloseAll ==
  /\ phase = "begin" /\ list # {} /\ ~service
  /\ CallBack(list)
  /\ clear
  /\ UNCHANGED <<opened, decWindows, terminalQueue, displaced, flagVars, peopleVars,
                 disconnected, phase, readable, serving, openedBefore>>

(* A slip: the queue keeps the window that was appended.                   *)
KeepQueue == UNCHANGED terminalQueue

ResetQueue == terminalQueue' = NoWindow

(* A slip: the queue is reset before the window in it is appended.         *)
AppendAfterReset == list' = list

push_back == list' = list \cup ({terminalQueue} \ {NoWindow})

(* The window in the queue is appended; select tells which windows have    *)
(* input or were closed.                                                   *)
SelectOnAll ==
  /\ phase = "begin" /\ list # {} /\ service
  /\ push_back
  /\ ResetQueue
  /\ readable' = {w \in list' : w \in closed \/ input[w] > 0}
  /\ openedBefore' = opened
  /\ phase' = "serve"
  /\ UNCHANGED <<opened, decWindows, terminal, displaced, flagVars, peopleVars, disconnected, serving>>

(* The window in its turn.                                                 *)
Serve(w) ==
  /\ phase = "serve" /\ serving = NoWindow
  /\ w \in readable /\ \A v \in readable : w <= v

(* Slips: whatever is readable was closed; nothing is ever found closed.   *)
AlwaysEmpty(w) == TRUE
NeverEmpty(w) == FALSE

NothingIn(w) == input[w] = 0

(* A readable window without input was closed.                             *)
ServeClosed(w) ==
  /\ Serve(w) /\ NothingIn(w)
  /\ CallBack({w})
  /\ disconnected' = disconnected \cup {w}
  /\ readable' = readable \ {w}
  /\ UNCHANGED <<opened, decWindows, terminalQueue, displaced, flagVars, peopleVars,
                 list, phase, serving, openedBefore>>

(* selected: the DECWriter's window reads everything, a listing's a byte.  *)
(* A character for the DECWriter may wake the CPU, or interrupt it.        *)
ServeInput(w) ==
  /\ Serve(w) /\ ~NothingIn(w) /\ w # Pdp8Terminal
  /\ input' = [input EXCEPT ![w] = IF w \in decWindows THEN 0 ELSE @ - 1]
  /\ IF w \in decWindows THEN waiting' \in BOOLEAN ELSE UNCHANGED waiting
  /\ readable' = readable \ {w}
  /\ UNCHANGED <<deviceVars, service, runConsole, run_flag, closed, list, disconnected,
                 phase, serving, openedBefore>>

(* Pdp8Terminal::selected runs a command for every line that has arrived.  *)
ServeConsole ==
  /\ Serve(Pdp8Terminal) /\ ~NothingIn(Pdp8Terminal)
  /\ serving' = Pdp8Terminal
  /\ UNCHANGED <<deviceVars, flagVars, peopleVars, list, disconnected, phase, readable, openedBefore>>

(* A line is taken for a command; what its execution goes through next.    *)
Read(after) ==
  /\ phase = "serve" /\ serving = Pdp8Terminal /\ input[Pdp8Terminal] > 0
  /\ input' = [input EXCEPT ![Pdp8Terminal] = @ - 1]
  /\ phase' = after
  /\ UNCHANGED <<closed, list, disconnected, readable, serving, openedBefore>>

LoadProgram == Read("serve") /\ OpenListing /\ UNCHANGED flagVars

(* c and s begin to repeat instructionStep until it clears their flag.     *)
CycleOrStep == Read("step") /\ UNCHANGED <<deviceVars, flagVars>>

(* It clears the flag in the cycles an instruction consists of, and in the *)
(* Interrupt cycle before them leaves it: while the CPU waits there is no  *)
(* such step, and the loop is in the thread that would read what is typed. *)
StepEnds ==
  /\ phase = "step"
  /\ instructionStep
  /\ phase' = "serve"
  /\ UNCHANGED <<service, runConsole, peopleVars, list, disconnected, readable, serving, openedBefore>>

(* The argument of l, d or E is one that the assembler never finishes.     *)
AssembleForEver == Read("assembly") /\ UNCHANGED <<deviceVars, flagVars>>

(* C and S, and the commands that change no window and no flag.            *)
ContinueOrStop ==
  /\ Read("serve")
  /\ run_flag' \in BOOLEAN
  /\ UNCHANGED <<deviceVars, service, runConsole, waiting>>

Quit ==
  /\ Read("serve")
  /\ service' = FALSE /\ runConsole' = FALSE
  /\ UNCHANGED <<deviceVars, run_flag, waiting>>

ConsoleServed ==
  /\ phase = "serve" /\ serving = Pdp8Terminal /\ input[Pdp8Terminal] = 0
  /\ serving' = NoWindow
  /\ readable' = readable \ {Pdp8Terminal}
  /\ UNCHANGED <<deviceVars, flagVars, peopleVars, list, disconnected, phase, openedBefore>>

Served ==
  /\ phase = "serve" /\ serving = NoWindow /\ readable = {}
  /\ phase' = "tick"
  /\ UNCHANGED <<deviceVars, flagVars, peopleVars, list, disconnected, readable, serving, openedBefore>>

(* A slip: a window marked already is called again, and its mark replaced. *)
TickedEvenIfMarked == list \cap {Pdp8Terminal}

(* The console is the only window with a timerTick.                        *)
Ticked == (list \ disconnected) \cap {Pdp8Terminal}

TimerTicks ==
  /\ phase = "tick"
  /\ IF Ticked # {} /\ run_flag /\ ~waiting
       THEN instructionStep
       ELSE UNCHANGED <<run_flag, waiting, deviceVars>>
  /\ disconnected' = (disconnected \ Ticked) \cup (IF runConsole THEN {} ELSE Ticked)
  /\ phase' = "erase"
  /\ UNCHANGED <<service, runConsole, peopleVars, list, readable, serving, openedBefore>>

Erase ==
  /\ phase = "erase"
  /\ list' = list \ disconnected
  /\ phase' = "begin"
  /\ UNCHANGED <<deviceVars, flagVars, peopleVars, disconnected, readable, serving, openedBefore>>

(* A write to a window that was closed meanwhile may end the process with  *)
(* SIGPIPE, which main leaves as it is.                                    *)
BrokenPipe ==
  /\ \/ phase = "serve" /\ serving = Pdp8Terminal
     \/ phase = "step"
     \/ phase = "tick" /\ Ticked # {} /\ run_flag
  /\ {Pdp8Terminal, terminal} \cap closed # {}
  /\ phase' = "killed"
  /\ UNCHANGED <<deviceVars, flagVars, peopleVars, list, disconnected, readable, serving, openedBefore>>

(* So does an exception, which main catches neither: of a command whose    *)
(* argument the assembler rejects, or of an instruction.                   *)
Uncaught ==
  /\ \/ phase = "serve" /\ serving = Pdp8Terminal /\ input[Pdp8Terminal] > 0
     \/ phase = "step" /\ ~waiting
     \/ phase = "tick" /\ Ticked # {} /\ run_flag /\ ~waiting
  /\ phase' = "killed"
  /\ UNCHANGED <<deviceVars, flagVars, peopleVars, list, disconnected, readable, serving, openedBefore>>

Dies == BrokenPipe \/ Uncaught

Main ==
  \/ MainEnds \/ CloseAll \/ SelectOnAll
  \/ \E w \in Windows : ServeClosed(w) \/ ServeInput(w)
  \/ ServeConsole \/ ConsoleServed \/ Served
  \/ LoadProgram \/ CycleOrStep \/ StepEnds \/ AssembleForEver \/ ContinueOrStop \/ Quit
  \/ TimerTicks \/ Erase

People == \E w \in Windows : Type(w) \/ CloseWindow(w)

Next == Main \/ Dies \/ ClockThread \/ People

Spec == Init /\ [][Next]_vars

(* A command that never returns: c or s while the CPU waits, or an         *)
(* argument the assembler does not finish.  Nothing ends it but a signal.  *)
Hung == phase = "assembly" \/ (phase = "step" /\ waiting)

(* People need not type or close anything, but the one at the console does *)
(* not type commands for ever faster than they are read.                   *)
CommandsEnd == []<>(serving = NoWindow \/ phase = "killed" \/ Hung)

(* The main loop goes on while it can.  Nothing has to die, and the clock  *)
(* has to request no interrupt.                                            *)
FairSpec == Spec /\ WF_vars(Main) /\ CommandsEnd

-----------------------------------------------------------------------------
TypeOK ==
  /\ opened \in Windows /\ openedBefore \in 1 .. opened
  /\ decWindows \subseteq 2 .. opened
  /\ list \subseteq 1 .. opened /\ readable \subseteq list
  /\ terminalQueue \in 0 .. opened /\ terminal \in decWindows \cup {NoWindow}
  /\ disconnected \subseteq 1 .. opened /\ displaced \subseteq 1 .. opened
  /\ service \in BOOLEAN /\ runConsole \in BOOLEAN /\ run_flag \in BOOLEAN
  /\ waiting \in BOOLEAN
  /\ phase \in {"begin", "serve", "step", "assembly", "tick", "erase", "ended", "killed"}
  /\ serving \in {NoWindow, Pdp8Terminal}
  /\ closed \subseteq 1 .. opened /\ input \in [Windows -> 0 .. MaxInput]

(* The queue holds a window for less than a round: whatever is in it was   *)
(* opened since the list was last serviced, so a window that gives way to  *)
(* another gives way to one opened in the same round                       *)
(* (TerminalManager::serviceTerminals).                                    *)
SlotIsFresh == terminalQueue # NoWindow => terminalQueue > openedBefore

(* No window is forgotten: each one opened and not displaced is in exactly *)
(* one of the list and the queue until it is disconnected or the program   *)
(* is told to quit.                                                        *)
Live == 1 .. opened \ (displaced \cup disconnected)

WindowsAccounted ==
  /\ terminalQueue \notin list \cup displaced
  /\ list \cap displaced = {}
  /\ service => Live \subseteq list \cup {terminalQueue}

(* The DECWriter and the list agree: the window it prints in was not       *)
(* disconnected, and every window of its in the list or the queue is that  *)
(* one, so that two windows never share the keyboard                       *)
(* (DECWriter::performInputOutput, disconnectCallback).                    *)
DeviceWindow ==
  /\ terminal \notin disconnected
  /\ terminal # NoWindow => terminal \in list \cup displaced \cup {terminalQueue}
  /\ decWindows \cap (list \cup {terminalQueue}) \subseteq disconnected \cup {terminal}

(* Unless told to quit, the program ends only after every window that it   *)
(* services was closed (main).                                             *)
EndsWhenUnused == phase = "ended" /\ service => 1 .. opened \subseteq displaced \cup closed

(* What makes these four inductive.  A window marked for removal leaves    *)
(* the list before the next select; a window is served once a round.       *)
Marks ==
  /\ phase = "begin" => list \cap disconnected = {}
  /\ readable \cap disconnected = {}
  /\ phase \in {"begin", "tick", "erase", "ended"} => readable = {}
  /\ terminalQueue \notin disconnected

(* Only the console opens windows: while its commands are read, or after   *)
(* it was served.                                                          *)
Serving ==
  /\ serving = Pdp8Terminal =>
       phase \in {"serve", "step", "assembly", "killed"} /\ Pdp8Terminal \in readable
  /\ phase \in {"step", "assembly"} => serving = Pdp8Terminal
  /\ phase = "serve" /\ serving = NoWindow /\ terminalQueue # NoWindow => Pdp8Terminal \notin readable
  /\ \A w \in readable : w = serving \/ w \in closed \/ input[w] > 0

WhileUsed ==
  /\ service => runConsole /\ disconnected \subseteq closed
  /\ service /\ terminalQueue # NoWindow => Pdp8Terminal \in list \ disconnected

TerminalInv ==
  /\ TypeOK /\ Marks /\ Serving /\ WhileUsed
  /\ SlotIsFresh /\ WindowsAccounted /\ DeviceWindow /\ EndsWhenUnused

(* A window in the list that is closed leaves it, however busy the others  *)
(* are, unless the main loop hangs in a command or the process dies:       *)
(* whatever the CPU does in its ticks, an interrupt never entered          *)
(* included, does not keep it (TerminalManager::serviceTerminals).         *)
ClosedIsDropped ==
  \A w \in Windows : w \in list \cap closed ~> w \notin list \/ phase = "killed" \/ Hung

(* quit ends the program, whatever is opened on its last tick, unless a    *)
(* command read together with it hangs or the process dies                 *)
(* (Pdp8Terminal::inputBufferReady, TerminalManager::closeAll).            *)
QuitEnds == ~service ~> phase \in {"ended", "killed"} \/ Hung
=============================================================================
