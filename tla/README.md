# A TLA+ model of the PiDP-8 simulator

The program is a PDP-8 simulator with an operator console, a DECWriter terminal
and a line-frequency clock (`src/main.cpp`, `src/src`). This directory holds
TLA+ modules for its machine, its windows and its assembler, the TLC
configurations that check them on small instances, and TLAPS proofs of the
properties that matter most for every program, every console command, every
number typed and every number of windows.

## The system

| Part | Source | State | Operations | Correct when |
|---|---|---|---|---|
| CPU | `PDP8.cpp`, `PDP8.h` | instruction register, interrupt, idle and run flags, cycle state | one machine cycle per call of `instructionStep`; console flags; `rimLoader`, `readBinaryFormat` | an instruction, spread over several calls, has the effect of one atomic instruction; a CPU that waits goes on when it can |
| Memory | `Memory.h` | core with an initialised bit per word, `memoryAddress`, `memoryBuffer`, `programCounter`, three fields | read, write, examine, deposit | only the addressed cell is written |
| Registers | `Register.h`, `Accumulator.h` | C++ integers wider than the register they stand for | masked slices, `addOp` without a mask | the machine sees 12 and 13 bits |
| Instruction | `Instruction.h` | none | field getters | - |
| DECWriter | `DECWriter.cpp/.h` | keyboard and printer flags and buffers, a telnet window with a line of waiting characters | `operation` (from the CPU), input and closing (from the main loop) | every character reaches the CPU once and in order; nothing waits with nobody to fetch it |
| Clock | `DK8_EA.cpp/.h` | an atomic flag, an interrupt enable | a thread that sets the flag; `CLSK` reads it and then clears it | every tick makes a skip, or its loss is explained |
| Operator console | `Pdp8Terminal.cpp/.h` | line editor, history | `l d E e c s C S RIM`, loading a program, `quit` | commands between machine cycles do not corrupt an instruction |
| Terminal manager | `Terminal.cpp/.h` | list of windows with their marks, a one-slot queue for new ones | select, dispatch, timer tick, removal, `closeAll` | every window opened is serviced until it is closed; the program ends when it is told to, or when nobody is left |
| Telnet protocol | `Terminal.cpp/.h` | option flags, window size, the line being typed | `parseInput`, `parseIacBuffer` | typed bytes are told from commands, in whatever pieces they arrive |
| Assembler | `src/src/assembler` | recognisers and their order; tokens, symbols, radix, location counter | `nextToken`, two passes, BIN output, one-line assembly for `d` | both passes agree on every label; what is loaded is what is listed |

How they meet:

- The main thread runs `TerminalManager::serviceTerminals` for ever: it reads
  the windows that have input (console commands, DECWriter typing), drops the
  closed ones, and then calls the timer tick of the console, which makes one call of
  `instructionStep` while `run_flag` is set.
- The commands `c` and `s` raise a flag and loop on `instructionStep` *in the
  same thread* until it is down: no window is read meanwhile.
- The CPU calls the devices from inside an Execute cycle (`operation`) and
  polls them in the Interrupt cycle. A DECWriter operation may open the window.
- The clock thread writes the flag at any time, with no lock, also in the middle
  of a machine cycle.
- A new window - the DECWriter's, or the listing of a loaded program - goes
  through `terminalQueue`, which has one place; it reaches the list at the
  beginning of the next round.
- A loaded program passes from the characters of its source through tokens and
  two passes to a BIN tape in memory, and from there into core by the CPU's own
  loader.

What makes this hard: an instruction lives across several calls in registers
that the console uses too; the idle and interrupt logic couples the CPU to
devices whose input is read by the thread the CPU runs in; characters pass
through three places, each emptied at another time; `CLSK` is two accesses
to a flag another thread sets; people close windows while the list of them is
being walked; telnet commands arrive in pieces; and the assembler runs the same
code twice over state it does not reset. The hazards, each at its line, are in
`PROJECT.json`.

## The modules

| Module | What it is |
|---|---|
| `PdpWord` | 12-bit words, fields, bit operations |
| `Instruction` | the fields of an instruction word, the address it names, auto-indexing |
| `Opr` | the 13-bit link and accumulator as a number; the three groups of operate instructions |
| `LinkAC`, `Accumulator` | the link and accumulator as an abstract state machine, the wider C++ register with its setters, and the refinement between them |
| `DECWriter`, `DECWriterSession` | the device: one action per operation code, input and closing; and the device driven by any CPU and any person, with history |
| `DK8_EA`, `ClockSession` | the clock, with `CLSK` in two steps; and the clock against any CPU, with history |
| `PDP8` | the CPU: one action per machine cycle outcome and per instruction, on the memory and both devices |
| `PiDP8` | the program of `main.cpp`: CPU, console commands, window and clock thread interleaved; the machine's invariants |
| `Isa`, `PiDP8Isa`, `MCIsa` | the instruction set as an abstract machine with one step per instruction; the history variable and refinement mapping by which `PiDP8` implements it; bounded instances |
| `MCParts` | the accumulator, the clock and the DECWriter each on its own, bounded; a behaviour is one of one part |
| `Promises`, `MCPromises` | liveness and the statements of README and comments, over sample programs |
| `TerminalManager` | the main loop over its windows: list, queue, select, closing, ticks, removal, with people and the console's commands as its surroundings |
| `Telnet`, `MCTelnet` | `parseInput` byte by byte against what the client meant; the command history on the screen |
| `Tokens`, `MCTokens` | `TokenParser`: the race of the recognisers, character by character |
| `Assembler`, `TestPrograms`, `MCAssembler` | classification, expressions, op codes, the two passes, the BIN tape and its loader, `generateOpCode`; sources as tokens, two of the built-in ones among them |
| `DECWriter_proofs`, `Parts_proofs` | proofs: the lemmas about the device; the register, the clock and the DECWriter on their own |
| `PiDP8_proofs` | proofs: types of the machine and of its operators; operands, stores, the refinement of the instruction set; the program that echoes |
| `TerminalManager_proofs` | proofs: the main loop |
| `Data_proofs` | proofs: induction, words and `And`/`Or`, `FlattenSeq` |
| `Tokens_proofs`, `Telnet_proofs`, `Assembler_proofs` | proofs: the race of the recognisers; the parser and its client; the loops of the assembler, its operands, its tape, its two passes and the command `d` |

Nothing is composed that does not share state: `PiDP8` composes CPU, devices,
console and clock over the contents of the machine and takes the DECWriter's
window for granted; `TerminalManager` has all windows and takes an instruction
for one that operates the DECWriter or does not. What `Telnet` delivers is what
`Typed` of `DECWriter` and the commands of `PiDP8` begin with; what `Tokens`
delivers is what `Assembler` begins with; what `Assembler` delivers is a tape of
`PiDP8`.

Names follow the source: `Fetch`, `Defer`, `ExecuteISZ`, `CDF_CIF`,
`performInputOutput`, `nextChar`. `PROJECT.json` "map" gives the lines of every definition.
Operators whose comment begins with "A slip" are deliberately wrong variants of
the definition below them; nothing uses them. Substituting one shows that the
property meant to catch it does.

Points where the correspondence needs a word:

- **Atomicity.** One action is one call of `instructionStep`, except the two
  places where the clock thread can change what the call sees half way: the
  Interrupt cycle (`PollDevices`, then one of four outcomes, `polled` in
  between) and `CLSK` (`CLSKTest`, `CLSKClear`, `clsk` in between). While
  `polled`, `clsk`, `step_flag` or `instruction_flag` is set the main thread is
  busy, so neither the console nor the window can act.
- **Memory** is a function from `<<field, word>>` to words with the initialised
  cells as its domain, since `fetch` treats the others differently.
- **The accumulator** is its 13-bit number in `PDP8`; that the C++ register
  behaves like it is what `ImplementsLinkAC` checks.
- **Exceptions.** An illegal rotate, an unknown device operation and a wait on
  an unconnected device throw through the main loop and end the process
  (`Throw`).
- **The screen** keeps the last `ScreenSize` bytes sent, the line feed added
  after a carriage return included.
- **Loading** a binary or the RIM loader is one step: it runs in the main
  thread with no call of the CPU in between. That the tape holds what the
  source says is the subject of `Assembler`.
- **`quit`** ends `PiDP8` at once; that one more timer tick may still run, and
  open a window, before the windows are closed is in `TerminalManager`.
- **Opening a window** leaves nothing waiting: what is typed into the console
  during the first tick (`initialize`) or into a new DECWriter window before
  `performInputOutput` has parsed its answers is not modelled.
- **The list of windows** is a set of numbers in opening order. That is enough:
  windows are appended in this order, removed from anywhere and serviced from
  the first on.
- **A window in `TerminalManager`** has a number of things typed and not yet
  read. "Readable and empty" is how the code tells a closed window, so a window
  closed with input waiting is served first and dropped a round later. The
  `get()` that a listing's window makes on one byte per round may leave bytes in
  the stream's buffer; they cannot be seen by anybody.
- **What ends or stops the process** in `TerminalManager`: a write to a window
  that was closed may (`BrokenPipe`; only SIGCHLD is ignored), and so may an
  exception that nobody catches, of an instruction or of the argument of a
  command (`Uncaught`). The commands `c` and `s` are a loop (`CycleOrStep`, then
  `StepEnds`), which ends only in a cycle of an instruction; `waiting` says that
  the CPU is in an Interrupt cycle which only a person can end: asleep until a
  key is typed at the DECWriter, or in front of an interrupt it never enters. The
  assembler may never finish an argument (`AssembleForEver`). `Hung` is what these
  come to.
- **Telnet** bytes arrive one at a time and the parser takes a step per byte, so
  every division into reads is a behaviour. `StrayBytes` stands for what lies
  behind a vector that is too short; an empty one is dereferenced at a null
  pointer and ends the process. 2^30 stands for 2^32 where a height wraps.
- **Characters** in `Tokens` are one or two of each kind the recognisers
  distinguish; the lower-case x is both a letter and a part of `0x`, A both a
  letter and a hexadecimal digit.
- **Tokens** in `Assembler` carry their class and, for a number, its digits;
  that classes and literals are right is what `Tokens` checks. White space is
  dropped as `readProgram` drops it. The assembler of the console is fresh; in
  the program it keeps radix and program counter from the last source, which all
  built-in sources set before they use them.

## Properties and runs

`Careful` is TRUE when the person at the console uses the memory commands
between instructions only, which is what the panel's Fetch light tells them.

| Run | Checks | Bounds | States |
|---|---|---|---|
| `MCParts` | `ImplementsLinkAC`, `TicksAccounted`, `DECWriterTypeOK`, `NoStrandedInput`, `PrinterAlwaysReady`, `TakenInOrder` | a 14-bit short in a 15-bit register: one bit above the link that survives setters, one that only `addOp` reaches; 5 ticks: every combination of merging and racing around one `CLSK` and the next; 5 characters typed, 3 waiting, 3 on the screen | 103 thousand |
| `MCIsa` | `TypeOK`, `StoresWhereAddressed`, `ImplementsIsa` | all programs of 3 instructions out of 13, and of 2 out of 41 device, processor and operate codes, with clock and window interleaved and with `c s S C` | 680 thousand |
| `Console` | `OperandAddressed`, `ImplementsIsa` | two machines (one empty), all commands, 3 commands and 3 instructions | 112 thousand |
| `WaitLoops` | `EchoInOrder`, `EverythingTaken`, `RunHalts`, `EndlessLoopStops` | 3 characters; the two sample programs; no bound on ticks or cycles | 17 thousand |
| `Tokens` | `TokensRight`, `NothingLost`, `ReadToTheEnd` | all texts of up to 3 characters out of 11, of up to 4 out of the 8 that numbers, comments and garbage are made of, and all pairs: every recogniser after every other one, with the list in every order it reaches | 44 thousand |
| `Assembler` | `TapeLoadsListing`, `PassesAgree`, `OperandsMeant`, `HangsOnlyWhenMalformed`, `DepositAgrees` | all sources of up to 3 lines out of 21, with and without an origin, the DECWriter program and PING PONG: labels defined before and after their use, twice, by assignment and by position, a predefined one redefined, on three pages, in two radixes, an origin behind a directive | 140 thousand |
| `Telnet` | `Understood`, `NeverLeftWaiting`, `SizeNeverTorn`, `HistoryOnScreen` | conversations of 2 items out of 12 and of 3 out of 5, for the console and for the DECWriter, each byte arriving at any moment: enough for a command cut anywhere and for what follows it to be misread | 534 thousand |
| `TerminalManager` | `TypeOK`, `SlotIsFresh`, `WindowsAccounted`, `DeviceWindow`, `EndsWhenUnused`, `ClosedIsDropped`, `QuitEnds` | 3 windows opened in all (the console, and two that compete for the queue), 2 things typed and not read; every command that loads, runs, steps or hangs | 397 thousand |

`MaxInstructions` and `MaxCommands` stop a behaviour, so `MCIsa` and `Console`
are checked with `CHECK_DEADLOCK FALSE`; the program itself may also stop, by
`quit` or an exception. `Tokens`, `Assembler`, `Telnet` and `TerminalManager`
stop at the end of the text, of the tape, of what the client has to say, and of
the program. In `MCParts` and `WaitLoops` deadlock is checked: a register takes
any operation, a device can always be operated, the clock always ticks. Four instructions are enough for one that modifies another, or
the pointer it goes through, to be followed by the one it modified; a longer
program meets no new pair of cycles. Octal 010 and 020 hold an auto-index cell
and a plain pointer, and addresses on page zero, the current page and in field
1 (after CDF and CIF) occur.

What the properties say:

- `ImplementsIsa`: whatever the console, the window and the clock do between
  cycles, every instruction is one step of `Isa`. The history variable
  `fetched` holds memory and program counter as they were before the Fetch
  cycle, because by the end of Execute an auto-index cell may have been
  incremented and the pointer overwritten.
- `OperandAddressed`, `StoresWhereAddressed`: the address built up by Fetch and
  Defer is the effective address computed from memory alone, and nothing else is stored into.
- `TakenInOrder`, `NoStrandedInput`: what was typed is what was acknowledged,
  then the keyboard buffer, then the waiting line. A flag cleared without
  fetching the next character would break it.
- `TicksAccounted`: ticks = skips + merged + raced + pending. A tick is lost only
  between the two halves of a `CLSK`.
- `EverythingTaken`, `RunHalts`: a sleeping CPU wakes for the character or the
  tick it waits for. `EndlessLoopStops`: behind its HLT the delay program jumps to
  itself, and the CPU stops there when it is continued.
- `TokensRight`, `NothingLost`, `ReadToTheEnd`: the tokens are a division of the
  source into longest tokens of the right class, said without recognisers,
  counts or order (`WellFormed`); a character that begins no token goes with the
  next number or comment (`Garbled`). That there is never an "Ambiguous tokens"
  exception depends on the loop that stops at the first recogniser that is
  behind.
- `PassesAgree`: in an `Orderly` program every label has the same value in both
  passes. Orderly is a program that chooses its radix, if at all, before its first
  origin, which has a line of its own (`BeginsAt`), and whose origins and
  assignments use only names defined on lines above, or predefined ones that the
  program never redefines (`LooksBack`). Without these conditions it is false by
  the nature of two passes that start from whatever is there: `A=B+1` before
  `B,`; `DECIMAL *200` on one line, where the rest of a directive's line is
  skipped, the origin with it, so that each pass begins where the last one
  ended; `A=_AutoIndex0` above a redefinition of `_AutoIndex0`. The last two were
  found while proving the theorem, and the lines of the run now contain them.
- `TapeLoadsListing`: assembler and loader are inverses; the listing, the tape
  and core say the same.
- `OperandsMeant`: if the operand written is on page zero or on the page of the
  instruction, it is the address the CPU computes.
- `HangsOnlyWhenMalformed`: the endless loop and the uncaught exception of
  `evaluateExpression` come from an operator, `*` or `=` without a value behind
  it, or from a `.` to the right of an operator, and from nothing else.
- `DepositAgrees`: `d` with an instruction deposits the word the assembler would
  have put there.
- `Understood`: after every item the window holds what `Text`, `Agreed` and
  `LastSize` compute from the items without bytes. Excluded are DONT, sizes with
  a byte 240 or 255, and what follows a sub-negotiation cut by a read.
  `SizeNeverTorn`: after a DONT or a cut, too, the size is one that the client sent
  as a whole. With a byte 240 in a size it is not (see below). `NeverLeftWaiting`: the blocking `get()` has something to
  wait for.
- `SlotIsFresh`, `WindowsAccounted`, `DeviceWindow`, `EndsWhenUnused`: see the
  comments in `TerminalManager`; together they say that the only way to lose a
  window is to have it displaced from the queue by a younger one of the same
  round.
- `ClosedIsDropped`, `QuitEnds`: a closed window leaves the list and quit ends the
  program, however busy windows and CPU are, unless the main loop is `Hung` in a
  command or the process dies. Nothing weaker would be true: an `s` typed on a
  sleeping CPU, or read together with a quit before it, keeps the closed windows
  in the list for ever.

### Fairness

`FairSpec` and `FairPromiseSpec` assume weak fairness of `instructionStep` (the
main loop, and the loops of `c` and `s`, call it again and again while a flag
asks for it) and of the clock thread (it wakes every 8.3 ms). Nothing is assumed of people:
typing, commands and closing may never come.

`FairSpec` of `TerminalManager` assumes weak fairness of the main loop, `Main`,
and `CommandsEnd`: the loop that reads the console's commands comes to the end
of the commands again and again, if none of them hangs (`Hung`) or ends the
process. The loop in `parseInput` goes on for as long as something is there to be
read, so a person who typed commands for ever faster than they are run would
keep the other windows from being served; people do not. That a command returns
is not assumed: `StepEnds` is disabled while the CPU waits, an endless argument
has no step that ends it, and both are behaviours of `FairSpec`. Nothing is
assumed of people, of the clock's interrupts (`ClockThread`) and of what ends the
process (`Dies`).

### Where code and documents disagree

Four runs are expected to fail; each checks a statement of the repository's.

| Run | Property | What happens |
|---|---|---|
| `EchoLiveness` | `EverythingEchoed` | `idle_flag` is never cleared. After the wait loop on KSF has been seen once, the CPU sleeps in front of *every* instruction until the keyboard has a character, also in front of the TLS that should echo the one just read: the echo lags one character behind. |
| `StepHangs` | `StepCompletes` | `s` on a sleeping CPU loops for ever: the loop holds the thread that would read the keyboard. |
| `InterruptLivelock` | `KeepsRunning` | An interrupt is never entered: the Interrupt cycle clears the request and stays where it is. The printer always requests. |
| `OffPage` | `OffPageRefused` | `Assembler.h:938` promises an exception when "addressing crosses page boundary"; the check compares the bits 07300 where a page is 07600, so `JMP 600` at 0200 is assembled, without an error, into a jump to 0200. |

Also seen, and modelled as the code has them:

- IOF leaves the delayed enable of an ION pending; Stop halts between cycles and
  not at the end of the instruction (README.md:68-69); Load Address never
  touches the fields (README.md:31-32); KIE stores an enable that nothing reads;
  CAF leaves `greater_than_flag`, `idle_flag` and the devices alone.
- When `c` has fetched a DCA and the person at the console examines a cell
  before the next `c`, the accumulator is stored into the cell examined. This
  is why `OperandAddressed` needs `Careful`.
- Bit 0100 is compared by the page check though it is part of the offset, so
  `JMP 300` at 0200 is refused. `I` before the op code is lost (`I TAD 5`), and
  so is the token behind an argument (`TAD 5 I`). `;` does not begin a new
  instruction. A label never defined is 0 without an error. `JMP .` typed after
  `d` is a jump to the next address, and near the end of a block of 0100 words
  the page check is made for the next word.
- `std::ranges::find(...)` is used as a truth value (`PDP8.cpp:129`), so every
  `JMP .-1` is taken for a device wait, whatever instruction precedes it. A loop
  that counts with ISZ waits for a device that is not connected, and the exception
  ends the program.
- The comparisons that find `JMP .` and `JMP .-1` subtract from the program counter
  without the wrap at 12 bits: `JMP .` at 07777 is not stopped.
- A byte 240 in a window size is taken for the SE behind it: a window of 240 columns
  gets a width and a height from behind the end of the buffer (`SizeWhole` is
  false), and the rest of the message is taken for typed. DONT sets the option after
  it as the command before it did.
- A DECWriter window displaced from the queue by a listing, when both are
  opened by commands read in one go, prints and never hears.
- When the console is closed first the program runs on, without a CPU, until
  the other windows are closed; a `quit` is then impossible.

## Proofs

All proofs are for arbitrary constants under the named assumptions of the
modules: any images, tapes, commands, arguments, connected devices, characters,
windows, widths, texts, conversations and bounds.

| Assumption | What it asks, and why the code has it |
|---|---|
| `DECWriterAssumption`, `PDP8Assumption`, `PiDP8Assumption`, `SessionAssumption` | characters are bytes other than 255, which telnet keeps for commands; images are images; numbers typed are numbers, words are words; the screen kept is not empty |
| `AccumulatorAssumption` | operands are words, rotate codes those `rotate` does not throw on, and both C++ types have room above the link |
| `MaxTicksAssumption`, `WindowsAssumption` | bounds of the model are numbers; the console's window is one |
| `SourcesAssumption` | sources are sequences of tokens of the classes `TokenParser` finds, numbers given by their digits, and end with an end of file |
| `TextsAssumption` | texts are made of the kinds of characters the recognisers tell apart |
| `TelnetAssumption` | a client says items: bytes it typed (never a bare IAC), answers about the three options the program asks for, sizes of two 16-bit words |
| `Careful` | a hypothesis of three theorems, and only of those: the console's memory commands are used between instructions. Without it `OperandAddressed` is false, as said above |
| of `EchoIsInOrder` only | the program is the DECWriter sample, loaded once; the console runs, stops, steps and quits but does not write core or load another program; keyboard and printer are connected, as `main.cpp` has them; nobody types a carriage return, which is echoed with a line feed; the kept screen has room for what is typed |

### The machine

- `TypeCorrect`, `MachineStrandsNoInput` (`PiDP8_proofs`). The inductive
  invariant is `TypeInv`: `TypeOK` with `NoStrandedInput`, which the device's
  part needs to be inductive along with it. One lemma per group of actions. The
  operators (`And`, `Or`, rotates, the groups of OPR, addresses) are typed
  first; case splits on digits keep the bit arithmetic within reach of the SMT
  solver.
- `OperandCorrect`, `StoresCorrect`. `OperandAddressed` alone
  is not inductive: nothing in it says what memory and registers hold in the
  Defer cycle. `AddressInv` adds that a Defer cycle finds `memoryAddress` at the
  named cell of an initialised indirect instruction, and that the instruction
  register agrees with the cell it came from for as long as that is needed. The
  lemma that the page of an address is not changed by taking its immediate
  address twice (`ImmediateAddressTwice`) is what makes Fetch and Defer agree.
- `MachineImplementsIsa`: `Careful` implies `HistorySpec => ImplementsIsa`. The
  refinement mapping shows the abstract machine the memory and the program
  counter of before the Fetch cycle while an instruction is under way; the
  history variable `fetched` holds them. `IsaInv` ties the registers of the
  machine to it: in the Defer cycle nothing of the instruction has happened, in
  the Execute cycle core is what it was with the auto-index cell stepped,
  `programCounter` is the next one (or one beyond, between the halves of a
  `CLSK` that skips) and `memoryAddress` is the abstract operand. Every Fetch and
  Defer is then a stutter, every Execute the abstract instruction, and whatever
  console, window and clock do is the same in both or a stutter.
- `EchoIsInOrder`: the built-in DECWriter program echoes in order, for every
  alphabet, every amount typed and every interleaving of typing, ticks, machine
  cycles and the commands that run and stop the machine. `EchoInOrder` speaks of
  the screen only, and a character is on its way there for a dozen cycles.
  `EchoInv` follows the program: core is unchanged, the machine is `Ahead` of one
  of its six addresses or `Amid` the instruction there, and what was typed is what
  is on the screen, then what the accumulator holds (`Holding`, between KRB and
  TLS), then what is with the device (`Held`: keyboard buffer and line). Where the
  character is depends on the address (`Finds`), which makes the invariant
  inductive together with the types. Two facts carry it: no operation clears the
  keyboard's flag without taking the next character of the line (`NextCharHolds`),
  and KRB overwrites the accumulator only after the character in it was printed.
  Closing the window is not part of `Promises`; what happens to the characters
  then is in `NothingLost`.

### The parts

- `AccumulatorTyped`, `RegisterImplementsLinkAC` (`Parts_proofs`): the wide C++
  register implements the 13-bit one for every width of a short and of the
  register. All that an operation sees of the register is its remainder modulo
  2^13 (`LowBits`), and the carry that `addOp` leaves above the link never enters it.
- `DeviceTyped`, `NothingStranded`, `PrinterReady`, `NothingLost`: the DECWriter
  alone, with sequences of any length; `NothingLost` is the equation
  `TakenInOrder`, kept by every operation by the laws of concatenation.
- `ClockAccounts`: the accounting of ticks, for any number of ticks.

### The main loop

- `ManagerTyped`, `QueueFresh`, `NoWindowForgotten`, `DeviceAgrees`,
  `EndsUnused` (`TerminalManager_proofs`): the five invariants of the main loop,
  for any number of windows. None is inductive alone. `TerminalInv` adds `Marks`
  (a marked window is neither readable nor queued, and is out of the list by the
  next round), `Serving` (only the console opens windows, while it is served or
  after; whatever is readable has input or was closed) and `WhileUsed` (unless
  told to quit, marks are on closed windows only, and a window in the queue
  means that the console is still there to be followed). `EndsWhenUnused` is
  the point of it: the loop ends on an empty list, while the queue could still
  hold a window; `WhileUsed` says that it cannot.

### Tokens

- `TokensAreRight`, `NoCharacterLost`, `TextsAreReadToTheEnd` (`Tokens_proofs`),
  for every text. `TokensRight` says nothing of recognisers, and a recogniser
  knows nothing of the others, so the inductive invariant `TokensInv` says who is
  where in the race (`Racing`): after a literal that begins a token exactly the
  recogniser of its class is passing, it has passed the most characters and so
  is in front of the list, and the others have passed none; after one that
  begins no token only the patient ones wait. From this the character that ends
  a token fails exactly one of them. `RightSoFar` is `TokensRight` with what is
  left of the text in the place of the token to come.

### Telnet

- `SizesAreWhole` (`Telnet_proofs`), for every conversation whose sizes have no byte
  240 or 255, DONT and cuts included. `SizeInv`
  keeps the place in the bytes: between IAC SB and the end of its item the buffer is a
  piece of what the client sent there. No byte of a size is SE, so `parseIacBuffer`
  is called at the end of the item only, and on a whole size; a cut never calls it.
- `ClientIsUnderstood`, `NobodyIsLeftWaiting`. `OnTrack` says, for conversations
  that `Understood` speaks of, which item the parser is in and at which of its
  bytes (between two items, after its IAC, after its command, inside a
  sub-negotiation) and that line, options and size are what the items before it
  said (`Knows`).
- `HistoryStaysOnScreen`: the arithmetic of the history's rows for every height
  and every number of entries.

### The assembler

All five theorems are for every source, in `Assembler_proofs`. They rest on what
a line can be (`PrefixAt`, `CodeAt`), and that on the two loops.

- The loops. `evaluateExpression` and `evaluateOpCode` are `After`: the state
  after so many turns. `AfterKeeps` is the rule for an invariant of a loop, `AfterEnds`
  the one for its end: when every turn that does not stop takes a token, and the
  tokens run out, the loop has stopped. `ExpressionAt` is the invariant of the
  first loop (left is set exactly when a token was taken; an operator is pending
  exactly after one), `OpCodeAt` that of the second (the code built so far has the
  address bits clear, or belongs to no memory instruction).
- `HangsOnMalformedLines`: a loop that stops without a result stopped at a token
  that no case takes, and the token before it says which expression is malformed
  (`ExpressionHangs`).
- `OperandsAreMeant`. The table of instructions is looked at group by group
  (`GroupsRight`): memory instructions have their lower eight bits clear, everything
  else is at least 06000, so or-ing flags and operands in is adding them
  (`OrOperand`) or leaves the memory instructions for good. `Meant` is what
  follows for a word and its operand; it is true of every entry that is listed
  (`Entries`), and on the right page it is what `ImmediateAddress` computes.
- `TapeIsListing`. What is loaded and what is listed are both "the last with each
  address" (`LastOf`), so it is enough that they grow alike: an origin word on
  the tape moves the next address and loads nothing (`OriginRead`), a word after
  it is loaded there (`DataRead`), which is what one more entry does to the
  listing (`ListedMore`). That the counter agrees needs that only an origin
  moves the program counter before the word is written (`PrefixAt`).
- `DepositsAreListed`. A line is a slice of its program (`Slice`), and the loop of
  `evaluateOpCode` over the line and over the program runs alike, turn by turn
  (`SameRun`), when the two assemblers read the same into every operand; they do
  when it is a number in the same radix. `Encoded` then differs in the page of the program counter only,
  which `generateOpCode` has one further on (`NextPage`). The invariant
  `Depositing` says it of everything listed so far.
- `BothPassesAgree`. What the second pass makes of a line depends on what the first
  made of it, so the inductive invariant `Passing` remembers: there is a history
  of the first pass (`Past`), the assembler with which it came to each line.
  While the first pass runs the history grows (`PassOne`); in the second one
  (`PassTwo`) the assembler agrees with the history at the same line (`Agree`):
  names defined above have their values from there, all others the values they
  had at the end of the first pass. That this is kept by a line (`AgreeKept`)
  needs that a line is read the same whatever else is in the table (`SameLine`),
  that the lines follow each other in the same order (`LinesInOrder`), and that
  origins and assignments find only names that agree (`LineOperandsAgree`), which
  is what `Orderly` asks. At the end of the source nothing is left to be defined
  (`PassTwoEnds`).

### Induction

The library's induction theorems take an operator as a parameter, which no
backend here can instantiate. `SetInduction` (`Data_proofs`) says instead that a set
with zero and every successor has all natural numbers; an induction is about
the set of the numbers for which the statement holds. With it `FlattenSeq` is
shown to be what it is in the library's comment (`FlattenEmpty`,
`FlattenAppend`), the line editor of `Telnet` (`Edited`), the numbers of the
assembler and its loops (`After`), all recursive functions, to follow their
equations.

### Model-checked only

Every invariant and every refinement of the passing runs is a theorem. What is
left to TLC is liveness under fairness: `EverythingTaken`, `RunHalts`,
`EndlessLoopStops`, `ClosedIsDropped`, `QuitEnds`, which are out of the proof system's reach.

## Not modelled

- Sockets, fork, exec and file descriptors: operating-system I/O. What is sent
  to the telnet client changes no state that the program reads again, except
  what the DECWriter prints, which is kept as `screen`.
- Panel drawing, which reads the machine and changes nothing; the help text;
  the repetition of the last command by an empty line, which is that command
  again; the layout of the listing and `dumpSymbols`.
- Which arguments make `parseArgument` throw an exception that nobody catches, as
  a mistyped mnemonic after `d` does; `TerminalManager` has only that it may.
- FORTH, the longest of the built-in sources. The older copy of the assembler in
  `src/assembler` and `asm8.cpp` is not part of the simulator.
- `error_flag`, `interrupt_deferred`, the programmed bit of memory words and the
  step counter: written, if at all, and never read by the machine. `switch_register`,
  which OSR reads and nothing writes, is the constant `SwitchRegister`.

## Plan

What is left: the terminal manager and the machine in one module, so that a
DECWriter window displaced from the queue is seen by the program that echoes.
