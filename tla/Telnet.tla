------------------------------- MODULE Telnet -------------------------------
(***************************************************************************)
(* TelnetTerminal: telling what a person types from what the telnet client *)
(* says, in bytes that arrive at any pace.  parseInput is called when the  *)
(* socket has input and runs in the main thread.  It looks whether a byte  *)
(* has arrived before it begins a new item and inside a sub-negotiation,   *)
(* but the two bytes after IAC are read with get(), which waits for them.  *)
(*                                                                         *)
(* What the client means is a sequence of items; what it sends is their    *)
(* bytes.                                                                  *)
(***************************************************************************)
EXTENDS Integers, Sequences, SequencesExt, FiniteSetsExt

CONSTANTS
  Conversations,  \* what clients may mean, as sequences of items
  StrayBytes,     \* what may lie behind the end of a buffer
  Entries         \* lengths of the command history that is drawn

IAC  == 255
DONT == 254
DO   == 253
WONT == 252
WILL == 251
SB   == 250
SE   == 240
NAWS == 31
ECHO == 1
SUPPRESS_GO_AHEAD == 3

Byte == 0 .. 255
Unsigned == {n \in Nat : n < 65536}
Options == {NAWS, ECHO, SUPPRESS_GO_AHEAD}

(* An item is a byte typed, an answer about an option or a window size.    *)
Item ==
  [kind : {"typed"}, byte : Byte \ {IAC}]
    \cup [kind : {"DO", "DONT", "WILL", "WONT"}, option : Options]
    \cup [kind : {"size"}, width : Unsigned, height : Unsigned]

ASSUME TelnetAssumption ==
  /\ Conversations \subseteq Seq(Item)
  /\ StrayBytes \subseteq Byte /\ StrayBytes # {}
  /\ Entries \subseteq Nat

VARIABLES
  items,            \* what the client means
  charMode,         \* the window is the DECWriter's, not the console's
  arrived,          \* how many bytes of it have arrived at the socket
  consumed,         \* how many of them were read
  at,               \* where parseInput is: idle, loop, IAC, option, SB, terminated
  actionState, buffer,                    \* its local variables, reset when they die
  inputLineBuffer, lines,                 \* the line being typed, the lines before it
  naws, echoMode, suppressGoAhead,
  termWidth, termHeight, inputLine,
  cut               \* history: a sub-negotiation was left before its end

inputVars == <<inputLineBuffer, lines>>
modeVars  == <<naws, echoMode, suppressGoAhead>>
sizeVars  == <<termWidth, termHeight, inputLine>>
parserVars == <<actionState, buffer>>
vars == <<items, charMode, arrived, consumed, at, parserVars, inputVars, modeVars, sizeVars, cut>>

-----------------------------------------------------------------------------
Word16(n) == <<n \div 256, n % 256>>

Doubled(bytes) == FlattenSeq([n \in DOMAIN bytes |-> IF bytes[n] = IAC THEN <<IAC, IAC>> ELSE <<bytes[n]>>])

Encoded(item) ==
  CASE item.kind = "typed" -> <<item.byte>>
    [] item.kind = "DO"   -> <<IAC, DO, item.option>>
    [] item.kind = "DONT" -> <<IAC, DONT, item.option>>
    [] item.kind = "WILL" -> <<IAC, WILL, item.option>>
    [] item.kind = "WONT" -> <<IAC, WONT, item.option>>
    [] item.kind = "size" ->
         <<IAC, SB, NAWS>> \o Doubled(Word16(item.width) \o Word16(item.height)) \o <<IAC, SE>>

Chunks(said) == [n \in DOMAIN said |-> Encoded(said[n])]

BytesOf == [said \in Conversations |-> FlattenSeq(Chunks(said))]

Sent == BytesOf[items]

in_avail == arrived - consumed

Init ==
  /\ items \in Conversations
  /\ charMode \in BOOLEAN
  /\ arrived = 0 /\ consumed = 0
  /\ at = "idle" /\ actionState = "NONE" /\ buffer = <<>>
  /\ inputLineBuffer = <<>> /\ lines = <<>>
  /\ naws = FALSE /\ echoMode = FALSE /\ suppressGoAhead = FALSE
  /\ termWidth = 0 /\ termHeight = 0 /\ inputLine = 1
  /\ cut = FALSE

Arrive ==
  /\ arrived < Len(Sent)
  /\ arrived' = arrived + 1
  /\ UNCHANGED <<items, charMode, consumed, at, parserVars, inputVars, modeVars, sizeVars, cut>>

-----------------------------------------------------------------------------
(* in().get() with a byte at hand; without one the thread waits in it.     *)
c == Sent[consumed + 1]

Get ==
  /\ in_avail > 0
  /\ consumed' = consumed + 1
  /\ UNCHANGED <<items, charMode, arrived>>

Stay == UNCHANGED <<items, charMode, arrived, consumed>>

selected ==
  /\ at = "idle" /\ in_avail > 0
  /\ at' = "loop"
  /\ Stay /\ UNCHANGED <<parserVars, inputVars, modeVars, sizeVars, cut>>

ParsedAll ==
  /\ at = "loop" /\ in_avail = 0
  /\ at' = "idle" /\ actionState' = "NONE"
  /\ Stay /\ UNCHANGED <<buffer, inputVars, modeVars, sizeVars, cut>>

isprint(byte) == byte \in 32 .. 126

(* A slip: only what prints is taken for typed.                            *)
KeepPrinting ==
  /\ inputLineBuffer' = IF isprint(c) THEN Append(inputLineBuffer, c) ELSE inputLineBuffer
  /\ UNCHANGED lines

(* A typed byte.  The DECWriter takes all of them; the console edits a     *)
(* line, and a carriage return hands it over.                              *)
Keep ==
  IF isprint(c) \/ charMode
    THEN inputLineBuffer' = Append(inputLineBuffer, c) /\ UNCHANGED lines
  ELSE IF c = 13
    THEN lines' = Append(lines, inputLineBuffer) /\ inputLineBuffer' = <<>>
  ELSE /\ UNCHANGED lines
       /\ inputLineBuffer' = IF c = 127 /\ inputLineBuffer # <<>>
                               THEN Front(inputLineBuffer) ELSE inputLineBuffer

Typed ==
  /\ at = "loop"
  /\ Get /\ c # IAC
  /\ Keep
  /\ UNCHANGED <<at, parserVars, modeVars, sizeVars, cut>>

Command ==
  /\ at = "loop"
  /\ Get /\ c = IAC
  /\ at' = "IAC"
  /\ UNCHANGED <<parserVars, inputVars, modeVars, sizeVars, cut>>

(* The byte after IAC.  DONT is not among those it knows: the action is    *)
(* that of the command before, in the same call.                           *)
Action ==
  /\ at = "IAC" /\ Get
  /\ at' = IF c = SB THEN "SB" ELSE "option"
  /\ actionState' = CASE c = SB -> "BUFFER"
                      [] c \in {DO, WILL} -> "ON"
                      [] c = WONT -> "OFF"
                      [] OTHER -> actionState
  /\ buffer' = IF c = SB THEN <<>> ELSE buffer
  /\ UNCHANGED <<inputVars, modeVars, sizeVars, cut>>

Option ==
  /\ at = "option" /\ Get
  /\ at' = "loop"
  /\ naws' = IF c = NAWS THEN actionState = "ON" ELSE naws
  /\ echoMode' = IF c = ECHO THEN actionState = "ON" ELSE echoMode
  /\ suppressGoAhead' = IF c = SUPPRESS_GO_AHEAD THEN actionState = "ON" ELSE suppressGoAhead
  /\ UNCHANGED <<parserVars, inputVars, sizeVars, cut>>

(* A slip: an option is read although a sub-negotiation has none.          *)
NoSkip == "option"

(* skip: no option follows a sub-negotiation.                              *)
Skip == "loop"

(* A slip: the bytes of a number in the wrong order.                       *)
LittleEndian(high, low) == low * 256 + high

BigEndian(high, low) == high * 256 + low

(* parseIacBuffer and windowSizeChanged, which puts the console's prompt   *)
(* on the last line.  A buffer shorter than a window size is read past its *)
(* end, an empty one through a null pointer.                               *)
parseIacBuffer ==
  IF buffer = <<>> THEN at' = "terminated" /\ UNCHANGED sizeVars
  ELSE /\ at' = Skip
       /\ IF buffer[1] # NAWS THEN UNCHANGED sizeVars
          ELSE \E stray \in [1 .. Max({0, 5 - Len(buffer)}) -> StrayBytes] :
                 LET read == buffer \o stray
                 IN  /\ termWidth' = BigEndian(read[2], read[3])
                     /\ termHeight' = BigEndian(read[4], read[5])
                     /\ inputLine' = IF charMode THEN inputLine ELSE termHeight'

(* A byte of a sub-negotiation: SE ends it, with or without IAC before it, *)
(* and every IAC is dropped.                                               *)
Collect ==
  /\ at = "SB" /\ Get
  /\ IF c = SE THEN parseIacBuffer /\ buffer' = <<>>
     ELSE /\ buffer' = IF c = IAC THEN buffer ELSE Append(buffer, c)
          /\ UNCHANGED <<at, sizeVars>>
  /\ UNCHANGED <<actionState, inputVars, modeVars, cut>>

(* Nothing more has arrived: the sub-negotiation is given up.              *)
GiveUp ==
  /\ at = "SB" /\ in_avail = 0
  /\ at' = Skip /\ buffer' = <<>>
  /\ cut' = TRUE
  /\ Stay /\ UNCHANGED <<actionState, inputVars, modeVars, sizeVars>>

parseInput == ParsedAll \/ Typed \/ Command \/ Action \/ Option \/ Collect \/ GiveUp

Next == Arrive \/ selected \/ parseInput

Spec == Init /\ [][Next]_vars

-----------------------------------------------------------------------------
(* printCommandHistory: the rows the entries are written on.  Only the     *)
(* last 25 are kept; the height is unsigned.                               *)
KeptEntries == 43 - 18

(* For 2^32, which TLC cannot hold: larger than any window matters.        *)
UnsignedRange == 1073741824

availableLines(height) == (height - 1 - 18) % UnsignedRange

startLine(height, entries) ==
  IF entries < availableLines(height) THEN 18 + availableLines(height) - entries ELSE 18

Kept(entries) == Min({entries, KeptEntries})

(* A slip: an entry is written whether or not there is a line for it.      *)
HistoryRowsUnskipped(height, entries) ==
  {startLine(height, Kept(entries)) + n : n \in 0 .. Kept(entries) - 1}

HistoryRows(height, entries) ==
  {startLine(height, Kept(entries)) + n :
     n \in 0 .. Min({Kept(entries), availableLines(height)}) - 1}

-----------------------------------------------------------------------------
(* What the client meant by its first n items, said without bytes.         *)
Typing == [n \in DOMAIN items |-> IF items[n].kind = "typed" THEN <<items[n].byte>> ELSE <<>>]

TypedBytes(n) == FlattenSeq(SubSeq(Typing, 1, n))

EditedBy(text, byte) ==
  IF isprint(byte) THEN [text EXCEPT !.line = Append(@, byte)]
  ELSE IF byte = 13 THEN [line |-> <<>>, lines |-> Append(text.lines, text.line)]
  ELSE IF byte = 127 /\ text.line # <<>> THEN [text EXCEPT !.line = Front(@)]
  ELSE text

Edited(bytes) ==
  LET text[k \in 0 .. Len(bytes)] ==
        IF k = 0 THEN [line |-> <<>>, lines |-> <<>>] ELSE EditedBy(text[k - 1], bytes[k])
  IN  text[Len(bytes)]

Text(n) ==
  IF charMode THEN [line |-> TypedBytes(n), lines |-> <<>>] ELSE Edited(TypedBytes(n))

About(item, option) == item.kind \in {"DO", "WILL", "WONT"} /\ item.option = option

Agreed(n, option) ==
  \E k \in 1 .. n : /\ About(items[k], option) /\ items[k].kind # "WONT"
                    /\ \A later \in k + 1 .. n : ~About(items[later], option)

LastSize(n, size) ==
  \/ size = <<0, 0>> /\ \A k \in 1 .. n : items[k].kind # "size"
  \/ \E k \in 1 .. n : /\ items[k].kind = "size" /\ size = <<items[k].width, items[k].height>>
                       /\ \A later \in k + 1 .. n : items[later].kind # "size"

(* What parseInput can understand: no window size with a byte that is SE   *)
(* or IAC (240 columns, say), and no DONT.                                 *)
SizePlain(item) ==
  item.kind = "size" => ToSet(Word16(item.width) \o Word16(item.height)) \cap {SE, IAC} = {}

Plain(item) == item.kind # "DONT" /\ SizePlain(item)

SizesPlain == \A n \in DOMAIN items : SizePlain(items[n])

AllPlain == \A n \in DOMAIN items : Plain(items[n])

EndOf(n) == Len(FlattenSeq(SubSeq(Chunks(items), 1, n)))

(* The window knows exactly what the client's first n items said.          *)
Knows(n) ==
  /\ inputLineBuffer = Text(n).line /\ lines = Text(n).lines
  /\ naws = Agreed(n, NAWS)
  /\ echoMode = Agreed(n, ECHO)
  /\ suppressGoAhead = Agreed(n, SUPPRESS_GO_AHEAD)
  /\ LastSize(n, <<termWidth, termHeight>>)

(* However the bytes are divided among the reads, after each item the      *)
(* window knows exactly what was said so far: typed bytes are never lost,  *)
(* and no byte of a command is taken for typed, unless a sub-negotiation   *)
(* was cut (TelnetTerminal::parseInput).                                   *)
Understood ==
  \A n \in 0 .. Len(items) :
    ~cut /\ at \in {"idle", "loop"} /\ consumed = EndOf(n) /\ AllPlain => Knows(n)

(* get() waits with the whole program for the rest of a command; for a     *)
(* client whose commands are complete it never waits for ever.             *)
NeverLeftWaiting ==
  AllPlain /\ ~cut /\ consumed = Len(Sent) => at \notin {"IAC", "option"}

(* The window's size is one the client has sent as a whole: never half of  *)
(* one, nor the width of one and the height of another.  The source        *)
(* promises it for any two 16 bit values ("Client sends: IAC SB NAWS       *)
(* <16 bit value nbo><16 bit value nbo> SE", Terminal.h above NAWS).       *)
SizeWhole ==
  \/ <<termWidth, termHeight>> = <<0, 0>>
  \/ \E n \in DOMAIN items :
       items[n].kind = "size" /\ <<termWidth, termHeight>> = <<items[n].width, items[n].height>>

(* What holds of it: a size without a byte that is SE or IAC is not torn,  *)
(* whatever else the client says and even when a sub-negotiation is cut    *)
(* (TelnetTerminal::parseInput, parseIacBuffer).                           *)
SizeNeverTorn == SizesPlain => SizeWhole

(* The history stays below the panel and above the prompt, whatever the    *)
(* window's height and the number of entries.  (A height below 19, 0 too   *)
(* before the size is known, wraps and sends it off the screen.)           *)
HistoryOnScreen ==
  ~charMode /\ termHeight >= 19 =>
    \A entries \in Entries : HistoryRows(termHeight, entries) \subseteq 18 .. inputLine - 1
=============================================================================
