----------------------------- MODULE DECWriter -----------------------------
(***************************************************************************)
(* The DECWriter console device: a keyboard (device 03) and a printer      *)
(* (device 04) behind one telnet window.  The CPU reaches it through       *)
(* operation(); the main loop reaches it when the window has input or is   *)
(* closed.  The window is opened by the first operation that needs it.     *)
(*                                                                         *)
(* Characters wait in the window's inputLineBuffer until the one-character *)
(* keyboardBuffer is free, that is, until keyboardFlag is clear.           *)
(***************************************************************************)
EXTENDS PdpWord, Sequences

CONSTANTS
  Chars,        \* the bytes a person may type; 0377 begins a telnet command
  MaxWaiting,   \* bound: no more than this many characters wait in the window
  ScreenSize    \* bound: how many of the last bytes sent to the window are kept

ASSUME DECWriterAssumption ==
  /\ Chars \subseteq 0 .. \o376
  /\ MaxWaiting \in Nat
  /\ ScreenSize \in Nat \ {0}

VARIABLES
  keyboardFlag,     \* a character is in keyboardBuffer and was not acknowledged
  keyboardBuffer,
  interruptEnable,  \* set by KIE, read by nothing
  printerFlag,
  printerBuffer,
  terminal,         \* the telnet window exists
  inputLineBuffer,  \* what the window received and the keyboard did not take
  screen            \* the last bytes sent to the window

keyboardVars == <<keyboardFlag, keyboardBuffer, inputLineBuffer>>
printerVars  == <<printerFlag, printerBuffer, screen>>
decVars == <<keyboardVars, interruptEnable, printerVars, terminal>>

keyboardDevice == 3
printerDevice  == 4

-----------------------------------------------------------------------------
CarriageReturn == \o15
LineFeed       == \o12

(* out().put, then a line feed after a carriage return.                    *)
Put(byte) ==
  LET bytes == IF byte = CarriageReturn THEN <<byte, LineFeed>> ELSE <<byte>>
      all   == (IF terminal THEN screen ELSE <<>>) \o bytes
      excess == Len(all) - ScreenSize
  IN  IF excess > 0 THEN SubSeq(all, excess + 1, Len(all)) ELSE all

(* A slip: the last waiting character first.                               *)
nextCharLast(flag, line) ==
  /\ keyboardFlag' = (flag \/ line # <<>>)
  /\ IF flag \/ line = <<>>
       THEN inputLineBuffer' = line /\ UNCHANGED keyboardBuffer
       ELSE /\ inputLineBuffer' = SubSeq(line, 1, Len(line) - 1)
            /\ keyboardBuffer' = line[Len(line)]

(* The keyboard takes the first waiting character unless it holds one.     *)
nextChar(flag, line) ==
  /\ keyboardFlag' = (flag \/ line # <<>>)
  /\ IF flag \/ line = <<>>
       THEN inputLineBuffer' = line /\ UNCHANGED keyboardBuffer
       ELSE inputLineBuffer' = Tail(line) /\ keyboardBuffer' = Head(line)

(* performInputOutput, called with the flags and the print buffer that the *)
(* operation has just assigned: open the window if there is none, print if *)
(* the printer flag is clear, and let the keyboard take a character.       *)
performInputOutput(kbdFlag, prnFlag, buffer) ==
  /\ terminal' = TRUE
  /\ screen' = IF ~prnFlag THEN Put(buffer) ELSE IF terminal THEN screen ELSE <<>>
  /\ printerFlag' = TRUE
  /\ printerBuffer' = buffer
  /\ nextChar(kbdFlag, IF terminal THEN inputLineBuffer ELSE <<>>)

-----------------------------------------------------------------------------
DECWriterInit ==
  /\ keyboardFlag = FALSE
  /\ keyboardBuffer = 0
  /\ interruptEnable = FALSE
  /\ printerFlag = TRUE
  /\ printerBuffer = 0
  /\ terminal = FALSE
  /\ inputLineBuffer = <<>>
  /\ screen = <<>>

(* Slips: operations that clear their flag and leave it at that.           *)
KCFOnly ==
  /\ keyboardFlag' = FALSE
  /\ UNCHANGED <<keyboardBuffer, inputLineBuffer, interruptEnable, printerVars, terminal>>

TCFOnly ==
  /\ printerFlag' = FALSE
  /\ UNCHANGED <<keyboardVars, interruptEnable, printerBuffer, screen, terminal>>

KCF == performInputOutput(FALSE, printerFlag, printerBuffer) /\ UNCHANGED interruptEnable

KIE(acc) ==
  /\ interruptEnable' = (acc % 2 = 1)
  /\ UNCHANGED <<keyboardVars, printerVars, terminal>>

KRB == performInputOutput(FALSE, printerFlag, printerBuffer) /\ UNCHANGED interruptEnable

TFL ==
  /\ printerFlag' = TRUE
  /\ UNCHANGED <<keyboardVars, interruptEnable, printerBuffer, screen, terminal>>

TCF == performInputOutput(keyboardFlag, FALSE, printerBuffer) /\ UNCHANGED interruptEnable

getAscii(acc) == acc % \o400

TPC(acc) ==
  /\ printerBuffer' = getAscii(acc)
  /\ UNCHANGED <<keyboardVars, interruptEnable, printerFlag, screen, terminal>>

TLS(acc) == performInputOutput(keyboardFlag, FALSE, getAscii(acc)) /\ UNCHANGED interruptEnable

(* operation(): what the device does for each code, whether the CPU skips, *)
(* and the accumulator it leaves.  Any other code throws.                  *)
KeyboardOps == {0, 1, 4, 5, 6}
PrinterOps  == {0, 1, 2, 4, 5, 6}

KeyboardOperation(op, acc) ==
  \/ op = 0 /\ KCF
  \/ op = 5 /\ KIE(acc)
  \/ op = 6 /\ KRB
  \/ op \in {1, 4} /\ UNCHANGED decVars

PrinterOperation(op, acc) ==
  \/ op = 0 /\ TFL
  \/ op = 2 /\ TCF
  \/ op = 4 /\ TPC(acc)
  \/ op = 6 /\ TLS(acc)
  \/ op \in {1, 5} /\ UNCHANGED decVars

KeyboardSkip(op) == op = 1 /\ keyboardFlag
PrinterSkip(op)  == \/ op = 1 /\ printerFlag
                    \/ op = 5 /\ (printerFlag \/ keyboardFlag)

KeyboardAcc(op, acc) ==
  CASE op = 4 -> Or(acc, keyboardBuffer % \o400)
    [] op = 6 -> keyboardBuffer % \o400
    [] OTHER  -> acc

(* getInterruptRequest and getServiceRequest answer alike: interruptEnable *)
(* is not consulted.                                                       *)
DECWriterRequest(device) ==
  \/ device = keyboardDevice /\ keyboardFlag
  \/ device = printerDevice /\ printerFlag

-----------------------------------------------------------------------------
(* Slips: input that replaces what waited, and a line that outlives its    *)
(* window.                                                                 *)
selectedReplacing(chars) ==
  /\ terminal
  /\ Len(inputLineBuffer) + Len(chars) <= MaxWaiting
  /\ nextChar(keyboardFlag, chars)
  /\ UNCHANGED <<interruptEnable, printerVars, terminal>>

disconnectKeepingLine ==
  /\ terminal
  /\ terminal' = FALSE
  /\ screen' = <<>>
  /\ UNCHANGED <<keyboardVars, interruptEnable, printerFlag, printerBuffer>>

(* The main loop finds input on the window's socket: selected() appends    *)
(* every character and offers them to the keyboard.                        *)
selected(chars) ==
  /\ terminal
  /\ Len(inputLineBuffer) + Len(chars) <= MaxWaiting
  /\ nextChar(keyboardFlag, inputLineBuffer \o chars)
  /\ UNCHANGED <<interruptEnable, printerVars, terminal>>

(* The main loop finds the window closed: disconnectCallback drops it and  *)
(* whatever still waited in it.                                            *)
disconnectCallback ==
  /\ terminal
  /\ terminal' = FALSE
  /\ inputLineBuffer' = <<>>
  /\ screen' = <<>>
  /\ UNCHANGED <<keyboardFlag, keyboardBuffer, interruptEnable, printerFlag, printerBuffer>>

Typed == {<<c>> : c \in Chars} \cup {<<c, d>> : c, d \in Chars}

-----------------------------------------------------------------------------
(* Every register holds a value of its type; characters wait only in a     *)
(* window that exists.                                                     *)
DECWriterTypeOK ==
  /\ keyboardFlag \in BOOLEAN
  /\ keyboardBuffer \in 0 .. \o377
  /\ interruptEnable \in BOOLEAN
  /\ printerFlag \in BOOLEAN
  /\ printerBuffer \in 0 .. \o377
  /\ terminal \in BOOLEAN
  /\ inputLineBuffer \in Seq(Chars)
  /\ screen \in Seq(0 .. \o377)
  /\ ~terminal => inputLineBuffer = <<>>

(* No character is stranded: as long as characters wait in the window, the *)
(* keyboard holds one and its flag says so.  nextChar is only called when  *)
(* input arrives and when a flag is cleared, so a flag cleared without the *)
(* call would leave the waiting characters with nobody to fetch them.      *)
NoStrandedInput == inputLineBuffer # <<>> => keyboardFlag

(* The character the keyboard holds, if its flag says that it holds one.   *)
InBuffer == IF keyboardFlag THEN <<keyboardBuffer>> ELSE <<>>

(* Printing is over before the operation that started it returns: between  *)
(* operations the printer is ready, so TSF always skips and the printer    *)
(* always requests an interrupt.                                           *)
PrinterAlwaysReady == printerFlag
=============================================================================
