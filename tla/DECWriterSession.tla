-------------------------- MODULE DECWriterSession --------------------------
(***************************************************************************)
(* A DECWriter on its own: a CPU that executes any keyboard or printer     *)
(* operation at any time, and a person who types and closes the window at  *)
(* any time.  Two history variables record what was typed into the windows *)
(* and not dropped with them, and what the CPU has acknowledged.           *)
(***************************************************************************)
EXTENDS DECWriter

CONSTANTS
  AccValues,   \* what the accumulator may hold when an operation is executed
  MaxTyped     \* bound: characters typed in a behaviour

ASSUME SessionAssumption == AccValues \subseteq Word /\ MaxTyped \in Nat

VARIABLES typed, taken

history == <<typed, taken>>
vars == <<decVars, history>>

Init ==
  /\ DECWriterInit
  /\ typed = <<>>
  /\ taken = <<>>

(* KCF and KRB acknowledge the character the flag announces.               *)
Keyboard(op, acc) ==
  /\ KeyboardOperation(op, acc)
  /\ taken' = IF keyboardFlag /\ op \in {0, 6} THEN Append(taken, keyboardBuffer) ELSE taken
  /\ UNCHANGED typed

Printer(op, acc) == PrinterOperation(op, acc) /\ UNCHANGED history

Type(chars) ==
  /\ Len(typed) + Len(chars) <= MaxTyped
  /\ selected(chars)
  /\ typed' = typed \o chars
  /\ UNCHANGED taken

Close ==
  /\ disconnectCallback
  /\ typed' = SubSeq(typed, 1, Len(typed) - Len(inputLineBuffer))
  /\ UNCHANGED taken

Next ==
  \/ \E acc \in AccValues, op \in KeyboardOps : Keyboard(op, acc)
  \/ \E acc \in AccValues, op \in PrinterOps : Printer(op, acc)
  \/ \E chars \in Typed : Type(chars)
  \/ Close

Spec == Init /\ [][Next]_vars

-----------------------------------------------------------------------------
(* Every character typed is handed to the CPU once and in the order typed: *)
(* what was acknowledged, then the character in the keyboard buffer, then  *)
(* those waiting in the window, are together what was typed.               *)
TakenInOrder == typed = taken \o InBuffer \o inputLineBuffer
=============================================================================
