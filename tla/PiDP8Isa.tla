------------------------------ MODULE PiDP8Isa ------------------------------
(***************************************************************************)
(* The simulator implements the instruction set of Isa.tla.  An            *)
(* instruction takes effect, for Isa, at the end of its Execute cycle.     *)
(* The cycles before have by then moved the program counter and perhaps    *)
(* incremented an auto-index cell, so the history variable fetched keeps   *)
(* memory and program counter as they were before the Fetch cycle.         *)
(***************************************************************************)
EXTENDS PiDP8

VARIABLE fetched

historyVars == <<vars, fetched>>

WithinInstruction == cycle_state \in {"Defer", "Execute"}

RecordFetch ==
  fetched' = CASE cycle_state' \notin {"Defer", "Execute"} -> << >>
               [] cycle_state = "Fetch"                    -> <<core, programCounter>>
               [] OTHER                                    -> fetched

HistoryInit == Init /\ fetched = << >>
HistoryNext == Next /\ RecordFetch

HistorySpec == HistoryInit /\ [][HistoryNext]_historyVars

(* A program is in field 0 at the start, the rest of memory empty.         *)
InitialMemories ==
  {<<[c \in {<<0, w>> : w \in DOMAIN image.cells} |-> image.cells[c[2]]], image.start>> :
     image \in Images}

(* Memory and program counter without the instruction under way.           *)
CoreBefore == IF WithinInstruction THEN fetched[1] ELSE core
PcBefore   == IF WithinInstruction THEN fetched[2] ELSE programCounter

Architecture ==
  INSTANCE Isa WITH
    core     <- CoreBefore,
    pc       <- PcBefore,
    lac      <- accumulator,
    Loads    <- {ToWord(n) : n \in Arguments},
    Deposits <- {ToWord(n) : n \in Words},
    Programs <- IF "RIM" \in Commands THEN Tapes \cup {RimImage} ELSE Tapes,
    Initial  <- InitialMemories

(* Whatever the console, the window and the clock do between the machine   *)
(* cycles, every instruction is one indivisible step of the instruction    *)
(* set, provided the console leaves memory alone inside an instruction.    *)
ImplementsIsa == Architecture!Spec
=============================================================================
