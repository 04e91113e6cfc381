---------------------------- MODULE ClockSession ----------------------------
(***************************************************************************)
(* A DK8-EA on its own: a CPU that executes CLSK, CLEI and CLDI at any     *)
(* time, and the clock thread.  History variables count what became of     *)
(* every tick.                                                             *)
(***************************************************************************)
EXTENDS DK8_EA

CONSTANT MaxTicks    \* bound: ticks in a behaviour

ASSUME MaxTicksAssumption == MaxTicks \in Nat

VARIABLES
  ticks,    \* times the clock thread set the flag
  skips,    \* times CLSK skipped
  merged,   \* ticks that found the flag still set from the tick before
  raced     \* ticks that came between the test and the clear of a CLSK

tickHistory == <<ticks, skips, merged, raced>>
clockSessionVars == <<clockVars, tickHistory>>

ClockSessionInit ==
  /\ ClockInit
  /\ ticks = 0 /\ skips = 0 /\ merged = 0 /\ raced = 0

ClockThread ==
  /\ ticks < MaxTicks
  /\ Tick
  /\ ticks' = ticks + 1
  /\ merged' = IF clock_flag /\ ~clsk THEN merged + 1 ELSE merged
  /\ raced'  = IF clsk THEN raced + 1 ELSE raced
  /\ UNCHANGED skips

Test ==
  /\ TestClockFlag
  /\ skips' = IF ClockSkip THEN skips + 1 ELSE skips
  /\ UNCHANGED <<ticks, merged, raced>>

Clear == ClearClockFlag /\ UNCHANGED tickHistory

Enable == ~clsk /\ (CLEI \/ CLDI) /\ UNCHANGED tickHistory

ClockSessionNext == ClockThread \/ Test \/ Clear \/ Enable

ClockSessionSpec == ClockSessionInit /\ [][ClockSessionNext]_clockSessionVars

-----------------------------------------------------------------------------
Pending == BitOf(clock_flag /\ ~clsk)

(* Every tick is accounted for: it made a CLSK skip, or waits in the flag, *)
(* or fell together with a tick already waiting, or came inside the window *)
(* of a CLSK and was cleared with it.  In particular CLSK never skips      *)
(* twice for one tick, and a tick outside the window is never lost.        *)
TicksAccounted == ticks = skips + merged + raced + Pending

ClockSessionTypeOK ==
  /\ ClockTypeOK
  /\ ticks \in 0 .. MaxTicks
  /\ skips \in Nat /\ merged \in Nat /\ raced \in Nat
=============================================================================
