------------------------------ MODULE DK8_EA -------------------------------
(***************************************************************************)
(* The DK8-EA line frequency clock (device 013).  A thread of its own sets *)
(* clock_flag every 8.3 ms; the flag is atomic but the thread takes no     *)
(* lock, so it can run between any two accesses of the CPU.  CLSK reads    *)
(* the flag and then clears it: two accesses, two steps here.              *)
(***************************************************************************)
EXTENDS PdpWord

VARIABLES
  clock_flag,
  enable_interrupt,
  clsk               \* CLSK has tested the flag and not cleared it yet

clockVars == <<clock_flag, enable_interrupt, clsk>>

clockDevice == \o13

ClockInit ==
  /\ clock_flag = FALSE
  /\ enable_interrupt = FALSE
  /\ clsk = FALSE

(* The clock thread wakes up.                                              *)
Tick ==
  /\ clock_flag' = TRUE
  /\ UNCHANGED <<enable_interrupt, clsk>>

CLEI == enable_interrupt' = TRUE /\ UNCHANGED <<clock_flag, clsk>>

CLDI == enable_interrupt' = FALSE /\ UNCHANGED <<clock_flag, clsk>>

(* First half of CLSK: the CPU skips if the flag is set now.               *)
TestClockFlag ==
  /\ ~clsk
  /\ clsk' = TRUE
  /\ UNCHANGED <<clock_flag, enable_interrupt>>

ClockSkip == clock_flag

(* A slip: CLSK that forgets to clear the flag.                            *)
ClearNothing == clsk /\ clsk' = FALSE /\ UNCHANGED <<clock_flag, enable_interrupt>>

(* Second half: setClockFlag(false), whatever the flag is by now.          *)
ClearClockFlag ==
  /\ clsk
  /\ clsk' = FALSE
  /\ clock_flag' = FALSE
  /\ UNCHANGED enable_interrupt

ClockInterruptRequest == clock_flag /\ enable_interrupt

(* A slip: service, like an interrupt, only for who enabled interrupts.    *)
ServiceWhenEnabled == clock_flag /\ enable_interrupt

ClockServiceRequest == clock_flag

ClockTypeOK ==
  /\ clock_flag \in BOOLEAN
  /\ enable_interrupt \in BOOLEAN
  /\ clsk \in BOOLEAN
=============================================================================
