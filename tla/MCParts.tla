------------------------------ MODULE MCParts ------------------------------
(***************************************************************************)
(* The parts of the machine on their own, each against anything its        *)
(* surroundings may do: the accumulator's register, the clock and the      *)
(* DECWriter.  A behaviour is one of one part.                             *)
(***************************************************************************)
EXTENDS Accumulator, ClockSession, DECWriterSession

VARIABLE part

partVars == <<value, clockSessionVars, vars, part>>

PartsInit ==
  /\ AccumulatorInit /\ ClockSessionInit /\ Init
  /\ part \in {"accumulator", "clock", "DECWriter"}

PartsNext ==
  /\ UNCHANGED part
  /\ \/ part = "accumulator" /\ AccumulatorNext /\ UNCHANGED <<clockSessionVars, vars>>
     \/ part = "clock" /\ ClockSessionNext /\ UNCHANGED <<value, vars>>
     \/ part = "DECWriter" /\ Next /\ UNCHANGED <<value, clockSessionVars>>

PartsSpec == PartsInit /\ [][PartsNext]_partVars

-----------------------------------------------------------------------------
(* A 14-bit short in a 15-bit register: one bit above the link survives    *)
(* the setters and one more only addOp can reach, so both kinds of carry   *)
(* and the wrap of the register happen.                                    *)
MCOperands  == {\o1, \o7070, \o7777}
MCMicroOps  == {\o300, \o240, \o120, \o41, \o1, \o2, \o4, \o6, \o10, \o12, \o371}
MCShortHigh == 2
MCRegHigh   == 2
=============================================================================
