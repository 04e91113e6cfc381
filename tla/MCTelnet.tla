------------------------------ MODULE MCTelnet ------------------------------
(* Every conversation of two items out of twelve, and of three out of five.*)
EXTENDS Telnet

Type(byte) == [kind |-> "typed", byte |-> byte]
Answer(kind, option) == [kind |-> kind, option |-> option]
Size(width, height) == [kind |-> "size", width |-> width, height |-> height]

(* Typed: c, carriage return, rubout and 240, which ends a window size.    *)
(* Windows: 80 x 24, 300 x 20, and 240 x 24 and 255 x 24, whose bytes      *)
(* parseInput takes for SE and IAC.                                        *)
Rarer ==
  {Type(127), Type(240), Answer("WILL", NAWS), Answer("WONT", NAWS),
   Answer("DONT", ECHO), Size(240, 24), Size(255, 24)}

Common ==
  {Type(99), Type(13), Answer("DO", ECHO), Size(80, 24), Size(300, 20)}

MCConversations ==
  UNION {[1 .. n -> Rarer \cup Common] : n \in 0 .. 2} \cup [1 .. 3 -> Common]
=============================================================================
