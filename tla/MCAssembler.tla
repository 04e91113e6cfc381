---------------------------- MODULE MCAssembler ----------------------------
(* Every source of up to MaxLines lines from a set of lines, with and      *)
(* without an origin before them, and the built-in programs.               *)
EXTENDS Assembler, TestPrograms

CONSTANTS Lines, MaxLines

MCSources ==
  LET bodies == UNION {[1 .. n -> Lines] : n \in 1 .. MaxLines}
  IN  {Text(lines) : lines \in bodies} \cup {Text(<<Star \o N(<<2, 0, 0>>)>> \o lines) : lines \in bodies}
        \cup {DecWriter, PingPong}

MCLines ==
  { Star \o N(<<3, 7, 6>>) \o T("COMMENT"),
    Star \o L("A"),
    Label("A") \o Two("TAD", "B"),
    Label("B") \o N(<<1, 7, 8>>),
    Equals("A") \o L("B") \o Plus \o N(<<1>>),
    Equals("B") \o N(<<2, 0, 0>>) \o Minus \o L("_AutoIndex0"),
    Equals("C") \o Dot,
    Equals("_AutoIndex0") \o N(<<5>>),
    L("DECIMAL") \o Star \o N(<<2, 0, 0>>),
    L("JMP") \o Dot \o Minus \o N(<<1>>),
    Two("DCA", "I") \o N(<<6, 0, 0>>),
    L("ISZ") \o N(<<1, 7, 7>>) \o L("I"),
    L("TAD") \o N(<<3, 7, 7>>),
    Two("TAD", "Z") \o L("A"),
    Two("CLA", "CLL") \o T("END_OF_INSTRUCTION") \o L("IAC"),
    Two("SNA", "HLT") \o L("SZA"),
    L("KSF"),
    L("DECIMAL"),
    N(<<9>>) \o Minus \o Minus,
    L("B") \o Minus \o Dot,
    L("A") \o Minus \o N(<<1>>) \o Plus \o L("B") }

(* *200; JMP 600; JMP 300.                                                 *)
OffPageLines == { Star \o N(<<2, 0, 0>>), L("JMP") \o N(<<6, 0, 0>>), L("JMP") \o N(<<3, 0, 0>>) }
=============================================================================
