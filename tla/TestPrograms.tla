---------------------------- MODULE TestPrograms ----------------------------
(***************************************************************************)
(* Sources for the assembler as tokens, and two of the built-in programs   *)
(* of TestPrograms.h.                                                      *)
(***************************************************************************)
EXTENDS Naturals, Sequences, SequencesExt

T(class)    == <<[tokenClass |-> class, literal |-> class, digits |-> <<>>]>>
L(name)     == <<[tokenClass |-> "LITERAL", literal |-> name, digits |-> <<>>]>>
N(sequence) == <<[tokenClass |-> "NUMBER", literal |-> "", digits |-> sequence]>>

Label(name)  == L(name) \o T("LABEL_DEFINE")
Equals(name) == L(name) \o T("LABEL_ASSIGN")
Plus  == T("ADDITION")
Minus == T("SUBTRACTION")
Dot   == T("PROGRAM_COUNTER")
Star  == T("LOCATION")
EOL   == T("END_OF_LINE")
Two(a, b) == L(a) \o L(b)
Remark(line) == line \o T("COMMENT")

Text(lines) == FlattenSeq([n \in DOMAIN lines |-> lines[n] \o EOL]) \o T("END_OF_FILE")

DecWriter == Text(
  << <<>>, L("OCTAL"), Star \o N(<<1, 7, 7>>),
     Label("Prompt") \o N(<<0, 4, 1>>), Two("TAD", "Prompt"),
     Label("Print") \o L("TLS"),
     Label("Loop") \o L("KSF"), Two("JMP", "Loop"), L("KRB"), Two("JMP", "Print"),
     Star \o N(<<2, 0, 0>>) >>)

PingPong == Text(
  << Remark(<<>>), L("OCTAL"), Star \o N(<<0, 1, 7, 4>>),
     Remark(Label("CycleCount") \o N(<<0>>) \o Minus \o N(<<2>>)),
     Remark(Label("Accumulator") \o N(<<1, 7>>)),
     Remark(Label("SemiCycle") \o N(<<0>>) \o Minus \o N(<<1, 0>>)),
     Remark(Label("Counter") \o N(<<0>>)),
     Star \o N(<<0, 2, 0, 0>>),
     Remark(Label("Initialize") \o Two("CLA", "CLL")),
     Remark(Label("OuterLoop") \o Two("TAD", "SemiCycle")),
     Two("DCA", "Counter"),
     Remark(Two("TAD", "Accumulator")),
     Label("Loop1") \o L("RAL"),
     Remark(Two("JMS", "Delay")),
     Remark(Two("ISZ", "Counter")),
     Remark(Two("JMP", "Loop1")),
     Remark(Two("DCA", "Accumulator")),
     Remark(Two("TAD", "SemiCycle")),
     Two("DCA", "Counter"),
     Remark(Two("TAD", "Accumulator")),
     Label("Loop2") \o L("RAR"),
     Remark(Two("JMS", "Delay")),
     Remark(Two("ISZ", "Counter")),
     Remark(Two("JMP", "Loop2")),
     Remark(Two("DCA", "Accumulator")),
     Remark(Two("JMP", "OuterLoop")),
     Remark(<<>>), Remark(<<>>), Remark(<<>>),
     Label("DelayN") \o N(<<6, 0>>),
     Label("DelayCount") \o N(<<0>>),
     Label("DelayAcc") \o N(<<0>>),
     Label("Delay") \o N(<<0>>),
     Two("DCA", "DelayAcc"), Two("TAD", "DelayN"), Two("CMA", "IAC"), Two("DCA", "DelayCount"),
     Two("TAD", "DelayAcc"),
     Label("DelayLoop") \o L("CLSK"),
     L("JMP") \o Dot \o Minus \o N(<<1>>),
     Two("ISZ", "DelayCount"), Two("JMP", "DelayLoop"), Two("JMP", "I") \o L("Delay"),
     Star \o L("Initialize") >>)
=============================================================================
