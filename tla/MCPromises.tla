----------------------------- MODULE MCPromises -----------------------------
(* Programs, in octal, for the runs of Promises.                           *)
EXTENDS Promises

Program(start, words) ==
  [cells |-> [w \in start .. start + Len(words) - 1 |-> words[w - start + 1]],
   last  |-> start + Len(words) - 1, start |-> start]

(* TestPrograms.h, DecWriter: it starts at 0200, with its data at 0177.    *)
EchoProgram ==
  [Program(\o177, <<\o0041, \o1177, \o6046, \o6031, \o5202, \o6036, \o5201>>)
     EXCEPT !.start = \o200]

(* CLSK; JMP .-1; ISZ 206; JMP 200; HLT; JMP .; the counter counts to 3.   *)
DelayProgram == Program(\o200, <<\o6133, \o5200, \o2206, \o5200, \o7402, \o5205, \o7775>>)

(* ION; JMP .                                                              *)
WaitForInterrupt == Program(\o200, <<\o6001, \o5201>>)

EchoImage      == {EchoProgram}
WaitImages     == {EchoProgram, DelayProgram}
InterruptImage == {WaitForInterrupt}
NoneNumbers    == {}
AllDevices     == {keyboardDevice, printerDevice, clockDevice}
=============================================================================
