----------------------------- MODULE Assembler -----------------------------
(***************************************************************************)
(* The two-pass assembler, from the tokens of a source to the BIN tape the *)
(* simulator loads, with the listing of the words and their addresses.     *)
(* The tokens are those of Tokens without the white space; the literal of  *)
(* a number is given as its sequence of digits.                            *)
(***************************************************************************)
EXTENDS Instruction, Sequences, SequencesExt, FiniteSetsExt

CONSTANT Sources     \* the sources assembled, as sequences of tokens

(* The classes of the tokens that TokenParser finds.                       *)
TokenClass ==
  {"COMMENT", "LABEL_ASSIGN", "LABEL_DEFINE", "LOCATION", "PROGRAM_COUNTER", "ADDITION", "SUBTRACTION",
   "END_OF_INSTRUCTION", "LITERAL", "NUMBER", "END_OF_LINE", "END_OF_FILE"}

(* The texts that stand in the sources.                                    *)
Literals == UNION {{source[n].literal : n \in DOMAIN source} : source \in Sources}

ASSUME SourcesAssumption ==
  \A source \in Sources :
    /\ source \in Seq([tokenClass : TokenClass, literal : Literals, digits : Seq(0 .. 9)])
    /\ source # <<>> /\ source[Len(source)].tokenClass = "END_OF_FILE"

VARIABLES
  program,       \* the tokens, classified
  assembler,     \* the symbol table, radix, program counter and pass
  first,         \* the token parseLine begins with
  status,        \* assembling, done, refused, looping or terminated
  tape,          \* the bytes of the BIN format
  listing,       \* the words listed in pass 2, with their addresses
  labels         \* the symbol table at the end of pass 1

vars == <<program, assembler, first, status, tape, listing, labels>>

-----------------------------------------------------------------------------
(* InstructionSet, by the way an instruction combines with others.         *)
Flags  == [I |-> \o0400]
Masks  == [Z |-> \o7577]
MemoryAccess ==
  [AND |-> \o0000, TAD |-> \o1000, ISZ |-> \o2000, DCA |-> \o3000, JMS |-> \o4000, JMP |-> \o5000]
GroupAgnostic == [NOP |-> \o7000, CLA |-> \o7200]
Group1 ==
  [CLL |-> \o7100, CMA |-> \o7040, CML |-> \o7020, IAC |-> \o7001, CIA |-> \o7041, RAR |-> \o7010,
   RAL |-> \o7004, RTR |-> \o7012, RTL |-> \o7006, BSW |-> \o7002, TCA |-> \o7041]
Group2Or  == [SMA |-> \o7500, SZA |-> \o7440, SNL |-> \o7420]
Group2And == [SPA |-> \o7510, SNA |-> \o7450, SZL |-> \o7430]
Group2    == [OSR |-> \o7404, HLT |-> \o7402, SLE |-> \o7540, SGZ |-> \o7550]
Group3    == [CAM |-> \o7621, MQA |-> \o7501, MQL |-> \o7421, SWP |-> \o7521]
Interrupts ==
  [SKON |-> \o6000, ION |-> \o6001, IOF |-> \o6002, SRQ |-> \o6003, GTF |-> \o6004, RTF |-> \o6005,
   SGT |-> \o6006, CAF |-> \o6007]
MemoryManagement ==
  [CDF |-> \o6201, CIF |-> \o6202, RDF |-> \o6214, RIF |-> \o6224, RIB |-> \o6234, RMF |-> \o6244]
PaperTape ==
  [RPE |-> \o6010, RSF |-> \o6011, RRB |-> \o6012, RFC |-> \o6014, RBC |-> \o6016,
   PCE |-> \o6020, PSF |-> \o6021, PCF |-> \o6022, PPC |-> \o6024, PLS |-> \o6026]
DecWriterLA30 ==
  [KCF |-> \o6030, KSF |-> \o6031, KRS |-> \o6034, KIE |-> \o6035, KRB |-> \o6036,
   TFL |-> \o6040, TSF |-> \o6041, TCF |-> \o6042, TPC |-> \o6044, TLS |-> \o6046]
DK8EA == [CLEI |-> \o6131, CLDI |-> \o6132, CLSK |-> \o6133]
DK8EP ==
  [CLZE |-> \o6130, CLSK |-> \o6131, CLDE |-> \o6132, CLAB |-> \o6133, CLEN |-> \o6134,
   CLSA |-> \o6135, CLBA |-> \o6136, CLCA |-> \o6137]

(* The table, group by group.  The device instructions are entered as      *)
(* memory instructions.                                                    *)
Combining(codes, type) == [codes |-> codes, orCombination |-> type]

Groups ==
  << Combining(Flags, "Flag"), Combining(Masks, "Mask"), Combining(MemoryAccess, "Memory"),
     Combining(GroupAgnostic, "Gr"), Combining(Group1, "Gr1"), Combining(Group2Or, "Gr2Or"),
     Combining(Group2And, "Gr2And"), Combining(Group2, "Gr2"), Combining(Group3, "Gr3"),
     Combining(Interrupts, "Iot"), Combining(MemoryManagement, "Memory"), Combining(PaperTape, "Memory"),
     Combining(DecWriterLA30, "Memory"), Combining(DK8EA, "Memory"), Combining(DK8EP, "Memory") >>

(* CLSK stands in the table twice: emplace keeps the first.                *)
InstructionSet ==
  [m \in UNION {DOMAIN Groups[n].codes : n \in DOMAIN Groups} |->
     LET group == Groups[Min({n \in DOMAIN Groups : m \in DOMAIN Groups[n].codes})]
     IN  [opCode |-> group.codes[m], orCombination |-> group.orCombination]]

(* PRE_DEFINED_SYMBOLS: the auto-index cells, of which one stands for all. *)
PreDefinedSymbols == [_AutoIndex0 |-> [value |-> \o10, status |-> "Defined"]]

-----------------------------------------------------------------------------
(* A slip: the program counter is no value.                                *)
isNumberOrLabel(class) == class \in {"NUMBER", "LABEL"}

isValue(class)    == class \in {"NUMBER", "LABEL", "PROGRAM_COUNTER"}
isOperator(class) == class \in {"ADDITION", "SUBTRACTION"}
isEndOfLine(class) == class \in {"END_OF_LINE", "END_OF_FILE"}
isEndOfCodeLine(class) == isEndOfLine(class) \/ class = "COMMENT"

Directives == {"OCTAL", "DECIMAL", "AUTOMATIC"}

Names(source) ==
  {source[n].literal : n \in {m \in DOMAIN source : source[m].tokenClass = "LITERAL"}}
    \ (Directives \cup DOMAIN InstructionSet)

(* readProgram: a literal is a directive, an op code or else a label, and  *)
(* whatever stands before an = is a label.                                 *)
Classified(source) ==
  [n \in DOMAIN source |->
    LET token == source[n]
        assigned == n < Len(source) /\ source[n + 1].tokenClass = "LABEL_ASSIGN"
    IN  [token EXCEPT !.tokenClass =
          CASE assigned -> "LABEL"
            [] ~assigned /\ @ # "LITERAL" -> @
            [] ~assigned /\ @ = "LITERAL" /\ token.literal \in Directives -> token.literal
            [] ~assigned /\ @ = "LITERAL" /\ token.literal \in DOMAIN InstructionSet -> "OP_CODE"
            [] OTHER -> "LABEL"]]

(* The symbol table of a program just read: every name is known, and       *)
(* undefined.                                                              *)
readProgram(source) ==
  [symbolTable |-> [name \in DOMAIN PreDefinedSymbols \cup Names(source) |->
                      IF name \in DOMAIN PreDefinedSymbols THEN PreDefinedSymbols[name]
                      ELSE [value |-> 0, status |-> "Undefined"]],
   radix |-> "OCTAL", programCounter |-> 0, assemblerPass |-> 1]

-----------------------------------------------------------------------------
Unset   == -1
Refused == -1     \* in place of a value: std::invalid_argument

Bits16(n) == n % 65536

(* convertNumber: the digits up to the first that the radix does not have; *)
(* there must be one.                                                      *)
convertNumber(a, digits) ==
  LET base == CASE a.radix = "OCTAL" -> 8
                [] a.radix = "DECIMAL" -> 10
                [] OTHER -> IF digits[1] = 0 THEN 8 ELSE 10
      good == Max({n \in 0 .. Len(digits) : \A m \in 1 .. n : digits[m] < base})
      read[n \in 0 .. Len(digits)] == IF n = 0 THEN 0 ELSE read[n - 1] * base + digits[n]
  IN  IF good = 0 THEN Refused ELSE Bits16(read[good])

(* convertLabel: an undefined label is 0, in the second pass too; what is  *)
(* refused there is a name the table does not have.                        *)
convertLabel(a, literal) ==
  IF literal \in DOMAIN a.symbolTable
    THEN IF a.symbolTable[literal].status = "Defined" THEN a.symbolTable[literal].value ELSE 0
    ELSE IF a.assemblerPass = 2 THEN Refused ELSE 0

setLabelValue(a, literal, value) ==
  [a EXCEPT !.symbolTable = [name \in DOMAIN @ \cup {literal} |->
     IF name = literal THEN [value |-> value, status |-> "Defined"] ELSE @[name]]]

Operand(a, token) ==
  CASE token.tokenClass = "NUMBER" -> convertNumber(a, token.digits)
    [] token.tokenClass = "LABEL" -> convertLabel(a, token.literal)
    [] OTHER -> a.programCounter

Combined(s, value) ==
  CASE s.left = Unset -> value
    [] s.left # Unset /\ s.opCode = "ADDITION" -> Bits16(s.left + value)
    [] OTHER -> Bits16(s.left - value)

(* A loop: the state after n turns.  A turn that has nothing left to do    *)
(* leaves the state alone, and every other one takes a token.              *)
After(turn, start, n) ==
  LET state[k \in 0 .. n] == IF k = 0 THEN start ELSE turn[state[k - 1]]
  IN  state[n]

(* How a loop ends, if it has ended.                                       *)
Ends == {"", "value", "code", "refused", "looping", "terminated"}

(* One turn of the loop of evaluateExpression, on token s.first.  Where    *)
(* none of its cases applies it turns for ever; a program counter to the   *)
(* right of an operator reads an optional that holds nothing, an exception *)
(* that nobody catches.                                                    *)
Turn(a, s, token) ==
  LET class == token.tokenClass
      value == Operand(a, token)
      complete == s.left # Unset /\ s.opCode = ""
      stop(end) == [s EXCEPT !.end = end]
      go(left, opCode) == [s EXCEPT !.left = left, !.opCode = opCode, !.first = @ + 1]
  IN  CASE complete /\ isOperator(class) -> go(s.left, class)
        [] complete /\ ~isOperator(class) -> [stop("value") EXCEPT !.left = ToWord(@)]
        [] ~complete /\ ~isValue(class) -> stop("looping")
        [] s.opCode # "" /\ class = "PROGRAM_COUNTER" -> stop("terminated")
        [] OTHER -> IF value = Refused THEN stop("refused") ELSE go(Combined(s, value), "")

(* The value of the expression that begins at a token, and the token after *)
(* it.                                                                     *)
evaluateExpression(prog, a, at) ==
  LET turn == [s \in [left : Int, opCode : {"", "ADDITION", "SUBTRACTION"}, first : Nat, end : Ends] |->
                 IF s.end # "" THEN s ELSE Turn(a, s, prog[s.first])]
  IN  After(turn, [left |-> Unset, opCode |-> "", first |-> at, end |-> ""], Len(prog))

-----------------------------------------------------------------------------
(* The instructions a group combines with: those of the groups that may    *)
(* have come before it.                                                    *)
Combines ==
  [Gr1 |-> {"Gr", "Gr1"}, Gr2 |-> {"Gr", "Gr2"}, Gr2Or |-> {"Gr", "Gr2", "Gr2Or"},
   Gr2And |-> {"Gr", "Gr2", "Gr2And"}, Gr3 |-> {"Gr", "Gr3"}, Iot |-> {"Gr"}]

(* One op code token of an instruction.                                    *)
Combine(s, instruction) ==
  LET opCode == instruction.opCode
      type   == instruction.orCombination
  IN  CASE type = "Memory" -> [s EXCEPT !.code = opCode, !.memoryOpr = TRUE]
        [] type \in {"Flag", "Gr"} -> [s EXCEPT !.code = Or(@, opCode)]
        [] type = "Mask" -> IF s.memoryOpr THEN [s EXCEPT !.zeroFlag = TRUE]
                                           ELSE [s EXCEPT !.code = And(@, opCode)]
        [] OTHER -> IF s.restrict \notin Combines[type] THEN [s EXCEPT !.end = "refused"]
                    ELSE [s EXCEPT !.restrict = type,
                                   !.code = IF type = "Iot" THEN opCode ELSE Or(@, opCode)]

(* One turn of the loop of evaluateOpCode, on token s.first.  After an     *)
(* argument (end is "value") the next token is skipped unless it ends the  *)
(* line.                                                                   *)
OpCodeTurn(prog, a, s) ==
  LET token == prog[s.first]
      next(t) == [t EXCEPT !.first = @ + 1]
  IN  CASE s.end = "" /\ isValue(token.tokenClass) ->
             LET e == evaluateExpression(prog, a, s.first)
             IN  [s EXCEPT !.arg = e.left, !.first = e.first, !.end = e.end]
        [] s.end = "" /\ token.tokenClass = "OP_CODE" -> next(Combine(s, InstructionSet[token.literal]))
        [] isEndOfCodeLine(token.tokenClass) -> [s EXCEPT !.end = "code"]
        [] OTHER -> next([s EXCEPT !.end = ""])

Page(address) == And(address, \o7300)

(* A slip: the page is checked and not marked.                             *)
CurrentPageUnmarked(a, s) ==
  IF s.arg > \o177 /\ Page(s.arg) # Page(a.programCounter) THEN Refused
  ELSE Or(s.code, And(s.arg, \o177))

(* The argument of a memory instruction: on page zero, or on the page of   *)
(* the program counter.                                                    *)
CurrentPage(a, s) ==
  LET code == Or(s.code, And(s.arg, \o177))
  IN  IF s.arg <= \o177 THEN code
      ELSE IF Page(s.arg) # Page(a.programCounter) THEN Refused ELSE Or(code, \o200)

(* The instruction the tokens have made.                                   *)
Encoded(a, s) ==
  LET code == IF s.memoryOpr THEN CurrentPage(a, s) ELSE s.code
  IN  [left |-> IF s.memoryOpr /\ s.zeroFlag THEN And(code, \o7577) ELSE code,
       operand |-> IF s.memoryOpr /\ ~s.zeroFlag THEN s.arg ELSE Unset, first |-> s.first,
       end |-> IF s.end = "code" THEN IF code = Refused THEN "refused" ELSE "value" ELSE s.end]

(* The instruction that begins at a token, its argument and the token      *)
(* after it.                                                               *)
evaluateOpCode(prog, a, at) ==
  LET turn == [s \in [code : Nat, arg : Int, memoryOpr : BOOLEAN, zeroFlag : BOOLEAN,
                      restrict : {"Gr"} \cup DOMAIN Combines, first : Nat, end : Ends] |->
                 IF s.end \in {"", "value"} THEN OpCodeTurn(prog, a, s) ELSE s]
      start == [code |-> 0, arg |-> 0, memoryOpr |-> FALSE, zeroFlag |-> FALSE,
                restrict |-> "Gr", first |-> at, end |-> ""]
  IN  Encoded(a, After(turn, start, Len(prog)))

-----------------------------------------------------------------------------
(* What a line begins with: a directive, the definition of a label, an     *)
(* origin.                                                                 *)
Prefix(prog, a, at) ==
  LET class  == prog[at].tokenClass
      next   == IF at < Len(prog) THEN prog[at + 1].tokenClass ELSE ""
      kept(b, n) == [a |-> b, first |-> n, end |-> "value"]
      valued(b, e) == [a |-> b, first |-> e.first, end |-> e.end]
  IN  CASE class \in Directives -> kept([a EXCEPT !.radix = class], at + 1)
        [] class = "LABEL" /\ next = "LABEL_ASSIGN" ->
             LET e == evaluateExpression(prog, a, at + 2)
             IN  valued(setLabelValue(a, prog[at].literal, e.left), e)
        [] class = "LABEL" /\ next = "LABEL_DEFINE" ->
             kept(setLabelValue(a, prog[at].literal, a.programCounter), at + 2)
        [] class = "LOCATION" ->
             LET e == evaluateExpression(prog, a, at + 1)
             IN  valued([a EXCEPT !.programCounter = e.left], e)
        [] OTHER -> kept(a, at)

(* The word of the rest of the line, if it has one, and its operand.       *)
Code(prog, a, at) ==
  CASE isValue(prog[at].tokenClass) ->
         LET e == evaluateExpression(prog, a, at)
         IN  [left |-> e.left, operand |-> Unset, first |-> e.first, end |-> e.end]
    [] prog[at].tokenClass = "OP_CODE" -> evaluateOpCode(prog, a, at)
    [] OTHER -> [left |-> Unset, operand |-> Unset, first |-> at, end |-> "value"]

EndOfLineAfter(prog, at) == Min({n \in at .. Len(prog) : isEndOfLine(prog[n].tokenClass)})

(* A slip: an origin without its mark.                                     *)
UnmarkedOrigin(address) == <<(address \div 64) % 64, address % 64>>

(* BinaryInputFormatter: a word is written after its address, unless the   *)
(* address is the one just written.  Every line has a formatter of its     *)
(* own, so the address is written for every word.                          *)
Origin(address) == <<64 + ((address \div 64) % 64), address % 64>>
Data(word)      == <<(word \div 64) % 64, word % 64>>

Written(located, address, code) ==
  (IF located \/ code # Unset THEN Origin(address) ELSE <<>>)
    \o (IF code # Unset THEN Data(code) ELSE <<>>)

Init ==
  \E source \in Sources :
    /\ program = Classified(source)
    /\ assembler = readProgram(source)
    /\ first = 1
    /\ status = "assembling"
    /\ tape = <<>> /\ listing = <<>>
    /\ labels = <<>>

(* An exception or an endless loop in a line ends the assembly.            *)
Stopped(end) ==
  /\ end # "value"
  /\ status' = end
  /\ UNCHANGED <<program, assembler, first, tape, listing, labels>>

(* A slip: the first pass does not count words.                            *)
AdvancedInPass2(a, hasCode) ==
  [a EXCEPT !.programCounter = IF hasCode /\ a.assemblerPass = 2 THEN Bits16(@ + 1) ELSE @]

Advanced(a, hasCode) == [a EXCEPT !.programCounter = IF hasCode THEN Bits16(@ + 1) ELSE @]

(* parseLine: the address of the next word is advanced in both passes,     *)
(* tape and listing are written in the second.                             *)
Line(prefix, code) ==
  LET a == prefix.a
      address == a.programCounter
      hasCode == code.left # Unset
      located == program[first].tokenClass = "LOCATION"
  IN  /\ code.end = "value"
      /\ assembler' = Advanced(a, hasCode)
      /\ first' = EndOfLineAfter(program, code.first) + 1
      /\ IF a.assemblerPass = 1 THEN UNCHANGED <<tape, listing>>
         ELSE /\ tape' = tape \o Written(located, address, code.left)
              /\ listing' = IF hasCode THEN Append(listing, [address |-> address, word |-> code.left,
                                                             operand |-> code.operand, line |-> first])
                                       ELSE listing
      /\ UNCHANGED <<program, status, labels>>

parseLine ==
  /\ status = "assembling" /\ first <= Len(program)
  /\ \E prefix \in {Prefix(program, assembler, first)} :
       \/ Stopped(prefix.end)
       \/ /\ prefix.end = "value"
          /\ \E code \in {Code(program, prefix.a, prefix.first)} :
               Stopped(code.end) \/ Line(prefix, code)

(* The end of pass1.  Neither the program counter nor the radix go back to *)
(* what they were.                                                         *)
pass2 ==
  /\ status = "assembling" /\ first > Len(program) /\ assembler.assemblerPass = 1
  /\ assembler' = [assembler EXCEPT !.assemblerPass = 2]
  /\ first' = 1
  /\ labels' = assembler.symbolTable
  /\ UNCHANGED <<program, status, tape, listing>>

finish ==
  /\ status = "assembling" /\ first > Len(program) /\ assembler.assemblerPass = 2
  /\ status' = "done"
  /\ UNCHANGED <<program, assembler, first, tape, listing, labels>>

Next == parseLine \/ pass2 \/ finish

Spec == Init /\ [][Next]_vars

-----------------------------------------------------------------------------
(* A slip: the address of the deposit is not passed on.                    *)
FreshAtZero(line, address) == readProgram(line)

Fresh(line, address) == [readProgram(line) EXCEPT !.programCounter = address]

(* generateOpCode, for the command d: the tokens of a line assembled by an *)
(* assembler of its own.  pass1 advances the program counter before the    *)
(* instruction is translated.                                              *)
generateOpCode(line, address) ==
  LET a == Fresh(line, address)
      passed == evaluateOpCode(line, a, 1)
  IN  IF passed.end # "value" THEN passed
      ELSE evaluateOpCode(line, [a EXCEPT !.programCounter = @ + 1, !.assemblerPass = 2], 1)

(* readBinaryFormat: a word with the mark of an origin sets the address,   *)
(* the others are deposited one after the other, the last one of two at an *)
(* address; what comes before any origin is skipped.                       *)
readBinaryFormat(bytes) ==
  LET word    == [n \in 1 .. Len(bytes) \div 2 |->
                    (bytes[2 * n - 1] % 128) * 64 + (bytes[2 * n] % 64)]
      origins == {n \in DOMAIN word : word[n] >= \o10000}
      origin(n)  == Max({m \in origins : m <= n})
      address(n) == ToWord(word[origin(n)] + n - origin(n) - 1)
      data == {n \in DOMAIN word \ origins : \E m \in origins : m <= n}
  IN  [core |-> [x \in {address(n) : n \in data} |-> word[Max({n \in data : address(n) = x})]],
       programCounter |-> IF origins = {} THEN 0 ELSE ToWord(address(Len(word)) + 1)]

-----------------------------------------------------------------------------
(* The tape is the listing: loading it puts every listed word where the    *)
(* listing has it (the last one, of two at one address), writes nothing    *)
(* else and leaves the program counter where the assembler left it.        *)
Listed ==
  LET address(n) == ToWord(listing[n].address)
  IN  [x \in {address(n) : n \in DOMAIN listing} |->
         ToWord(listing[Max({n \in DOMAIN listing : address(n) = x})].word)]

TapeLoadsListing ==
  LET loaded == readBinaryFormat(tape)
  IN  /\ loaded.core = Listed
      /\ tape # <<>> => loaded.programCounter = ToWord(assembler.programCounter)

LineStart(prog, n) == n = 1 \/ isEndOfLine(prog[n - 1].tokenClass)

(* A line that begins by defining a name.                                  *)
Defines(prog, n) ==
  /\ LineStart(prog, n) /\ prog[n].tokenClass = "LABEL"
  /\ prog[n + 1].tokenClass \in {"LABEL_ASSIGN", "LABEL_DEFINE"}

DefinedAbove(prog, n, name) == \E d \in 1 .. n - 1 : Defines(prog, d) /\ prog[d].literal = name

NeverDefined(prog, name) == \A d \in DOMAIN prog : Defines(prog, d) => prog[d].literal # name

(* The program begins with an origin, on a line of its own and without     *)
(* names, and chooses its radix before that if at all.                     *)
BeginsAt(prog, n) ==
  /\ LineStart(prog, n) /\ prog[n].tokenClass = "LOCATION"
  /\ \A m \in 1 .. n - 1 : prog[m].tokenClass \in Directives \cup {"COMMENT", "END_OF_LINE"}
  /\ \A m \in n .. Len(prog) : prog[m].tokenClass \notin Directives
  /\ \A m \in n .. EndOfLineAfter(prog, n) : prog[m].tokenClass \notin {"LABEL", "PROGRAM_COUNTER"}

(* Its origins and assignments use only names defined on lines above, and  *)
(* predefined ones that it leaves alone.                                   *)
LooksBack(prog) ==
  \A n \in 1 .. Len(prog) - 1 :
    LineStart(prog, n) /\ (prog[n].tokenClass = "LOCATION" \/ prog[n + 1].tokenClass = "LABEL_ASSIGN") =>
      \A k \in n + 1 .. EndOfLineAfter(prog, n) : prog[k].tokenClass = "LABEL" =>
        \/ DefinedAbove(prog, n, prog[k].literal)
        \/ prog[k].literal \in DOMAIN PreDefinedSymbols /\ NeverDefined(prog, prog[k].literal)

Orderly == (\E n \in DOMAIN program : BeginsAt(program, n)) /\ LooksBack(program)

(* Both passes agree: in an orderly program the second pass gives every    *)
(* name the value the first gave it, so a forward reference, which took    *)
(* its value from the first pass, names the place the second put the label *)
(* at.  The two passes are the same code run twice without a reset of      *)
(* program counter, radix and symbols in between.                          *)
PassesAgree == status = "done" /\ Orderly => assembler.symbolTable = labels

(* What the CPU will make of a listed instruction: an operand on page zero *)
(* or on the page of the instruction is the address it refers to.          *)
OnPage(entry) == entry.operand \div \o200 \in {0, ToWord(entry.address) \div \o200}

MemoryReferences ==
  {listing[n] : n \in {m \in DOMAIN listing : /\ listing[m].operand # Unset
                                              /\ IsMemoryInstruction(listing[m].word)}}

OperandsMeant ==
  \A entry \in MemoryReferences :
    OnPage(entry) => ImmediateAddress(ToWord(entry.address), entry.word) = entry.operand

(* "Memory location out of range (addressing crosses page boundary)",      *)
(* Assembler.h:938: a reference to another page is refused.                *)
OffPageRefused == \A entry \in MemoryReferences : OnPage(entry)

(* The assembler hangs or ends the program only on an expression without a *)
(* value where one must be, or with a . to the right of an operator.       *)
Malformed(prog, n) ==
  /\ prog[n].tokenClass \in {"ADDITION", "SUBTRACTION", "LOCATION", "LABEL_ASSIGN"}
  /\ \/ prog[n + 1].tokenClass \notin {"NUMBER", "LABEL", "PROGRAM_COUNTER"}
     \/ isOperator(prog[n].tokenClass) /\ prog[n + 1].tokenClass = "PROGRAM_COUNTER"

HangsOnlyWhenMalformed ==
  status \in {"looping", "terminated"} => \E n \in 1 .. Len(program) - 1 : Malformed(program, n)

(* d assembles what the assembler assembles: an instruction deposited at   *)
(* an address is the word pass 2 has there, if it names no label and no    *)
(* program counter, and the next address is not on the other side of a     *)
(* boundary that the check of operands knows.                              *)
LineOf(entry) == SubSeq(program, entry.line, EndOfLineAfter(program, entry.line))

DepositAgrees ==
  \A n \in DOMAIN listing :
    LET line  == LineOf(listing[n])
        plain == /\ line[1].tokenClass = "OP_CODE"
                 /\ \A k \in DOMAIN line : line[k].tokenClass \notin {"LABEL", "PROGRAM_COUNTER"}
                 /\ \A k \in DOMAIN program : program[k].tokenClass \notin Directives
                 /\ listing[n].address % \o100 # \o77
    IN  plain => generateOpCode(line, listing[n].address).left = listing[n].word
=============================================================================
