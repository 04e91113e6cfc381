------------------------------- MODULE Tokens -------------------------------
(***************************************************************************)
(* TokenParser: the first stage of the assembler turns characters into     *)
(* tokens.  Every kind of token is a small recogniser; all of them are fed *)
(* the same characters until one fails on a character after having passed  *)
(* on the one before.  The recognisers are kept in a list sorted by how    *)
(* many characters each has passed, and the order survives from one token  *)
(* to the next.                                                            *)
(***************************************************************************)
EXTENDS Naturals, Sequences, SequencesExt, FiniteSetsExt

CONSTANT
  Texts          \* the source texts, sequences of members of Character

digit  == {"0", "7"}
xdigit == digit \cup {"A"}
alpha  == {"A", "T", "x"}
Character == digit \cup alpha \cup {"/", "=", ",", "*", ".", "+", "-", "\n", " ", ";", "@"}

ASSUME TextsAssumption == Texts \subseteq Seq(Character)

VARIABLES
  source,        \* the text, which does not change
  text,          \* what the input stream still holds
  literalValue,  \* the characters of the token so far
  tokenList,     \* the recognisers, in their current order
  tokens,        \* the tokens found so far
  ended          \* END_OF_FILE was returned, or an exception thrown

-----------------------------------------------------------------------------
(* A recogniser passes on one of the characters in first and goes on       *)
(* passing on those in more.  On another first character it fails, unless  *)
(* it is patient: then it stays UNDETERMINED and may begin later.          *)
TokenType(class, begins, goesOn, waits) ==
  [tokenClass |-> class, first |-> begins, more |-> goesOn, patient |-> waits,
   tokenState |-> "UNDETERMINED", passingCount |-> 0]

OneCharacter(class, character) == TokenType(class, {character}, {}, FALSE)

CommentToken     == TokenType("COMMENT", {"/"}, Character \ {"\n"}, TRUE)
LabelAssignment  == OneCharacter("LABEL_ASSIGN", "=")
LabelDefinition  == OneCharacter("LABEL_DEFINE", ",")
Location         == OneCharacter("LOCATION", "*")
ProgramCounter   == OneCharacter("PROGRAM_COUNTER", ".")
Addition         == OneCharacter("ADDITION", "+")
Subtraction      == OneCharacter("SUBTRACTION", "-")
EndOfInstruction == OneCharacter("END_OF_INSTRUCTION", ";")
Literal          == TokenType("LITERAL", alpha, alpha \cup digit, FALSE)
Number           == TokenType("NUMBER", digit, digit, TRUE)
EndOfLine        == TokenType("END_OF_LINE", {"\n"}, {"\n"}, FALSE)
WhiteSpace       == TokenType("WHITE_SPACE", {" "}, {" "}, FALSE)

TokenParser ==
  << CommentToken, LabelAssignment, LabelDefinition, Location, ProgramCounter, Addition,
     Subtraction, Literal, Number, EndOfLine, WhiteSpace, EndOfInstruction >>

(* A slip: the prefix state outlives the second digit.                     *)
NumberMorePrefixKept(type, character) ==
  CASE type.passingCount = 0 /\ character = "0" -> digit \cup {"x"}
    [] character = "x" -> xdigit
    [] OTHER -> type.more

(* What a number may go on with after the character it passed: its         *)
(* internalState is OCT_PREFIX after a leading 0, HEX after the x.         *)
NumberMore(type, character) ==
  CASE type.passingCount = 0 /\ character = "0" -> digit \cup {"x"}
    [] character = "x" -> xdigit
    [] "A" \in type.more -> xdigit
    [] OTHER -> digit

(* parse: the state after the next character.  The count of a comment is   *)
(* raised twice at its beginning.                                          *)
parse(type, character) ==
  LET passes == \/ type.tokenState = "UNDETERMINED" /\ character \in type.first
                \/ type.tokenState = "PASSING" /\ character \in type.more
  IN  IF passes
        THEN [type EXCEPT !.tokenState = "PASSING",
                          !.passingCount = @ + IF type.tokenClass = "COMMENT" /\ @ = 0 THEN 2 ELSE 1,
                          !.more = IF type.tokenClass = "NUMBER"
                                     THEN NumberMore(type, character) ELSE @]
        ELSE [type EXCEPT !.tokenState =
                CASE @ = "UNDETERMINED" -> IF type.patient THEN @ ELSE "FAILED"
                  [] @ = "PASSING" -> "FAILED_ON"
                  [] @ = "FAILED_ON" /\ type.tokenClass # "LITERAL" -> "FAILED"
                  [] OTHER -> @]

clear(list) ==
  [n \in DOMAIN list |->
    [list[n] EXCEPT !.tokenState = "UNDETERMINED", !.passingCount = 0,
                    !.more = IF list[n].tokenClass = "NUMBER" THEN digit ELSE @]]

-----------------------------------------------------------------------------
(* Every recogniser is offered the character.                              *)
OfferedToAll(list, character) == [n \in DOMAIN list |-> parse(list[n], character)]

(* The loop over the list: it ends at the first recogniser that has passed *)
(* fewer characters than one before it.                                    *)
Offered(list, character) ==
  LET parsed == OfferedToAll(list, character)
      reached(n) == \A m \in 1 .. n : \A before \in 1 .. m - 1 :
                      list[m].passingCount >= parsed[before].passingCount
      last == Max({n \in DOMAIN list : reached(n)})
  IN  SubSeq(parsed, 1, last) \o SubSeq(list, last + 1, Len(list))

(* The sort by passingCount; recognisers that are level keep their order.  *)
NotAfter(list, m, n) ==
  \/ list[m].passingCount > list[n].passingCount
  \/ list[m].passingCount = list[n].passingCount /\ m <= n

Places(list) ==
  [n \in DOMAIN list |-> Cardinality({m \in DOMAIN list : NotAfter(list, m, n)})]

Sorted(list) ==
  LET places == Places(list)
  IN  [k \in DOMAIN list |-> list[CHOOSE n \in DOMAIN list : places[n] = k]]

Token(class, literal) == [tokenClass |-> class, literal |-> literal]

Init ==
  /\ source \in Texts
  /\ text = source
  /\ literalValue = <<>>
  /\ tokenList = TokenParser
  /\ tokens = <<>>
  /\ ended = FALSE

(* A slip: the character that ended a token is gone.                       *)
dropped(character, rest) == rest

putback(character, rest) == <<character>> \o rest

(* One character of nextToken.  The recogniser that fails on it is the     *)
(* token and the character is put back; two that do are an exception.      *)
nextToken ==
  /\ ~ended /\ text # <<>>
  /\ LET list   == Sorted(Offered(tokenList, Head(text)))
         failed == {n \in DOMAIN list : list[n].tokenState = "FAILED_ON"}
     IN  IF failed = {}
           THEN /\ literalValue' = Append(literalValue, Head(text))
                /\ text' = Tail(text)
                /\ tokenList' = list
                /\ UNCHANGED <<tokens, ended>>
           ELSE /\ tokens' = IF Cardinality(failed) > 1 THEN tokens
                              ELSE Append(tokens, Token(list[CHOOSE n \in failed : TRUE].tokenClass,
                                                        literalValue))
                /\ literalValue' = <<>>
                /\ tokenList' = clear(list)
                /\ ended' = (Cardinality(failed) > 1)
                /\ text' = putback(Head(text), Tail(text))
  /\ UNCHANGED source

(* At the end of the text the recogniser at the front of the list is the   *)
(* token; the call after that returns END_OF_FILE.                         *)
endOfText ==
  /\ ~ended /\ text = <<>>
  /\ tokens' = Append(tokens, Token(IF literalValue = <<>> THEN "END_OF_FILE"
                                      ELSE Head(tokenList).tokenClass, literalValue))
  /\ literalValue' = <<>>
  /\ tokenList' = clear(tokenList)
  /\ ended' = (literalValue = <<>>)
  /\ UNCHANGED <<source, text>>

Next == nextToken \/ endOfText

vars == <<source, text, literalValue, tokenList, tokens, ended>>

(* readProgram calls nextToken until it returns END_OF_FILE.               *)
Spec == Init /\ [][Next]_vars

-----------------------------------------------------------------------------
(* What the recognisers are meant to recognise, said of whole literals.    *)
All(s, set) == \A n \in DOMAIN s : s[n] \in set

IsNumber(s) ==
  \/ All(s, digit)
  \/ Len(s) > 1 /\ s[1] = "0" /\ s[2] = "x" /\ All(SubSeq(s, 3, Len(s)), xdigit)

Mark(class) ==
  CASE class = "LABEL_ASSIGN" -> "=" [] class = "LABEL_DEFINE" -> "," [] class = "LOCATION" -> "*"
    [] class = "PROGRAM_COUNTER" -> "." [] class = "ADDITION" -> "+"
    [] class = "SUBTRACTION" -> "-" [] class = "END_OF_INSTRUCTION" -> ";"

WellFormed(class, s) ==
  IF class = "END_OF_FILE" THEN s = <<>>
  ELSE /\ s # <<>>
       /\ CASE class = "NUMBER"      -> IsNumber(s)
            [] class = "LITERAL"     -> s[1] \in alpha /\ All(s, alpha \cup digit)
            [] class = "COMMENT"     -> s[1] = "/" /\ All(s, Character \ {"\n"})
            [] class = "END_OF_LINE" -> All(s, {"\n"})
            [] class = "WHITE_SPACE" -> All(s, {" "})
            [] OTHER -> s = <<Mark(class)>>

(* A character that begins no token swallows all that follows up to the    *)
(* next number or comment, whose literal it becomes a part of, or up to    *)
(* the end.                                                                *)
Garbled(class, s) ==
  /\ s # <<>> /\ s[1] = "@"
  /\ \/ All(s, Character \ (digit \cup {"/"}))
     \/ /\ class \in {"NUMBER", "COMMENT"}
        /\ \E n \in 1 .. Len(s) - 1 : /\ All(SubSeq(s, 1, n), Character \ (digit \cup {"/"}))
                                      /\ WellFormed(class, SubSeq(s, n + 1, Len(s)))

(* Every token has the class its literal calls for and is as long as it    *)
(* can be: the first character of the next token could not have gone on    *)
(* with it.  This is what nextToken does with characters counted and       *)
(* recognisers sorted, whatever order the tokens before left the list in.  *)
TokensRight ==
  \A k \in DOMAIN tokens :
    LET class == tokens[k].tokenClass
        s     == tokens[k].literal
        rest  == IF k < Len(tokens) THEN tokens[k + 1].literal ELSE <<>>
    IN  \/ Garbled(class, s)
        \/ /\ WellFormed(class, s)
           /\ rest # <<>> => ~WellFormed(class, Append(s, rest[1]))

(* No character is lost or read twice: the literals of the tokens, the one *)
(* being collected and what is left of the text are the source.            *)
NothingLost ==
  source = FlattenSeq([k \in DOMAIN tokens |-> tokens[k].literal]) \o literalValue \o text

(* No two recognisers ever fail on the same character, which would be the  *)
(* exception "Ambiguous tokens": every text is read to its end.            *)
ReadToTheEnd == ended => tokens # <<>> /\ Last(tokens).tokenClass = "END_OF_FILE"
=============================================================================
