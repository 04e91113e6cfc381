------------------------------ MODULE MCTokens ------------------------------
(* All short texts over the characters that differ in kind, and longer ones *)
(* over those that numbers, comments and garbage are made of.              *)
EXTENDS Tokens

TextsOver(set, length) == UNION {[1 .. n -> set] : n \in 0 .. length}

MCTexts ==
  TextsOver({"0", "7", "A", "T", "x", "/", ",", "+", "\n", " ", "@"}, 3)
    \cup TextsOver({"0", "7", "A", "T", "x", "/", "\n", "@"}, 4)
    \cup [1 .. 2 -> Character]
=============================================================================
