SPECIFICATION Spec
CONSTANT Texts <- MCTexts
INVARIANTS TokensRight NothingLost ReadToTheEnd
CHECK_DEADLOCK FALSE
