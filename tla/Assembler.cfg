SPECIFICATION Spec
CONSTANTS
  Lines <- MCLines
  MaxLines = 3
  Sources <- MCSources
INVARIANTS TapeLoadsListing PassesAgree OperandsMeant HangsOnlyWhenMalformed DepositAgrees
CHECK_DEADLOCK FALSE
