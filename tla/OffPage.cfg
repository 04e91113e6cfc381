SPECIFICATION Spec
CONSTANTS
  Lines <- OffPageLines
  MaxLines = 2
  Sources <- MCSources
INVARIANT OffPageRefused
CHECK_DEADLOCK FALSE
