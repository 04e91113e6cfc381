SPECIFICATION PartsSpec
CONSTANTS
  Operands <- MCOperands
  MicroOps <- MCMicroOps
  ShortHigh <- MCShortHigh
  RegHigh <- MCRegHigh
  MaxTicks = 5
  Chars = {65, 13}
  MaxWaiting = 3
  ScreenSize = 3
  AccValues = {0, 65, 141}
  MaxTyped = 5
INVARIANTS DECWriterTypeOK NoStrandedInput PrinterAlwaysReady TakenInOrder TicksAccounted
PROPERTY ImplementsLinkAC
