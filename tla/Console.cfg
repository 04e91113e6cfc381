SPECIFICATION MCSpec
CONSTANTS
  Chars = {65}
  MaxWaiting = 1
  ScreenSize = 1
  Connected <- AllDevices
  SwitchRegister = 0
  Images <- ConsoleImages
  Tapes <- ConsoleTapes
  Commands = {"l", "d", "E", "e", "c", "s", "C", "S", "RIM", "tape", "quit"}
  Arguments = {127, 4224}
  Words = {1, 7424}
  Careful = TRUE
  MaxCommands = 3
  MaxInstructions = 4
INVARIANT OperandAddressed
PROPERTY ImplementsIsa
CHECK_DEADLOCK FALSE
