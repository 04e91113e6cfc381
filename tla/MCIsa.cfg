SPECIFICATION MCSpec
CONSTANTS
  Chars = {65}
  MaxWaiting = 1
  ScreenSize = 1
  Connected <- AllDevices
  SwitchRegister = 5
  Images <- MCImages
  Tapes <- None
  Commands = {"s", "c", "S", "C"}
  Arguments <- None
  Words <- None
  Careful = TRUE
  MaxCommands = 1
  MaxInstructions = 4
INVARIANT TypeOK
PROPERTIES StoresWhereAddressed ImplementsIsa
CHECK_DEADLOCK FALSE
