SPECIFICATION FairPromiseSpec
CONSTANTS
  Chars = {65, 66}
  MaxWaiting = 3
  ScreenSize = 5
  Connected <- AllDevices
  SwitchRegister = 0
  Tapes <- NoneNumbers
  Words <- NoneNumbers
  Images <- WaitImages
  Commands = {"C", "S", "s", "c"}
  Careful = TRUE
  Arguments <- NoneNumbers
  MaxTyped = 3
INVARIANT EchoInOrder
PROPERTIES EverythingTaken RunHalts EndlessLoopStops
