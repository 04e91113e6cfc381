SPECIFICATION FairPromiseSpec
CONSTANTS
  Chars = {65, 66}
  MaxWaiting = 3
  ScreenSize = 5
  Connected <- AllDevices
  SwitchRegister = 0
  Tapes <- NoneNumbers
  Words <- NoneNumbers
  Images <- EchoImage
  Commands = {"C"}
  Careful = TRUE
  Arguments <- NoneNumbers
  MaxTyped = 2
PROPERTY EverythingEchoed
