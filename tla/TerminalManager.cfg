SPECIFICATION FairSpec
CONSTANTS
  MaxWindows = 3
  MaxInput = 2
INVARIANTS TypeOK SlotIsFresh WindowsAccounted DeviceWindow EndsWhenUnused
PROPERTIES ClosedIsDropped QuitEnds
CHECK_DEADLOCK FALSE
