CONSTANTS
  Relays <- SomeRelays
  HeaderSize = 2
  MaxFrame = 3
  MaxSent = 2
  WireRoom = 3
  Faults = TRUE
SPECIFICATION FairSpec
PROPERTIES FramesArriveWhole Arrives Connects
CHECK_DEADLOCK FALSE
