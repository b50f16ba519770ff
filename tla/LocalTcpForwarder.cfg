CONSTANTS
  MaxUp = 2
  MaxDown = 2
  SendBuffer = 2
  SocketBuffer = 1
  Posix = TRUE
SPECIFICATION FairSpec
PROPERTIES BytesArePiped Teardown Answered
CHECK_DEADLOCK FALSE
