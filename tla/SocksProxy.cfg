CONSTANTS
  MaxUp = 1
  MaxDown = 2
  SendBuffer = 1
  SocketBuffer = 1
  Posix = TRUE
  Requests <- Faulty
INVARIANT OneReply
SPECIFICATION FairSpec
PROPERTIES Answered Teardown BytesArePiped
CHECK_DEADLOCK FALSE
