CONSTANTS
  MaxUp = 2
  MaxDown = 3
  SendBuffer = 2
  SocketBuffer = 1
  Posix = TRUE
SPECIFICATION FairSpec
INVARIANTS TypeOK NoCloseUnderReader
PROPERTIES UpIsPipe DownIsPipe Teardown HostLearns PeerLearns
CHECK_DEADLOCK FALSE
