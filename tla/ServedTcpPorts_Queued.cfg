CONSTANTS
  MaxUp = 1
  MaxDown = 2
  SendBuffer = 1
  SocketBuffer = 1
  Posix = TRUE
SPECIFICATION Spec
INVARIANTS NothingQueuedIsLost
CHECK_DEADLOCK FALSE
