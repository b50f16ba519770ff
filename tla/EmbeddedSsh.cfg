CONSTANTS
  AllowNone = FALSE
  SocketRoom = 1
  PipeRoom = 1
  MaxOutput = 2
  TunnelRoom = 1
  Faults = TRUE
  Scripts <- Sessions
SPECIFICATION FairSpec
INVARIANTS ExitAfterOutput StdinInOrder OnlyAuthorized ServerSurvives
PROPERTY CleanedUp
CHECK_DEADLOCK FALSE
