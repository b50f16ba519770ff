SPECIFICATION FairSpec
CONSTANTS
  Client = {c1}
  Allowed = {c1}
  MaxStarts = 2
  MaxInitiations = 4
  MaxPackets = 1
  MaxLost = 2
  MaxRestarts = 0
  MaxExpiries = 0
  Repeats = FALSE
PROPERTY Connects
CHECK_DEADLOCK FALSE
