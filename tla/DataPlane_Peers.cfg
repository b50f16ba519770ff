SPECIFICATION Spec
CONSTANTS
  Client = {c1, c2, c3}
  Allowed = {c1, c2}
  MaxStarts = 1
  MaxInitiations = 1
  MaxPackets = 1
  MaxLost = 1
  MaxRestarts = 0
  MaxExpiries = 0
  Repeats = TRUE
PROPERTY TrafficIsDatagrams
CHECK_DEADLOCK FALSE
