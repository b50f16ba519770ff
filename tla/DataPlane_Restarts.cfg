SPECIFICATION Spec
CONSTANTS
  Client = {c1}
  Allowed = {c1}
  MaxStarts = 2
  MaxInitiations = 3
  MaxPackets = 2
  MaxLost = 0
  MaxRestarts = 1
  MaxExpiries = 1
  Repeats = TRUE
INVARIANTS TypeOK SessionAgreement NoUnconfirmedSession LiveSession
PROPERTY TrafficIsDatagrams
CHECK_DEADLOCK FALSE
