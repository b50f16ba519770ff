SPECIFICATION Spec
CONSTANTS
  KeySize = 2
  Public <- PublicKey
  Disco <- DiscoKey
  Addresses = {"tcA", "tcB"}
  Executable <- Program
  Ports <- TwoPorts
  PortWords <- TwoPorts
  NodeKeys = {"n1", "n2"}
  KeyTypes = {"ed25519", "rsa"}
  Blobs = {"k1", "k2", "k3"}
  Files <- KeyFiles
  Github <- KeyUsers
INVARIANTS AddressRoundTrip RelaysMeet AddressIsNotLookedUp ProxyReachesClient ServesTheNamed
CHECK_DEADLOCK FALSE
