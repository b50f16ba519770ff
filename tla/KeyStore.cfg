CONSTANTS
  Procs = {"p1", "p2"}
  Jobs <- MCJobs
  Names = {"default", "client-default", "ssh_host_ed25519_key"}
  Regions = {1, 2}
  MaxRuns = 3
  Faults = TRUE
SPECIFICATION Spec
INVARIANTS RacedFileLoads AddressReachesServer
PROPERTY ReplacedOnlyByForce
CHECK_DEADLOCK FALSE
