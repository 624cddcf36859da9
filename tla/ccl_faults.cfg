SPECIFICATION Spec
CONSTANTS
  r0 = r0
  r1 = r1
  r2 = r2
  g0 = g0
  g1 = g1
  g2 = g2
  c1 = c1
  c2 = c2
  Ranks = {r0, r1, r2}
  Root = r0
  Comms = {c1}
  Devices = {g0, g1, g2}
  Owned <- SharedGpus
  Host = Host
  NoDevice = NoDevice
  Calls <- MixedCalls
  NumCalls = 3
  Ccl = "auto"
  Backend = "rccl"
  Faults = {"cclcomm", "malloc", "uniqueid", "bcast", "stream", "initrank",
            "query", "setdevice", "allreduce", "sync",
            "freesync", "destroy", "freestream"}
  MaxFaults = 2
  ErrorsReturn = TRUE
INVARIANTS
  IdAgreement
  NothingDangles
  StuckOnlyIfDiverged
CHECK_DEADLOCK FALSE
