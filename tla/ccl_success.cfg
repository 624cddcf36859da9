SPECIFICATION Spec
CONSTANTS
  r0 = r0
  r1 = r1
  r2 = r2
  g0 = g0
  g1 = g1
  g2 = g2
  c1 = c1
  c2 = c2
  Ranks = {r0, r1}
  Root = r0
  Comms = {c1}
  Devices = {g0, g1, g2}
  Owned <- OneGpuEach
  Host = Host
  NoDevice = NoDevice
  Calls <- GpuCalls
  NumCalls = 3
  Ccl = "rccl"
  Backend = "rccl"
  Faults = {"allreduce", "sync"}
  MaxFaults = 1
  ErrorsReturn = FALSE
INVARIANT SuccessMeansReduced
CHECK_DEADLOCK FALSE
