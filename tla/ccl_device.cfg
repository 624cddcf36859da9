SPECIFICATION Spec
CONSTANTS
  r0 = r0
  r1 = r1
  r2 = r2
  g0 = g0
  g1 = g1
  g2 = g2
  c1 = c1
  c2 = c2
  Ranks = {r0, r1}
  Root = r0
  Comms = {c1}
  Devices = {g0, g1, g2}
  Owned <- SpareGpu
  Host = Host
  NoDevice = NoDevice
  Calls <- GpuCalls
  NumCalls = 3
  Ccl = "nccl"
  Backend = "nccl"
  Faults = {}
  MaxFaults = 1
  ErrorsReturn = FALSE
INVARIANT OnBufferDevice
CHECK_DEADLOCK FALSE
