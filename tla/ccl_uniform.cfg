SPECIFICATION FairSpec
CONSTANTS
  r0 = r0
  r1 = r1
  r2 = r2
  g0 = g0
  g1 = g1
  g2 = g2
  c1 = c1
  c2 = c2
  Ranks = {r0, r1, r2}
  Root = r0
  Comms = {c1, c2}
  Devices = {g0, g1, g2}
  Owned <- OneGpuEach
  Host = Host
  NoDevice = NoDevice
  Calls <- UniformCalls
  NumCalls = 3
  Ccl = "rccl"
  Backend = "rccl"
  Faults = {}
  MaxFaults = 0
  ErrorsReturn = FALSE
INVARIANTS
  TypeOK
  SuccessMeansReduced
  ChecksConvert
  NothingLeaked
PROPERTIES
  AllCallsReturn
  KeepsPromise
