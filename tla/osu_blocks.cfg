SPECIFICATION FairSpec
CONSTANTS
  Jobs <- AllJobs
  MaxEdges = 3
  MaxFaults = 1
  MaxMessageSize = 32
INVARIANTS
  TypeOK
  VerdictExact
  NeighborsAgree
  BuffersThere
  WindowAlive
  MemoryBalanced
PROPERTY EveryRankEnds
