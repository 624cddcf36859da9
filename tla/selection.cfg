SPECIFICATION Spec
CONSTANTS
  Ladder <- MCLadder
  Jobs <- PerCommunicator
  BetaSwaps <- NeverBeta
  SampleNodes <- MCSampleNodes
  MaxTroubles = 1
INVARIANT FallbackEnds
CHECK_DEADLOCK FALSE
