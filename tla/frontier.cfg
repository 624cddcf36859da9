SPECIFICATION Spec
CONSTANTS
  Ladder <- MCLadder
  Jobs <- MCJobs
  BetaSwaps = {TRUE, FALSE}
  SampleNodes <- MCSampleNodes
  MaxTroubles = 1
INVARIANTS
  TypeOK
  RightStack
  NotHijacked
  OneGcdPerRank
  FilesAsPlanned
  ClippedIsLast
  WalltimeSparesHeadline
  IntendedMechanism
  SwapMatchesSplit
  GateSound
  TruncationNoticed
\* A job stops when it has ended or has been killed.
CHECK_DEADLOCK FALSE
