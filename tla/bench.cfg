SPECIFICATION FairSpec
CONSTANTS
  Variants = {"rccl", "mpi", "lambda"}
  Size = 3
  CommandLines <- Lines
INVARIANTS
  TypeOK
  VerdictExact
  InjectionsFirst
  NoVerdictAfterLoss
PROPERTY EveryRankEnds
