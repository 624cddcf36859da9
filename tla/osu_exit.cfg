SPECIFICATION Spec
CONSTANTS
  NumProcs = {1, 2, 3}
  CommandLines <- Lines
  LargeMessageSize = 8
  MaxFaults = 1
  CollLoopSmall = 3
  CollSkipSmall = 1
  CollLoopLarge = 2
  CollSkipLarge = 0
  ValidationSkip = 2
  ValidationSkipMax = 10
  MaxMsgSizeColl = 16
  RocmEnabled = TRUE
  IntRange = 128
  LogPathInts = 2
INVARIANT ExitTellsValidation
