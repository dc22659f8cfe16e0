SPECIFICATION MCSpec
CONSTANTS
  Capacity = 2
  MaxEpoch = 2
  MaxLog = 4
  MaxKernel = 1
  MaxExec = 1
  MaxConnect = 2
  OwnCommands = TRUE
INVARIANT StreamInvariant
INVARIANT NothingLostOrRepeated
INVARIANT TruthUnlessAnswered
PROPERTY CursorNeverGoesBack
PROPERTY CatchesUp
CHECK_DEADLOCK FALSE
