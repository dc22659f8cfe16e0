SPECIFICATION MCSpec
CONSTANTS
  Capacity = 2
  MaxEpoch = 1
  MaxLog = 3
  MaxKernel = 1
  MaxExec = 0
  MaxConnect = 2
  OwnCommands = TRUE
INVARIANT ReconnectRestoresTruth
CHECK_DEADLOCK FALSE
