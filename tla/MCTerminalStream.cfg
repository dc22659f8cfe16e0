SPECIFICATION Spec
CONSTANTS
  MaxByte = 3
  ReplayLimit = 2
  QueueLimit = 1
  WireLimit = 1
  MaxConnection = 2
  StopMayFail = TRUE
  MaxAtClose = 2
CONSTRAINT FewAtClose
INVARIANT TypeOK
INVARIANT StreamContiguous
INVARIANT BridgeNeverConfused
INVARIANT NoProcessAfterClose
INVARIANT AttachmentHasOwner
INVARIANT ExitIsNoticed
CHECK_DEADLOCK FALSE
