SPECIFICATION Spec
CONSTANTS
  Requesters = {t1, t2}
  Service = svc
  NoThread = NoThread
  MaxKernel = 2
  MaxExec = 1
  MaxPrompt = 0
  Requests <- AllRequests
  SignalMayFail = FALSE
  ShutdownMayFail = FALSE
  CleanupMayFail = FALSE
INVARIANT NothingOutlivesClose
