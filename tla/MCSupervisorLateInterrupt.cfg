SPECIFICATION Spec
CONSTANTS
  Requesters = {t1, t2}
  Service = svc
  NoThread = NoThread
  MaxKernel = 1
  MaxExec = 2
  MaxPrompt = 0
  Requests <- ControlRequests
  SignalMayFail = FALSE
  ShutdownMayFail = FALSE
  CleanupMayFail = FALSE
PROPERTY InterruptNeverFallsThrough
