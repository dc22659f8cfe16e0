SPECIFICATION Spec
CONSTANTS
  Requesters = {t1, t2}
  Service = svc
  NoThread = NoThread
  MaxKernel = 1
  MaxExec = 1
  MaxPrompt = 0
  Requests <- ProbeRequests
  SignalMayFail = FALSE
  ShutdownMayFail = FALSE
  CleanupMayFail = FALSE
INVARIANT DeathRetiresDependents
