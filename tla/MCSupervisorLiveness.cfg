SPECIFICATION FairSpec
CONSTANTS
  Requesters = {t1, t2}
  Service = svc
  NoThread = NoThread
  MaxKernel = 2
  MaxExec = 1
  MaxPrompt = 1
  Requests <- LivenessRequests
  SignalMayFail = FALSE
  ShutdownMayFail = FALSE
  CleanupMayFail = FALSE
INVARIANT NoOrphan
INVARIANT OneProcess
PROPERTY ImplementsKernelGenerations
PROPERTY TeardownTakesEffect
PROPERTY DeathIsObserved
PROPERTY DeathEndsExecution
