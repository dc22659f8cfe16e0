SPECIFICATION Spec
CONSTANTS
  Requesters = {t1, t2}
  Service = svc
  NoThread = NoThread
  MaxKernel = 1
  MaxExec = 2
  MaxPrompt = 2
  Requests <- AllRequests
  SignalMayFail = TRUE
  ShutdownMayFail = TRUE
  CleanupMayFail = TRUE
SYMMETRY ThreadSymmetry
CONSTRAINT FewBesideClose
INVARIANT LaneInvariant
INVARIANT ActiveHasRunner
INVARIANT NoStateEventLost
INVARIANT RepliesReachTheirPrompt
INVARIANT InterruptedGotSignal
INVARIANT RuntimesDoNotOverlap
