SPECIFICATION Spec
CONSTANTS
  Client = {c1, c2}
  NoClient = NoClient
  Terminal = {c1}
  Working = {c1}
  Interruptible = {c1}
  MaxKernel = 2
  StopMayFail = TRUE
  SurfaceMayFail = TRUE
  MaxBusy = 3
CONSTRAINT FewAtOnce
INVARIANT TypeOK
INVARIANT NoWorkerEscapes
INVARIANT RetiredIsDead
INVARIANT WorkersGoWithKernel
INVARIANT CloseCutsWork
CHECK_DEADLOCK FALSE
