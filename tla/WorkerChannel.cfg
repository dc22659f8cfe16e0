SPECIFICATION FairSpec
CONSTANTS
  MaxRequest = 3
  MaxInterrupt = 2
INVARIANT TypeOK
INVARIANT InterruptHitsItsTarget
INVARIANT WorkerIsFree
INVARIANT AnswersAreExpected
INVARIANT FencedIsDead
PROPERTY CallsEnd
PROPERTY OwnerLossEndsWorker
CHECK_DEADLOCK FALSE
