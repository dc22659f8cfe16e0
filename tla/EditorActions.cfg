SPECIFICATION FairSpec
CONSTANTS
  Editor = {e1}
  NoEditor = NoEditor
  Size = 2
  MaxLink = 3
  MaxRecord = 2
INVARIANT TypeOK
INVARIANT OutcomeIsHonest
INVARIANT AppliedOnce
INVARIANT ConnectedIsReachable
PROPERTY SubmitIsAnswered
CHECK_DEADLOCK FALSE
