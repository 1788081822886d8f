SPECIFICATION Spec
CONSTANTS
  Values = {1, 2}
  Chunks = 2
  MaxAttempts = 2
  WriteTries = 2
  Steps = {"START", "CANCEL"}
  MaxRequests = 2
  Backlog = 0
INVARIANTS
  StepAppliedOnce OwnAnswersWithoutResend PartsConsecutive VerifiedMeansSet
PROPERTY RequestEnds
CHECK_DEADLOCK FALSE
