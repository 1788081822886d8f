SPECIFICATION Spec
CONSTANTS
  Values = {1, 2}
  Chunks = 2
  MaxAttempts = 2
  WriteTries = 2
  Steps = {"START", "CANCEL"}
  MaxRequests = 1
  Backlog = 0
INVARIANT StepAnsweredByItself
CHECK_DEADLOCK FALSE
