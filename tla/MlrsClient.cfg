SPECIFICATION Spec
CONSTANTS
  Values = {1, 2}
  Parts <- MCParts
  IndexLimit = 4
  ReadTries = 2
  DeadTime = 1
  Commands <- MCCommands
  Requests <- MCRequests
  None = None
  MaxRequests = 3
INVARIANTS ListComplete CacheFresh VerifiedMeansSet
PROPERTIES RunsOnlyIfGranted QuietAfterSave RequestEnds
\* The model stops after MaxRequests requests.
CHECK_DEADLOCK FALSE
