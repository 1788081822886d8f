SPECIFICATION SessionSpec
CONSTANTS
  Kinds = {"set", "malformed", "overflow", "notText"}
  WriteTries = 2
  InboxSize = 2
  MaxRequests = 4
  Clients = {screen, shell}
  Popups = {screen}
  MaxAsks = 3
  OthersIn = 1
  screen = screen
  shell = shell
INVARIANTS OneReplyEach OwnReply FinishedMeansEnded LeftIdle
PROPERTY ReadsLetGo
\* The proxy is meant to end.
CHECK_DEADLOCK FALSE
