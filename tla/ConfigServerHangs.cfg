SPECIFICATION Spec
CONSTANTS
  Kinds = {"read", "step", "set", "malformed", "refused", "overflow", "notText"}
  WriteTries = 3
  InboxSize = 2
  MaxRequests = 1
PROPERTY ShutdownEnds
\* The proxy is meant to end.
CHECK_DEADLOCK FALSE
