SPECIFICATION Spec
CONSTANTS
  RcPeriod = 2
  LinkPeriod = 3
  SourceTimeout = 2
  TimeoutAction = "stop"
  LossPolicies = {"stop", "failsafe"}
  ReconnectDelay = 2
  OpenTime = 1
  MaxGap = 2
  MaxTime = 6
  MaxWaiting = 2
  MaxControls = 1
INVARIANTS SourceLossSeen FramesOfOneConnection
PROPERTY RcRateBounded
\* The clock is bounded: the model stops at MaxTime.
CHECK_DEADLOCK FALSE
