SPECIFICATION Spec
CONSTANTS
  Period = 3
  LoopPeriod = 1
  MaxGap = 2
  WriteTimeout = 2
  StatusInterval = 4
  StatusPoll = TRUE
  Holds = {0, 6}
  SocketSize = 2
  MaxTime = 9
  MaxArrivals = 3
  MaxControl = 2
  MaxTimeouts = 1
INVARIANTS
  ForwardedOnceWhenHealthy AgeBoundedWhenHealthy SentInTime SentMeansWritten
  ControlOrdered ControlConserved StatusOnTime
PROPERTY ImplementsRegister
\* The clock is bounded: the model stops at MaxTime.
CHECK_DEADLOCK FALSE
