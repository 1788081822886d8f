SPECIFICATION ClockSpec
CONSTANTS
  Period = 3
  MaxPass = 7
  Horizon = 30
INVARIANTS DeadlineAhead NoBurst RateKept
\* The clock is bounded: the model stops at Horizon.
CHECK_DEADLOCK FALSE
