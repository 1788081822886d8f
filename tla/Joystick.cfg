SPECIFICATION Spec
CONSTANTS
  Radios = {TRUE, FALSE}
  Targets <- MCTargets
  NumAxes = 4
  Positions <- MCPositions
  MovedAxes = {1}
  MovedButtons = {4, 9}
  None = None
  MaxMoves = 2
  MaxInFlight = 2
  MaxOvertakes = 1
INVARIANTS FlipsArePresses FramesAreExact
CHECK_DEADLOCK FALSE
PROPERTY SticksArrive
