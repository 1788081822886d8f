SPECIFICATION Spec
CONSTANTS
  Long = Long
  Short = Short
  None = None
  Modules = {Long, Short}
  Names <- MCNames
  Wanted = {"Rate", "Bind", "Mode"}
  Numbers = {1, 3}
  MaxRequests = 4
  MaxChanges = 2
INVARIANTS UndisturbedServed NamedActedOn
\* The model stops after MaxRequests requests.
CHECK_DEADLOCK FALSE
