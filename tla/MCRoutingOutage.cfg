CONSTANTS
  Requests = {q1}
  CacheTTL = 2
  MaxStale = 3
  MaxVersion = 1
  MaxClock = 4
  None = None
SPECIFICATION Spec
INVARIANT
  OutageWithinWindow
CHECK_DEADLOCK FALSE
