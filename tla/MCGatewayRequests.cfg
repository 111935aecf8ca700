CONSTANTS
  r1 = r1
  r2 = r2
  Requests = {r1, r2}
  TargetCount = 2
  WindowCount = 2
  Length <- MCLength
  Limit <- MCLimit
  EjectionBase = 1
  EjectionMaximum = 1
  EjectionThreshold = 2
  MaxFailures = 2
  MaxClock = 2
  MaxResends = 1
  MaxEvents = 1
  None = None
SYMMETRY MCSymmetry
SPECIFICATION Spec
INVARIANTS
  TypeOK
  WithinLimits
  ContactedOnce
PROPERTY
  GivesUpLast
CHECK_DEADLOCK FALSE
