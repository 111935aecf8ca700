CONSTANTS
  Processes = {p1, p2}
  Users <- MCUsers
  Administrators <- MCAdministrators
  Codes = {c1}
  MaxUses = {2}
  Cooldown = 2
  FixedTimes = {TRUE, FALSE}
  MaxClock = 4
  MaxRequests = 3
  None = None
SYMMETRY MCSymmetry
SPECIFICATION Spec
INVARIANTS
  TypeOK
  PaidOnce
  CheckinsSpaced
  AdminRemains
CHECK_DEADLOCK FALSE
