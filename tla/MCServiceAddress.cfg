CONSTANTS
  o1 = o1
  o2 = o2
  t1 = t1
  t2 = t2
  a1 = a1
  a2 = a2
  a3 = a3
  Operations = {o1, o2}
  Targets = {t1, t2}
  Addresses = {a1, a2, a3}
  FirstAddress <- MCFirstAddress
  Values = {v1, v2}
  Contracts = {c1, c2}
  MaxRevision = 2
  MaxChanges = 1
  FirstContract = c1
  c1 = c1
  None = None
SYMMETRY MCSymmetry
SPECIFICATION Spec
PROPERTY
  EntersWhenReached
CHECK_DEADLOCK FALSE
