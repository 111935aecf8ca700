CONSTANTS
  p1 = p1
  p2 = p2
  u1 = u1
  u2 = u2
  t1 = t1
  t2 = t2
  t3 = t3
  None = None
  Publishers <- MCPublishers
  Routes <- MCRoutes
  SupportRoutes <- MCSupportRoutes
  Upstreams <- MCUpstreams
  Targets <- MCTargets
  TargetsOf <- MCTargetsOf
  Domains <- MCDomains
  InitialRevisions <- MCInitialRevisions
  Requests <- MCRequests
  MaxRevisions = 3
SPECIFICATION Spec
SYMMETRY MCSymmetry
INVARIANTS
  TypeOK
  ActiveRevisionLoads
  DomainAgrees
  EveryRouteReachable
  IdsNeverDecide
PROPERTIES
  PublicationIsCurrent
  RoutedUpstreamStays
CHECK_DEADLOCK FALSE
