CONSTANTS
  Requests = {q1, q2}
  CacheTTL = 1
  MaxStale = 2
  MaxVersion = 2
  MaxClock = 5
  None = None
SPECIFICATION Spec
INVARIANTS
  TypeOK
  PublishedIsServed
  AnswersRecent
  OverrunBounded
PROPERTIES
  ViewKept
CHECK_DEADLOCK FALSE
