SPECIFICATION FairSpec
CONSTANTS
  e1 = e1
  e2 = e2
  h1 = h1
  h2 = h2
  None = None
  Events = {e1, e2}
  Handlers = {h1, h2}
  RetryDays = 1
  KeepDays = 1
  MaxDay = 3
  MaxFailures = 2
  MaxCrashes = 1
INVARIANTS
  OneAttemptAtATime
PROPERTIES
  ImplementsOnceEach
  FailedIsRetried
\* The calendar and the failures are bounded: behaviours do end.
CHECK_DEADLOCK FALSE
