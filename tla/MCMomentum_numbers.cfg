SPECIFICATION Spec
CONSTANTS
  u1 = u1
  u2 = u2
  t1 = t1
  t2 = t2
  None = None
  Users = {u1, u2}
  TaskIds = {t1, t2}
  UTC <- Utc
  Views <- FourZones
  DueIn <- Tomorrow
  DoneIn <- ThreeDaysAgo
  Every <- SomeEvery
  MaxCalls = 3
SYMMETRY Interchangeable
INVARIANTS
  ChartAddsUp
  SameNumbersEverywhere
  PreviousIsWhatItWas
  DigestMatchesMomentum
\* The moments and the calls are bounded: behaviours do end.
CHECK_DEADLOCK FALSE
