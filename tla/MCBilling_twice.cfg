SPECIFICATION Spec
CONSTANTS
  s1 = s1
  s2 = s2
  s3 = s3
  p1 = p1
  p2 = p2
  None = None
  Subs = {s1, s2}
  GatewayOf <- TwoCashfree
  Procs = {p1, p2}
  MaxTime = 1
  LastCharge = 1
  MaxFaults = 0
  Legacy = FALSE
SYMMETRY Interchangeable
CONSTRAINTS
  Uncrossed
  FewEvents
INVARIANTS
  AccessNeedsSubscription
  BillingGivesAccess
  BilledOnce
  CancelFlagIsTrue
PROPERTIES
  DuplicateLeavesOne
  CancelKeepsPaidPeriod
\* The clock, the charges and the failures are bounded: behaviours do end.
CHECK_DEADLOCK FALSE
