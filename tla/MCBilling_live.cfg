SPECIFICATION FairSpec
CONSTANTS
  s1 = s1
  s2 = s2
  s3 = s3
  p1 = p1
  p2 = p2
  None = None
  Subs = {s1}
  GatewayOf <- OneCashfree
  Procs = {p1}
  MaxTime = 3
  LastCharge = 2
  MaxFaults = 1
  Legacy = FALSE
PROPERTIES
  AccessEnds
  PayingIsServed
\* The clock, the charges and the failures are bounded: behaviours do end.
CHECK_DEADLOCK FALSE
