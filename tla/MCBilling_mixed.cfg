SPECIFICATION Spec
CONSTANTS
  s1 = s1
  s2 = s2
  s3 = s3
  p1 = p1
  p2 = p2
  None = None
  Subs = {s1, s2, s3}
  GatewayOf <- StripePaypalRazorpay
  Procs = {p1}
  MaxTime = 1
  LastCharge = 1
  MaxFaults = 1
  Legacy = TRUE
CONSTRAINT OneBesidesPaypal
INVARIANTS
  NoAccessBeforePaying
  LifetimeKeepsPro
\* The clock, the charges and the failures are bounded: behaviours do end.
CHECK_DEADLOCK FALSE
