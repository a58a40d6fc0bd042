SPECIFICATION Spec
CONSTANTS
  u1 = u1
  s1 = s1
  s2 = s2
  c1 = c1
  k1 = k1
  r1 = r1
  r2 = r2
  None = None
  Users = {u1}
  Ids = {s1, s2}
  Codes = {c1}
  Sockets = {k1}
  Slots = {r1, r2}
  MaxCalls = 4
  MaxCrashes = 1
INVARIANTS
  EndedSessionsAreRefused
  OnlyReplayCuts
  RetryIsAnswered
  SocketsAreSignedIn
SYMMETRY Interchangeable
\* The calls are bounded: behaviours do end.
CHECK_DEADLOCK FALSE
