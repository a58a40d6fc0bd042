SPECIFICATION Spec
CONSTANTS
  None = None
  Users = {u1, u2}
  Clients = {w1, w2}
  Page = w1
  Plans = {"free", "studio"}
  ClientLimit <- Limits
  Milestones = {m1, m2}
  Words = {a, b}
  Emails = {s1}
  Instances = {i1, i2}
  Slots = {r1, r2}
  MaxCalls = 4
  Gap = 1
  MaxDay = 3
SYMMETRY Interchangeable
INVARIANTS
  ClientsWithinPlan
  ApprovedWordsStand
  OneMailAWeek
\* Calls, ids and days are bounded: behaviours do end.
CHECK_DEADLOCK FALSE
