SPECIFICATION Spec
CONSTANTS
  None = None
  Gone = Gone
  u1 = u1
  u2 = u2
  u3 = u3
  w1 = w1
  w2 = w2
  w3 = w3
  p1 = p1
  p2 = p2
  p3 = p3
  p4 = p4
  p5 = p5
  b1 = b1
  b2 = b2
  t1 = t1
  t2 = t2
  f1 = f1
  f2 = f2
  Users = {u1, u2, u3}
  Workspaces = {w1, w2, w3}
  Pages = {p1, p2, p3, p4, p5}
  Blocks = {b1, b2}
  TaskIds = {t1, t2}
  Files = {f1, f2}
  Templates = {x1, x2}
  Slots = {r1, r2}
  MaxCalls = 3
  MaxTemplates = 1
  Quota = 2
  BuiltIn = {}
  Start <- SmallStart
SYMMETRY Interchangeable
INVARIANT
  EndedBeforeGone
\* Calls are bounded: behaviours do end.
CHECK_DEADLOCK FALSE
