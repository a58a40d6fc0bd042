SPECIFICATION Spec
CONSTANTS
  None = None
  TaskIds = {t1, t2}
  RequestIds = {q1}
  Editors = {e1, e2}
  Deciders = {d1, d2}
  MaxUpdates = 2
  MaxAccepts = 2
  MaxFaults = 1
SYMMETRY Interchangeable
INVARIANTS
  ExtraOccurrenceNeedsOverlap
  OneTaskPerRequest
  OnlyAcceptedIsWork
\* Ids, updates and accepts are bounded: behaviours do end.
CHECK_DEADLOCK FALSE
