SPECIFICATION Spec
CONSTANTS
  ann = ann
  bob = bob
  cid = cid
  r1 = r1
  r2 = r2
  None = None
  Here = Here
  Elsewhere = Elsewhere
  Users = {ann, bob, cid}
  Creator = ann
  Plans = {"free", "studio"}
  Seats <- TwoPlans
  InviteRoles = {"editor"}
  Slots = {r1, r2}
  MaxCalls = 5
INVARIANTS
  SeatsWithinPlan
  OwnerHoldsOwnerRow
  RoomsAreReadable
PROPERTIES
  TurnedAwayStaysOut
SYMMETRY Others
\* The calls are bounded: behaviours do end.
CHECK_DEADLOCK FALSE
