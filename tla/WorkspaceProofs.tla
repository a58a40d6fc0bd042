--------------------------- MODULE WorkspaceProofs ---------------------------
(* Proofs about Workspace, for any number of people, requests and plans.        *)
EXTENDS Workspace, FiniteSetTheorems, TLAPS

(* What a request under way has read and carries. *)
ReqOK(q) ==
  /\ q.op \in {"invite", "accept", "role"} /\ q.pc = "write" => q.role \in InviteRoles
  /\ q.op \in Rechecking /\ q.pc = "write" => q.whom # q.owner
  /\ q.op = "join" => q.pc = "write" /\ q.page \in Pages
  /\ q.pc = "recheck" => q.page \in Pages
  /\ q.pc \in {"look", "recheck"} => q.op \in Rechecking

Typed == TypeOK /\ \A r \in Slots : reqs[r] # Idle => ReqOK(reqs[r])

\* A request that is somewhere is a request, not the idle record.
LEMMA Underway ==
  ASSUME TypeOK, NEW r \in Slots, reqs[r].pc # "idle"
  PROVE  reqs[r] \in Request /\ reqs[r] # Idle
BY DEF TypeOK, Idle

LEMMA IdleIsIdle == Idle.pc = "idle" /\ Idle.op = None /\ Idle.whom = None
BY DEF Idle

\* Starting a request keeps the types, whatever the request.
LEMMA CallTyped ==
  ASSUME Typed, NEW r \in Slots, NEW op \in Ops, NEW u \in Users,
         NEW as \in InviteRoles \cup {None}, NEW p \in Pages \cup {None},
         Call(r, op, u, as, p), crossed' \subseteq Users,
         op \in {"invite", "accept", "role"} => as \in InviteRoles,
         op \in Rechecking => u # owner, op = "join" => p \in Pages
  PROVE  Typed'
<1> DEFINE q == [pc |-> "write", op |-> op, whom |-> u, role |-> as,
                 owner |-> owner, plan |-> plan[owner], page |-> p]
<1>1. q \in Request
  BY DEF Typed, TypeOK, Request
<1>2. ReqOK(q)
  BY DEF ReqOK
<1>3. reqs' = [reqs EXCEPT ![r] = q] /\ reqs \in [Slots -> Request \cup {Idle}]
  BY DEF Call, Typed, TypeOK
<1>4. TypeOK'
  <2>1. calls' \in 0 .. MaxCalls
    BY WorkspaceAssumption DEF Call, Typed, TypeOK
  <2>2. reqs' \in [Slots -> Request \cup {Idle}]
    BY <1>1, <1>3
  <2> QED
    BY <2>1, <2>2 DEF Call, Typed, TypeOK, dbVars, roomVars, RoomsTypeOK
<1>5. \A s \in Slots : reqs'[s] # Idle => ReqOK(reqs'[s])
  BY <1>2, <1>3 DEF Typed
<1> QED
  BY <1>4, <1>5 DEF Typed, ReqOK, Idle, Rechecking, Pages

\* So does moving a request on, or ending it, when the tables stay typed.
LEMMA MoveTyped ==
  ASSUME Typed, NEW r \in Slots, NEW q \in Request \cup {Idle},
         reqs' = [reqs EXCEPT ![r] = q], q # Idle => ReqOK(q),
         plan' = plan, owner' \in Users, role' \in [Users -> Roles \cup {None}],
         invite' \in [Users -> Invite], calls' = calls, most' \in Nat, stale' \in BOOLEAN,
         refused' \subseteq Users, late' \subseteq Slots, crossed' = crossed, RoomsTypeOK'
  PROVE  Typed'
<1>1. TypeOK'
  BY DEF Typed, TypeOK, RoomsTypeOK
<1>2. \A s \in Slots : reqs'[s] # Idle => ReqOK(reqs'[s])
  BY DEF Typed, TypeOK
<1> QED
  BY <1>1, <1>2 DEF Typed, ReqOK, Idle, Rechecking, Pages

\* What a continuing request is, and what its end and its recheck make of it.
LEMMA Continuing ==
  ASSUME Typed, NEW r \in Slots, reqs[r].pc # "idle"
  PROVE  /\ reqs[r] \in Request /\ ReqOK(reqs[r])
         /\ Done(r) => reqs' = [reqs EXCEPT ![r] = Idle]
         /\ \A pc \in {"write", "look", "recheck"}, u \in Users, p \in Pages \cup {None} :
              [reqs[r] EXCEPT !.pc = pc, !.whom = u, !.page = p] \in Request
<1>1. reqs[r] \in Request /\ reqs[r] # Idle
  BY Underway DEF Typed
<1>2. ReqOK(reqs[r])
  BY <1>1 DEF Typed
<1> QED
  BY <1>1, <1>2 DEF Done, Request

\* Every state is typed, and what requests carry is what they may carry.
LEMMA TypedStep == Typed /\ [Next]_vars => Typed'
<1> SUFFICES ASSUME Typed, [Next]_vars PROVE Typed'
  OBVIOUS
<1> USE WorkspaceAssumption
<1>1. CASE UNCHANGED vars
  BY <1>1 DEF vars, dbVars, Typed, TypeOK, RoomsTypeOK, ReqOK, Idle, Rechecking, Pages
<1>2. ASSUME NEW r \in Slots, NEW u \in Users, Starts(r, u) PROVE Typed'
  <2>1. ASSUME NEW op \in Ops, NEW as \in InviteRoles \cup {None}, Start(r, op, u, as),
               op \in {"invite", "accept", "role"} => as \in InviteRoles,
               op \in Rechecking => u # owner, op # "join"
        PROVE  Typed'
    <3>1. crossed' \subseteq Users
      BY <2>1 DEF Start, Call, Touches, Typed, TypeOK
    <3> QED
      BY <2>1, <3>1, CallTyped DEF Start
  <2>2. ASSUME NEW as \in InviteRoles, InviteStart(r, u, as) \/ RoleStart(r, u, as) PROVE Typed'
    BY <2>1, <2>2 DEF InviteStart, RoleStart, Ops, Rechecking
  <2>3. CASE ResendStart(r, u) \/ RevokeStart(r, u) \/ DeclineStart(r, u)
    BY <2>1, <2>3 DEF ResendStart, RevokeStart, DeclineStart, Ops, Rechecking
  <2>4. CASE RemoveStart(r, u) \/ TransferStart(r, u) \/ LeaveStart(r, u)
    BY <2>1, <2>4 DEF RemoveStart, TransferStart, LeaveStart, Ops, Rechecking
  <2>5. CASE AcceptStart(r, u)
    <3>1. invite[u].role \in InviteRoles
      BY DEF Typed, TypeOK, Invite
    <3> QED
      BY <2>1, <2>5, <3>1 DEF AcceptStart, Ops, Rechecking
  <2>6. ASSUME NEW p \in Pages, JoinStart(r, u, p) PROVE Typed'
    <3>1. Call(r, "join", u, None, p) /\ crossed' \subseteq Users
      BY <2>6 DEF JoinStart, Typed, TypeOK
    <3> QED
      BY <3>1, CallTyped DEF Ops, Rechecking
  <2> QED
    BY <1>2, <2>2, <2>3, <2>4, <2>5, <2>6 DEF Starts
<1>3. ASSUME NEW r \in Slots, Continue(r) PROVE Typed'
  <2> DEFINE q == reqs[r]
  <2>1. q.pc # "idle"
    BY <1>3 DEF Continue, Doing, InviteWrite, ResendWrite, RevokeWrite, AcceptWrite, DeclineWrite,
                RoleWrite, RemoveWrite, TransferWrite, JoinWrite, RecheckLook, RecheckEnd
  <2>2. /\ q \in Request /\ ReqOK(q)
        /\ q.whom \in Users /\ q.owner \in Users /\ q.plan \in Plans
        /\ "editor" \in Roles /\ "owner" \in Roles
    BY <2>1, Continuing DEF Request, Roles
  <2>3. /\ plan \in [Users -> Plans] /\ owner \in Users /\ role \in [Users -> Roles \cup {None}]
        /\ invite \in [Users -> Invite] /\ most \in Nat /\ stale \in BOOLEAN
        /\ refused \subseteq Users /\ late \subseteq Slots /\ RoomsTypeOK
    BY DEF Typed, TypeOK
  <2>4. ASSUME Nothing(r), Aside, late' \subseteq Slots PROVE Typed'
    BY <2>3, <2>4, MoveTyped DEF Nothing, Done, Aside, dbVars, roomVars, RoomsTypeOK
  <2>5. CASE InviteWrite(r)
    <3>1. CASE Nothing(r)
      BY <2>3, <2>4, <2>5, <3>1 DEF InviteWrite, Outside
    <3>2. CASE ~Nothing(r)
      <4> DEFINE row == [status |-> "pending", fresh |-> TRUE, role |-> q.role]
      <4>1. row \in Invite
        BY <2>2, <2>5 DEF InviteWrite, Doing, ReqOK, Invite, Statuses
      <4>2. invite' = [invite EXCEPT ![q.whom] = row]
        BY <2>5, <3>2 DEF InviteWrite
      <4>3. invite' \in [Users -> Invite]
        BY <2>3, <4>1, <4>2
      <4> QED
        BY <2>3, <2>5, <3>2, <4>3, MoveTyped DEF InviteWrite, Done, Outside, Aside, roomVars, RoomsTypeOK
    <3> QED
      BY <3>1, <3>2
  <2>6. CASE ResendWrite(r)
    <3>1. invite' \in [Users -> Invite] /\ refused' \subseteq Users /\ late' \subseteq Slots
      BY <2>2, <2>3, <2>6 DEF ResendWrite, Undo, Invite, Statuses
    <3> QED
      BY <2>3, <2>6, <3>1, MoveTyped DEF ResendWrite, Done, Aside, roomVars, RoomsTypeOK
  <2>7. ASSUME NEW status \in Statuses, TurnAway(r, q.whom, status) PROVE Typed'
    <3>1. invite' \in [Users -> Invite] /\ refused' \subseteq Users /\ late' \subseteq Slots
      BY <2>2, <2>3, <2>7 DEF TurnAway, Invite
    <3> QED
      BY <2>3, <2>7, <3>1, MoveTyped DEF TurnAway, Done, Aside, roomVars, RoomsTypeOK
  <2>8. CASE RevokeWrite(r) \/ DeclineWrite(r)
    BY <2>7, <2>8 DEF RevokeWrite, DeclineWrite, Statuses
  <2>9. CASE AcceptWrite(r)
    <3>1. CASE Nothing(r)
      BY <2>3, <2>4, <2>9, <3>1 DEF AcceptWrite
    <3>2. CASE ~Nothing(r)
      <4>1. invite' \in [Users -> Invite] /\ refused' \subseteq Users /\ late' \subseteq Slots
        BY <2>2, <2>3, <2>9, <3>2 DEF AcceptWrite, Undo, Invite, Statuses
      <4>2. role' \in [Users -> Roles \cup {None}]
        BY <2>2, <2>3, <2>9, <3>2 DEF AcceptWrite, Doing, ReqOK, Roles
      <4>3. reqs' = [reqs EXCEPT ![r] = Idle] /\ Idle \in Request \cup {Idle}
        BY <2>9, <3>2 DEF AcceptWrite, Done
      <4>4. plan' = plan /\ owner' = owner /\ calls' = calls /\ most' = most /\ stale' = stale
        BY <2>9, <3>2 DEF AcceptWrite, Aside
      <4>5. crossed' = crossed /\ RoomsTypeOK'
        BY <2>3, <2>9 DEF AcceptWrite, Aside, roomVars, RoomsTypeOK
      <4> QED
        BY <2>3, <4>1, <4>2, <4>3, <4>4, <4>5, MoveTyped
    <3> QED
      BY <3>1, <3>2
  <2>10. ASSUME Recheck(r), q.op \in Rechecking, Outside, plan' = plan, owner' = owner, invite' = invite,
                most' = most, stale' \in BOOLEAN, refused' = refused, role' \in [Users -> Roles \cup {None}]
         PROVE  Typed'
    <3> DEFINE n == [q EXCEPT !.pc = "look"]
    <3>1. n \in Request /\ ReqOK(n) /\ reqs' = [reqs EXCEPT ![r] = n]
      BY <2>2, <2>10 DEF Recheck, Request, ReqOK, Typed, TypeOK, Rechecking
    <3> QED
      BY <2>3, <2>10, <3>1, MoveTyped DEF Outside, Aside, roomVars, RoomsTypeOK
  <2>11. CASE RoleWrite(r)
    <3>1. CASE Nothing(r)
      BY <2>3, <2>4, <2>11, <3>1 DEF RoleWrite, Outside
    <3>2. CASE ~Nothing(r)
      <4>1. role' \in [Users -> Roles \cup {None}]
        BY <2>2, <2>3, <2>11, <3>2 DEF RoleWrite, Doing, ReqOK, Roles
      <4> QED
        BY <2>3, <2>10, <2>11, <3>2, <4>1 DEF RoleWrite, Doing, Rechecking, Stale
    <3> QED
      BY <3>1, <3>2
  <2>12. CASE RemoveWrite(r)
    <3>1. CASE Nothing(r)
      BY <2>3, <2>4, <2>12, <3>1 DEF RemoveWrite, Outside
    <3>2. CASE ~Nothing(r)
      <4>1. role' \in [Users -> Roles \cup {None}]
        BY <2>2, <2>3, <2>12, <3>2 DEF RemoveWrite
      <4> QED
        BY <2>3, <2>10, <2>12, <3>2, <4>1 DEF RemoveWrite, Doing, Rechecking, Stale
    <3> QED
      BY <3>1, <3>2
  <2>13. CASE TransferWrite(r)
    <3>1. CASE Nothing(r)
      BY <2>3, <2>4, <2>13, <3>1 DEF TransferWrite, Outside
    <3>2. CASE ~Nothing(r)
      <4> DEFINE n == [q EXCEPT !.pc = "look", !.whom = q.owner]
      <4>1. n \in Request /\ ReqOK(n) /\ reqs' = [reqs EXCEPT ![r] = n]
        BY <2>2, <2>13, <3>2 DEF TransferWrite, Doing, Request, ReqOK, Typed, TypeOK, Rechecking
      <4>2. role' \in [Users -> Roles \cup {None}]
        BY <2>2, <2>3, <2>13, <3>2 DEF TransferWrite
      <4>3. most' \in Nat /\ stale' \in BOOLEAN /\ owner' \in Users
        BY <2>2, <2>3, <2>13, <3>2 DEF TransferWrite, Larger, Stale
      <4> QED
        BY <2>3, <2>13, <3>2, <4>1, <4>2, <4>3, MoveTyped DEF TransferWrite, Outside, Aside, roomVars, RoomsTypeOK
    <3> QED
      BY <3>1, <3>2
  <2>14. CASE JoinWrite(r)
    <3>1. RoomsTypeOK'
      BY <2>2, <2>3, <2>14 DEF JoinWrite, Doing, ReqOK, Enter, RoomsTypeOK
    <3> QED
      BY <2>3, <2>14, <3>1, MoveTyped DEF JoinWrite, Done, dbVars
  <2>15. CASE RecheckLook(r)
    <3>1. CASE Done(r)
      BY <2>3, <2>15, <3>1, MoveTyped DEF RecheckLook, Done, dbVars, roomVars, RoomsTypeOK
    <3>2. CASE ~Done(r)
      <4> DEFINE n == [q EXCEPT !.pc = "recheck", !.page = page[q.whom]]
      <4>1. page[q.whom] \in Pages
        BY <2>2, <2>3, <2>15, <3>2 DEF RecheckLook, RoomsTypeOK
      <4>2. n \in Request /\ ReqOK(n) /\ reqs' = [reqs EXCEPT ![r] = n]
        BY <2>2, <2>15, <3>2, <4>1 DEF RecheckLook, Request, ReqOK, Typed, TypeOK, Rechecking
      <4> QED
        BY <2>3, <2>15, <4>2, MoveTyped DEF RecheckLook, dbVars, roomVars, RoomsTypeOK
    <3> QED
      BY <3>1, <3>2
  <2>16. CASE RecheckEnd(r)
    <3>1. RoomsTypeOK'
      BY <2>2, <2>3, <2>16 DEF RecheckEnd, Evict, RoomsTypeOK, roomVars
    <3> QED
      BY <2>3, <2>16, <3>1, MoveTyped DEF RecheckEnd, Done, dbVars
  <2> QED
    BY <1>3, <2>5, <2>6, <2>8, <2>9, <2>11, <2>12, <2>13, <2>14, <2>15, <2>16 DEF Continue
<1>4. ASSUME NEW u \in Users, Expires(u) PROVE Typed'
  BY <1>4 DEF Expires, Typed, TypeOK, Invite, roomVars, RoomsTypeOK, ReqOK, Idle, Rechecking, Pages
<1>5. ASSUME NEW u \in Users, NEW p \in Pages, Leaves(u, p) PROVE Typed'
  BY <1>5 DEF Leaves, LeavePage, dbVars, Typed, TypeOK, RoomsTypeOK, ReqOK, Idle, Rechecking, Pages
<1>6. ASSUME NEW u \in Users, NEW p \in Plans, PlanChanges(u, p) PROVE Typed'
  BY <1>6 DEF PlanChanges, Larger, Typed, TypeOK, roomVars, RoomsTypeOK, ReqOK, Idle, Rechecking, Pages
<1> QED
  BY <1>1, <1>2, <1>3, <1>4, <1>5, <1>6 DEF Next

LEMMA TypedInit == Init => Typed
<1> SUFFICES ASSUME Init PROVE Typed
  OBVIOUS
<1> USE WorkspaceAssumption
<1>1. plan[Creator] \in Plans /\ Seats[plan[Creator]] \in Nat
  BY DEF Init
<1>2. role \in [Users -> Roles \cup {None}] /\ invite \in [Users -> Invite]
  BY DEF Init, Roles, Invite, Statuses
<1>3. reqs \in [Slots -> Request \cup {Idle}] /\ calls \in 0 .. MaxCalls
  BY DEF Init
<1>4. RoomsTypeOK
  BY DEF Init, RoomsInit, RoomsTypeOK
<1>5. TypeOK
  BY <1>1, <1>2, <1>3, <1>4 DEF Init, TypeOK
<1> QED
  BY <1>5 DEF Init, Typed

\* The types of the workspace's state.
THEOREM TypeCorrect == Spec => []TypeOK
<1>1. Spec => []Typed
  BY TypedInit, TypedStep, PTL DEF Spec
<1>2. Typed => TypeOK
  BY DEF Typed
<1> QED
  BY <1>1, <1>2, PTL

-----------------------------------------------------------------------------
(* Seats. A request counts against the plan it read, which may be another by    *)
(* now: all of them are bounded by the most the workspace has had.              *)
SeatInv ==
  /\ Cardinality(Members) <= most
  /\ Seats[plan[owner]] <= most
  /\ \A r \in Slots : reqs[r] # Idle => Seats[reqs[r].plan] <= most

LEMMA MembersFinite ==
  ASSUME TypeOK
  PROVE  IsFiniteSet(Members) /\ Cardinality(Members) \in Nat
BY WorkspaceAssumption, FS_Subset, FS_CardinalityType DEF Members

\* No more members, and no fewer seats.
LEMMA NoMoreMembers ==
  ASSUME TypeOK, TypeOK', Cardinality(Members) <= most, Members' \subseteq Members, most <= most'
  PROVE  Cardinality(Members') <= most'
<1>1. IsFiniteSet(Members) /\ Cardinality(Members) \in Nat
  BY MembersFinite
<1>2. Cardinality(Members') \in Nat /\ Cardinality(Members') <= Cardinality(Members)
  BY <1>1, FS_Subset, FS_CardinalityType
<1> QED
  BY <1>1, <1>2 DEF TypeOK

LEMMA SeatStep == Typed /\ Typed' /\ SeatInv /\ [Next]_vars => SeatInv'
<1> SUFFICES ASSUME Typed, Typed', SeatInv, [Next]_vars PROVE SeatInv'
  OBVIOUS
<1> USE WorkspaceAssumption
<1>1. /\ TypeOK /\ TypeOK' /\ most \in Nat /\ most' \in Nat
      /\ \A p \in Plans : Seats[p] \in Nat
      /\ \A u \in Users : plan[u] \in Plans
  BY DEF Typed, TypeOK
<1>2. \A r \in Slots : reqs[r].pc # "idle" =>
        reqs[r] \in Request /\ Seats[reqs[r].plan] <= most /\ reqs[r].plan \in Plans
  BY <1>1, Underway DEF SeatInv, Request
\* What most steps do: the plans stay, nobody joins, requests keep the plan they read.
<1>3. ASSUME Members' \subseteq Members, most <= most', Seats[plan'[owner']] <= most',
             \A r \in Slots : reqs'[r] # Idle =>
               \/ reqs[r].pc # "idle" /\ reqs'[r].plan = reqs[r].plan
               \/ reqs'[r].plan = plan[owner]
      PROVE  SeatInv'
  <2>1. Cardinality(Members') <= most'
    BY <1>1, <1>3, NoMoreMembers DEF SeatInv
  <2>2. \A r \in Slots : reqs'[r] # Idle => Seats[reqs'[r].plan] <= most'
    BY <1>1, <1>2, <1>3 DEF SeatInv, TypeOK
  <2> QED
    BY <1>3, <2>1, <2>2 DEF SeatInv, Idle
<1>4. ASSUME role' = role, plan' = plan, owner' = owner, most' = most,
             \A r \in Slots : reqs'[r] # Idle =>
               \/ reqs[r].pc # "idle" /\ reqs'[r].plan = reqs[r].plan
               \/ reqs'[r].plan = plan[owner]
      PROVE  SeatInv'
  BY <1>1, <1>3, <1>4 DEF Members, SeatInv
<1>5. \A r \in Slots : reqs[r] # Idle <=> reqs[r].pc # "idle"
  BY <1>1 DEF TypeOK, Request, Idle
<1>6. CASE UNCHANGED vars
  BY <1>4, <1>5, <1>6 DEF vars, dbVars
<1>7. ASSUME NEW r \in Slots, NEW u \in Users, Starts(r, u) PROVE SeatInv'
  <2>1. \E op \in Ops, as \in InviteRoles \cup {None}, p \in Pages \cup {None} : Call(r, op, u, as, p)
    <3>1. invite[u].role \in InviteRoles
      BY <1>1 DEF TypeOK, Invite
    <3> QED
      BY <1>7, <3>1 DEF Starts, InviteStart, RoleStart, ResendStart, RevokeStart, RemoveStart,
         TransferStart, AcceptStart, DeclineStart, LeaveStart, JoinStart, Start, Ops, Rechecking
  <2>2. PICK op \in Ops, as \in InviteRoles \cup {None}, p \in Pages \cup {None} : Call(r, op, u, as, p)
    BY <2>1
  <2> DEFINE q == [pc |-> "write", op |-> op, whom |-> u, role |-> as,
                   owner |-> owner, plan |-> plan[owner], page |-> p]
  <2>3. \A s \in Slots : reqs'[s] = IF s = r THEN q ELSE reqs[s]
    BY <1>1, <2>2 DEF Call, TypeOK
  <2>4. role' = role /\ plan' = plan /\ owner' = owner /\ most' = most
    BY <2>1 DEF Call, dbVars
  <2> QED
    BY <1>4, <1>5, <2>3, <2>4
<1>8. ASSUME NEW r \in Slots, Continue(r) PROVE SeatInv'
  <2> DEFINE q == reqs[r]
  <2>1. q.pc # "idle"
    BY <1>8 DEF Continue, Doing, InviteWrite, ResendWrite, RevokeWrite, AcceptWrite, DeclineWrite,
                RoleWrite, RemoveWrite, TransferWrite, JoinWrite, RecheckLook, RecheckEnd
  <2>2. q \in Request /\ q.whom \in Users /\ q.owner \in Users /\ q.plan \in Plans
    BY <1>2, <2>1 DEF Request
  <2>3. ASSUME Done(r) \/ Recheck(r) PROVE \A s \in Slots : reqs'[s] # Idle =>
                  reqs[s].pc # "idle" /\ reqs'[s].plan = reqs[s].plan
    BY <1>1, <1>5, <2>1, <2>2, <2>3 DEF Done, Recheck, TypeOK, Request
  <2>4. CASE role' = role /\ plan' = plan /\ owner' = owner /\ most' = most /\ (Done(r) \/ Recheck(r))
    BY <1>4, <2>3, <2>4
  <2>5. CASE InviteWrite(r) \/ ResendWrite(r) \/ RevokeWrite(r) \/ DeclineWrite(r)
             \/ JoinWrite(r) \/ RecheckEnd(r)
    BY <2>4, <2>5 DEF InviteWrite, ResendWrite, RevokeWrite, DeclineWrite, TurnAway, JoinWrite,
                      RecheckEnd, Nothing, dbVars
  <2>6. CASE RecheckLook(r)
    <3>1. \A s \in Slots : reqs'[s] # Idle => reqs[s].pc # "idle" /\ reqs'[s].plan = reqs[s].plan
      BY <1>1, <1>5, <2>1, <2>2, <2>6 DEF RecheckLook, Done, TypeOK, Request
    <3> QED
      BY <1>4, <2>6, <3>1 DEF RecheckLook, dbVars
  <2>7. CASE RoleWrite(r) \/ RemoveWrite(r)
    <3>1. plan' = plan /\ owner' = owner /\ most' = most /\ (Done(r) \/ Recheck(r))
      BY <2>7 DEF RoleWrite, RemoveWrite, Nothing, dbVars
    <3>2. Members' \subseteq Members
      BY <1>1, <2>2, <2>7 DEF RoleWrite, RemoveWrite, Nothing, dbVars, Members, TypeOK
    <3> QED
      BY <1>1, <1>3, <2>3, <3>1, <3>2 DEF SeatInv
  <2>8. CASE TransferWrite(r)
    <3>1. CASE Nothing(r)
      BY <2>4, <2>8, <3>1 DEF Nothing, dbVars
    <3>2. CASE ~Nothing(r)
      <4>1. Members' \subseteq Members
        BY <1>1, <2>2, <2>8, <3>2 DEF TransferWrite, Members, TypeOK
      <4>2. most <= most' /\ Seats[plan'[owner']] <= most'
        BY <1>1, <2>2, <2>8, <3>2 DEF TransferWrite, Larger
      <4>3. \A s \in Slots : reqs'[s] # Idle => reqs[s].pc # "idle" /\ reqs'[s].plan = reqs[s].plan
        BY <1>1, <1>5, <2>1, <2>2, <2>8, <3>2 DEF TransferWrite, TypeOK, Request
      <4> QED
        BY <1>3, <4>1, <4>2, <4>3
    <3> QED
      BY <3>1, <3>2
  <2>9. CASE AcceptWrite(r)
    <3>1. plan' = plan /\ owner' = owner /\ most' = most /\ Done(r)
      BY <2>9 DEF AcceptWrite, Nothing, dbVars
    <3>2. CASE role[q.whom] # None \/ role' = role
      <4>1. Members' \subseteq Members
        BY <1>1, <2>2, <2>9, <3>2 DEF AcceptWrite, Nothing, dbVars, Members, TypeOK
      <4> QED
        BY <1>1, <1>3, <2>3, <3>1, <4>1 DEF SeatInv
    <3>3. CASE role[q.whom] = None /\ role' # role
      <4>1. Cardinality(Members) < Seats[q.plan] /\ Members' \subseteq Members \cup {q.whom}
        BY <1>1, <2>2, <2>9, <3>3 DEF AcceptWrite, Nothing, dbVars, Members, TypeOK
      <4>2. IsFiniteSet(Members) /\ Cardinality(Members) \in Nat
        BY <1>1, MembersFinite
      <4>8. q.whom \notin Members
        BY <3>3 DEF Members
      <4>9. /\ IsFiniteSet(Members \cup {q.whom})
            /\ Cardinality(Members \cup {q.whom}) = Cardinality(Members) + 1
        BY <4>2, <4>8, FS_AddElement, Zenon
      <4>3. IsFiniteSet(Members \cup {q.whom}) /\ Cardinality(Members \cup {q.whom}) <= Cardinality(Members) + 1
        BY <4>2, <4>9
      <4>4. Cardinality(Members') <= Cardinality(Members \cup {q.whom})
        BY <4>1, <4>3, FS_Subset
      <4>5. Cardinality(Members') \in Nat /\ Cardinality(Members \cup {q.whom}) \in Nat
        BY <1>1, <4>3, FS_CardinalityType, MembersFinite, FS_Subset, <4>1
      <4>6. Cardinality(Members') <= most
        BY <1>1, <1>2, <2>1, <2>2, <4>1, <4>2, <4>3, <4>4, <4>5
      <4>7. \A s \in Slots : reqs'[s] # Idle => Seats[reqs'[s].plan] <= most
        BY <1>2, <2>3, <3>1
      <4> QED
        BY <3>1, <4>6, <4>7 DEF SeatInv, Idle
    <3> QED
      BY <3>2, <3>3
  <2> QED
    BY <1>8, <2>5, <2>6, <2>7, <2>8, <2>9 DEF Continue
<1>9. ASSUME NEW u \in Users, Expires(u) PROVE SeatInv'
  BY <1>4, <1>5, <1>9 DEF Expires
<1>10. ASSUME NEW u \in Users, NEW p \in Pages, Leaves(u, p) PROVE SeatInv'
  BY <1>4, <1>5, <1>10 DEF Leaves, dbVars
<1>11. ASSUME NEW u \in Users, NEW p \in Plans, PlanChanges(u, p) PROVE SeatInv'
  <2>1. Members' \subseteq Members
    BY <1>11 DEF PlanChanges, Members
  <2>2. most <= most' /\ Seats[plan'[owner']] <= most'
    BY <1>1, <1>11 DEF PlanChanges, Larger, SeatInv, TypeOK
  <2> QED
    BY <1>3, <1>5, <1>11, <2>1, <2>2 DEF PlanChanges
<1> QED
  BY <1>6, <1>7, <1>8, <1>9, <1>10, <1>11 DEF Next

LEMMA SeatInit == Init => SeatInv
<1> SUFFICES ASSUME Init PROVE SeatInv
  OBVIOUS
<1>1. Members = {Creator}
  BY WorkspaceAssumption DEF Init, Members
<1>2. Cardinality(Members) = 1
  BY <1>1, FS_Singleton
<1> QED
  BY <1>2, WorkspaceAssumption DEF Init, SeatInv

\* However invites, answers, removals, transfers and plan changes interleave, the workspace never
\* holds more members than the most seats a plan of an owner of it has given it.
THEOREM SeatsNeverExceeded == Spec => []SeatsWithinPlan
<1>1. Spec => [](Typed /\ SeatInv)
  BY TypedInit, SeatInit, TypedStep, SeatStep, PTL DEF Spec
<1>2. SeatInv => SeatsWithinPlan
  BY DEF SeatInv, SeatsWithinPlan
<1> QED
  BY <1>1, <1>2, PTL

-----------------------------------------------------------------------------
(* The owner and the member rows. The property is inductive: a transfer writes  *)
(* both rows and the owner at once, and every other write is for the owner it   *)
(* read, or it is stale.                                                        *)
LEMMA OwnerStep == Typed /\ OwnerHoldsOwnerRow /\ [Next]_vars => OwnerHoldsOwnerRow'
<1> SUFFICES ASSUME Typed, OwnerHoldsOwnerRow, [Next]_vars PROVE OwnerHoldsOwnerRow'
  OBVIOUS
<1> USE WorkspaceAssumption
<1>1. /\ TypeOK /\ role \in [Users -> Roles \cup {None}] /\ owner \in Users /\ stale \in BOOLEAN
      /\ \A r \in Slots : reqs[r].pc # "idle" => reqs[r] \in Request /\ ReqOK(reqs[r])
  BY Underway DEF Typed, TypeOK
<1>2. CASE role' = role /\ owner' = owner /\ stale' = stale
  BY <1>2 DEF OwnerHoldsOwnerRow
<1>3. CASE UNCHANGED vars
  BY <1>2, <1>3 DEF vars, dbVars
<1>4. ASSUME NEW r \in Slots, NEW u \in Users, Starts(r, u) PROVE OwnerHoldsOwnerRow'
  BY <1>2, <1>4 DEF Starts, InviteStart, RoleStart, ResendStart, RevokeStart, RemoveStart,
     TransferStart, AcceptStart, DeclineStart, LeaveStart, JoinStart, Start, Call, dbVars
<1>5. ASSUME NEW r \in Slots, Continue(r) PROVE OwnerHoldsOwnerRow'
  <2> DEFINE q == reqs[r]
  <2>1. q.pc # "idle"
    BY <1>5 DEF Continue, Doing, InviteWrite, ResendWrite, RevokeWrite, AcceptWrite, DeclineWrite,
                RoleWrite, RemoveWrite, TransferWrite, JoinWrite, RecheckLook, RecheckEnd
  <2>2. q.whom \in Users /\ q.owner \in Users /\ ReqOK(q)
    BY <1>1, <2>1 DEF Request
  <2>3. CASE Nothing(r)
    BY <1>2, <2>3 DEF Nothing, dbVars
  <2>4. CASE InviteWrite(r) \/ ResendWrite(r) \/ RevokeWrite(r) \/ DeclineWrite(r)
             \/ JoinWrite(r) \/ RecheckLook(r) \/ RecheckEnd(r)
    BY <1>2, <2>3, <2>4 DEF InviteWrite, ResendWrite, RevokeWrite, DeclineWrite, TurnAway, JoinWrite,
                            RecheckLook, RecheckEnd, dbVars
  <2>5. CASE AcceptWrite(r) /\ ~Nothing(r)
    <3>1. q.role # "owner" /\ q.role \in InviteRoles
      BY <2>2, <2>5 DEF AcceptWrite, Doing, ReqOK
    <3>2. owner' = owner /\ stale' = stale /\ role' = [role EXCEPT ![q.whom] = IF @ = None THEN q.role ELSE @]
      BY <2>5 DEF AcceptWrite
    <3> QED
      BY <1>1, <2>2, <3>1, <3>2 DEF OwnerHoldsOwnerRow
  <2>6. CASE (RoleWrite(r) \/ RemoveWrite(r)) /\ ~Nothing(r)
    <3>1. q.whom # q.owner
      BY <2>2, <2>6 DEF RoleWrite, RemoveWrite, Doing, ReqOK, Rechecking
    <3>2. owner' = owner /\ (~stale' => ~stale /\ q.owner = owner)
      BY <1>1, <2>6 DEF RoleWrite, RemoveWrite, Stale
    <3>3. \E new \in InviteRoles \cup {None} : role' = [role EXCEPT ![q.whom] = new]
      BY <2>2, <2>6 DEF RoleWrite, RemoveWrite, Doing, ReqOK
    <3> QED
      BY <1>1, <2>2, <3>1, <3>2, <3>3 DEF OwnerHoldsOwnerRow
  <2>7. CASE TransferWrite(r) /\ ~Nothing(r)
    <3>1. q.whom # q.owner
      BY <2>2, <2>7 DEF TransferWrite, Doing, ReqOK, Rechecking
    <3>2. owner' = q.whom /\ (~stale' => ~stale /\ q.owner = owner)
      BY <1>1, <2>7 DEF TransferWrite, Stale
    <3>3. role' = [role EXCEPT ![q.owner] = "editor", ![q.whom] = "owner"]
      BY <2>7 DEF TransferWrite
    <3> QED
      BY <1>1, <2>2, <3>1, <3>2, <3>3 DEF OwnerHoldsOwnerRow
  <2> QED
    BY <1>5, <2>3, <2>4, <2>5, <2>6, <2>7 DEF Continue
<1>6. ASSUME NEW u \in Users, Expires(u) PROVE OwnerHoldsOwnerRow'
  BY <1>2, <1>6 DEF Expires
<1>7. ASSUME NEW u \in Users, NEW p \in Pages, Leaves(u, p) PROVE OwnerHoldsOwnerRow'
  BY <1>2, <1>7 DEF Leaves, dbVars
<1>8. ASSUME NEW u \in Users, NEW p \in Plans, PlanChanges(u, p) PROVE OwnerHoldsOwnerRow'
  BY <1>2, <1>8 DEF PlanChanges
<1> QED
  BY <1>3, <1>4, <1>5, <1>6, <1>7, <1>8 DEF Next

\* Owner and member rows agree for ever, unless a change was written for a former owner.
THEOREM OwnerAndRowsAgree == Spec => []OwnerHoldsOwnerRow
<1>1. Init => OwnerHoldsOwnerRow
  BY WorkspaceAssumption DEF Init, OwnerHoldsOwnerRow
<1> QED
  BY <1>1, TypedInit, TypedStep, OwnerStep, PTL DEF Spec

-----------------------------------------------------------------------------
(* Turned away: the row says so, and whoever is still about to answer or resend *)
(* read it before, which `late` says.                                           *)
RefusedInv ==
  /\ \A u \in refused : invite[u].status \in {"declined", "revoked"}
  /\ \A r \in Slots : reqs[r].op \in {"accept", "resend"} /\ reqs[r].whom \in refused => r \in late

LEMMA RefusedStep == Typed /\ RefusedInv /\ [Next]_vars => RefusedInv'
<1> SUFFICES ASSUME Typed, RefusedInv, [Next]_vars PROVE RefusedInv'
  OBVIOUS
<1> USE WorkspaceAssumption
<1>1. /\ refused \subseteq Users /\ invite \in [Users -> Invite]
      /\ reqs \in [Slots -> Request \cup {Idle}]
      /\ \A r \in Slots : reqs[r].pc # "idle" => reqs[r] \in Request
  BY Underway DEF Typed, TypeOK
<1> DEFINE Answering(q) == q.op \in {"accept", "resend"}
\* It is enough that no row of someone refused is opened, that nobody starts to answer for one, and
\* that nobody is refused, or leaves `late`, with an answer of theirs under way.
<1>2. ASSUME \A u \in refused' : invite'[u].status \in {"declined", "revoked"},
             \A r \in Slots : Answering(reqs'[r]) /\ reqs'[r].whom \in refused' => r \in late'
      PROVE  RefusedInv'
  BY <1>2 DEF RefusedInv
<1>3. ASSUME refused' = refused, invite' = invite, late' = late,
             \A r \in Slots : Answering(reqs'[r]) => Answering(reqs[r]) /\ reqs'[r].whom = reqs[r].whom
      PROVE  RefusedInv'
  BY <1>1, <1>2, <1>3 DEF RefusedInv
<1>4. ~Answering(Idle)
  BY DEF Idle, Ops
<1>5. CASE UNCHANGED vars
  BY <1>3, <1>5 DEF vars, dbVars
<1>6. ASSUME NEW r \in Slots, NEW u \in Users, Starts(r, u) PROVE RefusedInv'
  <2>1. ASSUME NEW op \in Ops, NEW as, NEW p, Call(r, op, u, as, p),
               op \in {"accept", "resend"} => u \notin refused
        PROVE  RefusedInv'
    <3> DEFINE n == [pc |-> "write", op |-> op, whom |-> u, role |-> as,
                     owner |-> owner, plan |-> plan[owner], page |-> p]
    <3>1. \A s \in Slots : reqs'[s] = IF s = r THEN n ELSE reqs[s]
      BY <1>1, <2>1 DEF Call
    <3>2. refused' = refused /\ invite' = invite /\ late' = late
      BY <2>1 DEF Call, dbVars
    <3> QED
      BY <1>2, <2>1, <3>1, <3>2 DEF RefusedInv
  <2>2. CASE ResendStart(r, u)
    BY <2>1, <2>2 DEF ResendStart, Start, Ops, RefusedInv
  <2>3. CASE AcceptStart(r, u)
    BY <2>1, <2>3 DEF AcceptStart, Start, Ops, RefusedInv, Open
  <2>4. CASE ~ResendStart(r, u) /\ ~AcceptStart(r, u)
    <3>1. \E op \in Ops \ {"accept", "resend"} : \E as, p : Call(r, op, u, as, p)
      BY <1>6, <2>4 DEF Starts, InviteStart, RoleStart, RevokeStart, RemoveStart, TransferStart,
         DeclineStart, LeaveStart, JoinStart, Start, Ops, Rechecking
    <3> QED
      BY <2>1, <3>1
  <2> QED
    BY <2>2, <2>3, <2>4
<1>7. ASSUME NEW r \in Slots, Continue(r) PROVE RefusedInv'
  <2> DEFINE q == reqs[r]
  <2>1. q.pc # "idle"
    BY <1>7 DEF Continue, Doing, InviteWrite, ResendWrite, RevokeWrite, AcceptWrite, DeclineWrite,
                RoleWrite, RemoveWrite, TransferWrite, JoinWrite, RecheckLook, RecheckEnd
  <2>2. q \in Request /\ q.whom \in Users
    BY <1>1, <2>1 DEF Request
  <2>3. ASSUME Done(r) \/ Recheck(r)
        PROVE  /\ \A s \in Slots : Answering(reqs'[s]) => Answering(reqs[s]) /\ reqs'[s].whom = reqs[s].whom
               /\ Done(r) => ~Answering(reqs'[r])
    BY <1>1, <1>4, <2>2, <2>3 DEF Done, Recheck, Request
  <2>4. CASE Nothing(r) /\ late \ {r} \subseteq late'
    BY <1>2, <2>3, <2>4 DEF Nothing, dbVars, RefusedInv
  <2>5. CASE InviteWrite(r) /\ ~Nothing(r)
    BY <1>1, <1>2, <2>2, <2>3, <2>5 DEF InviteWrite, Outside, RefusedInv
  <2>6. CASE ResendWrite(r) \/ (AcceptWrite(r) /\ ~Nothing(r))
    <3>1. q.whom \notin refused'
      BY <2>6 DEF ResendWrite, AcceptWrite, Doing, Undo, RefusedInv
    <3>2. /\ refused' \subseteq refused /\ late' = late \ {r} /\ Done(r)
          /\ \A u \in refused' : invite'[u] = invite[u]
      BY <1>1, <2>2, <2>6, <3>1 DEF ResendWrite, AcceptWrite, Undo
    <3> QED
      BY <1>2, <2>3, <3>2 DEF RefusedInv
  <2>7. CASE RevokeWrite(r) \/ DeclineWrite(r)
    <3>1. PICK status \in {"declined", "revoked"} : TurnAway(r, q.whom, status)
      BY <2>7 DEF RevokeWrite, DeclineWrite
    <3>2. \A u \in Users : invite'[u].status = IF u = q.whom THEN status ELSE invite[u].status
      BY <1>1, <2>2, <3>1 DEF TurnAway, Invite
    <3>3. /\ refused' = refused \cup {q.whom} /\ late \subseteq late' /\ Done(r)
          /\ \A s \in Slots : Answering(reqs[s]) /\ reqs[s].whom = q.whom => s \in late'
      BY <3>1 DEF TurnAway
    <3>4. \A u \in refused' : invite'[u].status \in {"declined", "revoked"}
      BY <1>1, <2>2, <3>2, <3>3 DEF RefusedInv
    <3> QED
      BY <1>2, <2>3, <3>3, <3>4 DEF RefusedInv
  <2>8. CASE (RoleWrite(r) \/ RemoveWrite(r)) /\ ~Nothing(r)
    BY <1>3, <2>3, <2>8 DEF RoleWrite, RemoveWrite, Outside
  <2>9. CASE TransferWrite(r) /\ ~Nothing(r)
    <3>1. \A s \in Slots : Answering(reqs'[s]) => Answering(reqs[s]) /\ reqs'[s].whom = reqs[s].whom
      BY <1>1, <2>2, <2>9 DEF TransferWrite, Doing, Request
    <3> QED
      BY <1>3, <2>9, <3>1 DEF TransferWrite, Outside
  <2>10. CASE JoinWrite(r) \/ RecheckLook(r) \/ RecheckEnd(r)
    <3>1. \A s \in Slots : Answering(reqs'[s]) => Answering(reqs[s]) /\ reqs'[s].whom = reqs[s].whom
      BY <1>1, <2>2, <2>3, <2>10 DEF JoinWrite, RecheckLook, RecheckEnd, Request
    <3> QED
      BY <1>3, <2>10, <3>1 DEF JoinWrite, RecheckLook, RecheckEnd, dbVars
  <2>11. Nothing(r) => (Continue(r) => late \ {r} \subseteq late' \/ ~(InviteWrite(r) \/ AcceptWrite(r)
                                         \/ RoleWrite(r) \/ RemoveWrite(r) \/ TransferWrite(r)))
    BY DEF InviteWrite, AcceptWrite, RoleWrite, RemoveWrite, TransferWrite, Outside
  <2> QED
    BY <1>7, <2>4, <2>5, <2>6, <2>7, <2>8, <2>9, <2>10, <2>11 DEF Continue
<1>8. ASSUME NEW u \in Users, Expires(u) PROVE RefusedInv'
  <2>1. \A v \in Users : invite'[v].status = invite[v].status
    BY <1>1, <1>8 DEF Expires, Invite
  <2> QED
    BY <1>1, <1>2, <1>8, <2>1 DEF Expires, RefusedInv
<1>9. ASSUME NEW u \in Users, NEW p \in Pages, Leaves(u, p) PROVE RefusedInv'
  BY <1>3, <1>9 DEF Leaves, dbVars
<1>10. ASSUME NEW u \in Users, NEW p \in Plans, PlanChanges(u, p) PROVE RefusedInv'
  BY <1>3, <1>10 DEF PlanChanges
<1> QED
  BY <1>5, <1>6, <1>7, <1>8, <1>9, <1>10 DEF Next

\* An open invite or a member row for someone turned away is an invite sent anew, or the write of a
\* request that was already under way.
LEMMA HowTheyComeBack ==
  ASSUME Typed, RefusedInv, [Next]_vars, NEW u \in refused, Open(u)' \/ (role[u] = None /\ role'[u] # None)
  PROVE  ComesBack(u)
<1> USE WorkspaceAssumption
<1>1. u \in Users /\ role \in [Users -> Roles \cup {None}] /\ invite \in [Users -> Invite]
  BY DEF Typed, TypeOK
<1>2. ~Open(u)
  BY DEF RefusedInv, Open
<1>3. ~(role' = role /\ \A v \in Users : invite'[v].status = "pending" => invite'[v].status = invite[v].status)
  BY <1>1 DEF RefusedInv, Open
<1>4. PICK r \in Slots : Continue(r)
  <2>1. CASE \E v \in Users : Expires(v)
    BY <1>1, <1>3, <2>1 DEF Expires, Invite
  <2>2. CASE ~(\E v \in Users : Expires(v)) /\ ~(\E r \in Slots : Continue(r))
    BY <1>3, <2>2 DEF Next, vars, dbVars, Starts, InviteStart, RoleStart, ResendStart, RevokeStart,
       RemoveStart, TransferStart, AcceptStart, DeclineStart, LeaveStart, JoinStart, Start, Call,
       Leaves, PlanChanges
  <2> QED
    BY <2>1, <2>2
<1>5. CASE InviteWrite(r)
  <2>1. reqs[r].whom = u
    BY <1>1, <1>2, <1>5 DEF InviteWrite, Nothing, dbVars, Open
  <2> QED
    BY <1>5, <2>1 DEF ComesBack
<1>6. CASE AcceptWrite(r) \/ ResendWrite(r)
  <2>1. reqs[r].whom = u
    BY <1>1, <1>2, <1>6 DEF AcceptWrite, ResendWrite, Nothing, dbVars, Open
  <2>2. r \in late
    BY <1>6, <2>1 DEF AcceptWrite, ResendWrite, Doing, RefusedInv
  <2> QED
    BY <1>6, <2>1, <2>2 DEF ComesBack
<1>7. CASE RevokeWrite(r) \/ DeclineWrite(r)
  <2>1. PICK status \in {"declined", "revoked"} : TurnAway(r, reqs[r].whom, status)
    BY <1>7 DEF RevokeWrite, DeclineWrite
  <2> QED
    BY <1>1, <1>3, <2>1 DEF TurnAway, Invite
<1>8. CASE RoleWrite(r) \/ RemoveWrite(r) \/ TransferWrite(r)
  BY <1>1, <1>2, <1>8 DEF RoleWrite, RemoveWrite, TransferWrite, Nothing, dbVars, Open
<1>9. CASE JoinWrite(r) \/ RecheckLook(r) \/ RecheckEnd(r)
  BY <1>3, <1>9 DEF JoinWrite, RecheckLook, RecheckEnd, dbVars
<1> QED
  BY <1>4, <1>5, <1>6, <1>7, <1>8, <1>9 DEF Continue

\* A revoked or declined invite opens again, or lets the person in, only when it is sent anew or when
\* an answer or a resend that had read it open before the refusal writes over the refusal.
THEOREM TurnedAwayForGood == Spec => TurnedAwayStaysOut
<1>1. Init => RefusedInv
  BY WorkspaceAssumption DEF Init, RefusedInv, Idle, Ops
<1>2. ASSUME Typed, RefusedInv, [Next]_vars
      PROVE  [\A u \in refused : Open(u)' \/ (role[u] = None /\ role'[u] # None) => ComesBack(u)]_vars
  BY <1>2, HowTheyComeBack
<1> QED
  BY <1>1, <1>2, TypedInit, TypedStep, RefusedStep, PTL DEF Spec, TurnedAwayStaysOut

-----------------------------------------------------------------------------
(* Page rooms. Someone whose socket is in a room they may not read any more is  *)
(* about to be put out of it; nobody is joining while that goes on, or counts   *)
(* as crossed.                                                                  *)
PuttingOut(q, u, p) == q.whom = u /\ (q.pc = "look" \/ (q.pc = "recheck" /\ q.page = p))
RoomOK(u) ==
  /\ \A p \in rooms[u] : page[u] = p /\ (CanRead(u, p) \/ \E r \in Slots : PuttingOut(reqs[r], u, p))
  /\ \A r \in Slots : reqs[r].op = "join" /\ reqs[r].whom = u =>
       CanRead(u, reqs[r].page) /\ \A s \in Slots : u \notin Touches(reqs[s])
  /\ \A r \in Slots : reqs[r].pc = "recheck" /\ reqs[r].whom = u => page[u] \in {None, reqs[r].page}
RoomInv == ~stale => \A u \in Users \ crossed : RoomOK(u)

LEMMA HistoryGrows ==
  ASSUME Typed, [Next]_vars
  PROVE  (stale => stale') /\ crossed \subseteq crossed'
<1> DEFINE Grows == (stale => stale') /\ crossed \subseteq crossed'
<1>1. CASE UNCHANGED vars
  BY <1>1 DEF vars
<1>2. ASSUME NEW r \in Slots, NEW u \in Users, Starts(r, u) PROVE Grows
  <2>1. CASE \E op, as : Start(r, op, u, as)
    BY <2>1 DEF Start, Call
  <2>2. CASE \E p \in Pages : JoinStart(r, u, p)
    BY <2>2 DEF JoinStart, Call
  <2> QED
    BY <1>2, <2>1, <2>2 DEF Starts, InviteStart, RoleStart, ResendStart, RevokeStart, RemoveStart,
       TransferStart, AcceptStart, DeclineStart, LeaveStart
<1>3. ASSUME NEW r \in Slots, Continue(r) PROVE Grows
  <2>1. CASE RoleWrite(r) \/ RemoveWrite(r) \/ TransferWrite(r)
    <3>1. stale \in BOOLEAN
      BY DEF Typed, TypeOK
    <3>2. crossed' = crossed
      BY <2>1 DEF RoleWrite, RemoveWrite, TransferWrite, Outside, Aside
    <3>3. Stale(r) \/ Nothing(r)
      BY <2>1 DEF RoleWrite, RemoveWrite, TransferWrite
    <3>4. stale => stale'
      BY <3>1, <3>3 DEF Stale, Nothing
    <3> QED
      BY <3>2, <3>4
  <2>2. CASE InviteWrite(r) \/ ResendWrite(r) \/ RevokeWrite(r) \/ DeclineWrite(r) \/ AcceptWrite(r)
    BY <2>2 DEF InviteWrite, ResendWrite, RevokeWrite, DeclineWrite, TurnAway, AcceptWrite, Nothing, Outside, Aside
  <2>3. CASE JoinWrite(r) \/ RecheckLook(r) \/ RecheckEnd(r)
    BY <2>3 DEF JoinWrite, RecheckLook, RecheckEnd
  <2> QED
    BY <1>3, <2>1, <2>2, <2>3 DEF Continue
<1> QED
  BY <1>1, <1>2, <1>3 DEF Next, Expires, Leaves, PlanChanges

LEMMA RoomStep == Typed /\ Typed' /\ RoomInv /\ [Next]_vars => RoomInv'
<1> SUFFICES ASSUME Typed, Typed', RoomInv, [Next]_vars,
                    ~stale', NEW u \in Users, u \notin crossed'
             PROVE  RoomOK(u)'
  BY DEF RoomInv
<1> USE WorkspaceAssumption
<1>1. /\ role \in [Users -> Roles \cup {None}] /\ owner \in Users /\ stale \in BOOLEAN
      /\ rooms \in [Users -> SUBSET Pages] /\ page \in [Users -> Pages \cup {None}]
      /\ reqs \in [Slots -> Request \cup {Idle}]
      /\ \A r \in Slots : reqs[r].pc # "idle" => reqs[r] \in Request /\ ReqOK(reqs[r])
  BY Underway DEF Typed, TypeOK, RoomsTypeOK
<1>2. Touches(Idle) = {} /\ Idle.op # "join"
  BY DEF Idle, Touches, Ops
<1>3. ~stale /\ u \notin crossed /\ RoomOK(u)
  BY HistoryGrows DEF RoomInv
\* A step that takes no access from u, starts nothing for u and cuts no recheck of u short.
<1> DEFINE ReadsThen(p) == p = Elsewhere \/ u = owner' \/ role'[u] # None
<1> DEFINE Kept(q, n) ==
      /\ \A p \in Pages : PuttingOut(q, u, p) => PuttingOut(n, u, p)
      /\ n.op = "join" /\ n.whom = u => n = q
      /\ u \in Touches(n) => u \in Touches(q)
      /\ n.pc = "recheck" /\ n.whom = u => n = q
<1>4. ASSUME rooms'[u] = rooms[u], page'[u] = page[u], \A p \in Pages : CanRead(u, p) => ReadsThen(p),
             \A r \in Slots : Kept(reqs[r], reqs'[r])
      PROVE  RoomOK(u)'
  <2>1. \A p \in rooms[u] : page[u] = p /\ (ReadsThen(p) \/ \E r \in Slots : PuttingOut(reqs'[r], u, p))
    BY <1>1, <1>3, <1>4 DEF RoomOK
  <2>2. \A r \in Slots : reqs'[r].op = "join" /\ reqs'[r].whom = u =>
           ReadsThen(reqs'[r].page) /\ \A s \in Slots : u \notin Touches(reqs'[s])
    <3> SUFFICES ASSUME NEW r \in Slots, reqs'[r].op = "join", reqs'[r].whom = u
                 PROVE  ReadsThen(reqs'[r].page) /\ \A s \in Slots : u \notin Touches(reqs'[s])
      OBVIOUS
    <3>1. reqs'[r] = reqs[r]
      BY <1>4
    <3>2. reqs[r].page \in Pages
      BY <1>1, <1>2, <3>1 DEF Request, Typed, TypeOK, ReqOK
    <3>3. CanRead(u, reqs[r].page) /\ \A s \in Slots : u \notin Touches(reqs[s])
      BY <1>3, <3>1 DEF RoomOK
    <3> QED
      BY <1>4, <3>1, <3>2, <3>3
  <2>3. \A r \in Slots : reqs'[r].pc = "recheck" /\ reqs'[r].whom = u => page[u] \in {None, reqs'[r].page}
    <3> SUFFICES ASSUME NEW r \in Slots, reqs'[r].pc = "recheck", reqs'[r].whom = u
                 PROVE  page[u] \in {None, reqs'[r].page}
      OBVIOUS
    <3>1. reqs'[r] = reqs[r]
      BY <1>4
    <3> QED
      BY <1>3, <3>1 DEF RoomOK
  <2> QED
    BY <1>4, <2>1, <2>2, <2>3 DEF RoomOK, PuttingOut, Touches, Rechecking, CanRead, Members
<1>5. CASE UNCHANGED vars
  BY <1>4, <1>5 DEF vars, dbVars, roomVars, CanRead, Members
<1>6. ASSUME NEW r \in Slots, NEW v \in Users, Starts(r, v) PROVE RoomOK(u)'
  <2>1. PICK op \in Ops, as \in InviteRoles \cup {None}, p \in Pages \cup {None} :
          /\ Call(r, op, v, as, p)
          /\ op = "join" => p \in Pages /\ CanRead(v, p)
                            /\ crossed' = crossed \cup {w \in {v} : \E s \in Slots : w \in Touches(reqs[s])}
          /\ op # "join" => crossed' = crossed \cup {w \in Touches(reqs[r]') : Busy(w, {"join"})}
    <3>1. invite[v].role \in InviteRoles
      BY DEF Typed, TypeOK, Invite
    <3>2. CASE \E q \in Pages : JoinStart(r, v, q)
      BY <3>2 DEF JoinStart, Ops
    <3>3. CASE ~\E q \in Pages : JoinStart(r, v, q)
      <4>1. \E op \in Ops \ {"join"}, as \in InviteRoles \cup {None} : Start(r, op, v, as)
        BY <1>6, <3>1, <3>3 DEF Starts, InviteStart, RoleStart, ResendStart, RevokeStart, RemoveStart,
           TransferStart, AcceptStart, DeclineStart, LeaveStart, Ops, Rechecking
      <4> QED
        BY <4>1 DEF Start
    <3> QED
      BY <3>2, <3>3
  <2> DEFINE n == [pc |-> "write", op |-> op, whom |-> v, role |-> as,
                   owner |-> owner, plan |-> plan[owner], page |-> p]
  <2>2. reqs[r] = Idle /\ \A s \in Slots : reqs'[s] = IF s = r THEN n ELSE reqs[s]
    BY <1>1, <2>1 DEF Call
  <2>3. rooms' = rooms /\ page' = page /\ role' = role /\ owner' = owner
    BY <2>1 DEF Call, dbVars, roomVars
  <2>4. \A q \in Pages : CanRead(u, q) <=> ReadsThen(q)
    BY <2>3 DEF CanRead, Members
  <2>5. \A q : ~PuttingOut(reqs[r], u, q)
    BY <2>2, IdleIsIdle DEF PuttingOut
  <2>6. CASE op # "join" /\ u \notin Touches(n)
    <3>1. \A s \in Slots : Kept(reqs[s], reqs'[s])
      BY <2>2, <2>5, <2>6
    <3> QED
      BY <1>4, <2>3, <2>4, <3>1
  <2>7. CASE op # "join" /\ u \in Touches(n)
    <3>1. \A s \in Slots : ~(reqs[s].op = "join" /\ reqs[s].whom = u)
      BY <2>1, <2>2, <2>7 DEF Busy
    <3>2. \A s \in Slots : ~(reqs'[s].op = "join" /\ reqs'[s].whom = u)
      BY <2>2, <2>7, <3>1
    <3>3. \A s \in Slots : reqs'[s].pc = "recheck" /\ reqs'[s].whom = u => page[u] \in {None, reqs'[s].page}
      BY <1>3, <2>2 DEF RoomOK
    <3>4. \A q \in rooms[u] : page[u] = q /\ (ReadsThen(q) \/ \E s \in Slots : PuttingOut(reqs'[s], u, q))
      BY <1>1, <1>3, <2>2, <2>4, <2>5 DEF RoomOK
    <3> QED
      BY <2>3, <3>2, <3>3, <3>4 DEF RoomOK, PuttingOut, CanRead, Members
  <2>8. CASE op = "join"
    <3>1. Touches(n) = {}
      BY <2>8 DEF Touches, Rechecking
    <3>2. v = u => \A s \in Slots : u \notin Touches(reqs[s])
      BY <1>1, <2>1, <2>8
    <3>3. \A s \in Slots : reqs'[s].op = "join" /\ reqs'[s].whom = u =>
            ReadsThen(reqs'[s].page) /\ \A t \in Slots : u \notin Touches(reqs'[t])
      <4> SUFFICES ASSUME NEW s \in Slots, reqs'[s].op = "join", reqs'[s].whom = u
                   PROVE  ReadsThen(reqs'[s].page) /\ \A t \in Slots : u \notin Touches(reqs'[t])
        OBVIOUS
      <4>1. CASE s = r
        <5>1. v = u /\ reqs'[s].page = p
          BY <2>2, <4>1
        <5>2. ReadsThen(p) /\ \A t \in Slots : u \notin Touches(reqs[t])
          BY <2>1, <2>4, <2>8, <3>2, <5>1
        <5> QED
          BY <2>2, <3>1, <5>1, <5>2
      <4>2. CASE s # r
        <5>1. reqs'[s] = reqs[s] /\ reqs[s].page \in Pages
          BY <1>1, <1>2, <2>2, <4>2 DEF Request, Typed, TypeOK, ReqOK
        <5>2. CanRead(u, reqs[s].page) /\ \A t \in Slots : u \notin Touches(reqs[t])
          BY <1>3, <5>1 DEF RoomOK
        <5> QED
          BY <2>2, <2>4, <3>1, <5>1, <5>2
      <4> QED
        BY <4>1, <4>2
    <3>4. \A s \in Slots : reqs'[s].pc = "recheck" /\ reqs'[s].whom = u => page[u] \in {None, reqs'[s].page}
      BY <1>3, <2>2 DEF RoomOK
    <3>5. \A q \in rooms[u] : page[u] = q /\ (ReadsThen(q) \/ \E s \in Slots : PuttingOut(reqs'[s], u, q))
      BY <1>1, <1>3, <2>2, <2>4, <2>5 DEF RoomOK
    <3> QED
      BY <2>3, <3>3, <3>4, <3>5 DEF RoomOK, PuttingOut, Touches, Rechecking, CanRead, Members
  <2> QED
    BY <2>6, <2>7, <2>8
<1>7. ASSUME NEW r \in Slots, Continue(r) PROVE RoomOK(u)'
  <2> DEFINE q == reqs[r]
  <2>1. q.pc # "idle"
    BY <1>7 DEF Continue, Doing, InviteWrite, ResendWrite, RevokeWrite, AcceptWrite, DeclineWrite,
                RoleWrite, RemoveWrite, TransferWrite, JoinWrite, RecheckLook, RecheckEnd
  <2>2. q \in Request /\ ReqOK(q) /\ q.whom \in Users /\ q.owner \in Users
    BY <1>1, <2>1 DEF Request
  <2>3. ASSUME Done(r), q.pc = "write" PROVE \A s \in Slots : Kept(reqs[s], reqs'[s])
    BY <1>1, <1>2, <2>3, IdleIsIdle DEF Done, PuttingOut, Ops
  <2>4. ASSUME NEW n \in Request, reqs' = [reqs EXCEPT ![r] = n], n.pc = "look", n.op = q.op,
               q.pc = "write", Touches(n) \subseteq Touches(q), q.op \in Rechecking
        PROVE  \A s \in Slots : Kept(reqs[s], reqs'[s])
    <3>1. n.op # "join"
      BY <2>4 DEF Rechecking
    <3>2. Kept(q, n)
      BY <2>4, <3>1 DEF PuttingOut
    <3> QED
      BY <1>1, <2>4, <3>2
  <2>5. u \in Touches(q) => \A s \in Slots : ~(reqs[s].op = "join" /\ reqs[s].whom = u)
    BY <1>3 DEF RoomOK
  \* u's access may go: nobody joins for u, and u's socket is about to be looked at.
  <2>6. ASSUME NEW n \in Request, reqs' = [reqs EXCEPT ![r] = n], n.pc = "look", n.op = q.op, n.whom = u,
               q.op \in Rechecking, u \in Touches(q), rooms' = rooms, page' = page
        PROVE  RoomOK(u)'
    <3>1. \A s \in Slots : reqs'[s] = IF s = r THEN n ELSE reqs[s]
      BY <1>1, <2>6
    <3>2. n.op # "join"
      BY <2>6 DEF Rechecking
    <3>3. \A s \in Slots : ~(reqs'[s].op = "join" /\ reqs'[s].whom = u)
      BY <2>5, <2>6, <3>1, <3>2
    <3>4. \A s \in Slots : reqs'[s].pc = "recheck" /\ reqs'[s].whom = u => page[u] \in {None, reqs'[s].page}
      BY <1>3, <2>6, <3>1 DEF RoomOK
    <3>5. \A p \in rooms[u] : page[u] = p /\ PuttingOut(reqs'[r], u, p)
      BY <1>3, <2>6, <3>1 DEF RoomOK, PuttingOut
    <3> QED
      BY <2>6, <3>3, <3>4, <3>5 DEF RoomOK, PuttingOut
  <2>7. CASE InviteWrite(r) \/ ResendWrite(r) \/ RevokeWrite(r) \/ DeclineWrite(r)
    <3>1. Done(r) /\ q.pc = "write" /\ role' = role /\ owner' = owner /\ rooms' = rooms /\ page' = page
      BY <2>7 DEF InviteWrite, ResendWrite, RevokeWrite, DeclineWrite, TurnAway, Nothing, Outside, Aside, Doing,
                  dbVars, roomVars
    <3> QED
      BY <1>4, <2>3, <3>1 DEF CanRead, Members
  <2>8. CASE AcceptWrite(r)
    <3>1. /\ Done(r) /\ q.pc = "write" /\ owner' = owner /\ rooms' = rooms /\ page' = page
          /\ role' = role \/ role' = [role EXCEPT ![q.whom] = IF @ = None THEN q.role ELSE @]
      BY <2>8 DEF AcceptWrite, Nothing, Outside, Aside, Doing, dbVars, roomVars
    <3>2. role[u] # None => role'[u] # None
      BY <1>1, <3>1
    <3> QED
      BY <1>4, <2>3, <3>1, <3>2 DEF CanRead, Members
  <2> DEFINE look == [q EXCEPT !.pc = "look"]
  <2>9. look \in Request /\ look.pc = "look" /\ look.op = q.op /\ look.whom = q.whom /\ look.owner = q.owner
    BY <2>2 DEF Request
  <2>10. Touches(look) = Touches(q)
    BY <2>9 DEF Touches
  <2>11. CASE RoleWrite(r)
    <3>1. CASE Nothing(r) /\ Outside
      BY <1>4, <2>3, <2>11, <3>1 DEF Nothing, Outside, Aside, dbVars, roomVars, CanRead, Members, RoleWrite, Doing
    <3>2. CASE ~(Nothing(r) /\ Outside)
      <4>1. /\ role[q.whom] # None /\ role' = [role EXCEPT ![q.whom] = q.role] /\ Recheck(r)
            /\ q.pc = "write" /\ q.op = "role" /\ owner' = owner /\ rooms' = rooms /\ page' = page
        BY <2>11, <3>2 DEF RoleWrite, Outside, Aside, roomVars, Doing
      <4>2. reqs' = [reqs EXCEPT ![r] = look]
        BY <4>1 DEF Recheck
      <4>3. q.role \in InviteRoles
        BY <2>2, <4>1 DEF ReqOK
      <4>4. role[u] # None => role'[u] # None
        BY <1>1, <4>1, <4>3
      <4>5. \A s \in Slots : Kept(reqs[s], reqs'[s])
        BY <2>4, <2>9, <2>10, <4>1, <4>2 DEF Rechecking
      <4> QED
        BY <1>4, <4>1, <4>4, <4>5 DEF CanRead, Members
    <3> QED
      BY <3>1, <3>2
  <2>12. CASE RemoveWrite(r)
    <3>1. CASE Nothing(r) /\ Outside
      BY <1>4, <2>3, <2>12, <3>1 DEF Nothing, Outside, Aside, dbVars, roomVars, CanRead, Members, RemoveWrite, Doing
    <3>2. CASE ~(Nothing(r) /\ Outside)
      <4>1. /\ role' = [role EXCEPT ![q.whom] = None] /\ Recheck(r)
            /\ q.pc = "write" /\ q.op \in {"remove", "leave"} /\ owner' = owner /\ rooms' = rooms /\ page' = page
        BY <2>12, <3>2 DEF RemoveWrite, Outside, Aside, roomVars, Doing
      <4>2. reqs' = [reqs EXCEPT ![r] = look] /\ q.op \in Rechecking
        BY <4>1 DEF Recheck, Rechecking
      <4>3. CASE q.whom = u
        <5>1. u \in Touches(q)
          BY <4>2, <4>3 DEF Touches
        <5> QED
          BY <2>6, <2>9, <4>1, <4>2, <4>3, <5>1
      <4>4. CASE q.whom # u
        <5>1. role'[u] = role[u]
          BY <1>1, <4>1, <4>4
        <5>2. \A s \in Slots : Kept(reqs[s], reqs'[s])
          BY <2>4, <2>9, <2>10, <4>1, <4>2
        <5> QED
          BY <1>4, <4>1, <5>1, <5>2 DEF CanRead, Members
      <4> QED
        BY <4>3, <4>4
    <3> QED
      BY <3>1, <3>2
  <2>13. CASE TransferWrite(r)
    <3>1. CASE Nothing(r) /\ Outside
      BY <1>4, <2>3, <2>13, <3>1 DEF Nothing, Outside, Aside, dbVars, roomVars, CanRead, Members, TransferWrite, Doing
    <3>2. CASE ~(Nothing(r) /\ Outside)
      <4> DEFINE n == [q EXCEPT !.pc = "look", !.whom = q.owner]
      <4>1. /\ role' = [role EXCEPT ![q.owner] = "editor", ![q.whom] = "owner"]
            /\ q.pc = "write" /\ q.op = "transfer" /\ owner' = q.whom /\ rooms' = rooms /\ page' = page
            /\ stale' = (stale \/ q.owner # owner)
            /\ reqs' = [reqs EXCEPT ![r].pc = "look", ![r].whom = q.owner]
        BY <2>13, <3>2 DEF TransferWrite, Outside, Aside, roomVars, Doing, Stale
      <4>2. reqs' = [reqs EXCEPT ![r] = n] /\ q.op \in Rechecking /\ q.owner = owner
        BY <1>1, <4>1 DEF Rechecking
      <4>3. n \in Request /\ n.pc = "look" /\ n.op = q.op /\ n.whom = q.owner /\ n.owner = q.owner
        BY <2>2 DEF Request
      <4>4. Touches(n) \subseteq Touches(q) /\ owner \in Touches(q)
        BY <4>1, <4>2, <4>3 DEF Touches
      <4>5. CASE u = owner
        BY <2>6, <4>1, <4>2, <4>3, <4>4, <4>5
      <4>6. CASE u # owner
        <5>1. role[u] # None => role'[u] # None
          BY <1>1, <4>1
        <5>2. \A s \in Slots : Kept(reqs[s], reqs'[s])
          BY <2>4, <4>1, <4>2, <4>3, <4>4
        <5> QED
          BY <1>4, <4>1, <4>6, <5>1, <5>2 DEF CanRead, Members
      <4> QED
        BY <4>5, <4>6
    <3> QED
      BY <3>1, <3>2
  <2>14. CASE JoinWrite(r)
    <3>1. /\ q.pc = "write" /\ q.op = "join" /\ Done(r) /\ role' = role /\ owner' = owner
          /\ rooms' = [rooms EXCEPT ![q.whom] = (@ \ {page[q.whom]}) \cup {q.page}]
          /\ page' = [page EXCEPT ![q.whom] = q.page]
      BY <2>14 DEF JoinWrite, Doing, Enter, dbVars
    <3>2. CASE q.whom # u
      <4>1. rooms'[u] = rooms[u] /\ page'[u] = page[u]
        BY <1>1, <3>1, <3>2
      <4> QED
        BY <1>4, <2>3, <3>1, <4>1 DEF CanRead, Members
    <3>3. CASE q.whom = u
      <4>1. rooms[u] \subseteq {page[u]}
        BY <1>3 DEF RoomOK
      <4>2. rooms'[u] = {q.page} /\ page'[u] = q.page
        BY <1>1, <3>1, <3>3, <4>1
      <4>3. CanRead(u, q.page) /\ \A s \in Slots : u \notin Touches(reqs[s])
        BY <1>3, <3>1, <3>3 DEF RoomOK
      <4>4. \A p : CanRead(u, p) <=> ReadsThen(p)
        BY <3>1 DEF CanRead, Members
      <4>5. \A s \in Slots : reqs'[s] = IF s = r THEN Idle ELSE reqs[s]
        BY <1>1, <3>1 DEF Done
      <4>6. \A s \in Slots : ~(reqs'[s].pc = "recheck" /\ reqs'[s].whom = u)
        BY <1>1, <4>3, <4>5, IdleIsIdle DEF ReqOK, Touches
      <4>7. \A s \in Slots : reqs'[s].op = "join" /\ reqs'[s].whom = u =>
              ReadsThen(reqs'[s].page) /\ \A t \in Slots : u \notin Touches(reqs'[t])
        BY <1>2, <1>3, <4>4, <4>5 DEF RoomOK
      <4> QED
        BY <4>2, <4>3, <4>4, <4>6, <4>7 DEF RoomOK, PuttingOut, Touches, Rechecking, CanRead, Members
    <3> QED
      BY <3>2, <3>3
  <2>15. CASE RecheckLook(r)
    <3>1. /\ q.pc = "look" /\ role' = role /\ owner' = owner /\ rooms' = rooms /\ page' = page
          /\ q.op \in Rechecking
      BY <2>2, <2>15 DEF RecheckLook, dbVars, roomVars, ReqOK
    <3> DEFINE n == [q EXCEPT !.pc = "recheck", !.page = page[q.whom]]
    <3>2. n.pc = "recheck" /\ n.op = q.op /\ n.whom = q.whom /\ n.owner = q.owner /\ n.page = page[q.whom]
      BY <2>2 DEF Request
    <3>3. \/ page[q.whom] = None /\ \A s \in Slots : reqs'[s] = IF s = r THEN Idle ELSE reqs[s]
          \/ page[q.whom] # None /\ \A s \in Slots : reqs'[s] = IF s = r THEN n ELSE reqs[s]
      BY <1>1, <2>15 DEF RecheckLook, Done
    <3>4. Touches(n) = Touches(q) /\ n.op # "join"
      BY <3>1, <3>2 DEF Touches, Rechecking
    <3>5. CASE q.whom # u
      <4>1. \A s \in Slots : Kept(reqs[s], reqs'[s])
        BY <1>2, <3>1, <3>2, <3>3, <3>4, <3>5, IdleIsIdle DEF PuttingOut
      <4> QED
        BY <1>4, <3>1, <4>1 DEF CanRead, Members
    <3>6. CASE q.whom = u
      <4>1. u \in Touches(q)
        BY <3>1, <3>6 DEF Touches
      <4>2. \A s \in Slots : ~(reqs'[s].op = "join" /\ reqs'[s].whom = u)
        BY <1>2, <2>5, <3>3, <3>4, <4>1
      <4>3. \A p \in rooms[u] : page[u] = p /\ p # None
        BY <1>1, <1>3 DEF RoomOK
      <4>4. \A p \in rooms[u] : PuttingOut(reqs'[r], u, p)
        BY <3>2, <3>3, <3>6, <4>3 DEF PuttingOut
      <4>5. \A s \in Slots : reqs'[s].pc = "recheck" /\ reqs'[s].whom = u => page[u] \in {None, reqs'[s].page}
        BY <1>3, <3>2, <3>3, <3>6, IdleIsIdle DEF RoomOK
      <4> QED
        BY <3>1, <4>2, <4>3, <4>4, <4>5 DEF RoomOK, PuttingOut
    <3> QED
      BY <3>5, <3>6
  <2>16. CASE RecheckEnd(r)
    <3>1. q.pc = "recheck" /\ Done(r) /\ role' = role /\ owner' = owner /\ q.op \in Rechecking
      BY <2>2, <2>16 DEF RecheckEnd, dbVars, ReqOK
    <3>2. \A s \in Slots : reqs'[s] = IF s = r THEN Idle ELSE reqs[s]
      BY <1>1, <3>1 DEF Done
    <3>3. \/ CanRead(q.whom, q.page) /\ rooms' = rooms /\ page' = page
          \/ /\ rooms' = [rooms EXCEPT ![q.whom] = @ \ {q.page}]
             /\ page' = [page EXCEPT ![q.whom] = None]
      BY <2>16 DEF RecheckEnd, Evict, roomVars
    <3>4. CASE q.whom # u
      <4>1. rooms'[u] = rooms[u] /\ page'[u] = page[u]
        BY <1>1, <3>3, <3>4
      <4>2. \A s \in Slots : Kept(reqs[s], reqs'[s])
        BY <1>2, <3>2, <3>4, IdleIsIdle DEF PuttingOut
      <4> QED
        BY <1>4, <3>1, <4>1, <4>2 DEF CanRead, Members
    <3>5. CASE q.whom = u
      <4>1. u \in Touches(q)
        BY <3>1, <3>5 DEF Touches
      <4>2. \A s \in Slots : ~(reqs'[s].op = "join" /\ reqs'[s].whom = u)
        BY <1>2, <2>5, <3>2, <4>1
      <4>3. \A p \in rooms[u] : page[u] = p /\ p = q.page
        BY <1>1, <1>3, <3>1, <3>5 DEF RoomOK
      <4>4. \A s \in Slots : reqs'[s].pc = "recheck" /\ reqs'[s].whom = u => page[u] \in {None, reqs'[s].page}
        BY <1>3, <3>2, IdleIsIdle DEF RoomOK
      <4>5. CASE CanRead(q.whom, q.page) /\ rooms' = rooms /\ page' = page
        <5>1. \A p \in rooms[u] : ReadsThen(p)
          BY <3>1, <3>5, <4>3, <4>5 DEF CanRead, Members
        <5> QED
          BY <4>2, <4>3, <4>4, <4>5, <5>1 DEF RoomOK, CanRead, Members
      <4>6. CASE rooms' = [rooms EXCEPT ![q.whom] = @ \ {q.page}] /\ page' = [page EXCEPT ![q.whom] = None]
        <5>1. rooms'[u] = {} /\ page'[u] = None
          BY <1>1, <3>5, <4>3, <4>6
        <5> QED
          BY <4>2, <5>1 DEF RoomOK
      <4> QED
        BY <3>3, <4>5, <4>6
    <3> QED
      BY <3>4, <3>5
  <2> QED
    BY <1>7, <2>7, <2>8, <2>11, <2>12, <2>13, <2>14, <2>15, <2>16 DEF Continue
<1>8. ASSUME NEW v \in Users, NEW p \in Pages, Leaves(v, p) PROVE RoomOK(u)'
  <2>1. /\ role' = role /\ owner' = owner /\ reqs' = reqs
        /\ rooms' = [rooms EXCEPT ![v] = @ \ {p}] /\ page' = [page EXCEPT ![v] = IF @ = p THEN None ELSE @]
        /\ p \in rooms[v]
    BY <1>8 DEF Leaves, LeavePage, dbVars
  <2>2. CASE v # u
    <3>1. rooms'[u] = rooms[u] /\ page'[u] = page[u]
      BY <1>1, <2>1, <2>2
    <3> QED
      BY <1>4, <2>1, <3>1 DEF CanRead, Members
  <2>3. CASE v = u
    <3>1. rooms[u] \subseteq {p} /\ page[u] = p
      BY <1>3, <2>1, <2>3 DEF RoomOK
    <3>2. rooms'[u] = {} /\ page'[u] = None
      BY <1>1, <2>1, <2>3, <3>1
    <3> QED
      BY <1>3, <2>1, <3>2 DEF RoomOK, CanRead, Members
  <2> QED
    BY <2>2, <2>3
<1>9. CASE (\E v \in Users : Expires(v)) \/ \E v \in Users, p \in Plans : PlanChanges(v, p)
  <2>1. rooms' = rooms /\ page' = page /\ role' = role /\ owner' = owner /\ reqs' = reqs
    BY <1>9 DEF Expires, PlanChanges, roomVars
  <2> QED
    BY <1>4, <2>1 DEF CanRead, Members
<1> QED
  BY <1>5, <1>6, <1>7, <1>8, <1>9 DEF Next

LEMMA RoomInit == Init => RoomInv
BY IdleIsIdle, WorkspaceAssumption DEF Init, RoomsInit, RoomInv, RoomOK, Ops

\* The seats, the rows and the rooms agree: with no request under way, nobody who lost access
\* is in a page's room, but for those whose join met the change.
THEOREM OnlyReadersInRooms == Spec => []RoomsAreReadable
<1>1. ASSUME RoomInv PROVE RoomsAreReadable
  <2> SUFFICES ASSUME Quiet, ~stale, NEW u \in Users \ crossed, NEW p \in rooms[u]
               PROVE  CanRead(u, p) /\ page[u] = p
    BY DEF RoomsAreReadable
  <2>1. \A r \in Slots : ~PuttingOut(reqs[r], u, p)
    BY IdleIsIdle DEF Quiet, PuttingOut
  <2> QED
    BY <1>1, <2>1 DEF RoomInv, RoomOK
<1> QED
  BY <1>1, TypedInit, TypedStep, RoomInit, RoomStep, PTL DEF Spec
=============================================================================
