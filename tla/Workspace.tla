------------------------------ MODULE Workspace ------------------------------
(* One workspace: its owner, its member rows, its invites and the seats of the  *)
(* owner's plan, and the page rooms its members are in. A request reads what it *)
(* needs when it starts and writes in a later step (under the members lock for  *)
(* invites sent and accepted); others run between the two. Reads with no write  *)
(* between them that could tell them apart are one step. A refused call is one  *)
(* that does not start, or ends without a write.                                *)
EXTENDS PageRooms, FiniteSets, Naturals

CONSTANTS
  Creator,      \* creates the workspace
  Plans,
  Seats,        \* Seats[p]: PLAN_LIMITS[p].members
  InviteRoles,  \* what an invite or a role change may give
  Slots,        \* requests the server can be working on at the same time
  MaxCalls      \* bound on requests

Rechecking == {"remove", "role", "leave", "transfer"}
Ops == Rechecking \cup {"invite", "resend", "revoke", "accept", "decline", "join"}

ASSUME WorkspaceAssumption ==
  /\ Creator \in Users /\ IsFiniteSet(Users)
  /\ Seats \in [Plans -> Nat \ {0}]
  /\ "editor" \in InviteRoles /\ "owner" \notin InviteRoles
  /\ None \notin InviteRoles \cup Users \cup Pages \cup Plans \cup {"owner"} \cup Ops
  /\ MaxCalls \in Nat

VARIABLES
  plan,     \* plan[u]: effectivePlan(u)
  owner,    \* Workspace.ownerId
  role,     \* role[u]: the role in u's WorkspaceMember row, or None
  invite,   \* invite[u]: the WorkspaceInvite row of u's address
  reqs,     \* reqs[r]: a request and what it has read
  calls,
  \* History:
  most,     \* the most seats the workspace has had
  stale,    \* a change of members or owner was written for an owner who was no longer it
  refused,  \* u was turned away (revoked, or declined) and has not come back since
  late,     \* answers and resends under way that read the invite before it was turned down
  crossed   \* u was joining a page while u's access was being taken away

dbVars == <<plan, owner, role, invite>>
vars == <<plan, owner, role, invite, reqs, calls, most, stale, refused, late, crossed, rooms, page>>

Roles == InviteRoles \cup {"owner"}
Statuses == {"none", "pending", "accepted", "declined", "revoked"}
Invite == [status : Statuses, fresh : BOOLEAN, role : InviteRoles]

Idle == [pc |-> "idle", op |-> None, whom |-> None, role |-> None,
         owner |-> None, plan |-> None, page |-> None]
Request ==
  [pc : {"write", "look", "recheck"}, op : Ops, whom : Users, role : InviteRoles \cup {None},
   owner : Users, plan : Plans, page : Pages \cup {None}]

TypeOK ==
  /\ plan \in [Users -> Plans] /\ owner \in Users
  /\ role \in [Users -> Roles \cup {None}]
  /\ invite \in [Users -> Invite]
  /\ reqs \in [Slots -> Request \cup {Idle}]
  /\ calls \in 0 .. MaxCalls
  /\ most \in Nat /\ stale \in BOOLEAN /\ refused \subseteq Users
  /\ late \subseteq Slots /\ crossed \subseteq Users
  /\ RoomsTypeOK

-----------------------------------------------------------------------------
Members == {u \in Users : role[u] # None}
CanRead(u, p) == p = Elsewhere \/ u = owner \/ u \in Members
Open(u) == invite[u].status = "pending" /\ invite[u].fresh

Doing(r, pc, op) == reqs[r].pc = pc /\ reqs[r].op = op
Busy(u, ops) == \E r \in Slots : reqs[r].op \in ops /\ reqs[r].whom = u

\* assertOwner and the other reads a call makes before it writes.
Call(r, op, u, as, p) ==
  /\ reqs[r] = Idle
  /\ calls < MaxCalls /\ calls' = calls + 1
  /\ reqs' = [reqs EXCEPT ![r] = [pc |-> "write", op |-> op, whom |-> u, role |-> as,
                                  owner |-> owner, plan |-> plan[owner], page |-> p]]
  /\ UNCHANGED <<dbVars, most, stale, refused, late, roomVars>>

\* The users whose sockets a request may look at.
Touches(q) ==
  IF q.op \notin Rechecking THEN {} ELSE {q.whom} \cup (IF q.op = "transfer" THEN {q.owner} ELSE {})

Start(r, op, u, as) ==
  /\ Call(r, op, u, as, None)
  /\ crossed' = crossed \cup {v \in Touches(reqs[r]') : Busy(v, {"join"})}

Done(r) == reqs' = [reqs EXCEPT ![r] = Idle]
\* Seeded fault: open sockets are left alone.
RecheckNobody(r) == Done(r)
Recheck(r) == reqs' = [reqs EXCEPT ![r].pc = "look"]
Nothing(r) == Done(r) /\ UNCHANGED <<dbVars, most, stale, refused>>
Aside == UNCHANGED <<calls, crossed, roomVars>>
Outside == Aside /\ late' = late

-----------------------------------------------------------------------------
(* Invites. *)

InviteStart(r, u, as) ==
  /\ role[u] = None
  /\ Start(r, "invite", u, as)

HeldElsewhere(u) == {v \in Users \ {u} : Open(v)}

\* createInvite under the lock: members and open invites hold a seat.
InviteWrite(r) ==
  LET q == reqs[r] IN
  /\ Doing(r, "write", "invite")
  /\ \/ /\ Cardinality(Members) + Cardinality(HeldElsewhere(q.whom)) < Seats[q.plan]
        /\ invite' = [invite EXCEPT ![q.whom] = [status |-> "pending", fresh |-> TRUE, role |-> q.role]]
        /\ refused' = refused \ {q.whom}
        /\ Done(r) /\ UNCHANGED <<plan, owner, role, most, stale>>
     \/ /\ Cardinality(Members) + Cardinality(HeldElsewhere(q.whom)) >= Seats[q.plan]
        /\ Nothing(r)
  /\ Outside

\* Seeded fault: any invite can be sent again.
ResendStartAny(r, u) ==
  /\ invite[u].status # "none"
  /\ Start(r, "resend", u, None)

ResendStart(r, u) ==
  /\ invite[u].status = "pending"
  /\ Start(r, "resend", u, None)

\* A write that had read the invite before it was turned down undoes that.
Undo(r) == refused' = IF r \in late THEN refused \ {reqs[r].whom} ELSE refused

\* The row is set to pending whatever it says by now, and no seat is counted.
ResendWrite(r) ==
  LET u == reqs[r].whom IN
  /\ Doing(r, "write", "resend")
  /\ invite' = [invite EXCEPT ![u].status = "pending", ![u].fresh = TRUE]
  /\ Undo(r) /\ late' = late \ {r}
  /\ Done(r) /\ UNCHANGED <<plan, owner, role, most, stale>> /\ Aside

RevokeStart(r, u) ==
  /\ invite[u].status # "none"
  /\ Start(r, "revoke", u, None)

\* Whoever is answering or resending by now has read the invite as it was.
TurnAway(r, u, status) ==
  /\ invite' = [invite EXCEPT ![u].status = status]
  /\ refused' = refused \cup {u}
  /\ late' = late \cup {s \in Slots : reqs[s].op \in {"accept", "resend"} /\ reqs[s].whom = u}
  /\ Done(r) /\ UNCHANGED <<plan, owner, role, most, stale>> /\ Aside

RevokeWrite(r) ==
  /\ Doing(r, "write", "revoke")
  /\ TurnAway(r, reqs[r].whom, "revoked")

DeclineStart(r, u) ==
  /\ Open(u)
  /\ Start(r, "decline", u, None)

DeclineWrite(r) ==
  /\ Doing(r, "write", "decline")
  /\ TurnAway(r, reqs[r].whom, "declined")

AcceptStart(r, u) ==
  /\ Open(u)
  /\ role[u] # None \/ Cardinality(Members) < Seats[plan[owner]]
  /\ Start(r, "accept", u, invite[u].role)

\* Seeded fault: the seats are not counted again under the lock.
AcceptUncounted(r) ==
  LET q == reqs[r] IN
  /\ Doing(r, "write", "accept")
  /\ role' = [role EXCEPT ![q.whom] = IF @ = None THEN q.role ELSE @]
  /\ invite' = [invite EXCEPT ![q.whom].status = "accepted"]
  /\ Done(r) /\ UNCHANGED <<plan, owner, most, stale>>
  /\ Undo(r) /\ late' = late \ {r} /\ Aside

\* acceptInvite under the lock: the seats are counted again, the invite is not read again.
AcceptWrite(r) ==
  LET q == reqs[r]
      room == role[q.whom] # None \/ Cardinality(Members) < Seats[q.plan]
  IN
  /\ Doing(r, "write", "accept")
  /\ \/ /\ room
        /\ role' = [role EXCEPT ![q.whom] = IF @ = None THEN q.role ELSE @]
        /\ invite' = [invite EXCEPT ![q.whom].status = "accepted"]
        /\ Undo(r) /\ Done(r) /\ UNCHANGED <<plan, owner, most, stale>>
     \/ ~room /\ Nothing(r)
  /\ late' = late \ {r} /\ Aside

Expires(u) ==
  /\ Open(u)
  /\ invite' = [invite EXCEPT ![u].fresh = FALSE]
  /\ UNCHANGED <<plan, owner, role, reqs, calls, most, stale, refused, late, crossed, roomVars>>

-----------------------------------------------------------------------------
(* Members and the owner. *)

\* A write for an owner who has changed since the request read it.
Stale(r) == stale' = (stale \/ reqs[r].owner # owner)

RoleStart(r, u, as) ==
  /\ u # owner
  /\ Start(r, "role", u, as)

\* An update of a row that is gone fails.
RoleWrite(r) ==
  LET q == reqs[r] IN
  /\ Doing(r, "write", "role")
  /\ \/ /\ role[q.whom] # None
        /\ role' = [role EXCEPT ![q.whom] = q.role]
        /\ Stale(r) /\ Recheck(r) /\ UNCHANGED <<plan, owner, invite, most, refused>>
     \/ role[q.whom] = None /\ Nothing(r)
  /\ Outside

RemoveStart(r, u) ==
  /\ u # owner
  /\ Start(r, "remove", u, None)

LeaveStart(r, u) ==
  /\ u # owner /\ role[u] # None
  /\ Start(r, "leave", u, None)

\* removeMember and leaveWorkspace delete the row.
RemoveWrite(r) ==
  LET q == reqs[r] IN
  /\ Doing(r, "write", "remove") \/ Doing(r, "write", "leave")
  /\ \/ /\ role[q.whom] # None
        /\ role' = [role EXCEPT ![q.whom] = None]
        /\ Stale(r) /\ Recheck(r) /\ UNCHANGED <<plan, owner, invite, most, refused>>
     \/ role[q.whom] = None /\ Nothing(r)
  /\ Outside

Larger(m, n) == IF m < n THEN n ELSE m

\* whom is the owner that steps down, whose access is checked again; role holds nothing.
TransferStart(r, u) ==
  /\ u # owner /\ role[u] # None
  /\ Start(r, "transfer", u, None)

\* Seeded fault: the old owner's row is left as it is.
TransferKeepingRow(r) ==
  LET q == reqs[r] IN
  /\ Doing(r, "write", "transfer")
  /\ \/ /\ role[q.whom] # None /\ role[q.owner] # None
        /\ owner' = q.whom
        /\ role' = [role EXCEPT ![q.whom] = "owner"]
        /\ most' = Larger(most, Seats[plan[q.whom]])
        /\ Stale(r)
        /\ reqs' = [reqs EXCEPT ![r].pc = "look", ![r].whom = q.owner]
        /\ UNCHANGED <<plan, invite, refused>>
     \/ /\ role[q.whom] = None \/ role[q.owner] = None
        /\ Nothing(r)
  /\ Outside

\* One transaction: the owner and both rows, or nothing when a row is gone.
TransferWrite(r) ==
  LET q == reqs[r] IN
  /\ Doing(r, "write", "transfer")
  /\ \/ /\ role[q.whom] # None /\ role[q.owner] # None
        /\ owner' = q.whom
        /\ role' = [role EXCEPT ![q.owner] = "editor", ![q.whom] = "owner"]
        /\ most' = Larger(most, Seats[plan[q.whom]])
        /\ Stale(r)
        /\ reqs' = [reqs EXCEPT ![r].pc = "look", ![r].whom = q.owner]
        /\ UNCHANGED <<plan, invite, refused>>
     \/ /\ role[q.whom] = None \/ role[q.owner] = None
        /\ Nothing(r)
  /\ Outside

\* Billing changes what an account may do.
PlanChanges(u, p) ==
  /\ plan[u] # p
  /\ calls < MaxCalls /\ calls' = calls + 1
  /\ plan' = [plan EXCEPT ![u] = p]
  /\ most' = IF u = owner THEN Larger(most, Seats[p]) ELSE most
  /\ UNCHANGED <<owner, role, invite, reqs, stale, refused, late, crossed, roomVars>>

-----------------------------------------------------------------------------
(* Page rooms. *)

JoinStart(r, u, p) ==
  /\ CanRead(u, p)
  /\ Call(r, "join", u, None, p)
  /\ crossed' = crossed \cup {v \in {u} : \E s \in Slots : v \in Touches(reqs[s])}

JoinWrite(r) ==
  /\ Doing(r, "write", "join")
  /\ Enter(reqs[r].whom, reqs[r].page)
  /\ Done(r)
  /\ UNCHANGED <<dbVars, calls, most, stale, refused, late, crossed>>

Leaves(u, p) ==
  /\ LeavePage(u, p)
  /\ UNCHANGED <<dbVars, reqs, calls, most, stale, refused, late, crossed>>

\* recheckUserAccess takes the page a socket is on, and asks whether it may still be there.
RecheckLook(r) ==
  LET q == reqs[r] IN
  /\ q.pc = "look"
  /\ \/ page[q.whom] = None /\ Done(r)
     \/ /\ page[q.whom] # None
        /\ reqs' = [reqs EXCEPT ![r].pc = "recheck", ![r].page = page[q.whom]]
  /\ UNCHANGED <<dbVars, calls, most, stale, refused, late, crossed, roomVars>>

RecheckEnd(r) ==
  LET q == reqs[r] IN
  /\ q.pc = "recheck"
  /\ IF CanRead(q.whom, q.page) THEN UNCHANGED roomVars ELSE Evict(q.whom, q.page)
  /\ Done(r)
  /\ UNCHANGED <<dbVars, calls, most, stale, refused, late, crossed>>

-----------------------------------------------------------------------------
Init ==
  /\ plan \in [Users -> Plans]
  /\ owner = Creator
  /\ role = [u \in Users |-> IF u = Creator THEN "owner" ELSE None]
  /\ invite = [u \in Users |-> [status |-> "none", fresh |-> FALSE, role |-> "editor"]]
  /\ reqs = [r \in Slots |-> Idle]
  /\ calls = 0
  /\ most = Seats[plan[Creator]]
  /\ stale = FALSE /\ refused = {} /\ late = {} /\ crossed = {}
  /\ RoomsInit

Starts(r, u) ==
  \/ \E as \in InviteRoles : InviteStart(r, u, as) \/ RoleStart(r, u, as)
  \/ ResendStart(r, u) \/ RevokeStart(r, u) \/ RemoveStart(r, u) \/ TransferStart(r, u)
  \/ AcceptStart(r, u) \/ DeclineStart(r, u) \/ LeaveStart(r, u)
  \/ \E p \in Pages : JoinStart(r, u, p)

Continue(r) ==
  \/ InviteWrite(r) \/ ResendWrite(r) \/ RevokeWrite(r) \/ AcceptWrite(r) \/ DeclineWrite(r)
  \/ RoleWrite(r) \/ RemoveWrite(r) \/ TransferWrite(r)
  \/ JoinWrite(r) \/ RecheckLook(r) \/ RecheckEnd(r)

Next ==
  \/ \E r \in Slots : Continue(r) \/ \E u \in Users : Starts(r, u)
  \/ \E u \in Users : Expires(u) \/ \E p \in Pages : Leaves(u, p)
  \/ \E u \in Users, p \in Plans : PlanChanges(u, p)

Spec == Init /\ [][Next]_vars

-----------------------------------------------------------------------------
(* Properties. *)

\* Two people accepting at once never both take the last seat: the members are never more than the
\* most seats a plan of an owner has given the workspace.
SeatsWithinPlan == Cardinality(Members) <= most

\* Workspace.ownerId and the member rows say the same: the owner holds the one "owner" row,
\* as long as no change was written for an owner who had handed the workspace over meanwhile.
OwnerHoldsOwnerRow == ~stale => \A u \in Users : role[u] = "owner" <=> u = owner

\* How someone turned away comes back: invited anew, or by an answer or a resend that had read
\* the invite while it was open, and writes over the refusal.
ComesBack(u) ==
  \E r \in Slots :
    /\ reqs[r].whom = u
    /\ \/ InviteWrite(r)
       \/ r \in late /\ (AcceptWrite(r) \/ ResendWrite(r))

\* Someone who was turned away comes back in these two ways only: once the requests under way at
\* the refusal have ended, no resend and no old link opens the invite or makes the person a member.
TurnedAwayStaysOut ==
  [][\A u \in refused : Open(u)' \/ (role[u] = None /\ role'[u] # None) => ComesBack(u)]_vars

\* Live content goes only to those who may read it: with no request under way, a socket in a page's
\* room belongs to someone who can read the page, unless a join of theirs met the change, or the
\* change was written for an owner who had handed the workspace over.
Quiet == \A r \in Slots : reqs[r] = Idle
RoomsAreReadable ==
  Quiet /\ ~stale => \A u \in Users \ crossed : \A p \in rooms[u] : CanRead(u, p) /\ page[u] = p
=============================================================================
