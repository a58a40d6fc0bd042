-------------------------------- MODULE Spaces --------------------------------
(* Accounts, workspaces and roles as the content of a workspace sees them, and   *)
(* the requests under way. Invites, seats and the plan are in Workspace.          *)
EXTENDS Naturals, FiniteSets

CONSTANTS
  Users,
  Workspaces,   \* ids of workspaces
  Slots,        \* requests that can be under way at once
  MaxCalls,     \* bound on requests and outside events
  None,         \* no value; a row that was never created
  Gone          \* a row that was deleted: its id is not used again

VARIABLES
  account,   \* account[u]: the row of u exists
  owner,     \* owner[w]: ownerId, None or Gone
  role,      \* role[w][u]: role of the member row, or "none"
  req,       \* req[r]: a request between two of its awaits, or Idle
  calls,
  \* History:
  auto,      \* auto[w]: whom w was made for as a default workspace, until it changes hands
  slipped    \* workspaces handed to somebody whose leave, or removal, was under way

spaceVars == <<account, owner, role, auto, slipped>>

Roles == {"none", "viewer", "editor", "owner"}
Idle == [op |-> "none"]
SpaceRequests ==
  {Idle} \cup [op : {"default"}, by : Users]
  \cup [op : {"leave"}, ws : Workspaces, by : Users]
  \cup [op : {"transfer"}, ws : Workspaces, by : Users, to : Users]

Rows(f) == {x \in DOMAIN f : f[x] \notin {None, Gone}}
Free(f) == {x \in DOMAIN f : f[x] = None}
Exists(w) == w \in Workspaces /\ owner[w] \in Users

-----------------------------------------------------------------------------
\* getRole: the owner is who ownerId names, whatever the member row says.
RoleOf(w, u) ==
  IF ~Exists(w) THEN "none" ELSE IF owner[w] = u THEN "owner" ELSE role[w][u]

CanAccess(w, u, need) ==
  RoleOf(w, u) \in IF need = "read" THEN Roles \ {"none"} ELSE {"editor", "owner"}

\* assertResourceAccess: x is a row with a maker and perhaps a workspace.
MayUse(x, u, need) ==
  \/ x.by = u /\ x.ws = None
  \/ CanAccess(x.ws, u, need)

\* The where-clause of listForUser: owner, or a member row.
Mine(u) == {w \in Workspaces : Exists(w) /\ (owner[w] = u \/ role[w][u] # "none")}

OwnReachable(x, u) == x.by = u /\ (x.ws = None \/ x.ws \in Mine(u))

-----------------------------------------------------------------------------
Call == calls < MaxCalls /\ calls' = calls + 1

Open(r) == req[r] = Idle /\ calls < MaxCalls

Begin(r, u, next) ==
  /\ Open(r) /\ account[u]
  /\ calls' = calls + 1
  /\ req' = [req EXCEPT ![r] = next]

Goes(r, next) == req' = [req EXCEPT ![r] = next] /\ UNCHANGED calls
Ends(r) == Goes(r, Idle)

\* What happens after an account deletion has looked is noted in it (history).
Noting(S, reqs) ==
  [q \in Slots |-> IF reqs[q].op \in {"erase", "sweep"} THEN [reqs[q] EXCEPT !.since = @ \cup S] ELSE reqs[q]]

\* A refused or failed call, or the server stops.
Abandon(r) ==
  /\ req[r] # Idle
  /\ Ends(r)
  /\ UNCHANGED spaceVars

-----------------------------------------------------------------------------
Founded(w, u) ==
  /\ account[u] /\ owner[w] = None
  /\ owner' = [owner EXCEPT ![w] = u]
  /\ role' = [role EXCEPT ![w][u] = "owner"]
  /\ UNCHANGED <<account, slipped>>

CreateSpace(u, w) ==
  /\ Call
  /\ Founded(w, u)
  /\ UNCHANGED <<req, auto>>

\* listForUser of someone who has no workspace yet.
ListStart(r, u) ==
  /\ Begin(r, u, [op |-> "default", by |-> u])
  /\ Mine(u) = {}
  /\ UNCHANGED spaceVars

\* Seeded fault: under the lock, the workspaces are not looked up again.
ListLockBlindly(r, w) ==
  /\ req[r].op = "default"
  /\ Founded(w, req[r].by)
  /\ auto' = [auto EXCEPT ![w] = req[r].by]
  /\ Ends(r)

\* Under default-workspace:<user>: look again, then create.
ListLock(r, w) ==
  /\ req[r].op = "default" /\ Mine(req[r].by) = {}
  /\ Founded(w, req[r].by)
  /\ auto' = [auto EXCEPT ![w] = req[r].by]
  /\ Ends(r)

\* An accepted invite. One step here: what can come between its reads and its write is in Workspace.
Join(w, u, kind) ==
  /\ Call
  /\ account[u] /\ Exists(w) /\ RoleOf(w, u) = "none"
  /\ role' = [role EXCEPT ![w][u] = kind]
  /\ req' = Noting({w}, req)
  /\ UNCHANGED <<account, owner, auto, slipped>>

\* A member who leaves, or is removed: looked up, then deleted. A row that is gone by then fails it.
LeaveStart(r, w, u) ==
  /\ Begin(r, u, [op |-> "leave", ws |-> w, by |-> u])
  /\ Exists(w) /\ owner[w] # u /\ role[w][u] # "none"
  /\ UNCHANGED spaceVars

LeaveWrite(r) ==
  LET w == req[r].ws IN
  /\ req[r].op = "leave" /\ role[w][req[r].by] # "none"
  /\ role' = [role EXCEPT ![w][req[r].by] = "none"]
  /\ Ends(r)
  /\ UNCHANGED <<account, owner, auto, slipped>>

TransferStart(r, w, u, v) ==
  /\ Begin(r, u, [op |-> "transfer", ws |-> w, by |-> u, to |-> v])
  /\ Exists(w) /\ owner[w] = u /\ v # u /\ role[w][v] # "none"
  /\ UNCHANGED spaceVars

Handing(r) ==
  LET w == req[r].ws
      to == req[r].to
  IN
  /\ owner' = [owner EXCEPT ![w] = to]
  /\ req' = Noting({w}, [req EXCEPT ![r] = Idle])
  /\ auto' = [auto EXCEPT ![w] = None]
  /\ slipped' = IF \E q \in Slots : req[q].op = "leave" /\ req[q].ws = w /\ req[q].by = to
                THEN slipped \cup {w} ELSE slipped
  /\ UNCHANGED <<account, calls>>

\* Seeded fault: a member row that is not there any more is passed over.
TransferAnyway(r) ==
  LET w == req[r].ws IN
  /\ req[r].op = "transfer" /\ Exists(w)
  /\ role' = [role EXCEPT ![w] = [v \in Users |->
       IF @[v] = "none" THEN "none" ELSE IF v = req[r].by THEN "editor" ELSE IF v = req[r].to THEN "owner" ELSE @[v]]]
  /\ Handing(r)

\* One transaction: it fails when one of the two member rows is gone.
TransferWrite(r) ==
  LET w == req[r].ws IN
  /\ req[r].op = "transfer" /\ Exists(w)
  /\ role[w][req[r].by] # "none" /\ role[w][req[r].to] # "none"
  /\ role' = [role EXCEPT ![w][req[r].by] = "editor", ![w][req[r].to] = "owner"]
  /\ Handing(r)

SpacesNext ==
  \/ \E u \in Users, w \in Workspaces :
       \/ CreateSpace(u, w)
       \/ \E kind \in {"viewer", "editor"} : Join(w, u, kind)
  \/ \E r \in Slots :
       \/ Open(r) /\ \E u \in Users :
            \/ ListStart(r, u)
            \/ \E w \in Workspaces :
                 \/ LeaveStart(r, w, u)
                 \/ \E v \in Users : TransferStart(r, w, u, v)
       \/ LeaveWrite(r) \/ TransferWrite(r)
       \/ \E w \in Workspaces : ListLock(r, w)
       \/ Abandon(r)

-----------------------------------------------------------------------------
\* However many first requests a new user makes at once, one default workspace is made for them
\* (workspace.service.js 133-160: "must create ONE default workspace, not one each").
OneDefaultWorkspace ==
  \A u \in Users : Cardinality({w \in Workspaces : auto[w] = u}) <= 1
=============================================================================
