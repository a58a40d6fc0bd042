----------------------------- MODULE ActiveClients -----------------------------
(* Status links. A client (workspace) with a live link is an active client of   *)
(* its owner, which is what plans are priced by. Switching a link on reads the  *)
(* owner first, and counts and writes later, under a lock on the requester.     *)
EXTENDS FiniteSets, Naturals

CONSTANTS
  Users, Clients, Plans,
  Page,         \* the client whose page and weekly email are modelled
  ClientLimit,  \* ClientLimit[p]: PLAN_LIMITS[p].clients
  Slots,        \* requests under way at the same time
  MaxCalls,     \* bound on requests
  None

VARIABLES
  plan,    \* plan[u]: effectivePlan(u)
  owner,   \* owner[w]: Workspace.ownerId
  live,    \* live[w]: shareEnabledAt is set
  share,   \* share[r]: a request that switches a link on or off
  calls,   \* requests made so far
  \* History:
  most,    \* most[u]: the most clients u's plans have included
  taken    \* clients whose live link the owner's limit has not been compared with

clientVars == <<plan, owner, live, share, most, taken>>

Idle == [pc |-> "idle"]
Share == [pc : {"on", "off"}, client : Clients, by : Users]

ClientsTypeOK ==
  /\ plan \in [Users -> Plans] /\ owner \in [Clients -> Users]
  /\ live \in [Clients -> BOOLEAN]
  /\ share \in [Slots -> Share \cup {Idle}]
  /\ calls \in 0 .. MaxCalls
  /\ most \in [Users -> Nat] /\ taken \subseteq Clients

-----------------------------------------------------------------------------
Call == calls < MaxCalls /\ calls' = calls + 1

LiveOthers(u, w) == {v \in Clients \ {w} : owner[v] = u /\ live[v]}

ShareStart(r, w, pc) ==
  /\ share[r] = Idle /\ Call
  /\ share' = [share EXCEPT ![r] = [pc |-> pc, client |-> w, by |-> owner[w]]]
  /\ UNCHANGED <<plan, owner, live, most, taken>>

\* Seeded fault: one client too many.
HasRoomForOneMore(u, w) == Cardinality(LiveOthers(u, w)) <= ClientLimit[plan[u]]

HasRoom(u, w) == Cardinality(LiveOthers(u, w)) < ClientLimit[plan[u]]

\* enableShare under the lock. A link that is live already is only renewed.
EnableShare(r) ==
  LET w == share[r].client
      u == share[r].by
  IN
  /\ share[r].pc = "on"
  /\ share' = [share EXCEPT ![r] = Idle]
  /\ \/ /\ ~live[w] /\ HasRoom(u, w)
        /\ live' = [live EXCEPT ![w] = TRUE]
        /\ taken' = IF owner[w] = u THEN taken \ {w} ELSE taken \cup {w}
     \/ /\ live[w] \/ ~HasRoom(u, w)
        /\ UNCHANGED <<live, taken>>
  /\ UNCHANGED <<plan, owner, calls, most>>

DisableShare(r) ==
  /\ share[r].pc = "off"
  /\ share' = [share EXCEPT ![r] = Idle]
  /\ live' = [live EXCEPT ![share[r].client] = FALSE]
  /\ UNCHANGED <<plan, owner, calls, most, taken>>

\* transferOwnership moves a live link with the client and compares it with nothing.
Transfer(w, u) ==
  /\ owner[w] # u /\ Call
  /\ owner' = [owner EXCEPT ![w] = u]
  /\ taken' = taken \cup {w}
  /\ UNCHANGED <<plan, live, share, most>>

ChangePlan(u, p) ==
  /\ plan[u] # p /\ Call
  /\ plan' = [plan EXCEPT ![u] = p]
  /\ most' = IF ClientLimit[p] > most[u] THEN [most EXCEPT ![u] = ClientLimit[p]] ELSE most
  /\ UNCHANGED <<owner, live, share, taken>>

ClientsInit ==
  /\ \E p \in Plans : /\ plan = [u \in Users |-> p]
                      /\ most = [u \in Users |-> ClientLimit[p]]
  /\ \E u \in Users : owner = [w \in Clients |-> u]
  /\ live = [w \in Clients |-> FALSE]
  /\ share = [r \in Slots |-> Idle] /\ calls = 0 /\ taken = {}

ClientsNext ==
  \/ \E r \in Slots, w \in Clients, pc \in {"on", "off"} : ShareStart(r, w, pc)
  \/ \E r \in Slots : EnableShare(r) \/ DisableShare(r)
  \/ \E w \in Clients, u \in Users : Transfer(w, u)
  \/ \E u \in Users, p \in Plans : ChangePlan(u, p)

-----------------------------------------------------------------------------
Counted(u) == {w \in Clients : owner[w] = u /\ live[w] /\ w \notin taken}

\* However many links are switched on at once, nobody has more active clients than a plan of theirs
\* has included, but for live ones handed over to them (workspace.service.js 599-639).
ClientsWithinPlan == \A u \in Users : Cardinality(Counted(u)) <= most[u]
=============================================================================
