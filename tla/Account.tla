-------------------------------- MODULE Account -------------------------------
(* The deletion of an account: billing is stopped, work in other people's        *)
(* workspaces is handed over, the row and all that hangs on it goes, the stored   *)
(* objects last. Each step reads what others may change before the next one.      *)
EXTENDS Library

VARIABLES
  bill,       \* bill[u]: the subscription at the gateway, and what the row of u knows of it
  \* History:
  paidLate    \* accounts whose subscription was paid, or became known to the row, once their deletion had stopped billing

billVars == <<bill, paidLate>>

\* at: the state at the gateway; id: the row stores its id; says: subscriptionStatus, which may be of an earlier one.
Bill == [at : {"none", "unpaid", "active", "ended"}, id : BOOLEAN, says : {"nothing", "paying", "canceled"}]

\* What a deletion may have missed: see Noting.
Things == Workspaces \cup Pages \cup TaskIds \cup Files

\* A deletion, step by step. heir: who gets the work in each workspace of others.
Heirs == UNION {[S -> Users] : S \in SUBSET Workspaces}
EraseRequests ==
  [op : {"erase"}, pc : {"stop", "read"}, by : Users, since : SUBSET Things]
  \cup [op : {"erase"}, pc : {"hand", "list"}, by : Users, since : SUBSET Things, heir : Heirs]
  \cup [op : {"erase"}, pc : {"row"}, by : Users, since : SUBSET Things, heir : Heirs, objects : SUBSET Files]
SweepRequests == [op : {"sweep"}, objects : SUBSET Files, since : SUBSET Things]

-----------------------------------------------------------------------------
\* A checkout, the first or after an earlier subscription. Stripe's id is stored with the first event, the others' at
\* once, in place of an earlier one, whatever became of that; what the row says of its status stays. Of
\* several that are open, the one that is paid counts.
Checkout(u, stored) ==
  /\ Call
  /\ account[u] /\ bill[u].says # "paying"
  /\ bill' = [bill EXCEPT ![u] =
       IF @.at # "active" THEN [@ EXCEPT !.at = "unpaid", !.id = stored]
       ELSE IF stored THEN [@ EXCEPT !.id = FALSE] ELSE @]
  /\ UNCHANGED <<req, paidLate>>

Stopped(u) ==
  ~account[u] \/ \E r \in Slots : req[r].op = "erase" /\ req[r].by = u /\ req[r].pc # "stop"

\* The cancellation of a deletion passes the subscription of u over.
PassedOver(u) == ~bill[u].id \/ bill[u].says = "canceled"

Pay(u) ==
  /\ Call
  /\ bill[u].at = "unpaid"
  /\ bill' = [bill EXCEPT ![u].at = "active"]
  /\ paidLate' = IF Stopped(u) THEN paidLate \cup {u} ELSE paidLate
  /\ UNCHANGED req

\* A webhook or a sync is applied: Billing has what can go wrong with it.
Learn(u) ==
  /\ Call
  /\ account[u] /\ bill[u].at \in {"active", "ended"}
  /\ bill' = [bill EXCEPT ![u].id = TRUE, ![u].says = IF bill[u].at = "ended" THEN "canceled" ELSE "paying"]
  /\ paidLate' = IF Stopped(u) /\ PassedOver(u) THEN paidLate \cup {u} ELSE paidLate
  /\ UNCHANGED req

-----------------------------------------------------------------------------
Shared(u) ==
  {w \in Workspaces : Exists(w) /\ owner[w] = u /\ \E v \in Users \ {u} : role[w][v] # "none"}

\* deleteAccount, once it is confirmed. since: see Noting.
EraseStart(r, u) ==
  /\ Begin(r, u, [op |-> "erase", pc |-> "stop", by |-> u, since |-> {}])
  /\ Shared(u) = {}

At(r, pc) == req[r].op = "erase" /\ req[r].pc = pc
Onto(r, pc) == Goes(r, [req[r] EXCEPT !.pc = pc])

\* Seeded fault: a cancellation that fails does not stop the deletion.
StopBillingAnyway(r) ==
  /\ At(r, "stop")
  /\ Onto(r, "read")
  /\ bill' \in {bill, [bill EXCEPT ![req[r].by].at = IF @ = "none" THEN @ ELSE "ended"]}
  /\ UNCHANGED paidLate

\* cancelNow and cancelStripeSubscription. What has no id stored, or is said to be over, is left alone; a
\* cancellation the gateway refuses passes when the subscription is over, or was never paid.
\* Otherwise the deletion is refused (Abandon), also when the call was carried out and the answer lost.
StopBilling(r) ==
  LET u == req[r].by IN
  /\ At(r, "stop")
  /\ \/ PassedOver(u) /\ UNCHANGED bill /\ Onto(r, "read")
     \/ ~PassedOver(u) /\ bill[u].at \in {"unpaid", "ended"} /\ UNCHANGED bill /\ Onto(r, "read")
     \/ ~PassedOver(u)
          /\ bill' = [bill EXCEPT ![u].at = "ended"]
          /\ (Onto(r, "read") \/ Ends(r))
  /\ UNCHANGED paidLate

\* The owners of the workspaces of others that u belongs to.
ReadMemberships(r) ==
  /\ At(r, "read")
  /\ LET u == req[r].by
         others == {w \in Workspaces : Exists(w) /\ role[w][u] # "none" /\ owner[w] # u}
     IN Goes(r, [op |-> "erase", pc |-> "hand", by |-> u, since |-> req[r].since,
                 heir |-> [w \in others |-> owner[w]]])
  /\ UNCHANGED billVars

\* The rows of a deletion's maker in the workspaces it hands over, and what is theirs from then on.
Handed(f, r) == {x \in Rows(f) : f[x].by = req[r].by /\ f[x].ws \in DOMAIN req[r].heir}
Given(f, r) ==
  [x \in DOMAIN f |-> IF x \in Handed(f, r) THEN [f[x] EXCEPT !.by = req[r].heir[f[x].ws]] ELSE f[x]]

\* Seeded fault: pages are forgotten.
HandOverTasks(r) ==
  /\ At(r, "hand")
  /\ \A t \in Handed(task, r) : account[req[r].heir[task[t].ws]]
  /\ task' = Given(task, r)
  /\ Onto(r, "list")
  /\ UNCHANGED <<page, file>>

HandedFiles(r) == {f \in Rows(file) : file[f].by = req[r].by /\ SpaceOf(f) \in DOMAIN req[r].heir}

\* One transaction: tasks, pages, and files on tasks. It fails when somebody who is to get one is gone.
HandOver(r) ==
  LET heir == req[r].heir
      theirs == {task[t].ws : t \in Handed(task, r)} \cup {page[p].ws : p \in Handed(page, r)}
                \cup {SpaceOf(f) : f \in HandedFiles(r)}
  IN
  /\ At(r, "hand")
  /\ \A w \in theirs : account[heir[w]]
  /\ task' = Given(task, r)
  /\ page' = Given(page, r)
  /\ file' = [f \in Files |->
       IF f \in HandedFiles(r) THEN [file[f] EXCEPT !.by = heir[SpaceOf(f)]] ELSE file[f]]
  /\ req' = [Noting(Handed(task, r) \cup Handed(page, r) \cup HandedFiles(r), req) EXCEPT
       ![r] = [req[r] EXCEPT !.pc = "list"]]
  /\ UNCHANGED calls

\* Seeded fault: the files are listed before the work is handed over.
ListFilesEarly(r) ==
  /\ At(r, "list")
  /\ LET u == req[r].by
         mine == {f \in Rows(file) : \/ file[f].by = u
                                     \/ SpaceOf(f) \in DOMAIN req[r].heir}
     IN Goes(r, [op |-> "erase", pc |-> "row", by |-> u, since |-> req[r].since,
                 heir |-> req[r].heir, objects |-> mine])
  /\ UNCHANGED billVars

ListFiles(r) ==
  /\ At(r, "list")
  /\ LET u == req[r].by
         mine == {f \in Rows(file) :
                    \/ file[f].by = u
                    \/ file[f].task # None /\ task[file[f].task].by = u
                    \/ Exists(SpaceOf(f)) /\ owner[SpaceOf(f)] = u}
     IN Goes(r, [op |-> "erase", pc |-> "row", by |-> u, since |-> req[r].since,
                 heir |-> req[r].heir, objects |-> mine])
  /\ UNCHANGED billVars

\* What the cascades of the schema take along with the row of u.
LostSpaces(u) == {w \in Workspaces : owner[w] = u}
LostTasks(u) == {t \in Rows(task) : task[t].by = u \/ task[t].ws \in LostSpaces(u)}
LostPages(u) == Below(page, {p \in Rows(page) : page[p].by = u \/ page[p].ws \in LostSpaces(u)})
LostFiles(u) == {f \in Rows(file) : file[f].by = u \/ file[f].task \in LostTasks(u)}

Without(f, S) == [x \in DOMAIN f |-> IF x \in S THEN Gone ELSE f[x]]

EraseRow(r) ==
  LET u == req[r].by IN
  /\ At(r, "row") /\ account[u]
  /\ account' = [account EXCEPT ![u] = FALSE]
  /\ owner' = Without(owner, LostSpaces(u))
  /\ role' = [w \in Workspaces |->
       [v \in Users |-> IF v = u \/ w \in LostSpaces(u) THEN "none" ELSE role[w][v]]]
  /\ task' = Without(task, LostTasks(u))
  /\ page' = Without(page, LostPages(u))
  /\ block' = Without(block, {b \in Rows(block) : block[b].page \in LostPages(u)})
  /\ file' = Without(file, LostFiles(u))
  /\ saved' = Without(saved, SavedBy(u))
  /\ recipes' = [recipes EXCEPT ![u] = {}]
  /\ Goes(r, [op |-> "sweep", objects |-> req[r].objects, since |-> req[r].since])

\* exportData. What u made comes along, what others put into it only while u may read it.
Exported(u) ==
  [ owned  |-> {w \in Workspaces : Exists(w) /\ role[w][u] # "none" /\ owner[w] = u},
    member |-> {w \in Workspaces : Exists(w) /\ role[w][u] # "none" /\ owner[w] # u},
    tasks  |-> {t \in Rows(task) : task[t].by = u},
    pages  |-> {p \in Rows(page) : page[p].by = u},
    blocks |-> {b \in Rows(block) : OwnReachable(page[block[b].page], u)},
    files  |-> {f \in Rows(file) : file[f].by = u},
    recipes |-> recipes[u] ]

\* The steps of a deletion, with what each leaves alone of the other parts.
BillingNext ==
  \/ \E u \in Users : (\E stored \in BOOLEAN : Checkout(u, stored)) \/ Pay(u) \/ Learn(u)
  \/ \E r \in Slots : StopBilling(r) \/ ReadMemberships(r) \/ ListFiles(r)
=============================================================================
