-------------------------------- MODULE Content -------------------------------
(* What a workspace holds, and the accounts it belongs to: workspaces, page      *)
(* trees, attachments, copies and templates, and the deletion of an account that  *)
(* cuts through all of them.                                                      *)
EXTENDS Account

CONSTANT
  Start    \* where a behaviour begins: the rows that are there

vars == <<spaceVars, req, calls, treeVars, fileVars, libVars, billVars>>

Request ==
  SpaceRequests \cup PageRequests \cup BlockRequests \cup FileRequests \cup LibraryRequests
  \cup EraseRequests \cup SweepRequests

Table(ids, rows) == [ids -> rows \cup {None, Gone}]

\* None and Gone are nothing else; a template has some number of blocks.
ASSUME ContentAssumption ==
  /\ None # Gone
  /\ \A x \in {None, Gone} :
       /\ x \notin Users \cup Workspaces \cup Pages \cup Blocks \cup TaskIds \cup Files
       /\ x \notin PageRow /\ x \notin BlockRow /\ x \notin TaskRow /\ x \notin FileRow /\ x \notin SavedRow
  /\ IsFiniteSet(Blocks) /\ IsFiniteSet(Templates)
  /\ BuiltIn \subseteq Nat /\ MaxCalls \in Nat /\ MaxTemplates \in Nat

\* The rows there are at first are as the code leaves them: nobody is in a workspace that is not there, trees stay apart, and files
\* hang on tasks that are there.
ASSUME StartAssumption ==
  /\ Start.owner \in Table(Workspaces, Users) /\ Start.role \in [Workspaces -> [Users -> Roles]]
  /\ \A w \in Workspaces : Start.owner[w] \in Users \/ \A u \in Users : Start.role[w][u] = "none"
  /\ Start.page \in Table(Pages, PageRow) /\ Start.block \in Table(Blocks, BlockRow)
  /\ Apart(Start.page, Start.block)
  /\ Start.task \in Table(TaskIds, TaskRow) /\ Start.file \in Table(Files, FileRow)
  /\ \A f \in Rows(Start.file) : Start.file[f].task \in Rows(Start.task) \cup {None}
  /\ Start.bill \in [Users -> Bill]

TypeOK ==
  /\ account \in [Users -> BOOLEAN]
  /\ owner \in Table(Workspaces, Users) /\ role \in [Workspaces -> [Users -> Roles]]
  /\ auto \in [Workspaces -> Users \cup {None}] /\ slipped \subseteq Workspaces
  /\ req \in [Slots -> Request] /\ calls \in 0 .. MaxCalls
  /\ page \in Table(Pages, PageRow) /\ block \in Table(Blocks, BlockRow) /\ raced \subseteq Pages
  /\ task \in Table(TaskIds, TaskRow) /\ file \in Table(Files, FileRow) /\ object \subseteq Files
  /\ saved \in Table(Templates, SavedRow) /\ recipes \in [Users -> SUBSET Nat]
  /\ bill \in [Users -> Bill] /\ paidLate \subseteq Users

Init ==
  /\ account = [u \in Users |-> TRUE]
  /\ owner = Start.owner /\ role = Start.role
  /\ auto = [w \in Workspaces |-> None]
  /\ slipped = {w \in Workspaces : Exists(w) /\ role[w][owner[w]] = "none"}
  /\ req = [r \in Slots |-> Idle] /\ calls = 0
  /\ page = Start.page /\ block = Start.block
  /\ raced = {p \in Rows(Start.page) : p \in Under(Start.page, p)}
  /\ task = Start.task /\ file = Start.file /\ object = Rows(Start.file)
  /\ saved = [x \in Templates |-> None] /\ recipes = [u \in Users |-> {}]
  /\ bill = Start.bill /\ paidLate = {}

Erase(r) ==
  \/ \E u \in Users : EraseStart(r, u) /\ UNCHANGED <<spaceVars, treeVars, fileVars, libVars, billVars>>
  \/ HandOver(r) /\ UNCHANGED <<spaceVars, block, raced, object, libVars, billVars>>
  \/ EraseRow(r) /\ UNCHANGED <<auto, slipped, raced, object, billVars>>

Next ==
  \/ SpacesNext /\ UNCHANGED <<treeVars, fileVars, libVars, billVars>>
  \/ PagesNext /\ UNCHANGED <<spaceVars, fileVars, libVars, billVars>>
  \/ FilesNext /\ UNCHANGED <<spaceVars, treeVars, libVars, billVars>>
  \/ LibraryNext /\ UNCHANGED <<spaceVars, treeVars, fileVars, billVars>>
  \/ BuildNext /\ UNCHANGED <<file, object, billVars>>
  \/ RecipeNext /\ UNCHANGED <<spaceVars, fileVars, billVars>>
  \/ BillingNext /\ UNCHANGED <<spaceVars, treeVars, fileVars, libVars>>
  \/ \E r \in Slots : Erase(r)

Spec == Init /\ [][Next]_vars

-----------------------------------------------------------------------------
\* Lists, searches and one's own things are exactly what the access check of a single row lets the
\* caller read (workspace.service.js 226-256 against page.service.js 19-29 and 170-220 and
\* task.service.js 20-81): nobody sees what they were removed from, and no member misses a thing. A
\* download of one's data, which goes by member rows, names every workspace that listForUser shows, which goes
\* by ownerId as well, but for one handed to somebody who was about to leave it; and the blocks of the pages
\* one may read (user.service.js 60-92, workspace.service.js 125-132, 547-583).
ListsMatchAccess ==
  \A u \in Users :
    LET pages == {p \in Rows(page) : MayUse(page[p], u, "read")}
        tasks == {t \in Rows(task) : MayUse(task[t], u, "read")}
        mine  == Exported(u)
    IN
    /\ Found(u) = pages \cap Live /\ OwnPages(u) = {p \in pages \cap Live : page[p].by = u}
    /\ TasksFound(u) = tasks /\ OwnTasks(u) = tasks \cap mine.tasks
    /\ \A w \in Rows(owner) : Listed(u, w) \subseteq pages /\ TasksListed(u, w) \subseteq tasks
    /\ mine.owned \cup mine.member \subseteq Mine(u) /\ Mine(u) \ slipped \subseteq mine.owned \cup mine.member
    /\ mine.blocks = {b \in Rows(block) : block[b].page \in pages \cap mine.pages}

\* The step that deletes the row of an account, and the request that takes it.
Erasing(r) == At(r, "row") /\ account[req[r].by] /\ ~account'[req[r].by]

\* Deleting an account takes no workspace that others belong to and, of the workspaces of others it
\* handed its work over in, no task and no page, but for what came, or who joined, after it had
\* looked (user.service.js 186-231).
OthersKeepTheirs ==
  [][ \A r \in Slots : Erasing(r) =>
        LET u == req[r].by
            since == req[r].since
            handed == DOMAIN req[r].heir \ since
        IN
        /\ Shared(u) \subseteq since
        /\ \A t \in LostTasks(u) \ since : task[t].ws \notin handed
        /\ \A p \in LostPages(u) \ Below(page, since) : page[p].ws \notin handed ]_vars

\* "Work this person did inside someone ELSE's workspace belongs to that workspace"
\* (user.service.js 208-210): it outlives the account, whoever is a member by then.
WorkStays ==
  [][ \A r \in Slots : Erasing(r) =>
        \A x \in (LostTasks(req[r].by) \ req[r].since) :
          Exists(task[x].ws) => owner[task[x].ws] = req[r].by ]_vars

\* The store loses an object after its row: no file that is still listed has lost its content, but
\* for one that changed hands, by itself or with its task or workspace, during a deletion (file.service.js 55-63,
\* task.service.js 322-333, user.service.js 232-245).
ObjectsGoLast ==
  [][ \A f \in object \ object' : f \in Rows(file) =>
        \E r \in Slots :
          /\ req[r].op = "sweep" /\ f \in req[r].objects
          /\ {f, file[f].task, SpaceOf(f)} \cap req[r].since # {} ]_vars

\* Nobody is billed once their account is gone, but whose subscription was paid, or became known to the
\* row, after billing had been stopped, whose subscription had no id stored by then, and whose row still
\* said that an earlier one was canceled (user.service.js 201-206, payment.service.js 383-391, 464-477, and
\* cancelNow of the gateways).
NobodyIsBilledAfterLeaving ==
  \A u \in Users : ~account[u] /\ bill[u].at = "active" => u \in paidLate \/ ~bill[u].id \/ bill[u].says = "canceled"

\* "Throws unless Razorpay confirms it is ended ..., so the caller refuses to delete an account that would
\* keep being billed" (razorpay.service.js 245-247): nobody is, whose subscription was paid and its id stored in time.
EndedBeforeGone ==
  \A u \in Users : ~account[u] /\ bill[u].at = "active" => u \in paidLate \/ ~bill[u].id
=============================================================================
