----------------------------- MODULE ContentProofs -----------------------------
(* What content keeps whoever works on it and leaves, for any people, workspaces,  *)
(* rows and requests.                                                              *)
EXTENDS Content, FiniteSetTheorems, TLAPS

-----------------------------------------------------------------------------
(* Types, part by part. *)

SpaceTyped ==
  /\ account \in [Users -> BOOLEAN]
  /\ owner \in Table(Workspaces, Users) /\ role \in [Workspaces -> [Users -> Roles]]
  /\ auto \in [Workspaces -> Users \cup {None}] /\ slipped \subseteq Workspaces
ReqTyped == req \in [Slots -> Request] /\ calls \in 0 .. MaxCalls
TreeTyped == page \in Table(Pages, PageRow) /\ block \in Table(Blocks, BlockRow) /\ raced \subseteq Pages
FileTyped == task \in Table(TaskIds, TaskRow) /\ file \in Table(Files, FileRow) /\ object \subseteq Files
LibTyped == saved \in Table(Templates, SavedRow) /\ recipes \in [Users -> SUBSET Nat]
BillTyped == bill \in [Users -> Bill] /\ paidLate \subseteq Users

LEMMA TypeParts == TypeOK <=> SpaceTyped /\ ReqTyped /\ TreeTyped /\ FileTyped /\ LibTyped /\ BillTyped
BY DEF TypeOK, SpaceTyped, ReqTyped, TreeTyped, FileTyped, LibTyped, BillTyped

\* What a request of each kind carries.
LEMMA Carries ==
  ASSUME NEW q \in Request
  PROVE  /\ q.op = "default" => q.by \in Users
         /\ q.op = "leave" => q.ws \in Workspaces /\ q.by \in Users
         /\ q.op = "transfer" => q.ws \in Workspaces /\ q.by \in Users /\ q.to \in Users
         /\ q.op = "page" => q.by \in Users /\ q.ws \in Workspaces /\ q.parent \in Pages \cup {None} /\ q.fill \in Nat
         /\ q.op = "fill" => q.page \in Pages /\ q.fill \in Nat
         /\ q.op = "move" => q \in MoveRequest
         /\ q.op = "archive" => q.pages \subseteq Pages /\ q.archived \in BOOLEAN
         /\ q.op = "block" => q.page \in Pages /\ q.parent \in Blocks \cup {None}
         /\ q.op = "nest" => q.block \in Blocks /\ q.to \in Blocks \cup {None}
         /\ q.op = "drop" => q.block \in Blocks
         /\ q.op = "task" => q.by \in Users /\ q.ws \in Workspaces
         /\ q.op = "untask" => q.task \in TaskIds /\ q.objects \subseteq Files
         /\ q.op = "upload" => q.by \in Users /\ q.task \in TaskIds \cup {None}
         /\ q.op = "row" => q.by \in Users /\ q.task \in TaskIds \cup {None} /\ q.file \in Files
         /\ q.op = "read" => q.by \in Users /\ q.ws \in Workspaces /\ q.parts \subseteq Parts /\ q.next \in {"copy", "save"}
         /\ q.op \in {"copy", "save"} => q.by \in Users /\ q.shape \in Shape
         /\ q.op = "erase" => q \in EraseRequests
         /\ q.op = "sweep" => q \in SweepRequests
BY DEF Request, SpaceRequests, Idle, PageRequests, MoveRequest, BlockRequests, FileRequests, LibraryRequests,
       EraseRequests, SweepRequests

\* A request goes on, or starts, as one that is typed.
LEMMA GoesTyped ==
  ASSUME ReqTyped, NEW r \in Slots, NEW next \in Request,
         req' = [req EXCEPT ![r] = next],
         UNCHANGED calls \/ (calls < MaxCalls /\ calls' = calls + 1)
  PROVE  ReqTyped'
BY ContentAssumption DEF ReqTyped

LEMMA IdleTyped == Idle \in Request
BY DEF Request, SpaceRequests

\* Noting changes no more than what a deletion has missed.
LEMMA NotedRequest ==
  ASSUME NEW S \in SUBSET Things, NEW q \in Request, q.op \in {"erase", "sweep"}
  PROVE  [q EXCEPT !.since = @ \cup S] \in Request
<1>1. CASE q.op = "erase"
  <2>1. q \in EraseRequests BY <1>1, Carries
  <2>2. [q EXCEPT !.since = @ \cup S] \in EraseRequests BY <2>1 DEF EraseRequests
  <2> QED BY <2>2 DEF Request
<1>2. CASE q.op = "sweep"
  <2>1. q \in SweepRequests BY <1>2, Carries
  <2>2. [q EXCEPT !.since = @ \cup S] \in SweepRequests BY <2>1 DEF SweepRequests
  <2> QED BY <2>2 DEF Request
<1> QED BY <1>1, <1>2

LEMMA NotingTyped ==
  ASSUME NEW S \in SUBSET Things, NEW reqs \in [Slots -> Request]
  PROVE  Noting(S, reqs) \in [Slots -> Request]
<1>1. ASSUME NEW q \in Slots
      PROVE  (IF reqs[q].op \in {"erase", "sweep"} THEN [reqs[q] EXCEPT !.since = @ \cup S] ELSE reqs[q]) \in Request
  BY NotedRequest
<1> QED BY <1>1 DEF Noting

LEMMA FoundedTyped ==
  ASSUME SpaceTyped, NEW w \in Workspaces, NEW u \in Users, Founded(w, u)
  PROVE  /\ account' \in [Users -> BOOLEAN] /\ owner' \in Table(Workspaces, Users)
         /\ role' \in [Workspaces -> [Users -> Roles]] /\ slipped' \subseteq Workspaces
BY DEF SpaceTyped, Founded, Table, Roles

\* Starting a request.
LEMMA BeginTyped ==
  ASSUME ReqTyped, NEW r \in Slots, NEW u, NEW next \in Request, Begin(r, u, next)
  PROVE  ReqTyped'
BY GoesTyped DEF Begin, Open

LEMMA SpacesTyped ==
  ASSUME SpaceTyped, ReqTyped, SpacesNext
  PROVE  SpaceTyped' /\ ReqTyped'
<1>1. ASSUME NEW u \in Users, NEW w \in Workspaces, CreateSpace(u, w)
      PROVE  SpaceTyped' /\ ReqTyped'
  BY <1>1, FoundedTyped, ContentAssumption DEF CreateSpace, Call, SpaceTyped, ReqTyped
<1>2. ASSUME NEW u \in Users, NEW w \in Workspaces, NEW kind \in {"viewer", "editor"}, Join(w, u, kind)
      PROVE  SpaceTyped' /\ ReqTyped'
  <2>1. {w} \in SUBSET Things BY DEF Things
  <2>2. req' \in [Slots -> Request] BY <1>2, <2>1, NotingTyped DEF Join, ReqTyped
  <2>3. calls' \in 0 .. MaxCalls BY <1>2, ContentAssumption DEF Join, Call, ReqTyped
  <2>4. SpaceTyped' BY <1>2 DEF Join, SpaceTyped, Roles
  <2> QED BY <2>2, <2>3, <2>4 DEF ReqTyped
<1>3. ASSUME NEW r \in Slots, NEW u \in Users, NEW w \in Workspaces, NEW v \in Users,
             LeaveStart(r, w, u) \/ TransferStart(r, w, u, v)
      PROVE  SpaceTyped' /\ ReqTyped'
  <2>1. [op |-> "leave", ws |-> w, by |-> u] \in Request BY DEF Request, SpaceRequests
  <2>2. [op |-> "transfer", ws |-> w, by |-> u, to |-> v] \in Request BY DEF Request, SpaceRequests
  <2>3. ReqTyped' BY <1>3, <2>1, <2>2, BeginTyped DEF LeaveStart, TransferStart
  <2> QED BY <1>3, <2>3 DEF LeaveStart, TransferStart, spaceVars, SpaceTyped
<1>4. ASSUME NEW r \in Slots, LeaveWrite(r) \/ TransferWrite(r)
      PROVE  SpaceTyped' /\ ReqTyped'
  <2>1. req[r] \in Request BY DEF ReqTyped
  <2>2. CASE LeaveWrite(r)
    <3>1. req[r].ws \in Workspaces /\ req[r].by \in Users BY <2>1, <2>2, Carries DEF LeaveWrite
    <3>2. ReqTyped' BY <2>2, GoesTyped, IdleTyped DEF LeaveWrite, Ends, Goes
    <3> QED BY <2>2, <3>1, <3>2 DEF LeaveWrite, SpaceTyped, Roles
  <2>3. CASE TransferWrite(r)
    <3>1. req[r].ws \in Workspaces /\ req[r].by \in Users /\ req[r].to \in Users
      BY <2>1, <2>3, Carries DEF TransferWrite
    <3>2. {req[r].ws} \in SUBSET Things BY <3>1 DEF Things
    <3>3. [req EXCEPT ![r] = Idle] \in [Slots -> Request] BY IdleTyped DEF ReqTyped
    <3>4. req' \in [Slots -> Request] BY <2>3, <3>2, <3>3, NotingTyped DEF TransferWrite, Handing
    <3>5. ReqTyped' BY <2>3, <3>4 DEF TransferWrite, Handing, ReqTyped
    <3>6. SpaceTyped' BY <2>3, <3>1 DEF TransferWrite, Handing, SpaceTyped, Roles, Table
    <3> QED BY <3>5, <3>6
  <2> QED BY <1>4, <2>2, <2>3
<1>5. ASSUME NEW r \in Slots, NEW u \in Users, ListStart(r, u)
      PROVE  SpaceTyped' /\ ReqTyped'
  <2>1. [op |-> "default", by |-> u] \in Request BY DEF Request, SpaceRequests
  <2>2. ReqTyped' BY <1>5, <2>1, BeginTyped DEF ListStart
  <2> QED BY <1>5, <2>2 DEF ListStart, spaceVars, SpaceTyped
<1>6. ASSUME NEW r \in Slots, NEW w \in Workspaces, ListLock(r, w)
      PROVE  SpaceTyped' /\ ReqTyped'
  <2>1. req[r] \in Request BY DEF ReqTyped
  <2>2. req[r].by \in Users BY <1>6, <2>1, Carries DEF ListLock
  <2>3. ReqTyped' BY <1>6, GoesTyped, IdleTyped DEF ListLock, Ends, Goes
  <2>4. auto' \in [Workspaces -> Users \cup {None}] BY <1>6, <2>2 DEF ListLock, SpaceTyped
  <2> QED BY <1>6, <2>2, <2>3, <2>4, FoundedTyped DEF ListLock, SpaceTyped
<1>7. ASSUME NEW r \in Slots, Abandon(r)
      PROVE  SpaceTyped' /\ ReqTyped'
  <2>1. ReqTyped' BY <1>7, GoesTyped, IdleTyped DEF Abandon, Ends, Goes
  <2> QED BY <1>7, <2>1 DEF Abandon, spaceVars, SpaceTyped
<1> QED
  BY <1>1, <1>2, <1>3, <1>4, <1>5, <1>6, <1>7 DEF SpacesNext

LEMMA RowTyped ==
  ASSUME NEW ids, NEW rows, NEW f \in Table(ids, rows)
  PROVE  /\ DOMAIN f = ids /\ Rows(f) \subseteq ids /\ Free(f) \subseteq ids
         /\ \A x \in Rows(f) : f[x] \in rows
BY DEF Table, Rows, Free

\* Rows are put into a table, or taken from it.
LEMMA TablePut ==
  ASSUME NEW ids, NEW rows, NEW f \in Table(ids, rows), NEW x \in ids, NEW row \in rows \cup {None, Gone}
  PROVE  [f EXCEPT ![x] = row] \in Table(ids, rows)
BY DEF Table

LEMMA BelowIsRows ==
  ASSUME NEW f, NEW S
  PROVE  Below(f, S) \subseteq Rows(f)
BY DEF Below

LEMMA DescendantsArePages ==
  ASSUME TreeTyped, NEW p
  PROVE  Descendants(p) \subseteq Rows(page) /\ Rows(page) \subseteq Pages
BY RowTyped, BelowIsRows DEF Descendants, Under, TreeTyped

\* The starts of requests on pages and blocks.
LEMMA PageStartsTyped ==
  ASSUME ReqTyped, TreeTyped, NEW r \in Slots, NEW u \in Users,
         PageStarts(r, u) \/ \E w \in Workspaces, q \in Pages \cup {None}, n \in Nat : CreateStart(r, u, w, q, n)
  PROVE  TreeTyped' /\ ReqTyped'
<1> DEFINE Now == TreeTyped' /\ ReqTyped'
<1>1. ASSUME NEW w \in Workspaces, NEW q \in Pages \cup {None}, NEW n \in Nat, CreateStart(r, u, w, q, n)
      PROVE  Now
  <2>1. [op |-> "page", by |-> u, ws |-> w, parent |-> q, fill |-> n] \in Request
    BY DEF Request, PageRequests
  <2>2. ReqTyped' BY <1>1, <2>1, BeginTyped DEF CreateStart
  <2> QED BY <1>1, <2>2 DEF CreateStart, treeVars, TreeTyped
<1>2. ASSUME NEW p \in Pages, NEW q \in Pages \cup {None}, MoveStart(r, u, p, q)
      PROVE  Now
  <2>1. [op |-> "move", page |-> p, to |-> q, late |-> FALSE] \in Request
    BY DEF Request, PageRequests, MoveRequest
  <2>2. ReqTyped' BY <1>2, <2>1, BeginTyped DEF MoveStart
  <2> QED BY <1>2, <2>2 DEF MoveStart, treeVars, TreeTyped
<1>3. ASSUME NEW p \in Pages, ArchiveStart(r, u, p)
      PROVE  Now
  <2>1. [op |-> "archive", pages |-> Descendants(p) \cup {p}, archived |-> TRUE] \in Request
    BY DescendantsArePages DEF Request, PageRequests
  <2>2. ReqTyped' BY <1>3, <2>1, BeginTyped DEF ArchiveStart
  <2> QED BY <1>3, <2>2 DEF ArchiveStart, treeVars, TreeTyped
<1>4. ASSUME NEW p \in Pages, NEW archived \in BOOLEAN, FlagStart(r, u, p, archived)
      PROVE  Now
  <2>1. [op |-> "archive", pages |-> {p}, archived |-> archived] \in Request
    BY DEF Request, PageRequests
  <2>2. ReqTyped' BY <1>4, <2>1, BeginTyped DEF FlagStart
  <2> QED BY <1>4, <2>2 DEF FlagStart, treeVars, TreeTyped
<1>5. ASSUME NEW p \in Pages, NEW b \in Blocks \cup {None}, BlockStart(r, u, p, b)
      PROVE  Now
  <2>1. [op |-> "block", page |-> p, parent |-> b] \in Request
    BY DEF Request, BlockRequests
  <2>2. ReqTyped' BY <1>5, <2>1, BeginTyped DEF BlockStart
  <2> QED BY <1>5, <2>2 DEF BlockStart, treeVars, TreeTyped
<1>6. ASSUME NEW b \in Blocks, NEW to \in Blocks \cup {None}, NestStart(r, u, b, to)
      PROVE  Now
  <2>1. [op |-> "nest", block |-> b, to |-> to] \in Request
    BY DEF Request, BlockRequests
  <2>2. ReqTyped' BY <1>6, <2>1, BeginTyped DEF NestStart
  <2> QED BY <1>6, <2>2 DEF NestStart, treeVars, TreeTyped
<1>7. ASSUME NEW b \in Blocks, DropStart(r, u, b)
      PROVE  Now
  <2>1. [op |-> "drop", block |-> b] \in Request
    BY DEF Request, BlockRequests
  <2>2. ReqTyped' BY <1>7, <2>1, BeginTyped DEF DropStart
  <2> QED BY <1>7, <2>2 DEF DropStart, treeVars, TreeTyped
<1> QED
  BY <1>1, <1>2, <1>3, <1>4, <1>5, <1>6, <1>7 DEF PageStarts

\* The writes.
LEMMA PageWritesTyped ==
  ASSUME ReqTyped, TreeTyped, NEW r \in Slots,
         \/ CreateWrite(r) \/ Fill(r) \/ MoveWrite(r) \/ ArchiveWrite(r)
         \/ BlockWrite(r) \/ NestWrite(r) \/ DropWrite(r)
  PROVE  TreeTyped' /\ ReqTyped'
<1> DEFINE Now == TreeTyped' /\ ReqTyped'
<1> USE DEF Goes, Ends
<1>0. req[r] \in Request /\ req \in [Slots -> Request] /\ calls \in 0 .. MaxCalls BY DEF ReqTyped
<1>9. page \in Table(Pages, PageRow) /\ block \in Table(Blocks, BlockRow) /\ raced \subseteq Pages BY DEF TreeTyped
<1>8. /\ \A p \in Rows(page) : p \in Pages /\ page[p] \in PageRow
      /\ \A b \in Rows(block) : b \in Blocks /\ block[b] \in BlockRow
  BY <1>9, RowTyped
<1>1. ASSUME CreateWrite(r) PROVE Now
  <2> DEFINE p == CHOOSE x \in Free(page) : TRUE
             row == [ws |-> req[r].ws, by |-> req[r].by, parent |-> req[r].parent, archived |-> FALSE]
             next == IF req[r].fill = 0 THEN Idle ELSE [op |-> "fill", page |-> p, fill |-> req[r].fill]
  <2>1. p \in Pages BY <1>1, <1>9, RowTyped DEF CreateWrite
  <2>2. row \in PageRow /\ req[r].fill \in Nat BY <1>0, <1>1, Carries DEF CreateWrite, PageRow
  <2>3. page' = [page EXCEPT ![p] = row] /\ UNCHANGED <<calls, block, raced>>
        /\ req' = Noting({p}, [req EXCEPT ![r] = next])
    BY <1>1 DEF CreateWrite
  <2> HIDE DEF p, row
  <2>4. next \in Request BY <2>1, <2>2, IdleTyped DEF Request, PageRequests
  <2> HIDE DEF next
  <2>5. {p} \in SUBSET Things BY <2>1 DEF Things
  <2>6. req' \in [Slots -> Request] BY <1>0, <2>3, <2>4, <2>5, NotingTyped
  <2> QED BY <1>0, <1>9, <2>1, <2>2, <2>3, <2>6, TablePut DEF TreeTyped, ReqTyped
<1>2. ASSUME Fill(r) PROVE Now
  <2>1. req[r].page \in Pages BY <1>0, <1>2, Carries DEF Fill
  <2>2. [page |-> req[r].page, parent |-> None] \in BlockRow BY <2>1 DEF BlockRow
  <2>3. block' \in Table(Blocks, BlockRow) BY <1>2, <1>9, <2>2 DEF Fill, Table
  <2>4. ReqTyped' BY <1>2, GoesTyped, IdleTyped DEF Fill
  <2> QED BY <1>2, <1>9, <2>3, <2>4 DEF Fill, TreeTyped
<1>3. ASSUME MoveWrite(r) PROVE Now
  <2>1. req[r] \in MoveRequest BY <1>0, <1>3, Carries DEF MoveWrite
  <2>2. [page[req[r].page] EXCEPT !.parent = req[r].to] \in PageRow
    <3>1. page[req[r].page] \in PageRow /\ req[r].to \in Pages \cup {None} BY <1>3, <1>8, <2>1 DEF MoveWrite, MoveRequest
    <3> QED BY <3>1 DEF PageRow
  <2>3. page' \in Table(Pages, PageRow) BY <1>3, <1>9, <2>1, <2>2 DEF MoveWrite, MoveRequest, Table
  <2>4. ASSUME NEW q \in Slots, req[q].op = "move" PROVE [req[q] EXCEPT !.late = TRUE] \in Request
    <3>1. req[q] \in MoveRequest BY <1>0, <2>4, Carries
    <3> QED BY <3>1 DEF MoveRequest, Request, PageRequests
  <2>5. req' \in [Slots -> Request] BY <1>0, <1>3, <2>4, IdleTyped DEF MoveWrite
  <2>6. raced' \subseteq Pages BY <1>3, <1>9, <2>1 DEF MoveWrite, MoveRequest
  <2> QED BY <1>0, <1>3, <1>9, <2>3, <2>5, <2>6 DEF MoveWrite, TreeTyped, ReqTyped
<1>4. ASSUME ArchiveWrite(r) PROVE Now
  <2>1. req[r].archived \in BOOLEAN BY <1>0, <1>4, Carries DEF ArchiveWrite
  <2>2. ASSUME NEW p \in Rows(page) PROVE [page[p] EXCEPT !.archived = req[r].archived] \in PageRow
    <3>1. page[p] \in PageRow BY <1>8, <2>2
    <3> QED BY <2>1, <3>1 DEF PageRow
  <2>3. page' \in Table(Pages, PageRow) BY <1>4, <1>9, <2>2 DEF ArchiveWrite, Table
  <2>4. ReqTyped' BY <1>4, GoesTyped, IdleTyped DEF ArchiveWrite
  <2> QED BY <1>4, <1>9, <2>3, <2>4 DEF ArchiveWrite, TreeTyped
<1>5. ASSUME BlockWrite(r) PROVE Now
  <2>1. [page |-> req[r].page, parent |-> req[r].parent] \in BlockRow
    BY <1>0, <1>5, Carries DEF BlockWrite, BlockRow
  <2>2. (CHOOSE x \in Free(block) : TRUE) \in Blocks BY <1>5, <1>9, RowTyped DEF BlockWrite
  <2>3. block' \in Table(Blocks, BlockRow) BY <1>5, <1>9, <2>1, <2>2, TablePut DEF BlockWrite
  <2>4. ReqTyped' BY <1>5, GoesTyped, IdleTyped DEF BlockWrite
  <2> QED BY <1>5, <1>9, <2>3, <2>4 DEF BlockWrite, TreeTyped
<1>6. ASSUME NestWrite(r) PROVE Now
  <2>1. req[r].block \in Blocks /\ req[r].to \in Blocks \cup {None} BY <1>0, <1>6, Carries DEF NestWrite
  <2>2. [block[req[r].block] EXCEPT !.parent = req[r].to] \in BlockRow
    <3>1. block[req[r].block] \in BlockRow BY <1>6, <1>8, <2>1 DEF NestWrite
    <3> QED BY <2>1, <3>1 DEF BlockRow
  <2>3. block' \in Table(Blocks, BlockRow) BY <1>6, <1>9, <2>1, <2>2 DEF NestWrite, Table
  <2>4. ReqTyped' BY <1>6, GoesTyped, IdleTyped DEF NestWrite
  <2> QED BY <1>6, <1>9, <2>3, <2>4 DEF NestWrite, TreeTyped
<1>7. ASSUME DropWrite(r) PROVE Now
  <2>1. block' \in Table(Blocks, BlockRow) BY <1>7, <1>9 DEF DropWrite, Table
  <2>2. ReqTyped' BY <1>7, GoesTyped, IdleTyped DEF DropWrite
  <2> QED BY <1>7, <1>9, <2>1, <2>2 DEF DropWrite, TreeTyped
<1> QED
  BY <1>1, <1>2, <1>3, <1>4, <1>5, <1>6, <1>7

LEMMA PagesTyped ==
  ASSUME ReqTyped, TreeTyped, PagesNext
  PROVE  TreeTyped' /\ ReqTyped'
BY PageStartsTyped, PageWritesTyped DEF PagesNext

LEMMA FileRows ==
  ASSUME FileTyped
  PROVE  /\ task \in Table(TaskIds, TaskRow) /\ file \in Table(Files, FileRow) /\ object \subseteq Files
         /\ \A t \in Rows(task) : t \in TaskIds /\ task[t] \in TaskRow
         /\ \A f \in Rows(file) : f \in Files /\ file[f] \in FileRow
         /\ Free(task) \subseteq TaskIds /\ Free(file) \subseteq Files
BY RowTyped DEF FileTyped

LEMMA FilesTyped ==
  ASSUME ReqTyped, FileTyped, FilesNext
  PROVE  FileTyped' /\ ReqTyped'
<1> DEFINE Now == FileTyped' /\ ReqTyped'
<1> USE DEF Goes, Ends
<1>0. req \in [Slots -> Request] BY DEF ReqTyped
<1>1. ASSUME NEW r \in Slots, NEW u \in Users, NEW w \in Workspaces, TaskStart(r, u, w)
      PROVE  Now
  <2>1. [op |-> "task", by |-> u, ws |-> w] \in Request BY DEF Request, FileRequests
  <2>2. ReqTyped' BY <1>1, <2>1, BeginTyped DEF TaskStart
  <2> QED BY <1>1, <2>2 DEF TaskStart, fileVars, FileTyped
<1>2. ASSUME NEW r \in Slots, NEW u \in Users, NEW t \in TaskIds, TaskRemoveStart(r, u, t)
      PROVE  Now
  <2>1. FilesOf(t) \subseteq Files BY FileRows DEF FilesOf
  <2>2. [op |-> "untask", task |-> t, objects |-> FilesOf(t)] \in Request BY <2>1 DEF Request, FileRequests
  <2>3. ReqTyped' BY <1>2, <2>2, BeginTyped DEF TaskRemoveStart
  <2> QED BY <1>2, <2>3 DEF TaskRemoveStart, fileVars, FileTyped
<1>3. ASSUME NEW r \in Slots, NEW u \in Users, NEW t \in TaskIds \cup {None}, UploadStart(r, u, t)
      PROVE  Now
  <2>1. [op |-> "upload", by |-> u, task |-> t] \in Request BY DEF Request, FileRequests
  <2>2. ReqTyped' BY <1>3, <2>1, BeginTyped DEF UploadStart
  <2> QED BY <1>3, <2>2 DEF UploadStart, fileVars, FileTyped
<1>4. ASSUME NEW r \in Slots, NEW u \in Users, NEW f \in Files, FileRemove(r, u, f)
      PROVE  Now
  <2>1. [op |-> "sweep", objects |-> {f}, since |-> {}] \in Request BY DEF Request, SweepRequests
  <2>2. ReqTyped' BY <1>4, <2>1, BeginTyped DEF FileRemove
  <2>3. file' \in Table(Files, FileRow) BY <1>4, FileRows, TablePut DEF FileRemove
  <2> QED BY <1>4, <2>2, <2>3 DEF FileRemove, FileTyped
<1>5. ASSUME NEW r \in Slots, NEW f \in Files, UploadSave(r, f)
      PROVE  Now
  <2>1. req[r].by \in Users /\ req[r].task \in TaskIds \cup {None} BY <1>0, <1>5, Carries DEF UploadSave
  <2>2. [op |-> "row", by |-> req[r].by, task |-> req[r].task, file |-> f] \in Request
    BY <2>1 DEF Request, FileRequests
  <2>3. ReqTyped' BY <1>5, <2>2, GoesTyped DEF UploadSave
  <2> QED BY <1>5, <2>3 DEF UploadSave, FileTyped
<1>6. ASSUME NEW r \in Slots, NEW f \in Files, Sweep(r, f)
      PROVE  Now
  <2>1. req[r] \in SweepRequests BY <1>0, <1>6, Carries DEF Sweep
  <2>2. [req[r] EXCEPT !.objects = @ \ {f}] \in Request BY <2>1 DEF Request, SweepRequests
  <2>3. ReqTyped' BY <1>6, <2>2, IdleTyped, GoesTyped DEF Sweep
  <2> QED BY <1>6, <2>3 DEF Sweep, FileTyped
<1>7. ASSUME NEW r \in Slots, TaskWrite(r)
      PROVE  Now
  <2> DEFINE t == CHOOSE x \in Free(task) : TRUE
             row == [ws |-> req[r].ws, by |-> req[r].by]
  <2>1. t \in TaskIds BY <1>7, FileRows DEF TaskWrite
  <2>2. row \in TaskRow BY <1>0, <1>7, Carries DEF TaskWrite, TaskRow
  <2>3. task' = [task EXCEPT ![t] = row] /\ req' = Noting({t}, [req EXCEPT ![r] = Idle]) BY <1>7 DEF TaskWrite
  <2> HIDE DEF t, row
  <2>4. {t} \in SUBSET Things BY <2>1 DEF Things
  <2>5. req' \in [Slots -> Request] BY <1>0, <2>3, <2>4, IdleTyped, NotingTyped
  <2>6. task' \in Table(TaskIds, TaskRow) BY <2>1, <2>2, <2>3, FileRows, TablePut
  <2> QED BY <1>7, <2>5, <2>6 DEF TaskWrite, FileTyped, ReqTyped
<1>8. ASSUME NEW r \in Slots, TaskRemoveWrite(r)
      PROVE  Now
  <2>1. req[r].task \in TaskIds /\ req[r].objects \subseteq Files BY <1>0, <1>8, Carries DEF TaskRemoveWrite
  <2>2. [op |-> "sweep", objects |-> req[r].objects, since |-> {}] \in Request BY <2>1 DEF Request, SweepRequests
  <2>3. ReqTyped' BY <1>8, <2>2, GoesTyped DEF TaskRemoveWrite
  <2>4. task' \in Table(TaskIds, TaskRow) BY <1>8, <2>1, FileRows, TablePut DEF TaskRemoveWrite
  <2>5. file' \in Table(Files, FileRow) BY <1>8, FileRows DEF TaskRemoveWrite, Table
  <2> QED BY <1>8, <2>3, <2>4, <2>5 DEF TaskRemoveWrite, FileTyped
<1>9. ASSUME NEW r \in Slots, UploadRow(r)
      PROVE  Now
  <2>1. req[r].by \in Users /\ req[r].task \in TaskIds \cup {None} /\ req[r].file \in Files
    BY <1>0, <1>9, Carries DEF UploadRow
  <2>2. [by |-> req[r].by, task |-> req[r].task] \in FileRow BY <2>1 DEF FileRow
  <2>3. file' \in Table(Files, FileRow) BY <1>9, <2>1, <2>2, FileRows, TablePut DEF UploadRow
  <2>4. ReqTyped' BY <1>9, IdleTyped, GoesTyped DEF UploadRow
  <2> QED BY <1>9, <2>3, <2>4 DEF UploadRow, FileTyped
<1> QED
  BY <1>1, <1>2, <1>3, <1>4, <1>5, <1>6, <1>7, <1>8, <1>9 DEF FilesNext, FileStarts

-----------------------------------------------------------------------------
LEMMA PageRows ==
  ASSUME TreeTyped
  PROVE  /\ page \in Table(Pages, PageRow) /\ block \in Table(Blocks, BlockRow) /\ raced \subseteq Pages
         /\ \A p \in Rows(page) : p \in Pages /\ page[p] \in PageRow
         /\ \A b \in Rows(block) : b \in Blocks /\ block[b] \in BlockRow
         /\ Free(page) \subseteq Pages /\ Free(block) \subseteq Blocks
BY RowTyped DEF TreeTyped

LEMMA InPartly ==
  ASSUME NEW S, NEW T, NEW U \in SUBSET S, NEW g \in [U -> T]
  PROVE  g \in Partly(S, T)
BY DEF Partly

LEMMA PartlyIs ==
  ASSUME NEW S, NEW T, NEW g \in Partly(S, T)
  PROVE  DOMAIN g \subseteq S /\ g \in [DOMAIN g -> T]
BY DEF Partly

LEMMA CollectTyped ==
  ASSUME TreeTyped, FileTyped, NEW w, NEW parts
  PROVE  Collect(w, parts) \in Shape
<1> DEFINE pages == {p \in Live : "pages" \in parts /\ page[p].ws = w}
           blocks == {b \in Rows(block) : block[b].page \in pages}
           asPages == [p \in pages |-> IF page[p].parent \in pages THEN page[p].parent ELSE None]
           asBlocks == [b \in blocks |-> block[b]]
           tasks == {t \in Rows(task) : "tasks" \in parts /\ task[t].ws = w}
           late == raced \cap pages
<1>1. pages \subseteq Pages BY PageRows DEF Live
<1>2. asPages \in [pages -> Pages \cup {None}] BY <1>1
<1>3. blocks \subseteq Blocks /\ asBlocks \in [blocks -> BlockRow] BY PageRows
<1>4. tasks \subseteq TaskIds BY FileRows
<1>5. asPages \in Partly(Pages, Pages \cup {None}) BY <1>1, <1>2, InPartly
<1>6. asBlocks \in Partly(Blocks, BlockRow) BY <1>3, InPartly
<1>7. \A b \in DOMAIN asBlocks : asBlocks[b].page \in DOMAIN asPages OBVIOUS
<1>8. late \subseteq Pages BY <1>1
<1> HIDE DEF pages, asPages, asBlocks, tasks, late
<1>9. [pages |-> asPages, blocks |-> asBlocks, tasks |-> tasks, late |-> late] \in Shape
  BY <1>4, <1>5, <1>6, <1>7, <1>8 DEF Shape
<1> QED BY <1>9 DEF Collect, pages, asPages, asBlocks, tasks, late

LEMMA OnlyTyped ==
  ASSUME NEW shape \in Shape, NEW parts
  PROVE  Only(shape, parts) \in Shape
<1>1. [p \in {} |-> None] \in Partly(Pages, Pages \cup {None})
  <2>1. [p \in {} |-> None] \in [{} -> Pages \cup {None}] OBVIOUS
  <2> QED BY <2>1, InPartly
<1>2. [b \in {} |-> None] \in Partly(Blocks, BlockRow)
  <2>1. [b \in {} |-> None] \in [{} -> BlockRow] OBVIOUS
  <2> QED BY <2>1, InPartly
<1> QED BY <1>1, <1>2 DEF Only, Shape

LEMMA SavedRows ==
  ASSUME LibTyped
  PROVE  /\ saved \in Table(Templates, SavedRow) /\ recipes \in [Users -> SUBSET Nat]
         /\ \A x \in Rows(saved) : x \in Templates /\ saved[x] \in SavedRow
BY RowTyped DEF LibTyped

\* How many blocks a page has is a number.
LEMMA CountTyped ==
  ASSUME TreeTyped, NEW p
  PROVE  Cardinality({b \in Rows(block) : block[b].page = p}) \in Nat
<1>1. {b \in Rows(block) : block[b].page = p} \in SUBSET Blocks BY PageRows
<1>2. IsFiniteSet({b \in Rows(block) : block[b].page = p}) BY <1>1, FS_Subset, ContentAssumption
<1> QED BY <1>2, FS_CardinalityType

LEMMA LibraryTyped ==
  ASSUME ReqTyped, TreeTyped, FileTyped, LibTyped, LibraryNext
  PROVE  LibTyped' /\ ReqTyped'
<1> DEFINE Now == LibTyped' /\ ReqTyped'
<1> USE DEF Goes, Ends
<1>0. req \in [Slots -> Request] BY DEF ReqTyped
<1>1. ASSUME NEW r \in Slots, NEW u \in Users, NEW w \in Workspaces, NEW parts \in SUBSET Parts,
             DuplicateStart(r, u, w, parts)
      PROVE  Now
  <2>1. [op |-> "read", by |-> u, ws |-> w, parts |-> parts, next |-> "copy"] \in Request
    BY DEF Request, LibraryRequests
  <2>2. ReqTyped' BY <1>1, <2>1, BeginTyped DEF DuplicateStart
  <2> QED BY <1>1, <2>2 DEF DuplicateStart, libVars, LibTyped
<1>2. ASSUME NEW r \in Slots, NEW u \in Users, NEW w \in Workspaces, SaveStart(r, u, w)
      PROVE  Now
  <2>1. [op |-> "read", by |-> u, ws |-> w, parts |-> Parts, next |-> "save"] \in Request
    BY DEF Request, LibraryRequests
  <2>2. ReqTyped' BY <1>2, <2>1, BeginTyped DEF SaveStart
  <2> QED BY <1>2, <2>2 DEF SaveStart, libVars, LibTyped
<1>3. ASSUME NEW r \in Slots, NEW u \in Users, NEW x \in Templates, NEW parts \in SUBSET Parts, UseStart(r, u, x, parts)
      PROVE  Now
  <2>1. saved[x].shape \in Shape
    <3>1. saved[x] \in SavedRow BY <1>3, SavedRows DEF UseStart, SavedBy
    <3> QED BY <3>1 DEF SavedRow
  <2>2. [op |-> "copy", by |-> u, shape |-> Only(saved[x].shape, parts)] \in Request
    BY <2>1, OnlyTyped DEF Request, LibraryRequests
  <2>3. ReqTyped' BY <1>3, <2>2, BeginTyped DEF UseStart
  <2> QED BY <1>3, <2>3 DEF UseStart, libVars, LibTyped
<1>4. ASSUME NEW r \in Slots, Read(r)
      PROVE  Now
  <2>1. req[r].by \in Users /\ req[r].next \in {"copy", "save"} BY <1>0, <1>4, Carries DEF Read
  <2>2. Collect(req[r].ws, req[r].parts) \in Shape BY CollectTyped
  <2>3. [op |-> req[r].next, by |-> req[r].by, shape |-> Collect(req[r].ws, req[r].parts)] \in Request
    BY <2>1, <2>2 DEF Request, LibraryRequests
  <2>4. ReqTyped' BY <1>4, <2>3, GoesTyped DEF Read
  <2> QED BY <1>4, <2>4 DEF Read, libVars, LibTyped
<1>5. ASSUME NEW r \in Slots, NEW x \in Templates, Save(r, x)
      PROVE  Now
  <2>1. req[r].by \in Users /\ req[r].shape \in Shape BY <1>0, <1>5, Carries DEF Save
  <2>2. [by |-> req[r].by, shape |-> req[r].shape] \in SavedRow BY <2>1 DEF SavedRow
  <2>3. saved' \in Table(Templates, SavedRow) BY <1>5, <2>2, SavedRows, TablePut DEF Save
  <2>4. ReqTyped' BY <1>5, IdleTyped, GoesTyped DEF Save
  <2> QED BY <1>5, <2>3, <2>4 DEF Save, LibTyped
<1>6. ASSUME NEW u \in Users, NEW x \in Templates, RemoveTemplate(u, x)
      PROVE  Now
  <2>1. saved' \in Table(Templates, SavedRow) BY <1>6, SavedRows, TablePut DEF RemoveTemplate
  <2> QED BY <1>6, <2>1, ContentAssumption DEF RemoveTemplate, Call, LibTyped, ReqTyped
<1>7. ASSUME NEW u \in Users, NEW p \in Pages, SaveRecipe(u, p)
      PROVE  Now
  <2> DEFINE n == Cardinality({b \in Rows(block) : block[b].page = p})
  <2>1. n \in Nat BY CountTyped
  <2>2. recipes' = [recipes EXCEPT ![u] = @ \cup {n}] BY <1>7 DEF SaveRecipe
  <2> HIDE DEF n
  <2>3. recipes' \in [Users -> SUBSET Nat] BY <2>1, <2>2 DEF LibTyped
  <2>4. UNCHANGED <<req, saved>> /\ Call BY <1>7 DEF SaveRecipe
  <2> QED BY <2>3, <2>4, ContentAssumption DEF Call, LibTyped, ReqTyped
<1>8. ASSUME NEW u \in Users, NEW n \in recipes[u], RemoveRecipe(u, n)
      PROVE  Now
  <2>1. recipes' \in [Users -> SUBSET Nat] BY <1>8 DEF RemoveRecipe, LibTyped
  <2> QED BY <1>8, <2>1, ContentAssumption DEF RemoveRecipe, Call, LibTyped, ReqTyped
<1> QED
  BY <1>1, <1>2, <1>3, <1>4, <1>5, <1>6, <1>7, <1>8 DEF LibraryNext, LibraryStarts

\* New ids are different ones.
LEMMA NamingIs ==
  ASSUME NEW S, NEW pool, Fits(S, pool)
  PROVE  /\ Naming(S, pool) \in [S -> pool]
         /\ \A x, y \in S : x # y => Naming(S, pool)[x] # Naming(S, pool)[y]
<1>1. \E g : g \in Namings(S, pool) BY DEF Fits
<1>2. Naming(S, pool) \in Namings(S, pool) BY <1>1 DEF Naming
<1> QED BY <1>2 DEF Namings

\* What Build makes of the tables, from the ids it gives.
Built(r, w, asPage, asBlock, asTask) ==
  LET u == req[r].by
      s == req[r].shape
      To(g, x) == IF x \in DOMAIN g THEN g[x] ELSE None
      From(g, y) == {x \in DOMAIN g : g[x] = y}
  IN
  /\ page' = [p \in Pages |-> IF From(asPage, p) = {} THEN page[p] ELSE
       [ws |-> w, by |-> u, archived |-> FALSE,
        parent |-> To(asPage, s.pages[CHOOSE q \in From(asPage, p) : TRUE])]]
  /\ block' = [b \in Blocks |-> IF From(asBlock, b) = {} THEN block[b] ELSE
       LET row == s.blocks[CHOOSE c \in From(asBlock, b) : TRUE]
       IN [page |-> asPage[row.page], parent |-> To(asBlock, row.parent)]]
  /\ task' = [t \in TaskIds |-> IF From(asTask, t) = {} THEN task[t] ELSE [ws |-> w, by |-> u]]
  /\ raced' = raced \cup {p \in Pages : From(asPage, p) \cap s.late # {}}

LEMMA BuildIs ==
  ASSUME ReqTyped, TreeTyped, FileTyped, NEW r \in Slots, NEW w, Build(r, w)
  PROVE  /\ req[r].by \in Users /\ req[r].shape \in Shape
         /\ \E asPage \in [DOMAIN req[r].shape.pages -> Free(page)],
               asBlock \in [DOMAIN req[r].shape.blocks -> Free(block)],
               asTask \in [req[r].shape.tasks -> Free(task)] :
              /\ \A x, y \in DOMAIN asPage : x # y => asPage[x] # asPage[y]
              /\ \A x, y \in DOMAIN asBlock : x # y => asBlock[x] # asBlock[y]
              /\ Built(r, w, asPage, asBlock, asTask)
<1> DEFINE s == req[r].shape
<1>1. req[r].by \in Users /\ s \in Shape BY Carries DEF Build, ReqTyped
<1>2. Fits(DOMAIN s.pages, Free(page)) /\ Fits(DOMAIN s.blocks, Free(block)) /\ Fits(s.tasks, Free(task))
  BY DEF Build
<1> DEFINE asPage == Naming(DOMAIN s.pages, Free(page))
           asBlock == Naming(DOMAIN s.blocks, Free(block))
           asTask == Naming(s.tasks, Free(task))
<1>3. Built(r, w, asPage, asBlock, asTask) BY DEF Build, Built
<1>4. /\ asPage \in [DOMAIN s.pages -> Free(page)] /\ asBlock \in [DOMAIN s.blocks -> Free(block)]
      /\ asTask \in [s.tasks -> Free(task)]
      /\ \A x, y \in DOMAIN s.pages : x # y => asPage[x] # asPage[y]
      /\ \A x, y \in DOMAIN s.blocks : x # y => asBlock[x] # asBlock[y]
  BY <1>2, NamingIs
<1> HIDE DEF asPage, asBlock, asTask
<1> QED BY <1>1, <1>3, <1>4

LEMMA BuildTyped ==
  ASSUME SpaceTyped, ReqTyped, TreeTyped, FileTyped, LibTyped, BuildNext, UNCHANGED <<file, object>>
  PROVE  SpaceTyped' /\ ReqTyped' /\ TreeTyped' /\ FileTyped' /\ LibTyped'
<1>1. PICK r \in Slots, w \in Workspaces : Build(r, w) BY DEF BuildNext
<1> DEFINE s == req[r].shape
<1>2. req[r].by \in Users /\ s \in Shape BY <1>1, BuildIs
<1>3. PICK asPage \in [DOMAIN s.pages -> Free(page)], asBlock \in [DOMAIN s.blocks -> Free(block)],
           asTask \in [s.tasks -> Free(task)] : Built(r, w, asPage, asBlock, asTask)
  BY <1>1, BuildIs
<1>4. /\ DOMAIN s.pages \subseteq Pages /\ DOMAIN s.blocks \subseteq Blocks
      /\ \A b \in DOMAIN s.blocks : s.blocks[b].page \in DOMAIN s.pages
  BY <1>2, PartlyIs DEF Shape
<1>5. Free(page) \subseteq Pages /\ Free(block) \subseteq Blocks BY PageRows
<1>6. page' \in Table(Pages, PageRow)
  BY <1>2, <1>3, <1>5 DEF Built, TreeTyped, Table, PageRow
<1>7. block' \in Table(Blocks, BlockRow)
  BY <1>3, <1>4, <1>5 DEF Built, TreeTyped, Table, BlockRow
<1>8. task' \in Table(TaskIds, TaskRow)
  BY <1>2, <1>3 DEF Built, FileTyped, Table, TaskRow
<1>9. ReqTyped' BY <1>1, IdleTyped, GoesTyped DEF Build, Ends, Goes
<1>10. raced' \subseteq Pages BY <1>3 DEF Built, TreeTyped
<1>11. SpaceTyped' BY <1>1, <1>2, FoundedTyped DEF Build, SpaceTyped
<1> QED BY <1>1, <1>6, <1>7, <1>8, <1>9, <1>10, <1>11 DEF Build, TreeTyped, FileTyped, LibTyped, libVars

LEMMA RecipeTyped ==
  ASSUME ReqTyped, TreeTyped, LibTyped, RecipeNext
  PROVE  TreeTyped' /\ ReqTyped' /\ LibTyped'
<1>1. PICK r \in Slots, u \in Users, w \in Workspaces, q \in Pages \cup {None} :
        \E n \in BuiltIn \cup recipes[u] : UseRecipe(r, u, w, q, n)
  BY DEF RecipeNext
<1>2. PICK n \in BuiltIn \cup recipes[u] : UseRecipe(r, u, w, q, n) BY <1>1
<1>3. n \in Nat BY ContentAssumption DEF LibTyped
<1>4. CreateStart(r, u, w, q, n) BY <1>2 DEF UseRecipe
<1>5. TreeTyped' /\ ReqTyped' BY <1>3, <1>4, PageStartsTyped
<1> QED BY <1>2, <1>5 DEF UseRecipe, libVars, LibTyped

-----------------------------------------------------------------------------
\* Where a deletion is says what it carries.
LEMMA Erasure ==
  ASSUME ReqTyped, NEW r \in Slots, req[r].op = "erase"
  PROVE  /\ req[r] \in EraseRequests /\ req[r].by \in Users /\ req[r].since \subseteq Things
         /\ req[r].pc \in {"hand", "list", "row"} => req[r].heir \in Heirs
         /\ req[r].pc = "row" => req[r].objects \subseteq Files
<1>1. req[r] \in EraseRequests BY Carries DEF ReqTyped
<1> QED BY <1>1 DEF EraseRequests

\* A deletion goes on with the same that it carried.
LEMMA OntoTyped ==
  ASSUME ReqTyped, NEW r \in Slots, req[r].op = "erase",
         NEW pc, (pc = "read" /\ req[r].pc = "stop") \/ (pc = "list" /\ req[r].pc = "hand")
  PROVE  [req[r] EXCEPT !.pc = pc] \in Request
<1>1. req[r] \in EraseRequests BY Erasure
<1>2. [req[r] EXCEPT !.pc = pc] \in EraseRequests BY <1>1 DEF EraseRequests
<1> QED BY <1>2 DEF Request

LEMMA BillingTyped ==
  ASSUME SpaceTyped, ReqTyped, FileTyped, BillTyped, BillingNext
  PROVE  BillTyped' /\ ReqTyped'
<1> DEFINE Now == BillTyped' /\ ReqTyped'
<1> USE DEF Goes, Ends
<1>0. req \in [Slots -> Request] BY DEF ReqTyped
<1>1. ASSUME NEW u \in Users, NEW stored \in BOOLEAN, Checkout(u, stored)
      PROVE  Now
  <2>1. bill[u] \in Bill BY DEF BillTyped
  <2>2. [bill[u] EXCEPT !.id = FALSE] \in Bill /\ [bill[u] EXCEPT !.at = "unpaid", !.id = stored] \in Bill
    BY <2>1 DEF Bill
  <2>3. bill'[u] \in Bill /\ bill' \in [Users -> Bill] BY <1>1, <2>1, <2>2 DEF Checkout, BillTyped
  <2> QED BY <1>1, <2>3, ContentAssumption DEF Checkout, Call, BillTyped, ReqTyped
<1>2. ASSUME NEW u \in Users, Pay(u)
      PROVE  Now
  <2>1. bill' \in [Users -> Bill] BY <1>2 DEF Pay, BillTyped, Bill
  <2>2. paidLate' \subseteq Users BY <1>2 DEF Pay, BillTyped
  <2>3. ReqTyped' BY <1>2, ContentAssumption DEF Pay, Call, ReqTyped
  <2> QED BY <2>1, <2>2, <2>3 DEF BillTyped
<1>3. ASSUME NEW u \in Users, Learn(u)
      PROVE  Now
  <2>1. bill' \in [Users -> Bill] BY <1>3 DEF Learn, BillTyped, Bill
  <2>2. paidLate' \subseteq Users BY <1>3 DEF Learn, BillTyped
  <2>3. ReqTyped' BY <1>3, ContentAssumption DEF Learn, Call, ReqTyped
  <2> QED BY <2>1, <2>2, <2>3 DEF BillTyped
<1>4. ASSUME NEW r \in Slots, StopBilling(r)
      PROVE  Now
  <2>1. req[r].by \in Users BY <1>4, Erasure DEF StopBilling, At
  <2>2. bill' \in [Users -> Bill] BY <1>4, <2>1 DEF StopBilling, BillTyped, Bill
  <2>3. [req[r] EXCEPT !.pc = "read"] \in Request BY <1>4, OntoTyped DEF StopBilling, At
  <2>4. ReqTyped' BY <1>4, <2>3, IdleTyped, GoesTyped DEF StopBilling, Onto
  <2> QED BY <1>4, <2>2, <2>4 DEF StopBilling, BillTyped
<1>5. ASSUME NEW r \in Slots, ReadMemberships(r)
      PROVE  Now
  <2> DEFINE u == req[r].by
             others == {w \in Workspaces : Exists(w) /\ role[w][u] # "none" /\ owner[w] # u}
             heir == [w \in others |-> owner[w]]
             next == [op |-> "erase", pc |-> "hand", by |-> u, since |-> req[r].since, heir |-> heir]
  <2>1. u \in Users /\ req[r].since \subseteq Things BY <1>5, Erasure DEF ReadMemberships, At
  <2>2. heir \in [others -> Users] BY DEF Exists
  <2>3. heir \in Heirs BY <2>2 DEF Heirs
  <2>4. req' = [req EXCEPT ![r] = next] /\ UNCHANGED <<calls, bill, paidLate>>
    BY <1>5 DEF ReadMemberships, billVars
  <2> HIDE DEF heir, u
  <2>5. next \in Request BY <2>1, <2>3 DEF Request, EraseRequests
  <2> HIDE DEF next
  <2>6. ReqTyped' BY <2>4, <2>5, GoesTyped
  <2> QED BY <2>4, <2>6 DEF BillTyped
<1>6. ASSUME NEW r \in Slots, ListFiles(r)
      PROVE  Now
  <2> DEFINE u == req[r].by
             mine == {f \in Rows(file) :
                        \/ file[f].by = u
                        \/ file[f].task # None /\ task[file[f].task].by = u
                        \/ Exists(SpaceOf(f)) /\ owner[SpaceOf(f)] = u}
             next == [op |-> "erase", pc |-> "row", by |-> u, since |-> req[r].since,
                      heir |-> req[r].heir, objects |-> mine]
  <2>1. u \in Users /\ req[r].since \subseteq Things /\ req[r].heir \in Heirs BY <1>6, Erasure DEF ListFiles, At
  <2>2. mine \subseteq Files BY FileRows
  <2>3. req' = [req EXCEPT ![r] = next] /\ UNCHANGED <<calls, bill, paidLate>>
    BY <1>6 DEF ListFiles, billVars
  <2> HIDE DEF mine, u
  <2>4. next \in Request BY <2>1, <2>2 DEF Request, EraseRequests
  <2> HIDE DEF next
  <2>5. ReqTyped' BY <2>3, <2>4, GoesTyped
  <2> QED BY <2>3, <2>5 DEF BillTyped
<1> QED
  BY <1>1, <1>2, <1>3, <1>4, <1>5, <1>6 DEF BillingNext

LEMMA HeirIs ==
  ASSUME NEW heir \in Heirs
  PROVE  DOMAIN heir \subseteq Workspaces /\ \A w \in DOMAIN heir : heir[w] \in Users
BY DEF Heirs

LEMMA WithoutTyped ==
  ASSUME NEW ids, NEW rows, NEW f \in Table(ids, rows), NEW S
  PROVE  Without(f, S) \in Table(ids, rows)
BY DEF Without, Table

LEMMA EraseTyped ==
  ASSUME SpaceTyped, ReqTyped, TreeTyped, FileTyped, LibTyped, BillTyped, NEW r \in Slots, Erase(r)
  PROVE  SpaceTyped' /\ ReqTyped' /\ TreeTyped' /\ FileTyped' /\ LibTyped' /\ BillTyped'
<1> DEFINE Now == SpaceTyped' /\ ReqTyped' /\ TreeTyped' /\ FileTyped' /\ LibTyped' /\ BillTyped'
<1>1. ASSUME NEW u \in Users, EraseStart(r, u), UNCHANGED <<spaceVars, treeVars, fileVars, libVars, billVars>>
      PROVE  Now
  <2>1. [op |-> "erase", pc |-> "stop", by |-> u, since |-> {}] \in Request BY DEF Request, EraseRequests
  <2>2. ReqTyped' BY <1>1, <2>1, BeginTyped DEF EraseStart
  <2> QED BY <1>1, <2>2 DEF spaceVars, treeVars, fileVars, libVars, billVars,
                          SpaceTyped, TreeTyped, FileTyped, LibTyped, BillTyped
<1>2. ASSUME HandOver(r), UNCHANGED <<spaceVars, block, raced, object, libVars, billVars>>
      PROVE  Now
  <2> DEFINE heir == req[r].heir
  <2>1. req[r].op = "erase" /\ req[r].pc = "hand" BY <1>2 DEF HandOver, At
  <2>2. heir \in Heirs BY <2>1, Erasure
  <2>3. \A w \in DOMAIN heir : heir[w] \in Users BY <2>2, HeirIs
  <2>4. task' \in Table(TaskIds, TaskRow)
    <3>1. ASSUME NEW t \in Handed(task, r) PROVE [task[t] EXCEPT !.by = heir[task[t].ws]] \in TaskRow
      <4>1. task[t] \in TaskRow /\ task[t].ws \in DOMAIN heir BY FileRows DEF Handed
      <4>2. heir[task[t].ws] \in Users BY <2>3, <4>1
      <4> QED BY <4>1, <4>2 DEF TaskRow
    <3>2. Handed(task, r) \subseteq TaskIds BY FileRows DEF Handed
    <3> QED BY <1>2, <3>1, <3>2 DEF HandOver, Given, FileTyped, Table
  <2>5. page' \in Table(Pages, PageRow)
    <3>1. ASSUME NEW p \in Handed(page, r) PROVE [page[p] EXCEPT !.by = heir[page[p].ws]] \in PageRow
      <4>1. page[p] \in PageRow /\ page[p].ws \in DOMAIN heir BY PageRows DEF Handed
      <4>2. heir[page[p].ws] \in Users BY <2>3, <4>1
      <4> QED BY <4>1, <4>2 DEF PageRow
    <3>2. Handed(page, r) \subseteq Pages BY PageRows DEF Handed
    <3> QED BY <1>2, <3>1, <3>2 DEF HandOver, Given, TreeTyped, Table
  <2>6. file' \in Table(Files, FileRow)
    <3>1. ASSUME NEW f \in HandedFiles(r) PROVE [file[f] EXCEPT !.by = heir[SpaceOf(f)]] \in FileRow
      <4>1. file[f] \in FileRow /\ SpaceOf(f) \in DOMAIN heir BY FileRows DEF HandedFiles
      <4>2. heir[SpaceOf(f)] \in Users BY <2>3, <4>1
      <4> QED BY <4>1, <4>2 DEF FileRow
    <3> QED BY <1>2, <3>1, FileRows DEF HandOver, Table
  <2>7. ReqTyped'
    <3> DEFINE S == Handed(task, r) \cup Handed(page, r) \cup HandedFiles(r)
               next == [req[r] EXCEPT !.pc = "list"]
    <3>1. next \in Request BY <2>1, OntoTyped
    <3>2. S \in SUBSET Things BY FileRows, PageRows DEF Things, Handed, HandedFiles
    <3>3. req' = [Noting(S, req) EXCEPT ![r] = next] /\ calls' = calls BY <1>2 DEF HandOver
    <3> HIDE DEF S, next
    <3>4. Noting(S, req) \in [Slots -> Request] BY <3>2, NotingTyped DEF ReqTyped
    <3> QED BY <3>1, <3>3, <3>4 DEF ReqTyped
  <2> QED BY <1>2, <2>4, <2>5, <2>6, <2>7 DEF spaceVars, libVars, billVars,
                          SpaceTyped, TreeTyped, FileTyped, LibTyped, BillTyped
<1>3. ASSUME EraseRow(r), UNCHANGED <<auto, slipped, raced, object, billVars>>
      PROVE  Now
  <2>1. req[r].op = "erase" /\ req[r].pc = "row" BY <1>3 DEF EraseRow, At
  <2>2. req[r].by \in Users /\ req[r].since \subseteq Things /\ req[r].objects \subseteq Files BY <2>1, Erasure
  <2>3. [op |-> "sweep", objects |-> req[r].objects, since |-> req[r].since] \in Request
    BY <2>2 DEF Request, SweepRequests
  <2>4. ReqTyped' BY <1>3, <2>3, GoesTyped DEF EraseRow, Goes
  <2>5. SpaceTyped' BY <1>3, <2>2, WithoutTyped DEF EraseRow, SpaceTyped, Roles
  <2>6. TreeTyped' BY <1>3, WithoutTyped DEF EraseRow, TreeTyped
  <2>7. FileTyped' BY <1>3, WithoutTyped DEF EraseRow, FileTyped
  <2>8. LibTyped' BY <1>3, <2>2, WithoutTyped DEF EraseRow, LibTyped
  <2> QED BY <1>3, <2>4, <2>5, <2>6, <2>7, <2>8 DEF billVars, BillTyped
<1> QED BY <1>1, <1>2, <1>3 DEF Erase

LEMMA TypeStep ==
  ASSUME TypeOK, [Next]_vars
  PROVE  TypeOK'
<1> USE DEF SpaceTyped, ReqTyped, TreeTyped, FileTyped, LibTyped, BillTyped
<1>0. SpaceTyped /\ ReqTyped /\ TreeTyped /\ FileTyped /\ LibTyped /\ BillTyped BY TypeParts
<1> DEFINE Now == SpaceTyped' /\ ReqTyped' /\ TreeTyped' /\ FileTyped' /\ LibTyped' /\ BillTyped'
<1> USE DEF spaceVars, treeVars, fileVars, libVars, billVars
<1>1. ASSUME SpacesNext, UNCHANGED <<treeVars, fileVars, libVars, billVars>> PROVE Now
  BY <1>0, <1>1, SpacesTyped
<1>2. ASSUME PagesNext, UNCHANGED <<spaceVars, fileVars, libVars, billVars>> PROVE Now
  BY <1>0, <1>2, PagesTyped
<1>3. ASSUME FilesNext, UNCHANGED <<spaceVars, treeVars, libVars, billVars>> PROVE Now
  BY <1>0, <1>3, FilesTyped
<1>4. ASSUME LibraryNext, UNCHANGED <<spaceVars, treeVars, fileVars, billVars>> PROVE Now
  BY <1>0, <1>4, LibraryTyped
<1>5. ASSUME BuildNext, UNCHANGED <<file, object, billVars>> PROVE Now
  BY <1>0, <1>5, BuildTyped
<1>6. ASSUME RecipeNext, UNCHANGED <<spaceVars, fileVars, billVars>> PROVE Now
  BY <1>0, <1>6, RecipeTyped
<1>7. ASSUME BillingNext, UNCHANGED <<spaceVars, treeVars, fileVars, libVars>> PROVE Now
  BY <1>0, <1>7, BillingTyped
<1>8. ASSUME NEW r \in Slots, Erase(r) PROVE Now
  BY <1>0, <1>8, EraseTyped
<1>9. ASSUME UNCHANGED vars PROVE Now
  BY <1>0, <1>9 DEF vars
<1>10. Now
  BY <1>1, <1>2, <1>3, <1>4, <1>5, <1>6, <1>7, <1>8, <1>9 DEF Next
<1> QED BY <1>10 DEF TypeOK

LEMMA TypeInit == Init => TypeOK
BY StartAssumption, ContentAssumption, IdleTyped, RowTyped DEF Init, TypeOK, Table, Rows

\* Accounts, workspaces, rows, requests and bills keep their types (all of the code of Content).
THEOREM TypeCorrect == Spec => []TypeOK
<1> QED BY TypeInit, TypeStep, PTL DEF Spec

-----------------------------------------------------------------------------
(* Workspaces. *)

\* A workspace nobody owns has no member rows, and one made for somebody is theirs while the account lasts.
SpaceInv ==
  /\ \A w \in Workspaces :
       /\ owner[w] \notin Users => \A u \in Users : role[w][u] = "none"
       /\ auto[w] \in Users => owner[w] = auto[w] \/ ~account[auto[w]]
  /\ \A v, w \in Workspaces : v # w /\ auto[v] \in Users => auto[v] # auto[w]

LEMMA FoundedKept ==
  ASSUME TypeOK, SpaceInv, NEW w \in Workspaces, NEW u \in Users, Founded(w, u),
         \/ UNCHANGED auto
         \/ Mine(u) = {} /\ auto' = [auto EXCEPT ![w] = u]
  PROVE  SpaceInv'
<1> USE DEF TypeOK, Table
<1>1. /\ account' = account /\ account[u] /\ owner[w] \notin Users
      /\ owner' = [owner EXCEPT ![w] = u] /\ role' = [role EXCEPT ![w][u] = "owner"]
  BY ContentAssumption DEF Founded
<1>2. ASSUME NEW x \in Workspaces
      PROVE  owner'[x] \notin Users => \A v \in Users : role'[x][v] = "none"
  BY <1>1, <1>2 DEF SpaceInv
<1>3. CASE UNCHANGED auto
  BY <1>1, <1>2, <1>3 DEF SpaceInv
<1>4. CASE Mine(u) = {} /\ auto' = [auto EXCEPT ![w] = u]
  <2>1. \A x \in Workspaces : owner[x] # u BY <1>4 DEF Mine, Exists
  <2>2. \A x \in Workspaces : auto[x] # u BY <1>1, <2>1 DEF SpaceInv
  <2> QED BY <1>1, <1>2, <1>4, <2>2 DEF SpaceInv
<1> QED BY <1>3, <1>4

LEMMA SpaceStep ==
  ASSUME TypeOK, SpaceInv, [Next]_vars
  PROVE  SpaceInv'
<1> USE DEF TypeOK, Table
<1>1. ASSUME UNCHANGED spaceVars PROVE SpaceInv'
  BY <1>1 DEF spaceVars, SpaceInv
<1>2. ASSUME NEW u \in Users, NEW w \in Workspaces, CreateSpace(u, w) PROVE SpaceInv'
  BY <1>2, FoundedKept DEF CreateSpace
<1>3. ASSUME NEW u \in Users, NEW w \in Workspaces, NEW kind \in {"viewer", "editor"}, Join(w, u, kind) PROVE SpaceInv'
  BY <1>3 DEF Join, Exists, SpaceInv
<1>4. ASSUME NEW r \in Slots, LeaveWrite(r) PROVE SpaceInv'
  <2>1. req[r].ws \in Workspaces /\ req[r].by \in Users BY <1>4, Carries DEF LeaveWrite
  <2> QED BY <1>4, <2>1 DEF LeaveWrite, SpaceInv
<1>5. ASSUME NEW r \in Slots, TransferWrite(r) PROVE SpaceInv'
  <2>1. req[r].ws \in Workspaces /\ req[r].by \in Users /\ req[r].to \in Users BY <1>5, Carries DEF TransferWrite
  <2> QED BY <1>5, <2>1, ContentAssumption DEF TransferWrite, Handing, Exists, SpaceInv
<1>6. ASSUME NEW r \in Slots, NEW w \in Workspaces, ListLock(r, w) PROVE SpaceInv'
  <2>1. req[r].by \in Users BY <1>6, Carries DEF ListLock
  <2> QED BY <1>6, <2>1, FoundedKept DEF ListLock
<1>7. ASSUME NEW r \in Slots, NEW w \in Workspaces, Build(r, w) PROVE SpaceInv'
  <2>1. req[r].by \in Users BY <1>7, Carries DEF Build
  <2> QED BY <1>7, <2>1, FoundedKept DEF Build
<1>8. ASSUME NEW r \in Slots, EraseRow(r), UNCHANGED auto PROVE SpaceInv'
  <2> DEFINE u == req[r].by
  <2>1. u \in Users BY <1>8, Erasure, TypeParts DEF EraseRow, At
  <2>2. /\ account' = [account EXCEPT ![u] = FALSE] /\ auto' = auto
        /\ owner' = [w \in Workspaces |-> IF owner[w] = u THEN Gone ELSE owner[w]]
        /\ role' = [w \in Workspaces |-> [v \in Users |-> IF v = u \/ owner[w] = u THEN "none" ELSE role[w][v]]]
    BY <1>8 DEF EraseRow, LostSpaces, Without
  <2> HIDE DEF u
  <2> QED BY <2>1, <2>2, ContentAssumption DEF SpaceInv
<1>9. ASSUME SpacesNext PROVE SpaceInv'
  BY <1>1, <1>2, <1>3, <1>4, <1>5, <1>6, <1>9 DEF SpacesNext, ListStart, LeaveStart, TransferStart, Abandon
<1> QED BY <1>1, <1>7, <1>8, <1>9 DEF Next, BuildNext, Erase, vars, spaceVars

LEMMA SpaceInit == Init => SpaceInv
BY StartAssumption, ContentAssumption DEF Init, SpaceInv, Table

\* SpaceInv along a behaviour.
LEMMA SpacesKept == Spec => [](TypeOK /\ SpaceInv)
<1> QED BY TypeInit, TypeStep, SpaceInit, SpaceStep, PTL DEF Spec

\* One default workspace at most is made for anybody (listForUser, workspace.service.js 125-162).
THEOREM OneDefault == Spec => []OneDefaultWorkspace
<1>1. TypeOK /\ SpaceInv => OneDefaultWorkspace
  <2> SUFFICES ASSUME TypeOK, SpaceInv, NEW u \in Users
               PROVE  Cardinality({w \in Workspaces : auto[w] = u}) <= 1
    BY DEF OneDefaultWorkspace
  <2> DEFINE S == {w \in Workspaces : auto[w] = u}
  <2>1. CASE S = {} BY <2>1, FS_EmptySet
  <2>2. CASE S # {}
    <3>1. PICK w : w \in S BY <2>2
    <3>2. S = {w} BY <3>1 DEF SpaceInv
    <3> QED BY <3>2, FS_Singleton
  <2> QED BY <2>1, <2>2
<1> QED BY <1>1, SpacesKept, PTL

-----------------------------------------------------------------------------
(* Templates. *)

LEMMA SavedByFinite ==
  ASSUME TypeOK, NEW u
  PROVE  SavedBy(u) \in SUBSET Templates /\ IsFiniteSet(SavedBy(u)) /\ Cardinality(SavedBy(u)) \in Nat
<1>1. SavedBy(u) \in SUBSET Templates BY SavedRows, TypeParts DEF SavedBy
<1>2. IsFiniteSet(SavedBy(u)) BY <1>1, FS_Subset, ContentAssumption
<1> QED BY <1>1, <1>2, FS_CardinalityType

\* Rows that are not there any more make the count no larger.
LEMMA FewerSaved ==
  ASSUME TypeOK, TemplatesWithinLimit, \A u \in Users : SavedBy(u)' \subseteq SavedBy(u)
  PROVE  TemplatesWithinLimit'
<1> SUFFICES ASSUME NEW u \in Users PROVE Cardinality(SavedBy(u)') <= MaxTemplates
  BY DEF TemplatesWithinLimit
<1>1. IsFiniteSet(SavedBy(u)) /\ Cardinality(SavedBy(u)) \in Nat BY SavedByFinite
<1>2. IsFiniteSet(SavedBy(u)') /\ Cardinality(SavedBy(u)') <= Cardinality(SavedBy(u)) BY <1>1, FS_Subset
<1>3. Cardinality(SavedBy(u)') \in Nat BY <1>2, FS_CardinalityType
<1>4. Cardinality(SavedBy(u)) <= MaxTemplates BY DEF TemplatesWithinLimit
<1> QED BY <1>1, <1>2, <1>3, <1>4, ContentAssumption

LEMMA SaveWithin ==
  ASSUME TypeOK, TemplatesWithinLimit, NEW r \in Slots, NEW x \in Templates, Save(r, x)
  PROVE  TemplatesWithinLimit'
<1> DEFINE v == req[r].by
           row == [by |-> v, shape |-> req[r].shape]
<1>1. v \in Users /\ req[r].shape \in Shape BY Carries DEF Save, TypeOK
<1>2. row \in SavedRow BY <1>1 DEF SavedRow
<1>3. row # None /\ row # Gone /\ row.by = v BY <1>2, ContentAssumption
<1>4. saved' = [saved EXCEPT ![x] = row] /\ saved[x] = None /\ Cardinality(SavedBy(v)) < MaxTemplates BY DEF Save
<1> HIDE DEF v, row
<1> SUFFICES ASSUME NEW u \in Users PROVE Cardinality(SavedBy(u)') <= MaxTemplates
  BY DEF TemplatesWithinLimit
<1>5. saved \in Table(Templates, SavedRow) BY DEF TypeOK
<1>6. CASE u = v
  <2>1. SavedBy(u)' = SavedBy(u) \cup {x} /\ x \notin SavedBy(u)
    BY <1>3, <1>4, <1>5, <1>6 DEF SavedBy, Rows, Table
  <2>2. IsFiniteSet(SavedBy(u)) /\ Cardinality(SavedBy(u)) \in Nat BY SavedByFinite
  <2>3. Cardinality(SavedBy(u) \cup {x}) = Cardinality(SavedBy(u)) + 1 BY <2>1, <2>2, FS_AddElement
  <2> QED BY <1>4, <1>6, <2>1, <2>2, <2>3, ContentAssumption
<1>7. CASE u # v
  <2>1. SavedBy(u)' = SavedBy(u) BY <1>3, <1>4, <1>5, <1>7 DEF SavedBy, Rows, Table
  <2> QED BY <2>1 DEF TemplatesWithinLimit
<1> QED BY <1>6, <1>7

LEMMA TemplatesStep ==
  ASSUME TypeOK, TemplatesWithinLimit, [Next]_vars
  PROVE  TemplatesWithinLimit'
<1>0. saved \in Table(Templates, SavedRow) BY DEF TypeOK
<1>1. ASSUME saved' = saved PROVE TemplatesWithinLimit'
  <2>1. \A u \in Users : SavedBy(u)' \subseteq SavedBy(u) BY <1>1 DEF SavedBy, Rows
  <2> QED BY <2>1, FewerSaved
<1>2. ASSUME NEW u \in Users, NEW x \in Templates, RemoveTemplate(u, x) PROVE TemplatesWithinLimit'
  <2>1. \A v \in Users : SavedBy(v)' \subseteq SavedBy(v)
    BY <1>0, <1>2 DEF RemoveTemplate, SavedBy, Rows, Table
  <2> QED BY <2>1, FewerSaved
<1>3. ASSUME NEW r \in Slots, EraseRow(r) PROVE TemplatesWithinLimit'
  <2>1. \A v \in Users : SavedBy(v)' \subseteq SavedBy(v)
    BY <1>0, <1>3 DEF EraseRow, Without, SavedBy, Rows, Table
  <2> QED BY <2>1, FewerSaved
<1>4. ASSUME LibraryNext PROVE TemplatesWithinLimit'
  BY <1>1, <1>2, <1>4, SaveWithin DEF LibraryNext, LibraryStarts, DuplicateStart, SaveStart, UseStart, Read,
     SaveRecipe, RemoveRecipe, libVars
<1>5. ASSUME RecipeNext PROVE saved' = saved BY <1>5 DEF RecipeNext, UseRecipe, libVars
<1>6. ASSUME BuildNext PROVE saved' = saved BY <1>6 DEF BuildNext, Build, libVars
<1> QED BY <1>1, <1>3, <1>4, <1>5, <1>6 DEF Next, Erase, vars, libVars

\* No owner ever has more client templates than the limit (clientTemplate.service.js 21-52).
THEOREM WithinTemplates == Spec => []TemplatesWithinLimit
<1>1. Init => TemplatesWithinLimit
  <2> SUFFICES ASSUME Init, NEW u \in Users PROVE Cardinality(SavedBy(u)) <= MaxTemplates
    BY DEF TemplatesWithinLimit
  <2>1. SavedBy(u) = {} BY DEF Init, SavedBy, Rows
  <2> QED BY <2>1, FS_EmptySet, ContentAssumption
<1>2. TypeOK /\ TemplatesWithinLimit /\ [Next]_vars => TemplatesWithinLimit' BY TemplatesStep
<1> QED BY <1>1, <1>2, TypeInit, TypeStep, PTL DEF Spec

-----------------------------------------------------------------------------
(* Deletions and sweeps. *)

Kinds == {"erase", "sweep"}

\* A deletion or a sweep is left as it was, but for what it may have missed.
Untouched(q) ==
  /\ req'[q].op = req[q].op
  /\ \/ req'[q] = req[q]
     \/ \E S \in SUBSET Things : req'[q] = [req[q] EXCEPT !.since = @ \cup S]

LEMMA PutElsewhere ==
  ASSUME TypeOK, NEW r \in Slots, NEW next, next.op \notin Kinds, req' = [req EXCEPT ![r] = next],
         NEW q \in Slots, req'[q].op \in Kinds
  PROVE  Untouched(q)
BY DEF TypeOK, Untouched

LEMMA NotedElsewhere ==
  ASSUME TypeOK, NEW S \in SUBSET Things, NEW reqs \in [Slots -> Request], req' = Noting(S, reqs),
         NEW q \in Slots, req'[q].op \in Kinds, reqs[q] = req[q] \/ reqs[q].op \notin Kinds
  PROVE  Untouched(q) /\ reqs[q] = req[q]
<1>1. req'[q] = IF reqs[q].op \in {"erase", "sweep"} THEN [reqs[q] EXCEPT !.since = @ \cup S] ELSE reqs[q]
  BY DEF Noting
<1>2. reqs[q].op \in Kinds BY <1>1 DEF Kinds
<1>3. reqs[q] = req[q] BY <1>2
<1>4. req'[q] = [req[q] EXCEPT !.since = @ \cup S] BY <1>1, <1>2, <1>3 DEF Kinds
<1>5. req[q] \in Request BY DEF TypeOK
<1>6. [req[q] EXCEPT !.since = @ \cup S].op = req[q].op
  <2>1. CASE req[q].op = "erase"
    <3>1. req[q] \in EraseRequests BY <1>5, <2>1, Carries
    <3> QED BY <3>1 DEF EraseRequests
  <2>2. CASE req[q].op = "sweep"
    <3>1. req[q] \in SweepRequests BY <1>5, <2>2, Carries
    <3> QED BY <3>1 DEF SweepRequests
  <2> QED BY <1>2, <1>3, <2>1, <2>2 DEF Kinds
<1> QED BY <1>3, <1>4, <1>6 DEF Untouched

LEMMA BegunElsewhere ==
  ASSUME TypeOK, NEW r \in Slots, NEW u, NEW next, next.op \notin Kinds, Begin(r, u, next),
         NEW q \in Slots, req'[q].op \in Kinds
  PROVE  Untouched(q)
BY PutElsewhere DEF Begin

LEMMA SpaceTurns ==
  ASSUME TypeOK, SpacesNext, NEW q \in Slots, req'[q].op \in Kinds
  PROVE  Untouched(q)
<1> USE DEF Goes, Ends, Idle, Kinds
<1>1. ASSUME NEW w \in Workspaces, req' = Noting({w}, req) PROVE Untouched(q)
  <2>1. {w} \in SUBSET Things BY DEF Things
  <2>2. req \in [Slots -> Request] BY DEF TypeOK
  <2> QED BY <1>1, <2>1, <2>2, NotedElsewhere
<1>2. ASSUME NEW r \in Slots, NEW u \in Users, NEW w, NEW v, ListStart(r, u) \/ LeaveStart(r, w, u) \/ TransferStart(r, w, u, v)
      PROVE  Untouched(q)
  BY <1>2, BegunElsewhere DEF ListStart, LeaveStart, TransferStart
<1>3. ASSUME NEW r \in Slots, req' = [req EXCEPT ![r] = Idle] PROVE Untouched(q)
  BY <1>3, PutElsewhere
<1>4. ASSUME req' = req PROVE Untouched(q)
  BY <1>4 DEF Untouched
<1>5. ASSUME NEW r \in Slots, TransferWrite(r) PROVE Untouched(q)
  <2> DEFINE reqs == [req EXCEPT ![r] = Idle]
  <2>1. req \in [Slots -> Request] BY DEF TypeOK
  <2>2. {req[r].ws} \in SUBSET Things BY <1>5, <2>1, Carries DEF TransferWrite, Things
  <2>3. reqs \in [Slots -> Request] /\ (reqs[q] = req[q] \/ reqs[q].op \notin Kinds) BY <2>1, IdleTyped
  <2>4. req' = Noting({req[r].ws}, reqs) BY <1>5 DEF TransferWrite, Handing
  <2> HIDE DEF reqs
  <2> QED BY <2>2, <2>3, <2>4, NotedElsewhere
<1> QED BY <1>1, <1>2, <1>3, <1>4, <1>5 DEF SpacesNext, CreateSpace, Join, LeaveWrite, ListLock, Abandon

LEMMA PageTurns ==
  ASSUME TypeOK, PagesNext \/ RecipeNext, NEW q \in Slots, req'[q].op \in Kinds
  PROVE  Untouched(q)
<1> USE DEF Goes, Ends, Idle, Kinds
<1>1. ASSUME NEW r \in Slots, NEW u \in Users, NEW w, NEW p, NEW n, CreateStart(r, u, w, p, n) PROVE Untouched(q)
  BY <1>1, BegunElsewhere DEF CreateStart
<1>2. ASSUME NEW r \in Slots, NEW u \in Users, PageStarts(r, u) PROVE Untouched(q)
  BY <1>1, <1>2, BegunElsewhere
     DEF PageStarts, MoveStart, ArchiveStart, FlagStart, BlockStart, NestStart, DropStart
<1>3. ASSUME NEW r \in Slots, CreateWrite(r) PROVE Untouched(q)
  <2> DEFINE p == CHOOSE x \in Free(page) : TRUE
             next == IF req[r].fill = 0 THEN Idle ELSE [op |-> "fill", page |-> p, fill |-> req[r].fill]
  <2>1. p \in Pages BY <1>3, PageRows, TypeParts DEF CreateWrite
  <2>2. req' = Noting({p}, [req EXCEPT ![r] = next]) BY <1>3 DEF CreateWrite
  <2>3. req \in [Slots -> Request] BY DEF TypeOK
  <2>4. req[r].fill \in Nat BY <1>3, <2>3, Carries DEF CreateWrite
  <2> HIDE DEF p
  <2>5. next \in Request BY <2>1, <2>4, IdleTyped DEF Request, PageRequests
  <2>6. next.op \notin Kinds OBVIOUS
  <2> HIDE DEF next
  <2>7. {p} \in SUBSET Things BY <2>1 DEF Things
  <2> DEFINE reqs == [req EXCEPT ![r] = next]
  <2>8. reqs \in [Slots -> Request] /\ (reqs[q] = req[q] \/ reqs[q].op \notin Kinds) BY <2>3, <2>5, <2>6
  <2>9. req' = Noting({p}, reqs) BY <2>2
  <2> HIDE DEF reqs
  <2> QED BY <2>7, <2>8, <2>9, NotedElsewhere
<1>4. ASSUME NEW r \in Slots, req' = [req EXCEPT ![r] = Idle] PROVE Untouched(q)
  BY <1>4, PutElsewhere
<1>5. ASSUME NEW r \in Slots, MoveWrite(r) PROVE Untouched(q)
  <2>1. ASSUME NEW s \in Slots, req[s].op = "move" PROVE [req[s] EXCEPT !.late = TRUE].op = "move"
    <3>1. req[s] \in MoveRequest BY <2>1, Carries DEF TypeOK
    <3> QED BY <3>1 DEF MoveRequest
  <2> QED BY <1>5, <2>1 DEF MoveWrite, Untouched
<1> QED BY <1>1, <1>2, <1>3, <1>4, <1>5
    DEF PagesNext, RecipeNext, UseRecipe, Fill, ArchiveWrite, BlockWrite, NestWrite, DropWrite

LEMMA FileTurns ==
  ASSUME TypeOK, FilesNext, NEW q \in Slots, req'[q].op \in Kinds
  PROVE  \/ Untouched(q) \/ TaskRemoveWrite(q)
         \/ \E f \in Files : Sweep(q, f) \/ \E u \in Users : FileRemove(q, u, f)
<1> USE DEF Goes, Ends, Idle, Kinds
<1>1. ASSUME NEW r \in Slots, NEW u \in Users, FileStarts(r, u), ~Untouched(q)
      PROVE  \E f \in Files : FileRemove(q, u, f)
  <2>1. PICK f \in Files : FileRemove(r, u, f)
    BY <1>1, BegunElsewhere DEF FileStarts, TaskStart, TaskRemoveStart, UploadStart
  <2>2. q # r => req'[q] = req[q] BY <2>1 DEF FileRemove, Begin
  <2> QED BY <1>1, <2>1, <2>2 DEF Untouched
<1>2. ASSUME NEW r \in Slots, NEW f \in Files, UploadSave(r, f) PROVE Untouched(q)
  BY <1>2, PutElsewhere DEF UploadSave
<1>3. ASSUME NEW r \in Slots, NEW f \in Files, Sweep(r, f) PROVE Untouched(q) \/ Sweep(q, f)
  <2>1. q # r => req'[q] = req[q] BY <1>3 DEF Sweep, TypeOK
  <2> QED BY <1>3, <2>1 DEF Untouched
<1>4. ASSUME NEW r \in Slots, TaskWrite(r) PROVE Untouched(q)
  <2> DEFINE t == CHOOSE x \in Free(task) : TRUE
  <2>1. t \in TaskIds BY <1>4, FileRows, TypeParts DEF TaskWrite
  <2>2. req' = Noting({t}, [req EXCEPT ![r] = Idle]) BY <1>4 DEF TaskWrite
  <2> HIDE DEF t
  <2>3. {t} \in SUBSET Things BY <2>1 DEF Things
  <2>4. req \in [Slots -> Request] BY DEF TypeOK
  <2> DEFINE reqs == [req EXCEPT ![r] = Idle]
  <2>5. reqs \in [Slots -> Request] /\ (reqs[q] = req[q] \/ reqs[q].op \notin Kinds) BY <2>4, IdleTyped
  <2>6. req' = Noting({t}, reqs) BY <2>2
  <2> HIDE DEF reqs
  <2> QED BY <2>3, <2>5, <2>6, NotedElsewhere
<1>5. ASSUME NEW r \in Slots, TaskRemoveWrite(r) PROVE Untouched(q) \/ TaskRemoveWrite(q)
  <2>1. q # r => req'[q] = req[q] BY <1>5 DEF TaskRemoveWrite, TypeOK
  <2> QED BY <1>5, <2>1 DEF Untouched
<1>6. ASSUME NEW r \in Slots, UploadRow(r) PROVE Untouched(q)
  BY <1>6, PutElsewhere DEF UploadRow
<1> QED BY <1>1, <1>2, <1>3, <1>4, <1>5, <1>6 DEF FilesNext

LEMMA LibraryTurns ==
  ASSUME TypeOK, LibraryNext \/ BuildNext, NEW q \in Slots, req'[q].op \in Kinds
  PROVE  Untouched(q)
<1> USE DEF Goes, Ends, Idle, Kinds
<1>1. ASSUME NEW r \in Slots, NEW u \in Users, LibraryStarts(r, u) PROVE Untouched(q)
  BY <1>1, BegunElsewhere DEF LibraryStarts, DuplicateStart, SaveStart, UseStart
<1>2. ASSUME NEW r \in Slots, Read(r) PROVE Untouched(q)
  <2>1. req[r].next \in {"copy", "save"} BY <1>2, Carries DEF Read, TypeOK
  <2> QED BY <1>2, <2>1, PutElsewhere DEF Read
<1>3. ASSUME NEW r \in Slots, req' = [req EXCEPT ![r] = Idle] PROVE Untouched(q)
  BY <1>3, PutElsewhere
<1>4. ASSUME req' = req PROVE Untouched(q)
  BY <1>4 DEF Untouched
<1> QED BY <1>1, <1>2, <1>3, <1>4
    DEF LibraryNext, BuildNext, Build, Save, RemoveTemplate, SaveRecipe, RemoveRecipe

\* The steps of a deletion itself, and its start.
contentVars == <<spaceVars, treeVars, fileVars>>
Steps(q) ==
  \/ (StopBilling(q) \/ ReadMemberships(q) \/ ListFiles(q)) /\ UNCHANGED contentVars
  \/ HandOver(q) /\ UNCHANGED spaceVars
  \/ EraseRow(q)
Starts(q, u) == EraseStart(q, u) /\ UNCHANGED contentVars

LEMMA BillTurns ==
  ASSUME TypeOK, BillingNext, UNCHANGED contentVars, NEW q \in Slots, req'[q].op \in Kinds
  PROVE  Untouched(q) \/ Steps(q)
<1>1. ASSUME NEW r \in Slots, StopBilling(r) \/ ReadMemberships(r) \/ ListFiles(r) PROVE Untouched(q) \/ Steps(q)
  <2>1. q # r => req'[q] = req[q] BY <1>1 DEF StopBilling, ReadMemberships, ListFiles, Onto, Ends, Goes, TypeOK
  <2> QED BY <1>1, <2>1 DEF Untouched, Steps
<1>2. ASSUME req' = req PROVE Untouched(q)
  BY <1>2 DEF Untouched
<1> QED BY <1>1, <1>2 DEF BillingNext, Checkout, Pay, Learn

LEMMA EraseTurns ==
  ASSUME TypeOK, NEW r \in Slots, Erase(r), NEW q \in Slots, req'[q].op \in Kinds
  PROVE  Untouched(q) \/ Steps(q) \/ \E u \in Users : Starts(q, u)
<1>1. ASSUME NEW u \in Users, EraseStart(r, u), UNCHANGED contentVars PROVE Untouched(q) \/ Starts(q, u)
  <2>1. q # r => req'[q] = req[q] BY <1>1 DEF EraseStart, Begin, TypeOK
  <2> QED BY <1>1, <2>1 DEF Untouched, Starts
<1>2. ASSUME HandOver(r), q # r PROVE Untouched(q)
  <2> DEFINE S == Handed(task, r) \cup Handed(page, r) \cup HandedFiles(r)
             next == [req[r] EXCEPT !.pc = "list"]
  <2>1. S \in SUBSET Things BY FileRows, PageRows, TypeParts DEF Things, Handed, HandedFiles
  <2>2. req' = [Noting(S, req) EXCEPT ![r] = next] BY <1>2 DEF HandOver
  <2> HIDE DEF S, next
  <2>3. req \in [Slots -> Request] BY DEF TypeOK
  <2>4. req'[q] = IF req[q].op \in {"erase", "sweep"} THEN [req[q] EXCEPT !.since = @ \cup S] ELSE req[q]
    BY <1>2, <2>2, <2>3 DEF Noting
  <2>5. ASSUME req[q].op \in Kinds PROVE [req[q] EXCEPT !.since = @ \cup S].op = req[q].op
    <3>1. CASE req[q].op = "erase"
      <4>1. req[q] \in EraseRequests BY <2>3, <3>1, Carries
      <4> QED BY <4>1 DEF EraseRequests
    <3>2. CASE req[q].op = "sweep"
      <4>1. req[q] \in SweepRequests BY <2>3, <3>2, Carries
      <4> QED BY <4>1 DEF SweepRequests
    <3> QED BY <2>5, <3>1, <3>2 DEF Kinds
  <2> QED BY <2>1, <2>4, <2>5 DEF Untouched, Kinds
<1>3. ASSUME EraseRow(r), q # r PROVE Untouched(q)
  BY <1>3 DEF EraseRow, Goes, TypeOK, Untouched
<1> QED BY <1>1, <1>2, <1>3 DEF Erase, Steps, contentVars

\* How a deletion or a sweep comes to be what it is after a step.
LEMMA Turns ==
  ASSUME TypeOK, [Next]_vars, NEW q \in Slots, req'[q].op \in Kinds
  PROVE  \/ Untouched(q) \/ Steps(q) \/ TaskRemoveWrite(q)
         \/ \E u \in Users : Starts(q, u) \/ \E f \in Files : FileRemove(q, u, f)
         \/ \E f \in Files : Sweep(q, f)
<1>1. ASSUME UNCHANGED vars PROVE Untouched(q)
  BY <1>1 DEF vars, Untouched
<1> QED BY <1>1, SpaceTurns, PageTurns, FileTurns, LibraryTurns, BillTurns, EraseTurns DEF Next, contentVars

\* A deletion that is left alone carries what it carried.
LEMMA LeftAlone ==
  ASSUME TypeOK, NEW q \in Slots, Untouched(q), req'[q].op = "erase"
  PROVE  /\ req[q].op = "erase" /\ req'[q].by = req[q].by /\ req'[q].pc = req[q].pc
         /\ req[q].since \subseteq req'[q].since
         /\ req[q].pc \in {"hand", "list", "row"} => req'[q].heir = req[q].heir
         /\ req[q].pc = "row" => req'[q].objects = req[q].objects
<1>1. req[q].op = "erase" BY DEF Untouched
<1>2. req[q] \in EraseRequests BY <1>1, Carries DEF TypeOK
<1>3. CASE req'[q] = req[q] BY <1>1, <1>3
<1>4. ASSUME NEW S \in SUBSET Things, req'[q] = [req[q] EXCEPT !.since = @ \cup S]
      PROVE  /\ req'[q].by = req[q].by /\ req'[q].pc = req[q].pc
             /\ req[q].since \subseteq req'[q].since
             /\ req[q].pc \in {"hand", "list", "row"} => req'[q].heir = req[q].heir
             /\ req[q].pc = "row" => req'[q].objects = req[q].objects
  BY <1>2, <1>4 DEF EraseRequests
<1> QED BY <1>1, <1>3, <1>4 DEF Untouched

-----------------------------------------------------------------------------
(* Billing. *)

\* Once a deletion has stopped billing, what is charged was paid, or came to be known, after that, or is what it passes over.
BillInv == \A u \in Users : Stopped(u) /\ bill[u].at = "active" => u \in paidLate \/ PassedOver(u)

\* An account goes only by the step that deletes it, and none comes back.
LEMMA AccountsGo ==
  ASSUME TypeOK, [Next]_vars, NEW u \in Users, account'[u] # account[u]
  PROVE  account[u] /\ \E r \in Slots : EraseRow(r) /\ req[r].by = u
<1>1. account' # account OBVIOUS
<1>2. PICK r \in Slots : EraseRow(r)
  BY <1>1 DEF Next, vars, spaceVars, SpacesNext, CreateSpace, Founded, Join, LeaveStart, LeaveWrite,
              TransferStart, TransferWrite, Handing, ListStart, ListLock, Abandon,
              BuildNext, Build, Erase
<1>3. account' = [account EXCEPT ![req[r].by] = FALSE] BY <1>2 DEF EraseRow
<1> QED BY <1>2, <1>3 DEF TypeOK

\* Billing counts as stopped for someone new only by the step that stops it.
LEMMA StoppedOnly ==
  ASSUME TypeOK, [Next]_vars, NEW u \in Users, Stopped(u)', ~Stopped(u)
  PROVE  \E r \in Slots : StopBilling(r) /\ req[r].by = u
<1>1. ASSUME NEW r \in Slots, EraseRow(r) \/ HandOver(r) \/ ListFiles(r) \/ ReadMemberships(r) PROVE req[r].by # u
  BY <1>1 DEF Stopped, EraseRow, HandOver, ListFiles, ReadMemberships, At
<1>2. account'[u]
  BY <1>1, AccountsGo DEF Stopped, TypeOK
<1>3. PICK q \in Slots : req'[q].op = "erase" /\ req'[q].by = u /\ req'[q].pc # "stop"
  BY <1>2 DEF Stopped
<1>4. req'[q].op \in Kinds BY <1>3 DEF Kinds
<1>5. req \in [Slots -> Request] BY DEF TypeOK
<1>6. ~Untouched(q)
  BY <1>3, LeftAlone DEF Stopped
<1>7. ASSUME NEW v \in Users PROVE ~Starts(q, v)
  BY <1>3, <1>5 DEF Starts, EraseStart, Begin
<1>8. ASSUME NEW v \in Users, NEW f \in Files PROVE ~FileRemove(q, v, f)
  BY <1>3, <1>5 DEF FileRemove, Begin
<1>9. ~EraseRow(q) /\ ~TaskRemoveWrite(q)
  BY <1>3, <1>5 DEF EraseRow, TaskRemoveWrite, Goes
<1>10. ASSUME NEW f \in Files PROVE ~Sweep(q, f)
  <2>1. SUFFICES ASSUME Sweep(q, f) PROVE FALSE OBVIOUS
  <2>2. req[q] \in SweepRequests BY <1>5, <2>1, Carries DEF Sweep
  <2>3. [req[q] EXCEPT !.objects = @ \ {f}].op = "sweep" BY <2>2 DEF SweepRequests
  <2> QED BY <1>3, <1>5, <2>1, <2>3 DEF Sweep, Goes, Idle
<1>11. StopBilling(q) \/ ReadMemberships(q) \/ HandOver(q) \/ ListFiles(q)
  BY <1>4, <1>6, <1>7, <1>8, <1>9, <1>10, Turns DEF Steps
<1>12. req[q].op = "erase" BY <1>11 DEF StopBilling, ReadMemberships, HandOver, ListFiles, At
<1>13. req[q] \in EraseRequests BY <1>12, Erasure, TypeParts
<1>14. req'[q].by = req[q].by
  <2>1. \A pc \in {"read", "list"} : [req[q] EXCEPT !.pc = pc].by = req[q].by BY <1>13 DEF EraseRequests
  <2>2. ASSUME StopBilling(q) PROVE req'[q] = [req[q] EXCEPT !.pc = "read"]
    BY <1>3, <1>5, <2>2 DEF StopBilling, Onto, Ends, Goes, Idle
  <2>3. ASSUME HandOver(q) PROVE req'[q] = [req[q] EXCEPT !.pc = "list"]
    BY <1>5, <2>3 DEF HandOver, Noting
  <2>4. ASSUME ReadMemberships(q) \/ ListFiles(q) PROVE req'[q].by = req[q].by
    BY <1>5, <2>4 DEF ReadMemberships, ListFiles, Goes
  <2> QED BY <1>11, <2>1, <2>2, <2>3, <2>4
<1> QED BY <1>1, <1>3, <1>11, <1>14

LEMMA BillStep ==
  ASSUME TypeOK, BillInv, [Next]_vars
  PROVE  BillInv'
<1>0. bill \in [Users -> Bill] /\ req \in [Slots -> Request] BY DEF TypeOK
<1>8. ASSUME NEW r \in Slots, StopBilling(r) PROVE req[r].by \in Users
  BY <1>8, Erasure, TypeParts DEF StopBilling, At
<1>9. ASSUME NEW r \in Slots, StopBilling(r), NEW u \in Users, u = req[r].by, bill'[u].at = "active"
      PROVE  PassedOver(u)'
  <2>1. ASSUME bill' = [bill EXCEPT ![u].at = "ended"] PROVE FALSE
    BY <1>0, <1>9, <2>1 DEF Bill
  <2>2. PassedOver(u) /\ bill' = bill BY <1>9, <2>1 DEF StopBilling
  <2> QED BY <2>2 DEF PassedOver
<1>1. CASE UNCHANGED billVars
  <2>1. SUFFICES ASSUME NEW u \in Users, Stopped(u)', bill'[u].at = "active", u \notin paidLate' PROVE PassedOver(u)'
    BY DEF BillInv
  <2>2. CASE Stopped(u) BY <1>1, <2>1, <2>2 DEF BillInv, billVars, PassedOver
  <2>3. CASE ~Stopped(u)
    <3>1. PICK r \in Slots : StopBilling(r) /\ req[r].by = u BY <2>1, <2>3, StoppedOnly
    <3> QED BY <1>9, <2>1, <3>1
  <2> QED BY <2>2, <2>3
<1>2. ASSUME NEW u \in Users, Pay(u) \/ Learn(u) \/ \E stored \in BOOLEAN : Checkout(u, stored), UNCHANGED spaceVars
      PROVE  BillInv'
  <2>1. account' = account /\ req' = req BY <1>2 DEF spaceVars, Pay, Learn, Checkout
  <2>2. \A v \in Users : Stopped(v)' <=> Stopped(v) BY <2>1 DEF Stopped
  <2>3. ASSUME Pay(u) PROVE BillInv'
    <3>1. paidLate \subseteq paidLate' /\ (Stopped(u) => u \in paidLate') BY <2>3 DEF Pay
    <3>2. \A v \in Users \ {u} : bill'[v] = bill[v] BY <1>0, <2>3 DEF Pay
    <3> QED BY <2>2, <3>1, <3>2 DEF BillInv, PassedOver
  <2>4. ASSUME Learn(u) PROVE BillInv'
    <3>1. bill'[u].at = bill[u].at BY <1>0, <2>4 DEF Learn, Bill
    <3>2. paidLate \subseteq paidLate' /\ (Stopped(u) /\ PassedOver(u) => u \in paidLate') BY <2>4 DEF Learn
    <3>3. \A v \in Users \ {u} : bill'[v] = bill[v] BY <1>0, <2>4 DEF Learn
    <3> QED BY <2>2, <3>1, <3>2, <3>3 DEF BillInv, PassedOver
  <2>5. ASSUME NEW stored \in BOOLEAN, Checkout(u, stored) PROVE BillInv'
    <3>1. bill[u] \in Bill BY <1>0
    <3>2. paidLate' = paidLate /\ (bill'[u].at = "active" => bill[u].at = "active" /\ (PassedOver(u) => PassedOver(u)'))
      <4>1. CASE bill[u].at = "active"
        <5>1. bill'[u] = bill[u] \/ bill'[u] = [bill[u] EXCEPT !.id = FALSE] BY <1>0, <2>5, <4>1 DEF Checkout
        <5>2. bill'[u].says = bill[u].says /\ (bill'[u].id => bill[u].id) BY <3>1, <5>1 DEF Bill
        <5> QED BY <2>5, <4>1, <5>2 DEF Checkout, PassedOver
      <4>2. CASE bill[u].at # "active"
        <5>1. bill'[u] = [bill[u] EXCEPT !.at = "unpaid", !.id = stored] BY <1>0, <2>5, <4>2 DEF Checkout
        <5>2. bill'[u].at = "unpaid" BY <3>1, <5>1 DEF Bill
        <5> QED BY <2>5, <5>2 DEF Checkout
      <4> QED BY <4>1, <4>2
    <3>3. \A v \in Users \ {u} : bill'[v] = bill[v] BY <1>0, <2>5 DEF Checkout
    <3> QED BY <2>2, <3>2, <3>3 DEF BillInv, PassedOver
  <2> QED BY <1>2, <2>3, <2>4, <2>5
<1>3. ASSUME NEW r \in Slots, StopBilling(r), UNCHANGED spaceVars PROVE BillInv'
  <2>1. PICK u \in Users : u = req[r].by BY <1>3, <1>8
  <2>2. paidLate' = paidLate /\ \A v \in Users \ {u} : bill'[v] = bill[v]
    BY <1>0, <1>3, <2>1 DEF StopBilling
  <2>3. ASSUME NEW v \in Users \ {u}, Stopped(v)' PROVE Stopped(v)
    <3>1. account'[v] = account[v] BY <1>3 DEF spaceVars
    <3>2. \A q \in Slots \ {r} : req'[q] = req[q] BY <1>0, <1>3 DEF StopBilling, Onto, Ends, Goes
    <3>3. req[r] \in EraseRequests BY <1>3, Erasure, TypeParts DEF StopBilling, At
    <3>4. req'[r].op = "erase" => req'[r].by = u
      BY <1>0, <1>3, <2>1, <3>3 DEF StopBilling, Onto, Ends, Goes, Idle, EraseRequests
    <3> QED BY <2>3, <3>1, <3>2, <3>4 DEF Stopped
  <2>4. bill'[u].at = "active" => PassedOver(u)' BY <1>3, <1>9, <2>1
  <2> QED BY <2>2, <2>3, <2>4 DEF BillInv, PassedOver
<1>4. ASSUME BillingNext, UNCHANGED spaceVars PROVE BillInv'
  BY <1>1, <1>2, <1>3, <1>4 DEF BillingNext, ReadMemberships, ListFiles
<1> QED BY <1>1, <1>4 DEF Next, Erase, vars

\* BillInv along a behaviour.
LEMMA BillsKept == Spec => [](TypeOK /\ BillInv)
<1>1. Init => BillInv
  BY DEF Init, BillInv, Stopped, Idle
<1> QED BY <1>1, TypeInit, TypeStep, BillStep, PTL DEF Spec

\* Whoever has deleted their account is not charged any more, but for what came too late to be stopped (deleteAccount,
\* user.service.js 201-206, and the cancellations it calls).
THEOREM NotBilled == Spec => []NobodyIsBilledAfterLeaving
<1>1. TypeOK /\ BillInv => NobodyIsBilledAfterLeaving
  BY DEF BillInv, NobodyIsBilledAfterLeaving, Stopped, PassedOver
<1> QED BY <1>1, BillsKept, PTL

-----------------------------------------------------------------------------
(* Trees. *)

\* The rows of a shape are a part of trees that stay apart.
ShapeApart(s) ==
  /\ \A p \in DOMAIN s.pages : s.pages[p] \in DOMAIN s.pages \cup {None}
  /\ \A b \in DOMAIN s.blocks :
       s.blocks[b].parent \in DOMAIN s.blocks => s.blocks[s.blocks[b].parent].page = s.blocks[b].page

\* An id that was once a page of some workspace, if it is still there.
PageOf(p, ws, pages) == pages[p] # None /\ (p \in Rows(pages) => pages[p].ws = ws)
BlockOf(b, p, blocks) == blocks[b] # None /\ (b \in Rows(blocks) => blocks[b].page = p)

\* What a request has checked of a parent goes on being so.
Linked(q, pages, blocks) ==
  /\ q.op = "page" /\ q.parent # None => PageOf(q.parent, q.ws, pages)
  /\ q.op = "move" =>
       /\ pages[q.page] # None
       /\ q.to # None => pages[q.to] # None /\ (q.page \in Rows(pages) => PageOf(q.to, pages[q.page].ws, pages))
  /\ q.op = "block" /\ q.parent # None => BlockOf(q.parent, q.page, blocks)
  /\ q.op = "nest" =>
       /\ blocks[q.block] # None
       /\ q.to # None => blocks[q.to] # None /\ (q.block \in Rows(blocks) => BlockOf(q.to, blocks[q.block].page, blocks))
  /\ q.op \in {"copy", "save"} => ShapeApart(q.shape)

LinkedNow == \A r \in Slots : Linked(req[r], page, block)
LinkedThen == \A r \in Slots : Linked(req'[r], page', block')

SavedApart == \A x \in Rows(saved) : ShapeApart(saved[x].shape)

TreeInv == TreesStayApart /\ LinkedNow /\ SavedApart

\* Ids are used once, and a row keeps its place.
PagesKeep ==
  \A p \in Pages : page[p] # None =>
    page'[p] # None /\ (p \in Rows(page') => p \in Rows(page) /\ page'[p].ws = page[p].ws)
BlocksKeep ==
  \A b \in Blocks : block[b] # None =>
    block'[b] # None /\ (b \in Rows(block') => b \in Rows(block) /\ block'[b].page = block[b].page)

\* The rows that are there after new ones were added, or some were changed or lost.
LEMMA PagesAdded ==
  ASSUME TreeTyped, NEW p \in Free(page), NEW row \in PageRow, page' = [page EXCEPT ![p] = row]
  PROVE  PagesKeep /\ Rows(page') = Rows(page) \cup {p} /\ page'[p] = row /\ \A q \in Rows(page) : page'[q] = page[q]
BY ContentAssumption DEF TreeTyped, Table, PagesKeep, Rows, Free

LEMMA PageSet ==
  ASSUME TreeTyped, NEW p \in Rows(page), NEW row \in PageRow, row.ws = page[p].ws, page' = [page EXCEPT ![p] = row]
  PROVE  PagesKeep /\ Rows(page') = Rows(page) /\ page'[p] = row /\ \A q \in Rows(page) \ {p} : page'[q] = page[q]
BY ContentAssumption DEF TreeTyped, Table, PagesKeep, Rows

LEMMA BlockAdded ==
  ASSUME TreeTyped, NEW b \in Free(block), NEW row \in BlockRow, block' = [block EXCEPT ![b] = row]
  PROVE  BlocksKeep /\ Rows(block') = Rows(block) \cup {b} /\ block'[b] = row /\ \A c \in Rows(block) : block'[c] = block[c]
BY ContentAssumption DEF TreeTyped, Table, BlocksKeep, Rows, Free

LEMMA BlockSet ==
  ASSUME TreeTyped, NEW b \in Rows(block), NEW row \in BlockRow, row.page = block[b].page, block' = [block EXCEPT ![b] = row]
  PROVE  BlocksKeep /\ Rows(block') = Rows(block) /\ block'[b] = row /\ \A c \in Rows(block) \ {b} : block'[c] = block[c]
BY ContentAssumption DEF TreeTyped, Table, BlocksKeep, Rows

LEMMA WithoutIs ==
  ASSUME NEW ids, NEW rows, NEW f \in Table(ids, rows), NEW S
  PROVE  Rows(Without(f, S)) = Rows(f) \ S /\ \A x \in Rows(f) \ S : Without(f, S)[x] = f[x]
BY DEF Without, Table, Rows

\* What is under something that is taken is taken.
LEMMA BelowIsClosed ==
  ASSUME NEW f, NEW S
  PROVE  /\ S \cap Rows(f) \subseteq Below(f, S)
         /\ \A x \in Rows(f) : f[x].parent \in Below(f, S) => x \in Below(f, S)
BY DEF Below, WithChildren

\* A request that is left alone stays linked.
LEMMA LinkedKept ==
  ASSUME TypeOK, PagesKeep, BlocksKeep, NEW q \in Request, Linked(q, page, block)
  PROVE  Linked(q, page', block')
<1>1. ASSUME q.op = "page", q.parent # None PROVE PageOf(q.parent, q.ws, page')
  BY <1>1, Carries DEF Linked, PageOf, PagesKeep
<1>2. ASSUME q.op = "block", q.parent # None PROVE BlockOf(q.parent, q.page, block')
  BY <1>2, Carries DEF Linked, BlockOf, BlocksKeep
<1>3. ASSUME q.op = "move"
      PROVE  /\ page'[q.page] # None
             /\ q.to # None => page'[q.to] # None /\ (q.page \in Rows(page') => PageOf(q.to, page'[q.page].ws, page'))
  <2>1. q.page \in Pages /\ q.to \in Pages \cup {None} BY <1>3, Carries DEF MoveRequest
  <2> QED BY <1>3, <2>1 DEF Linked, PageOf, PagesKeep
<1>4. ASSUME q.op = "nest"
      PROVE  /\ block'[q.block] # None
             /\ q.to # None => block'[q.to] # None /\ (q.block \in Rows(block') => BlockOf(q.to, block'[q.block].page, block'))
  <2>1. q.block \in Blocks /\ q.to \in Blocks \cup {None} BY <1>4, Carries
  <2> QED BY <1>4, <2>1 DEF Linked, BlockOf, BlocksKeep
<1>5. q.op \in {"copy", "save"} => ShapeApart(q.shape) BY DEF Linked
<1> QED BY <1>1, <1>2, <1>3, <1>4, <1>5 DEF Linked

\* And so do all of them, where one goes on as something that is linked, and others at most note something.
Plain == {"none", "default", "leave", "transfer", "fill", "archive", "drop", "task", "untask", "upload", "row", "read", "erase", "sweep"}

LEMMA PlainLinked ==
  ASSUME NEW q, q.op \in Plain
  PROVE  Linked(q, page, block) /\ Linked(q, page', block')
BY DEF Plain, Linked

LEMMA PutLinked ==
  ASSUME TypeOK, PagesKeep, BlocksKeep, \A r \in Slots : Linked(req[r], page, block),
         NEW r \in Slots, NEW next, req' = [req EXCEPT ![r] = next], Linked(next, page', block')
  PROVE  \A q \in Slots : Linked(req'[q], page', block')
BY LinkedKept DEF TypeOK

LEMMA NotedLinked ==
  ASSUME TypeOK, PagesKeep, BlocksKeep, \A r \in Slots : Linked(req[r], page, block),
         NEW S \in SUBSET Things, NEW reqs \in [Slots -> Request], req' = Noting(S, reqs),
         \A q \in Slots : reqs[q] = req[q] \/ reqs[q].op \in Plain
  PROVE  \A q \in Slots : Linked(req'[q], page', block')
<1> SUFFICES ASSUME NEW q \in Slots PROVE Linked(req'[q], page', block') OBVIOUS
<1>1. req'[q] = IF reqs[q].op \in {"erase", "sweep"} THEN [reqs[q] EXCEPT !.since = @ \cup S] ELSE reqs[q]
  BY DEF Noting
<1>2. CASE reqs[q].op \in {"erase", "sweep"}
  <2>1. CASE reqs[q].op = "erase"
    <3>1. reqs[q] \in EraseRequests BY <2>1, Carries
    <3>2. req'[q].op = "erase" BY <1>1, <2>1, <3>1 DEF EraseRequests
    <3> QED BY <3>2, PlainLinked DEF Plain
  <2>2. CASE reqs[q].op = "sweep"
    <3>1. reqs[q] \in SweepRequests BY <2>2, Carries
    <3>2. req'[q].op = "sweep" BY <1>1, <2>2, <3>1 DEF SweepRequests
    <3> QED BY <3>2, PlainLinked DEF Plain
  <2> QED BY <1>2, <2>1, <2>2
<1>3. CASE reqs[q].op \notin {"erase", "sweep"}
  <2>1. CASE reqs[q] = req[q]
    <3>1. req[q] \in Request BY DEF TypeOK
    <3> QED BY <1>1, <1>3, <2>1, <3>1, LinkedKept
  <2>2. CASE reqs[q].op \in Plain BY <1>1, <1>3, <2>2, PlainLinked
  <2> QED BY <2>1, <2>2
<1> QED BY <1>2, <1>3

LEMMA Still ==
  ASSUME TypeOK, UNCHANGED <<page, block>>
  PROVE  PagesKeep /\ BlocksKeep /\ (TreesStayApart => TreesStayApart')
BY DEF PagesKeep, BlocksKeep, TreesStayApart

\* Requests that start, end or go on with nothing to check of a tree.
LEMMA PlainStep ==
  ASSUME TypeOK, PagesKeep, BlocksKeep, LinkedNow,
         NEW r \in Slots, NEW next, next.op \in Plain,
         req' = [req EXCEPT ![r] = next]
  PROVE  LinkedThen
BY PutLinked, PlainLinked DEF LinkedNow, LinkedThen

LEMMA PlainBegin ==
  ASSUME TypeOK, UNCHANGED <<page, block>>, LinkedNow,
         NEW r \in Slots, NEW u, NEW next, next.op \in Plain, Begin(r, u, next)
  PROVE  LinkedThen
BY PlainStep, Still DEF Begin

LEMMA SameLinks ==
  ASSUME TypeOK, PagesKeep, BlocksKeep, LinkedNow, req' = req
  PROVE  LinkedThen
BY LinkedKept DEF LinkedNow, LinkedThen, TypeOK

LEMMA NoteLinks ==
  ASSUME TypeOK, PagesKeep, BlocksKeep, LinkedNow, NEW S \in SUBSET Things, req' = Noting(S, req)
  PROVE  LinkedThen
BY NotedLinked DEF LinkedNow, LinkedThen, TypeOK

LEMMA NotePut ==
  ASSUME TypeOK, PagesKeep, BlocksKeep, LinkedNow, NEW S \in SUBSET Things,
         NEW r \in Slots, NEW next \in Request, next.op \in Plain, req' = Noting(S, [req EXCEPT ![r] = next])
  PROVE  LinkedThen
<1> DEFINE reqs == [req EXCEPT ![r] = next]
<1>1. reqs \in [Slots -> Request] /\ \A q \in Slots : reqs[q] = req[q] \/ reqs[q].op \in Plain BY DEF TypeOK
<1>2. req' = Noting(S, reqs) OBVIOUS
<1> HIDE DEF reqs
<1>3. \A q \in Slots : Linked(req[q], page, block) BY DEF LinkedNow
<1>4. \A q \in Slots : Linked(req'[q], page', block') BY <1>1, <1>2, <1>3, NotedLinked
<1> QED BY <1>4 DEF LinkedThen

LEMMA EndLinks ==
  ASSUME TypeOK, PagesKeep, BlocksKeep, LinkedNow, NEW r \in Slots, Ends(r)
  PROVE  LinkedThen
<1>1. Idle.op \in Plain BY DEF Idle, Plain
<1> QED BY <1>1, PlainStep DEF Ends, Goes

LEMMA SpaceLinks ==
  ASSUME TypeOK, LinkedNow, SpacesNext, UNCHANGED <<page, block>>
  PROVE  LinkedThen
<1>0. PagesKeep /\ BlocksKeep BY Still
<1>1. ASSUME NEW w \in Workspaces, req' = Noting({w}, req) PROVE LinkedThen
  <2>1. {w} \in SUBSET Things BY DEF Things
  <2> QED BY <1>0, <1>1, <2>1, NoteLinks
<1>2. ASSUME NEW r \in Slots, NEW u \in Users, NEW w, NEW v, ListStart(r, u) \/ LeaveStart(r, w, u) \/ TransferStart(r, w, u, v)
      PROVE  LinkedThen
  BY <1>2, PlainBegin DEF ListStart, LeaveStart, TransferStart, Plain
<1>3. ASSUME NEW r \in Slots, Ends(r) PROVE LinkedThen
  BY <1>0, <1>3, EndLinks
<1>4. ASSUME req' = req PROVE LinkedThen
  BY <1>0, <1>4, SameLinks
<1>5. ASSUME NEW r \in Slots, TransferWrite(r) PROVE LinkedThen
  <2>1. {req[r].ws} \in SUBSET Things BY <1>5, Carries DEF TransferWrite, Things, TypeOK
  <2>2. Idle.op \in Plain BY DEF Idle, Plain
  <2> QED BY <1>0, <1>5, <2>1, <2>2, IdleTyped, NotePut DEF TransferWrite, Handing
<1> QED BY <1>1, <1>2, <1>3, <1>4, <1>5 DEF SpacesNext, CreateSpace, Join, LeaveWrite, ListLock, Abandon

\* Starts of requests on pages and blocks read what they rely on.
LEMMA PageStartLinks ==
  ASSUME TypeOK, LinkedNow, NEW r \in Slots, NEW u \in Users,
         PageStarts(r, u) \/ \E w \in Workspaces, q \in Pages \cup {None} : \E n : CreateStart(r, u, w, q, n)
  PROVE  LinkedThen /\ UNCHANGED <<page, block>>
<1> DEFINE Now == LinkedThen /\ UNCHANGED <<page, block>>
<1>1. ASSUME NEW w \in Workspaces, NEW q \in Pages \cup {None}, NEW n, CreateStart(r, u, w, q, n) PROVE Now
  <2> DEFINE next == [op |-> "page", by |-> u, ws |-> w, parent |-> q, fill |-> n]
  <2>1. page' = page /\ block' = block /\ req' = [req EXCEPT ![r] = next] BY <1>1 DEF CreateStart, Begin, treeVars
  <2>2. q # None => PageOf(q, w, page) BY <1>1 DEF CreateStart, ParentUsable, Writable, PageOf, Rows
  <2>3. Linked(next, page', block') BY <2>1, <2>2 DEF Linked
  <2> HIDE DEF next
  <2>4. PagesKeep /\ BlocksKeep BY <2>1, Still
  <2> QED BY <2>1, <2>3, <2>4, PutLinked DEF LinkedNow, LinkedThen
<1>2. ASSUME NEW p \in Pages, NEW q \in Pages \cup {None}, MoveStart(r, u, p, q) PROVE Now
  <2> DEFINE next == [op |-> "move", page |-> p, to |-> q, late |-> FALSE]
  <2>1. page' = page /\ block' = block /\ req' = [req EXCEPT ![r] = next] BY <1>2 DEF MoveStart, Begin, treeVars
  <2>2. page[p] # None /\ (q # None => page[q] # None /\ PageOf(q, page[p].ws, page))
    BY <1>2 DEF MoveStart, ParentUsable, Writable, PageOf, Rows
  <2>3. Linked(next, page', block') BY <2>1, <2>2 DEF Linked
  <2> HIDE DEF next
  <2>4. PagesKeep /\ BlocksKeep BY <2>1, Still
  <2> QED BY <2>1, <2>3, <2>4, PutLinked DEF LinkedNow, LinkedThen
<1>3. ASSUME NEW p \in Pages, NEW b \in Blocks \cup {None}, BlockStart(r, u, p, b) PROVE Now
  <2> DEFINE next == [op |-> "block", page |-> p, parent |-> b]
  <2>1. page' = page /\ block' = block /\ req' = [req EXCEPT ![r] = next] BY <1>3 DEF BlockStart, Begin, treeVars
  <2>2. b # None => BlockOf(b, p, block) BY <1>3 DEF BlockStart, OnPage, BlockOf, Rows
  <2>3. Linked(next, page', block') BY <2>1, <2>2 DEF Linked
  <2> HIDE DEF next
  <2>4. PagesKeep /\ BlocksKeep BY <2>1, Still
  <2> QED BY <2>1, <2>3, <2>4, PutLinked DEF LinkedNow, LinkedThen
<1>4. ASSUME NEW b \in Blocks, NEW to \in Blocks \cup {None}, NestStart(r, u, b, to) PROVE Now
  <2> DEFINE next == [op |-> "nest", block |-> b, to |-> to]
  <2>1. page' = page /\ block' = block /\ req' = [req EXCEPT ![r] = next] BY <1>4 DEF NestStart, Begin, treeVars
  <2>2. block[b] # None /\ (to # None => block[to] # None /\ BlockOf(to, block[b].page, block))
    BY <1>4 DEF NestStart, OnPage, BlockOf, Rows
  <2>3. Linked(next, page', block') BY <2>1, <2>2 DEF Linked
  <2> HIDE DEF next
  <2>4. PagesKeep /\ BlocksKeep BY <2>1, Still
  <2> QED BY <2>1, <2>3, <2>4, PutLinked DEF LinkedNow, LinkedThen
<1>5. ASSUME NEW pages, NEW archived,
             Begin(r, u, [op |-> "archive", pages |-> pages, archived |-> archived]), UNCHANGED treeVars
      PROVE  Now
  <2> DEFINE next == [op |-> "archive", pages |-> pages, archived |-> archived]
  <2>1. next.op \in Plain BY DEF Plain
  <2>2. Begin(r, u, next) /\ UNCHANGED <<page, block>> BY <1>5 DEF treeVars
  <2> HIDE DEF next
  <2> QED BY <2>1, <2>2, PlainBegin
<1>6. ASSUME NEW b \in Blocks, DropStart(r, u, b) PROVE Now
  <2> DEFINE next == [op |-> "drop", block |-> b]
  <2>1. next.op \in Plain BY DEF Plain
  <2>2. Begin(r, u, next) /\ UNCHANGED <<page, block>> BY <1>6 DEF DropStart, treeVars
  <2> HIDE DEF next
  <2> QED BY <2>1, <2>2, PlainBegin
<1>7. ASSUME NEW p \in Pages, ArchiveStart(r, u, p) \/ \E archived \in BOOLEAN : FlagStart(r, u, p, archived) PROVE Now
  BY <1>5, <1>7 DEF ArchiveStart, FlagStart
<1>8. CASE PageStarts(r, u)
  BY <1>1, <1>2, <1>3, <1>4, <1>6, <1>7, <1>8 DEF PageStarts
<1>9. CASE \E w \in Workspaces, q \in Pages \cup {None} : \E n : CreateStart(r, u, w, q, n)
  <2>1. PICK w \in Workspaces, q \in Pages \cup {None} : \E n : CreateStart(r, u, w, q, n) BY <1>9
  <2> QED BY <1>1, <2>1
<1> QED BY <1>8, <1>9

\* The two halves of TreesStayApart.
PagesApart ==
  \A p \in Rows(page) : page[p].parent # None =>
    page[p].parent \in Rows(page) /\ page[page[p].parent].ws = page[p].ws
BlocksApart ==
  \A b \in Rows(block) :
    /\ block[b].page \in Rows(page)
    /\ block[b].parent # None =>
         block[b].parent \in Rows(block) /\ block[block[b].parent].page = block[b].page

LEMMA Halves == /\ TreesStayApart <=> PagesApart /\ BlocksApart
                /\ TreesStayApart' <=> PagesApart' /\ BlocksApart'
BY DEF TreesStayApart, Apart, PagesApart, BlocksApart

LEMMA BlocksStay ==
  ASSUME BlocksApart, block' = block, Rows(page) \subseteq Rows(page')
  PROVE  BlocksApart'
BY DEF BlocksApart

LEMMA NoneIsNoRow ==
  TypeOK => None \notin Rows(page) /\ None \notin Rows(block)
BY ContentAssumption DEF TypeOK, Table, Rows

\* The writes to pages and blocks.
LEMMA CreateApart ==
  ASSUME TypeOK, TreesStayApart, LinkedNow, NEW r \in Slots, CreateWrite(r)
  PROVE  TreesStayApart' /\ LinkedThen
<1> DEFINE p == CHOOSE x \in Free(page) : TRUE
           row == [ws |-> req[r].ws, by |-> req[r].by, parent |-> req[r].parent, archived |-> FALSE]
           next == IF req[r].fill = 0 THEN Idle ELSE [op |-> "fill", page |-> p, fill |-> req[r].fill]
<1>1. p \in Free(page) BY DEF CreateWrite
<1>2. page' = [page EXCEPT ![p] = row] /\ req' = Noting({p}, [req EXCEPT ![r] = next]) /\ block' = block
  BY DEF CreateWrite
<1>3. req[r] \in Request /\ req[r].op = "page" BY DEF CreateWrite, TypeOK
<1>4. req[r].by \in Users /\ req[r].ws \in Workspaces /\ req[r].parent \in Pages \cup {None} /\ req[r].fill \in Nat
  BY <1>3, Carries
<1>5. row \in PageRow /\ row.ws = req[r].ws /\ row.parent = req[r].parent BY <1>4 DEF PageRow
<1>6. ASSUME req[r].parent \in Rows(page) PROVE page[req[r].parent].ws = req[r].ws
  <2>1. req[r].parent # None BY <1>6, NoneIsNoRow
  <2>2. Linked(req[r], page, block) BY DEF LinkedNow
  <2> QED BY <1>3, <1>6, <2>1, <2>2 DEF Linked, PageOf
<1>7. req[r].parent \in Rows(page) \cup {None} BY DEF CreateWrite
<1>8. p \in Pages /\ TreeTyped BY <1>1, PageRows, TypeParts
<1>9. next \in Request /\ next.op \in Plain
  BY <1>4, <1>8, IdleTyped DEF Request, PageRequests, Plain, Idle
<1> HIDE DEF p, row, next
<1>10. PagesKeep /\ Rows(page') = Rows(page) \cup {p} /\ page'[p] = row /\ \A q \in Rows(page) : page'[q] = page[q]
  BY <1>1, <1>2, <1>5, <1>8, PagesAdded
<1>11. BlocksKeep BY <1>2 DEF BlocksKeep
<1>12. {p} \in SUBSET Things BY <1>8 DEF Things
<1>13. LinkedThen BY <1>2, <1>9, <1>10, <1>11, <1>12, NotePut
<1>14. PagesApart' BY <1>5, <1>6, <1>7, <1>10, Halves DEF PagesApart
<1>15. BlocksApart' BY <1>2, <1>10, Halves, BlocksStay
<1> QED BY <1>13, <1>14, <1>15, Halves

LEMMA FillApart ==
  ASSUME TypeOK, TreesStayApart, LinkedNow, NEW r \in Slots, Fill(r)
  PROVE  TreesStayApart' /\ LinkedThen
<1> DEFINE new == CHOOSE S \in FreeSets(req[r].fill) : TRUE
           row == [page |-> req[r].page, parent |-> None]
<1>1. new \in FreeSets(req[r].fill) BY DEF Fill
<1>2. new \subseteq Free(block) BY <1>1 DEF FreeSets
<1>3. /\ req[r].page \in Rows(page) /\ page' = page /\ Ends(r)
      /\ block' = [b \in Blocks |-> IF b \in new THEN row ELSE block[b]]
  BY DEF Fill
<1> HIDE DEF new
<1>4. block \in Table(Blocks, BlockRow) /\ TreeTyped BY TypeParts DEF TypeOK
<1>5. req[r].page \in Pages BY <1>3, <1>4, PageRows
<1>6. row \in BlockRow /\ row.page = req[r].page /\ row.parent = None BY <1>5 DEF BlockRow
<1>7. row # None /\ row # Gone /\ None # Gone BY <1>6, ContentAssumption
<1> HIDE DEF row
<1>8. Rows(block') = Rows(block) \cup new /\ \A b \in Rows(block) : b \notin new /\ block'[b] = block[b]
  BY <1>2, <1>3, <1>4, <1>7 DEF Rows, Free, Table
<1>9. \A b \in new : block'[b] = row
  BY <1>2, <1>3, <1>4 DEF Free, Table
<1>10. PagesKeep /\ BlocksKeep
  <2>1. \A b \in Blocks : block[b] # None => block'[b] = block[b] BY <1>2, <1>3, <1>4 DEF Free, Table
  <2>2. \A b \in Blocks : block[b] # None /\ b \in Rows(block') => b \in Rows(block)
    BY <1>3, <1>4, <2>1 DEF Rows, Table
  <2> QED BY <1>3, <2>1, <2>2 DEF PagesKeep, BlocksKeep
<1>11. LinkedThen BY <1>3, <1>10, EndLinks
<1>12. PagesApart' BY <1>3, Halves DEF PagesApart
<1>13. BlocksApart' BY <1>3, <1>6, <1>8, <1>9, Halves DEF BlocksApart
<1> QED BY <1>11, <1>12, <1>13, Halves

LEMMA MoveApart ==
  ASSUME TypeOK, TreesStayApart, LinkedNow, NEW r \in Slots, MoveWrite(r)
  PROVE  TreesStayApart' /\ LinkedThen
<1> DEFINE p == req[r].page
           to == req[r].to
           row == [page[p] EXCEPT !.parent = to]
<1>1. p \in Rows(page) /\ to \in Rows(page) \cup {None} /\ page' = [page EXCEPT ![p].parent = to] /\ block' = block
  BY DEF MoveWrite
<1>2. page[p] \in PageRow /\ p \in Pages /\ TreeTyped BY <1>1, PageRows, TypeParts
<1>3. to \in Pages \cup {None} BY <1>1, PageRows, TypeParts
<1>4. row \in PageRow /\ row.ws = page[p].ws /\ row.parent = to BY <1>2, <1>3 DEF PageRow
<1>5. page' = [page EXCEPT ![p] = row] BY <1>1
<1>6. ASSUME to \in Rows(page) PROVE page[to].ws = page[p].ws
  <2>1. to # None BY <1>6, NoneIsNoRow
  <2>2. Linked(req[r], page, block) /\ req[r].op = "move" BY DEF LinkedNow, MoveWrite
  <2> QED BY <1>1, <1>6, <2>1, <2>2 DEF Linked, PageOf
<1>7. BlocksKeep BY <1>1 DEF BlocksKeep
<1> HIDE DEF p, to, row
<1>8. PagesKeep /\ Rows(page') = Rows(page) /\ page'[p] = row /\ \A q \in Rows(page) \ {p} : page'[q] = page[q]
  BY <1>1, <1>2, <1>4, <1>5, PageSet
<1>9. TreesStayApart'
  <2>1. \A q \in Rows(page) : page'[q].ws = page[q].ws BY <1>4, <1>8
  <2>2. PagesApart' BY <1>1, <1>4, <1>6, <1>8, <2>1, Halves DEF PagesApart
  <2>3. BlocksApart' BY <1>1, <1>8, Halves, BlocksStay
  <2> QED BY <2>2, <2>3, Halves
<1>10. ASSUME NEW q \in Slots PROVE Linked(req'[q], page', block')
  <2>1. Linked(req[q], page', block') BY <1>7, <1>8, LinkedKept DEF TypeOK, LinkedNow
  <2>2. req'[q] = IF q = r THEN Idle ELSE IF req[q].op = "move" THEN [req[q] EXCEPT !.late = TRUE] ELSE req[q]
    BY DEF MoveWrite
  <2>3. Linked(Idle, page', block') BY DEF Linked, Idle
  <2>4. ASSUME req[q].op = "move" PROVE Linked([req[q] EXCEPT !.late = TRUE], page', block')
    <3>1. req[q] \in MoveRequest BY <2>4, Carries DEF TypeOK
    <3> DEFINE next == [req[q] EXCEPT !.late = TRUE]
    <3>2. next.op = "move" /\ next.page = req[q].page /\ next.to = req[q].to BY <2>4, <3>1 DEF MoveRequest
    <3> HIDE DEF next
    <3>3. Linked(next, page', block') BY <2>1, <2>4, <3>2 DEF Linked
    <3> QED BY <3>3 DEF next
  <2> QED BY <2>1, <2>2, <2>3, <2>4
<1> QED BY <1>9, <1>10 DEF LinkedThen

LEMMA ArchiveApart ==
  ASSUME TypeOK, TreesStayApart, LinkedNow, NEW r \in Slots, ArchiveWrite(r)
  PROVE  TreesStayApart' /\ LinkedThen
<1> DEFINE row(p) == [page[p] EXCEPT !.archived = req[r].archived]
<1>1. /\ block' = block /\ Ends(r)
      /\ page' = [p \in Pages |-> IF p \in req[r].pages \cap Rows(page) THEN row(p) ELSE page[p]]
  BY DEF ArchiveWrite
<1>2. req[r].archived \in BOOLEAN BY Carries DEF ArchiveWrite, TypeOK
<1>3. \A p \in Rows(page) : p \in Pages /\ page[p] \in PageRow BY PageRows, TypeParts
<1>4. \A p \in Rows(page) : row(p) \in PageRow /\ row(p).ws = page[p].ws /\ row(p).parent = page[p].parent
  BY <1>2, <1>3 DEF PageRow
<1> HIDE DEF row
<1>5. page \in Table(Pages, PageRow) BY DEF TypeOK
<1>6. \A p \in Rows(page) : row(p) # None /\ row(p) # Gone BY <1>4, ContentAssumption
<1>7. Rows(page') = Rows(page) BY <1>1, <1>5, <1>6 DEF Rows, Table
<1>8. \A p \in Rows(page) : page'[p].ws = page[p].ws /\ page'[p].parent = page[p].parent
  BY <1>1, <1>3, <1>4
<1>9. PagesKeep
  <2>1. \A p \in Pages : page[p] # None => page'[p] # None BY <1>1, <1>6
  <2> QED BY <1>7, <1>8, <2>1 DEF PagesKeep
<1>10. BlocksKeep BY <1>1 DEF BlocksKeep
<1>11. LinkedThen BY <1>1, <1>9, <1>10, EndLinks
<1>12. PagesApart' BY <1>7, <1>8, Halves DEF PagesApart
<1>13. BlocksApart' BY <1>1, <1>7, Halves, BlocksStay
<1> QED BY <1>11, <1>12, <1>13, Halves

LEMMA BlockApart ==
  ASSUME TypeOK, TreesStayApart, LinkedNow, NEW r \in Slots, BlockWrite(r)
  PROVE  TreesStayApart' /\ LinkedThen
<1> DEFINE b == CHOOSE x \in Free(block) : TRUE
           row == [page |-> req[r].page, parent |-> req[r].parent]
<1>1. b \in Free(block) BY DEF BlockWrite
<1>2. block' = [block EXCEPT ![b] = row] /\ Ends(r) /\ page' = page BY DEF BlockWrite
<1>3. req[r] \in Request /\ req[r].op = "block" BY DEF BlockWrite, TypeOK
<1>4. req[r].page \in Pages /\ req[r].parent \in Blocks \cup {None} BY <1>3, Carries
<1>5. row \in BlockRow /\ row.page = req[r].page /\ row.parent = req[r].parent BY <1>4 DEF BlockRow
<1>6. ASSUME req[r].parent \in Rows(block) PROVE block[req[r].parent].page = req[r].page
  <2>1. req[r].parent # None BY <1>6, NoneIsNoRow
  <2>2. Linked(req[r], page, block) BY DEF LinkedNow
  <2> QED BY <1>3, <1>6, <2>1, <2>2 DEF Linked, BlockOf
<1>7. req[r].page \in Rows(page) /\ req[r].parent \in Rows(block) \cup {None} BY DEF BlockWrite
<1>8. TreeTyped BY TypeParts
<1> HIDE DEF b, row
<1>9. BlocksKeep /\ Rows(block') = Rows(block) \cup {b} /\ block'[b] = row /\ \A c \in Rows(block) : block'[c] = block[c]
  BY <1>1, <1>2, <1>5, <1>8, BlockAdded
<1>10. PagesKeep BY <1>2 DEF PagesKeep
<1>11. LinkedThen BY <1>2, <1>9, <1>10, EndLinks
<1>12. PagesApart' BY <1>2, Halves DEF PagesApart
<1>13. BlocksApart'
  <2>1. BlocksApart BY Halves
  <2>2. ASSUME NEW c \in Rows(block')
        PROVE  /\ block'[c].page \in Rows(page)
               /\ block'[c].parent # None =>
                    block'[c].parent \in Rows(block) /\ block[block'[c].parent].page = block'[c].page
    <3>1. CASE c = b BY <1>5, <1>6, <1>7, <1>9, <3>1
    <3>2. CASE c \in Rows(block) BY <1>9, <2>1, <3>2 DEF BlocksApart
    <3> QED BY <1>9, <2>2, <3>1, <3>2
  <2> QED BY <1>2, <1>9, <2>2 DEF BlocksApart
<1> QED BY <1>11, <1>12, <1>13, Halves

LEMMA NestApart ==
  ASSUME TypeOK, TreesStayApart, LinkedNow, NEW r \in Slots, NestWrite(r)
  PROVE  TreesStayApart' /\ LinkedThen
<1> DEFINE b == req[r].block
           to == req[r].to
           row == [block[b] EXCEPT !.parent = to]
<1>1. /\ b \in Rows(block) /\ to \in Rows(block) \cup {None} /\ block' = [block EXCEPT ![b].parent = to]
      /\ page' = page /\ Ends(r)
  BY DEF NestWrite
<1>2. block[b] \in BlockRow /\ b \in Blocks /\ TreeTyped BY <1>1, PageRows, TypeParts
<1>3. to \in Blocks \cup {None} BY <1>1, PageRows, TypeParts
<1>4. row \in BlockRow /\ row.page = block[b].page /\ row.parent = to BY <1>2, <1>3 DEF BlockRow
<1>5. block' = [block EXCEPT ![b] = row] BY <1>1
<1>6. ASSUME to \in Rows(block) PROVE block[to].page = block[b].page
  <2>1. to # None BY <1>6, NoneIsNoRow
  <2>2. Linked(req[r], page, block) /\ req[r].op = "nest" BY DEF LinkedNow, NestWrite
  <2> QED BY <1>1, <1>6, <2>1, <2>2 DEF Linked, BlockOf
<1>7. PagesKeep BY <1>1 DEF PagesKeep
<1> HIDE DEF b, to, row
<1>8. BlocksKeep /\ Rows(block') = Rows(block) /\ block'[b] = row /\ \A c \in Rows(block) \ {b} : block'[c] = block[c]
  BY <1>1, <1>2, <1>4, <1>5, BlockSet
<1>9. \A c \in Rows(block) : block'[c].page = block[c].page BY <1>4, <1>8
<1>10. LinkedThen BY <1>1, <1>7, <1>8, EndLinks
<1>11. PagesApart' BY <1>1, Halves DEF PagesApart
<1>12. BlocksApart' BY <1>1, <1>4, <1>6, <1>8, <1>9, Halves DEF BlocksApart
<1> QED BY <1>10, <1>11, <1>12, Halves

LEMMA DropApart ==
  ASSUME TypeOK, TreesStayApart, LinkedNow, NEW r \in Slots, DropWrite(r)
  PROVE  TreesStayApart' /\ LinkedThen
<1> DEFINE gone == Below(block, {req[r].block})
<1>1. block' = [b \in Blocks |-> IF b \in gone THEN Gone ELSE block[b]] /\ page' = page /\ Ends(r)
  BY DEF DropWrite
<1>2. \A b \in Rows(block) : block[b].parent \in gone => b \in gone BY BelowIsClosed
<1>3. block \in Table(Blocks, BlockRow) /\ None # Gone BY ContentAssumption DEF TypeOK
<1> HIDE DEF gone
<1>4. Rows(block') = Rows(block) \ gone /\ \A b \in Rows(block) \ gone : block'[b] = block[b]
  BY <1>1, <1>3 DEF Rows, Table
<1>5. PagesKeep /\ BlocksKeep
  <2>1. \A b \in Blocks : block[b] # None => block'[b] # None BY <1>1, <1>3
  <2> QED BY <1>1, <1>4, <2>1 DEF PagesKeep, BlocksKeep
<1>6. LinkedThen BY <1>1, <1>5, EndLinks
<1>7. PagesApart' BY <1>1, Halves DEF PagesApart
<1>8. BlocksApart' BY <1>1, <1>2, <1>4, Halves DEF BlocksApart
<1> QED BY <1>6, <1>7, <1>8, Halves

LEMMA PagesStep ==
  ASSUME TypeOK, TreesStayApart, LinkedNow, PagesNext
  PROVE  TreesStayApart' /\ LinkedThen
<1>1. ASSUME NEW r \in Slots, NEW u \in Users, PageStarts(r, u) PROVE TreesStayApart' /\ LinkedThen
  BY <1>1, PageStartLinks, Still
<1> QED BY <1>1, CreateApart, FillApart, MoveApart, ArchiveApart, BlockApart, NestApart, DropApart DEF PagesNext

\* Files, the library and the steps of a deletion that leave pages and blocks alone.
LEMMA FilesLinks ==
  ASSUME TypeOK, LinkedNow, FilesNext, UNCHANGED <<page, block>>
  PROVE  LinkedThen
<1>0. PagesKeep /\ BlocksKeep BY Still
<1>1. ASSUME NEW r \in Slots, NEW u \in Users, NEW w, TaskStart(r, u, w) PROVE LinkedThen
  <2>1. [op |-> "task", by |-> u, ws |-> w].op \in Plain BY DEF Plain
  <2> QED BY <1>1, <2>1, PlainBegin DEF TaskStart
<1>2. ASSUME NEW r \in Slots, NEW u \in Users, NEW t, TaskRemoveStart(r, u, t) PROVE LinkedThen
  <2>1. [op |-> "untask", task |-> t, objects |-> FilesOf(t)].op \in Plain BY DEF Plain
  <2> QED BY <1>2, <2>1, PlainBegin DEF TaskRemoveStart
<1>3. ASSUME NEW r \in Slots, NEW u \in Users, NEW t, UploadStart(r, u, t) PROVE LinkedThen
  <2>1. [op |-> "upload", by |-> u, task |-> t].op \in Plain BY DEF Plain
  <2> QED BY <1>3, <2>1, PlainBegin DEF UploadStart
<1>4. ASSUME NEW r \in Slots, NEW u \in Users, NEW f, FileRemove(r, u, f) PROVE LinkedThen
  <2>1. [op |-> "sweep", objects |-> {f}, since |-> {}].op \in Plain BY DEF Plain
  <2> QED BY <1>4, <2>1, PlainBegin DEF FileRemove
<1>5. ASSUME NEW r \in Slots, NEW f, UploadSave(r, f) PROVE LinkedThen
  <2>1. [op |-> "row", by |-> req[r].by, task |-> req[r].task, file |-> f].op \in Plain BY DEF Plain
  <2> QED BY <1>0, <1>5, <2>1, PlainStep DEF UploadSave, Goes
<1>6. ASSUME NEW r \in Slots, NEW f, Sweep(r, f) PROVE LinkedThen
  <2> DEFINE next == IF req[r].objects = {f} THEN Idle ELSE [req[r] EXCEPT !.objects = @ \ {f}]
  <2>1. req[r] \in SweepRequests BY <1>6, Carries DEF Sweep, TypeOK
  <2>2. next.op \in Plain BY <2>1 DEF SweepRequests, Idle, Plain
  <2>3. req' = [req EXCEPT ![r] = next] BY <1>6 DEF Sweep, Goes
  <2> HIDE DEF next
  <2> QED BY <1>0, <2>2, <2>3, PlainStep
<1>7. ASSUME NEW r \in Slots, TaskWrite(r) PROVE LinkedThen
  <2> DEFINE t == CHOOSE x \in Free(task) : TRUE
  <2>1. t \in TaskIds BY <1>7, FileRows, TypeParts DEF TaskWrite
  <2>2. req' = Noting({t}, [req EXCEPT ![r] = Idle]) BY <1>7 DEF TaskWrite
  <2> HIDE DEF t
  <2>3. {t} \in SUBSET Things BY <2>1 DEF Things
  <2>4. Idle.op \in Plain BY DEF Idle, Plain
  <2> QED BY <1>0, <2>2, <2>3, <2>4, IdleTyped, NotePut
<1>8. ASSUME NEW r \in Slots, TaskRemoveWrite(r) PROVE LinkedThen
  <2>1. [op |-> "sweep", objects |-> req[r].objects, since |-> {}].op \in Plain BY DEF Plain
  <2> QED BY <1>0, <1>8, <2>1, PlainStep DEF TaskRemoveWrite, Goes
<1>9. ASSUME NEW r \in Slots, UploadRow(r) PROVE LinkedThen
  BY <1>0, <1>9, EndLinks DEF UploadRow
<1> QED BY <1>1, <1>2, <1>3, <1>4, <1>5, <1>6, <1>7, <1>8, <1>9 DEF FilesNext, FileStarts

LEMMA CollectApart ==
  ASSUME TypeOK, TreesStayApart, NEW w, NEW parts
  PROVE  ShapeApart(Collect(w, parts))
<1>1. \A b \in Rows(block) : block[b].parent \in Rows(block) => block[block[b].parent].page = block[b].page
  BY Halves, NoneIsNoRow DEF BlocksApart
<1> QED BY <1>1 DEF Collect, ShapeApart

LEMMA OnlyApart ==
  ASSUME NEW shape \in Shape, NEW parts, ShapeApart(shape)
  PROVE  ShapeApart(Only(shape, parts))
BY DEF Only, ShapeApart

LEMMA LibraryLinks ==
  ASSUME TypeOK, TreesStayApart, LinkedNow, SavedApart, LibraryNext, UNCHANGED <<page, block>>
  PROVE  LinkedThen /\ SavedApart'
<1>0. PagesKeep /\ BlocksKeep BY Still
<1>1. ASSUME NEW r \in Slots, NEW u \in Users, NEW w, NEW parts, DuplicateStart(r, u, w, parts) \/ SaveStart(r, u, w)
      PROVE  LinkedThen /\ SavedApart'
  <2>1. \A S, then : [op |-> "read", by |-> u, ws |-> w, parts |-> S, next |-> then].op \in Plain BY DEF Plain
  <2>2. LinkedThen
    BY <1>1, <2>1, PlainBegin DEF DuplicateStart, SaveStart
  <2> QED BY <1>1, <2>2 DEF DuplicateStart, SaveStart, libVars, SavedApart
<1>2. ASSUME NEW r \in Slots, NEW u \in Users, NEW x \in Templates, NEW parts, UseStart(r, u, x, parts)
      PROVE  LinkedThen /\ SavedApart'
  <2> DEFINE next == [op |-> "copy", by |-> u, shape |-> Only(saved[x].shape, parts)]
  <2>1. x \in Rows(saved) /\ saved' = saved /\ req' = [req EXCEPT ![r] = next]
    BY <1>2 DEF UseStart, SavedBy, libVars, Begin
  <2>2. saved[x].shape \in Shape
    <3>1. saved[x] \in SavedRow BY <2>1, SavedRows, TypeParts
    <3> QED BY <3>1 DEF SavedRow
  <2>3. ShapeApart(next.shape) BY <2>1, <2>2, OnlyApart DEF SavedApart
  <2>4. Linked(next, page', block') BY <2>3 DEF Linked
  <2> HIDE DEF next
  <2>5. LinkedThen BY <1>0, <2>1, <2>4, PutLinked DEF LinkedNow, LinkedThen
  <2> QED BY <2>1, <2>5 DEF SavedApart
<1>3. ASSUME NEW r \in Slots, Read(r) PROVE LinkedThen /\ SavedApart'
  <2> DEFINE next == [op |-> req[r].next, by |-> req[r].by, shape |-> Collect(req[r].ws, req[r].parts)]
  <2>1. saved' = saved /\ req' = [req EXCEPT ![r] = next] BY <1>3 DEF Read, libVars, Goes
  <2>2. ShapeApart(next.shape) BY CollectApart
  <2>3. req[r].next \in {"copy", "save"} BY <1>3, Carries DEF Read, TypeOK
  <2>4. Linked(next, page', block') BY <2>2, <2>3 DEF Linked
  <2> HIDE DEF next
  <2>5. LinkedThen BY <1>0, <2>1, <2>4, PutLinked DEF LinkedNow, LinkedThen
  <2> QED BY <2>1, <2>5 DEF SavedApart
<1>4. ASSUME NEW r \in Slots, NEW x \in Templates, Save(r, x) PROVE LinkedThen /\ SavedApart'
  <2>1. saved' = [saved EXCEPT ![x] = [by |-> req[r].by, shape |-> req[r].shape]] /\ Ends(r) /\ req[r].op = "save"
    BY <1>4 DEF Save
  <2>2. ShapeApart(req[r].shape) BY <2>1 DEF LinkedNow, Linked
  <2>3. saved \in Table(Templates, SavedRow) BY DEF TypeOK
  <2>4. SavedApart' BY <2>1, <2>2, <2>3 DEF SavedApart, Rows, Table
  <2> QED BY <1>0, <2>1, <2>4, EndLinks
<1>5. ASSUME NEW u, NEW x \in Templates, RemoveTemplate(u, x) PROVE LinkedThen /\ SavedApart'
  <2>1. saved \in Table(Templates, SavedRow) BY DEF TypeOK
  <2>2. SavedApart' BY <1>5, <2>1 DEF RemoveTemplate, SavedApart, Rows, Table
  <2> QED BY <1>0, <1>5, <2>2, SameLinks DEF RemoveTemplate
<1>6. ASSUME UNCHANGED <<req, saved>> PROVE LinkedThen /\ SavedApart'
  BY <1>0, <1>6, SameLinks DEF SavedApart
<1> QED BY <1>1, <1>2, <1>3, <1>4, <1>5, <1>6 DEF LibraryNext, LibraryStarts, SaveRecipe, RemoveRecipe

LEMMA BillingLinks ==
  ASSUME TypeOK, LinkedNow, BillingNext, UNCHANGED <<page, block>>
  PROVE  LinkedThen
<1>0. PagesKeep /\ BlocksKeep BY Still
<1>1. ASSUME NEW r \in Slots, NEW next, next.op = "erase", req' = [req EXCEPT ![r] = next] PROVE LinkedThen
  <2>1. next.op \in Plain BY <1>1 DEF Plain
  <2> QED BY <1>0, <1>1, <2>1, PlainStep
<1>2. ASSUME NEW r \in Slots, StopBilling(r) PROVE LinkedThen
  <2>1. req[r] \in EraseRequests BY <1>2, Erasure, TypeParts DEF StopBilling, At
  <2>2. [req[r] EXCEPT !.pc = "read"].op = "erase" BY <2>1 DEF EraseRequests
  <2>3. Onto(r, "read") \/ Ends(r) BY <1>2 DEF StopBilling
  <2> QED BY <1>0, <1>1, <2>2, <2>3, EndLinks DEF Onto, Goes
<1>3. ASSUME NEW r \in Slots, ReadMemberships(r) \/ ListFiles(r) PROVE LinkedThen
  BY <1>1, <1>3 DEF ReadMemberships, ListFiles, Goes
<1>4. ASSUME req' = req PROVE LinkedThen
  BY <1>0, <1>4, SameLinks
<1> QED BY <1>2, <1>3, <1>4 DEF BillingNext, Checkout, Pay, Learn

\* A copy keeps the form of its shape.
LEMMA BuildApart ==
  ASSUME TypeOK, TreesStayApart, LinkedNow, SavedApart, BuildNext, UNCHANGED <<file, object>>
  PROVE  TreesStayApart' /\ LinkedThen /\ SavedApart'
<1>1. PICK r \in Slots, w \in Workspaces : Build(r, w) BY DEF BuildNext
<1> DEFINE s == req[r].shape
<1>2. req[r].by \in Users /\ s \in Shape BY <1>1, BuildIs, TypeParts
<1>3. PICK asPage \in [DOMAIN s.pages -> Free(page)], asBlock \in [DOMAIN s.blocks -> Free(block)],
           asTask \in [s.tasks -> Free(task)] :
        /\ \A x, y \in DOMAIN asPage : x # y => asPage[x] # asPage[y]
        /\ \A x, y \in DOMAIN asBlock : x # y => asBlock[x] # asBlock[y]
        /\ Built(r, w, asPage, asBlock, asTask)
  BY <1>1, BuildIs, TypeParts
<1>4. /\ \A b \in DOMAIN s.blocks : s.blocks[b].page \in DOMAIN s.pages
      /\ ShapeApart(s) /\ SavedApart' /\ Ends(r)
  BY <1>1, <1>2 DEF Shape, Build, LinkedNow, Linked, SavedApart, libVars
<1>5. page \in Table(Pages, PageRow) /\ block \in Table(Blocks, BlockRow) /\ None # Gone
  BY ContentAssumption DEF TypeOK
<1>6. page' \in Table(Pages, PageRow) /\ block' \in Table(Blocks, BlockRow)
  <2>1. TreeTyped'
    BY BuildTyped, TypeParts
  <2> QED BY <2>1 DEF TreeTyped
<1> DEFINE To(g, x) == IF x \in DOMAIN g THEN g[x] ELSE None
           newPage(q) == [ws |-> w, by |-> req[r].by, archived |-> FALSE, parent |-> To(asPage, s.pages[q])]
           newBlock(c) == [page |-> asPage[s.blocks[c].page], parent |-> To(asBlock, s.blocks[c].parent)]
<1>7. /\ \A q \in DOMAIN s.pages : page'[asPage[q]] = newPage(q)
      /\ \A p \in Pages : (\A q \in DOMAIN s.pages : asPage[q] # p) => page'[p] = page[p]
  <2>1. page' = [p \in Pages |-> IF {q \in DOMAIN asPage : asPage[q] = p} = {} THEN page[p] ELSE
           newPage(CHOOSE q \in {q \in DOMAIN asPage : asPage[q] = p} : TRUE)]
    BY <1>3 DEF Built
  <2> HIDE DEF newPage
  <2>2. ASSUME NEW q \in DOMAIN s.pages
        PROVE  asPage[q] \in Pages /\ {x \in DOMAIN asPage : asPage[x] = asPage[q]} = {q}
    BY <1>3, <1>5 DEF Free, Table
  <2> QED BY <2>1, <2>2
<1>8. /\ \A c \in DOMAIN s.blocks : block'[asBlock[c]] = newBlock(c)
      /\ \A b \in Blocks : (\A c \in DOMAIN s.blocks : asBlock[c] # b) => block'[b] = block[b]
  <2>1. block' = [b \in Blocks |-> IF {c \in DOMAIN asBlock : asBlock[c] = b} = {} THEN block[b] ELSE
           newBlock(CHOOSE c \in {c \in DOMAIN asBlock : asBlock[c] = b} : TRUE)]
    BY <1>3 DEF Built
  <2> HIDE DEF newBlock
  <2>2. ASSUME NEW c \in DOMAIN s.blocks
        PROVE  asBlock[c] \in Blocks /\ {x \in DOMAIN asBlock : asBlock[x] = asBlock[c]} = {c}
    BY <1>3, <1>5 DEF Free, Table
  <2> QED BY <2>1, <2>2
<1>9. /\ \A q \in DOMAIN s.pages : asPage[q] \in Pages /\ page[asPage[q]] = None
      /\ \A c \in DOMAIN s.blocks : asBlock[c] \in Blocks /\ block[asBlock[c]] = None
  BY <1>3, <1>5 DEF Free, Table
<1>10. \A q \in DOMAIN s.pages : newPage(q) \in PageRow /\ newPage(q).ws = w /\ newPage(q).parent = To(asPage, s.pages[q])
  BY <1>2, <1>9 DEF PageRow
<1>11. ASSUME NEW c \in DOMAIN s.blocks
       PROVE  /\ newBlock(c) \in BlockRow /\ newBlock(c).page = asPage[s.blocks[c].page]
              /\ newBlock(c).parent = To(asBlock, s.blocks[c].parent)
  <2>1. s.blocks[c].page \in DOMAIN s.pages BY <1>4
  <2> QED BY <1>9, <2>1 DEF BlockRow
<1>12. /\ \A q \in DOMAIN s.pages : newPage(q) # None /\ newPage(q) # Gone
       /\ \A c \in DOMAIN s.blocks : newBlock(c) # None /\ newBlock(c) # Gone
  BY <1>10, <1>11, ContentAssumption
<1>13. \A q \in DOMAIN s.pages : s.pages[q] \in DOMAIN s.pages => To(asPage, s.pages[q]) = asPage[s.pages[q]]
  BY <1>3
<1>14. \A c \in DOMAIN s.blocks :
         IF s.blocks[c].parent \in DOMAIN s.blocks THEN To(asBlock, s.blocks[c].parent) = asBlock[s.blocks[c].parent]
         ELSE To(asBlock, s.blocks[c].parent) = None
  BY <1>3
<1>15. \A q \in DOMAIN s.pages : s.pages[q] \notin DOMAIN s.pages => To(asPage, s.pages[q]) = None
  BY <1>3
<1> HIDE DEF newPage, newBlock, To, s
<1>16. /\ \A p \in Rows(page) : p \in Rows(page') /\ page'[p] = page[p]
       /\ \A p \in Rows(page') : p \in Rows(page) \/ \E q \in DOMAIN s.pages : p = asPage[q]
       /\ \A q \in DOMAIN s.pages : asPage[q] \in Rows(page')
  BY <1>5, <1>6, <1>7, <1>9, <1>12 DEF Rows, Table
<1>17. /\ \A b \in Rows(block) : b \in Rows(block') /\ block'[b] = block[b]
       /\ \A b \in Rows(block') : b \in Rows(block) \/ \E c \in DOMAIN s.blocks : b = asBlock[c]
       /\ \A c \in DOMAIN s.blocks : asBlock[c] \in Rows(block')
  BY <1>5, <1>6, <1>8, <1>9, <1>12 DEF Rows, Table
<1>18. PagesKeep
  BY <1>7, <1>9, <1>16 DEF PagesKeep
<1>19. BlocksKeep
  BY <1>8, <1>9, <1>17 DEF BlocksKeep
<1>20. PagesApart'
  <2>1. ASSUME NEW p \in Rows(page'), page'[p].parent # None
        PROVE  page'[p].parent \in Rows(page') /\ page'[page'[p].parent].ws = page'[p].ws
    <3>1. CASE p \in Rows(page)
      <4>1. page[p].parent \in Rows(page) /\ page[page[p].parent].ws = page[p].ws
        BY <1>16, <2>1, <3>1, Halves DEF PagesApart
      <4> QED BY <1>16, <3>1, <4>1
    <3>2. ASSUME NEW q \in DOMAIN s.pages, p = asPage[q] PROVE page'[p].parent \in Rows(page') /\ page'[page'[p].parent].ws = page'[p].ws
      <4>1. page'[p].ws = w /\ page'[p].parent = To(asPage, s.pages[q]) BY <1>7, <1>10, <3>2
      <4>2. s.pages[q] \in DOMAIN s.pages BY <1>15, <2>1, <4>1
      <4> QED BY <1>7, <1>10, <1>13, <1>16, <4>1, <4>2
    <3> QED BY <1>16, <3>1, <3>2
  <2> QED BY <2>1 DEF PagesApart
<1>21. BlocksApart'
  <2>1. ASSUME NEW b \in Rows(block')
        PROVE  /\ block'[b].page \in Rows(page')
               /\ block'[b].parent # None =>
                    block'[b].parent \in Rows(block') /\ block'[block'[b].parent].page = block'[b].page
    <3>1. CASE b \in Rows(block)
      <4>1. /\ block[b].page \in Rows(page)
            /\ block[b].parent # None =>
                 block[b].parent \in Rows(block) /\ block[block[b].parent].page = block[b].page
        BY <3>1, Halves DEF BlocksApart
      <4> QED BY <1>16, <1>17, <3>1, <4>1
    <3>2. ASSUME NEW c \in DOMAIN s.blocks, b = asBlock[c]
          PROVE  /\ block'[b].page \in Rows(page')
                 /\ block'[b].parent # None =>
                      block'[b].parent \in Rows(block') /\ block'[block'[b].parent].page = block'[b].page
      <4>1. block'[b].page = asPage[s.blocks[c].page] /\ block'[b].parent = To(asBlock, s.blocks[c].parent)
        BY <1>8, <1>11, <3>2
      <4>2. block'[b].page \in Rows(page') BY <1>4, <1>16, <4>1
      <4>3. ASSUME block'[b].parent # None
            PROVE  block'[b].parent \in Rows(block') /\ block'[block'[b].parent].page = block'[b].page
        <5> DEFINE d == s.blocks[c].parent
        <5>1. d \in DOMAIN s.blocks /\ block'[b].parent = asBlock[d] BY <1>14, <4>1, <4>3
        <5>2. s.blocks[d].page = s.blocks[c].page BY <1>4, <5>1 DEF ShapeApart
        <5>3. block'[asBlock[d]].page = asPage[s.blocks[d].page] BY <1>8, <1>11, <5>1
        <5> QED BY <1>17, <4>1, <5>1, <5>2, <5>3
      <4> QED BY <4>2, <4>3
    <3> QED BY <1>17, <3>1, <3>2
  <2> QED BY <2>1 DEF BlocksApart
<1>22. LinkedThen BY <1>4, <1>18, <1>19, EndLinks
<1> QED BY <1>4, <1>20, <1>21, <1>22, Halves

\* A deletion takes what is under what it takes.
LEMMA EraseApart ==
  ASSUME TypeOK, TreesStayApart, LinkedNow, SavedApart, NEW r \in Slots, Erase(r)
  PROVE  TreesStayApart' /\ LinkedThen /\ SavedApart'
<1> DEFINE Now == TreesStayApart' /\ LinkedThen /\ SavedApart'
<1>1. ASSUME NEW u \in Users, EraseStart(r, u), UNCHANGED <<page, block, saved>> PROVE Now
  <2>1. [op |-> "erase", pc |-> "stop", by |-> u, since |-> {}].op \in Plain BY DEF Plain
  <2>2. LinkedThen BY <1>1, <2>1, PlainBegin DEF EraseStart
  <2> QED BY <1>1, <2>2, Still DEF SavedApart
<1>2. ASSUME HandOver(r), UNCHANGED <<block, saved>> PROVE Now
  <2> DEFINE heir == req[r].heir
             row(p) == [page[p] EXCEPT !.by = heir[page[p].ws]]
  <2>1. req[r].op = "erase" /\ req[r].pc = "hand" BY <1>2 DEF HandOver, At
  <2>2. \A x \in DOMAIN heir : heir[x] \in Users BY <2>1, Erasure, TypeParts, HeirIs
  <2>3. page \in Table(Pages, PageRow) /\ TreeTyped BY TypeParts DEF TypeOK
  <2>4. ASSUME NEW p \in Handed(page, r)
        PROVE  row(p) \in PageRow /\ row(p).ws = page[p].ws /\ row(p).parent = page[p].parent
    <3>1. page[p] \in PageRow /\ page[p].ws \in DOMAIN heir BY <2>3, PageRows DEF Handed
    <3>2. heir[page[p].ws] \in Users BY <2>2, <3>1
    <3> QED BY <3>1, <3>2 DEF PageRow
  <2>5. \A p \in Handed(page, r) : row(p) # None /\ row(p) # Gone BY <2>4, ContentAssumption
  <2>6. page' = [p \in Pages |-> IF p \in Handed(page, r) THEN row(p) ELSE page[p]]
    BY <1>2, <2>3 DEF HandOver, Given, Table
  <2> HIDE DEF row
  <2>7. Handed(page, r) \subseteq Rows(page) BY DEF Handed
  <2>8. Rows(page') = Rows(page) BY <2>3, <2>5, <2>6, <2>7 DEF Rows, Table
  <2>9. \A p \in Rows(page) : page'[p].ws = page[p].ws /\ page'[p].parent = page[p].parent
    BY <2>3, <2>4, <2>6, PageRows
  <2>10. PagesKeep
    <3>1. \A p \in Pages : page[p] # None => page'[p] # None BY <2>5, <2>6
    <3> QED BY <2>8, <2>9, <3>1 DEF PagesKeep
  <2>11. BlocksKeep BY <1>2 DEF BlocksKeep
  <2>12. PagesApart' BY <2>8, <2>9, Halves DEF PagesApart
  <2>13. BlocksApart' BY <1>2, <2>8, Halves, BlocksStay
  <2>14. LinkedThen
    <3> DEFINE S == Handed(task, r) \cup Handed(page, r) \cup HandedFiles(r)
               next == [req[r] EXCEPT !.pc = "list"]
    <3>1. next \in Request BY <2>1, OntoTyped, TypeParts
    <3>2. next.op \in Plain
      <4>1. req[r] \in EraseRequests BY <2>1, Erasure, TypeParts
      <4> QED BY <4>1 DEF EraseRequests, Plain
    <3>3. S \in SUBSET Things BY FileRows, PageRows, TypeParts DEF Things, Handed, HandedFiles
    <3>4. req' = [Noting(S, req) EXCEPT ![r] = next] BY <1>2 DEF HandOver
    <3> HIDE DEF S, next
    <3>5. ASSUME NEW q \in Slots PROVE Linked(req'[q], page', block')
      <4>1. req \in [Slots -> Request] BY DEF TypeOK
      <4>2. CASE q = r
        <5>1. req'[q] = next BY <3>4, <4>2 DEF Noting
        <5> QED BY <3>2, <5>1, PlainLinked
      <4>3. CASE q # r /\ req[q].op \notin {"erase", "sweep"}
        <5>1. req'[q] = req[q] BY <3>4, <4>3 DEF Noting
        <5> QED BY <2>10, <2>11, <4>1, <5>1, LinkedKept DEF LinkedNow
      <4>4. CASE q # r /\ req[q].op \in {"erase", "sweep"}
        <5>1. req'[q] = [req[q] EXCEPT !.since = @ \cup S] BY <3>4, <4>4 DEF Noting
        <5>2. req[q] \in EraseRequests \/ req[q] \in SweepRequests BY <4>1, <4>4, Carries
        <5>3. req'[q].op = req[q].op BY <5>1, <5>2 DEF EraseRequests, SweepRequests
        <5>4. req'[q].op \in Plain BY <4>4, <5>3 DEF Plain
        <5> QED BY <5>4, PlainLinked
      <4> QED BY <4>2, <4>3, <4>4
    <3> QED BY <3>5 DEF LinkedThen
  <2> QED BY <1>2, <2>12, <2>13, <2>14, Halves DEF SavedApart
<1>3. ASSUME EraseRow(r) PROVE Now
  <2> DEFINE u == req[r].by
             lost == LostPages(u)
             held == {b \in Rows(block) : block[b].page \in lost}
  <2>1. page' = Without(page, lost) /\ block' = Without(block, held) /\ saved' = Without(saved, SavedBy(u))
    BY <1>3 DEF EraseRow
  <2>2. /\ page \in Table(Pages, PageRow) /\ block \in Table(Blocks, BlockRow) /\ saved \in Table(Templates, SavedRow)
        /\ None # Gone
    BY ContentAssumption DEF TypeOK
  <2>3. \A p \in Rows(page) : page[p].parent \in lost => p \in lost BY BelowIsClosed DEF LostPages
  <2>4. \A b \in Rows(block) : b \in held <=> block[b].page \in lost OBVIOUS
  <2> HIDE DEF lost, held
  <2>5. /\ Rows(page') = Rows(page) \ lost /\ \A p \in Rows(page) \ lost : page'[p] = page[p]
        /\ Rows(block') = Rows(block) \ held /\ \A b \in Rows(block) \ held : block'[b] = block[b]
    BY <2>1, <2>2, WithoutIs
  <2>6. PagesKeep /\ BlocksKeep
    <3>1. /\ \A p \in Pages : page[p] # None => page'[p] # None
          /\ \A b \in Blocks : block[b] # None => block'[b] # None
      BY <2>1, <2>2 DEF Without, Table
    <3> QED BY <2>5, <3>1 DEF PagesKeep, BlocksKeep
  <2>7. PagesApart' BY <2>3, <2>5, Halves DEF PagesApart
  <2>8. BlocksApart' BY <2>4, <2>5, Halves DEF BlocksApart
  <2>9. SavedApart'
    <3>1. Rows(saved') \subseteq Rows(saved) /\ \A x \in Rows(saved') : saved'[x] = saved[x]
      BY <2>1, <2>2, WithoutIs
    <3> QED BY <3>1 DEF SavedApart
  <2>10. [op |-> "sweep", objects |-> req[r].objects, since |-> req[r].since].op \in Plain BY DEF Plain
  <2>11. LinkedThen BY <1>3, <2>6, <2>10, PlainStep DEF EraseRow, Goes
  <2> QED BY <2>7, <2>8, <2>9, <2>11, Halves
<1> QED BY <1>1, <1>2, <1>3 DEF Erase, treeVars, libVars

LEMMA TreeStep ==
  ASSUME TypeOK, TreeInv, [Next]_vars
  PROVE  TreeInv'
<1> USE DEF TreeInv, treeVars, libVars
<1>0. LinkedThen => LinkedNow' BY DEF LinkedNow, LinkedThen
<1>1. ASSUME SpacesNext, UNCHANGED <<treeVars, libVars>> PROVE TreeInv'
  BY <1>0, <1>1, SpaceLinks, Still DEF SavedApart
<1>2. ASSUME PagesNext, UNCHANGED libVars PROVE TreeInv'
  BY <1>0, <1>2, PagesStep DEF SavedApart
<1>3. ASSUME FilesNext, UNCHANGED <<treeVars, libVars>> PROVE TreeInv'
  BY <1>0, <1>3, FilesLinks, Still DEF SavedApart
<1>4. ASSUME LibraryNext, UNCHANGED treeVars PROVE TreeInv'
  BY <1>0, <1>4, LibraryLinks, Still
<1>5. ASSUME BuildNext, UNCHANGED <<file, object>> PROVE TreeInv'
  BY <1>0, <1>5, BuildApart
<1>6. ASSUME RecipeNext PROVE TreeInv'
  <2>1. PICK r \in Slots, u \in Users, w \in Workspaces, q \in Pages \cup {None} :
          \E n \in BuiltIn \cup recipes[u] : UseRecipe(r, u, w, q, n)
    BY <1>6 DEF RecipeNext
  <2>2. (\E n : CreateStart(r, u, w, q, n)) /\ UNCHANGED libVars BY <2>1 DEF UseRecipe
  <2>3. LinkedThen /\ UNCHANGED <<page, block>> BY <2>2, PageStartLinks
  <2> QED BY <1>0, <2>2, <2>3, Still DEF SavedApart
<1>7. ASSUME BillingNext, UNCHANGED <<treeVars, libVars>> PROVE TreeInv'
  BY <1>0, <1>7, BillingLinks, Still DEF SavedApart
<1>8. ASSUME NEW r \in Slots, Erase(r) PROVE TreeInv'
  BY <1>0, <1>8, EraseApart
<1>9. ASSUME UNCHANGED vars PROVE TreeInv'
  BY <1>0, <1>9, Still, SameLinks DEF vars, SavedApart
<1> QED BY <1>1, <1>2, <1>3, <1>4, <1>5, <1>6, <1>7, <1>8, <1>9 DEF Next

\* Pages and blocks hang under what is there, in their own workspace and on their own page, whatever is moved, copied or
\* deleted at once (page.service.js 39-47 and 102-117, block.service.js 22-33, workspaceCopy.service.js 97-104).
THEOREM TreesApart == Spec => []TreesStayApart
<1>1. Init => TreeInv
  BY StartAssumption DEF Init, TreeInv, TreesStayApart, LinkedNow, Linked, Idle, SavedApart, Rows
<1>2. TreeInv => TreesStayApart BY DEF TreeInv
<1> QED BY <1>1, <1>2, TypeInit, TypeStep, TreeStep, PTL DEF Spec

-----------------------------------------------------------------------------
(* What is left to others. *)

\* What a step may add to a workspace or to a table without it being in since.
SpacesNoted(since) ==
  \A w \in Workspaces :
    /\ owner[w] # None => owner'[w] # None /\ (owner'[w] \in Users /\ owner'[w] # owner[w] => w \in since)
    /\ \A v \in Users : role[w][v] = "none" /\ role'[w][v] # "none" => w \in since \/ (owner[w] = None /\ owner'[w] = v)
RowsNoted(f, g, since) ==
  \A x \in Rows(g) :
    \/ x \in since
    \/ x \in Rows(f) /\ g[x].by = f[x].by /\ g[x].ws = f[x].ws
    \/ x \notin Rows(f) /\ g[x].ws \in Workspaces /\ owner[g[x].ws] = None
AllNoted(since) == SpacesNoted(since) /\ RowsNoted(task, task', since) /\ RowsNoted(page, page', since)

LEMMA NotedIs ==
  ASSUME NEW S \in SUBSET Things, NEW reqs \in [Slots -> Request], req' = Noting(S, reqs),
         NEW q \in Slots, reqs[q].op \in Kinds
  PROVE  S \subseteq req'[q].since
<1>1. req'[q] = [reqs[q] EXCEPT !.since = @ \cup S] BY DEF Noting, Kinds
<1>2. reqs[q] \in EraseRequests \/ reqs[q] \in SweepRequests BY Carries DEF Kinds
<1> QED BY <1>1, <1>2 DEF EraseRequests, SweepRequests

LEMMA SameSpaces ==
  ASSUME UNCHANGED <<owner, role>>, NEW since
  PROVE  SpacesNoted(since)
BY DEF SpacesNoted

LEMMA SameRows ==
  ASSUME NEW f, NEW g, g = f, NEW since
  PROVE  RowsNoted(f, g, since)
BY DEF RowsNoted

LEMMA SpacesNews ==
  ASSUME TypeOK, SpacesNext, UNCHANGED <<page, task>>, NEW q \in Slots, req[q].op = "erase", req'[q].op = "erase"
  PROVE  AllNoted(req'[q].since)
<1> DEFINE since == req'[q].since
<1>1. RowsNoted(task, task', since) /\ RowsNoted(page, page', since) BY SameRows
<1>2. req \in [Slots -> Request] /\ owner \in Table(Workspaces, Users) /\ role \in [Workspaces -> [Users -> Roles]]
  BY DEF TypeOK
<1>3. ASSUME NEW u \in Users, NEW w \in Workspaces, Founded(w, u) PROVE SpacesNoted(since)
  BY <1>2, <1>3 DEF Founded, SpacesNoted, Table
<1>4. ASSUME NEW w \in Workspaces, req' = Noting({w}, req) PROVE w \in since
  <2>1. {w} \in SUBSET Things BY DEF Things
  <2>2. req[q].op \in Kinds BY DEF Kinds
  <2> QED BY <1>2, <1>4, <2>1, <2>2, NotedIs
<1>5. ASSUME NEW u \in Users, NEW w \in Workspaces, NEW kind, Join(w, u, kind) PROVE SpacesNoted(since)
  <2>1. w \in since BY <1>4, <1>5 DEF Join
  <2> QED BY <1>2, <1>5, <2>1 DEF Join, SpacesNoted
<1>6. ASSUME NEW r \in Slots, LeaveWrite(r) PROVE SpacesNoted(since)
  <2>1. req[r].ws \in Workspaces /\ req[r].by \in Users BY <1>2, <1>6, Carries DEF LeaveWrite
  <2> QED BY <1>2, <1>6, <2>1 DEF LeaveWrite, SpacesNoted
<1>7. ASSUME NEW r \in Slots, TransferWrite(r) PROVE SpacesNoted(since)
  <2> DEFINE w == req[r].ws
             reqs == [req EXCEPT ![r] = Idle]
  <2>1. w \in Workspaces /\ req[r].by \in Users /\ req[r].to \in Users BY <1>2, <1>7, Carries DEF TransferWrite
  <2>2. {w} \in SUBSET Things BY <2>1 DEF Things
  <2>3. req' = Noting({w}, reqs) BY <1>7 DEF TransferWrite, Handing
  <2>4. q # r BY <1>7 DEF TransferWrite
  <2>5. reqs \in [Slots -> Request] /\ reqs[q].op \in Kinds BY <1>2, <2>4, IdleTyped DEF Kinds
  <2> HIDE DEF reqs
  <2>6. w \in since BY <2>2, <2>3, <2>5, NotedIs
  <2>7. owner' = [owner EXCEPT ![w] = req[r].to] /\ owner[w] \in Users
        /\ role' = [role EXCEPT ![w][req[r].by] = "editor", ![w][req[r].to] = "owner"]
    BY <1>7 DEF TransferWrite, Handing, Exists
  <2> HIDE DEF w
  <2>8. ASSUME NEW x \in Workspaces, x # w PROVE owner'[x] = owner[x] /\ role'[x] = role[x]
    BY <1>2, <2>1, <2>7, <2>8 DEF Table
  <2>9. owner'[w] # None BY <1>2, <2>1, <2>7, ContentAssumption DEF Table
  <2> QED BY <2>6, <2>8, <2>9 DEF SpacesNoted
<1>8. ASSUME NEW r \in Slots, NEW w \in Workspaces, ListLock(r, w) PROVE SpacesNoted(since)
  <2>1. req[r].by \in Users BY <1>2, <1>8, Carries DEF ListLock
  <2> QED BY <1>3, <1>8, <2>1 DEF ListLock
<1>9. SpacesNoted(since)
  BY <1>3, <1>5, <1>6, <1>7, <1>8, SameSpaces
     DEF SpacesNext, CreateSpace, ListStart, LeaveStart, TransferStart, Abandon, spaceVars
<1> QED BY <1>1, <1>9 DEF AllNoted

LEMMA PagesNews ==
  ASSUME TypeOK, PagesNext \/ RecipeNext, UNCHANGED <<owner, role, task>>, NEW q \in Slots, req[q].op = "erase", req'[q].op = "erase"
  PROVE  AllNoted(req'[q].since)
<1> DEFINE since == req'[q].since
<1>1. SpacesNoted(since) /\ RowsNoted(task, task', since) BY SameSpaces, SameRows
<1>2. page \in Table(Pages, PageRow) /\ TreeTyped /\ req \in [Slots -> Request] BY TypeParts DEF TypeOK
<1>3. ASSUME NEW r \in Slots, CreateWrite(r) PROVE RowsNoted(page, page', since)
  <2> DEFINE p == CHOOSE x \in Free(page) : TRUE
             next == IF req[r].fill = 0 THEN Idle ELSE [op |-> "fill", page |-> p, fill |-> req[r].fill]
             row == [ws |-> req[r].ws, by |-> req[r].by, parent |-> req[r].parent, archived |-> FALSE]
  <2>1. p \in Free(page) /\ page' = [page EXCEPT ![p] = row] /\ req' = Noting({p}, [req EXCEPT ![r] = next])
    BY <1>3 DEF CreateWrite
  <2>2. p \in Pages BY <1>2, <2>1, PageRows
  <2>3. req[r].by \in Users /\ req[r].ws \in Workspaces /\ req[r].parent \in Pages \cup {None} /\ req[r].fill \in Nat
    BY <1>2, <1>3, Carries DEF CreateWrite
  <2>4. next \in Request /\ row \in PageRow BY <2>2, <2>3, IdleTyped DEF Request, PageRequests, PageRow
  <2> HIDE DEF p, next, row
  <2> DEFINE reqs == [req EXCEPT ![r] = next]
  <2>5. q # r BY <1>3 DEF CreateWrite
  <2>6. reqs \in [Slots -> Request] /\ reqs[q].op \in Kinds BY <1>2, <2>4, <2>5 DEF Kinds
  <2>7. req' = Noting({p}, reqs) BY <2>1
  <2>8. {p} \in SUBSET Things BY <2>2 DEF Things
  <2> HIDE DEF reqs
  <2>9. p \in since BY <2>6, <2>7, <2>8, NotedIs
  <2>10. Rows(page') = Rows(page) \cup {p} /\ \A x \in Rows(page) : page'[x] = page[x]
    BY <1>2, <2>1, <2>4, PagesAdded
  <2> QED BY <2>9, <2>10 DEF RowsNoted
<1>4. ASSUME NEW r \in Slots, MoveWrite(r) PROVE RowsNoted(page, page', since)
  <2> DEFINE p == req[r].page
             row == [page[p] EXCEPT !.parent = req[r].to]
  <2>1. p \in Rows(page) /\ req[r].to \in Rows(page) \cup {None} /\ page' = [page EXCEPT ![p] = row] BY <1>4 DEF MoveWrite
  <2>2. page[p] \in PageRow /\ req[r].to \in Pages \cup {None} BY <1>2, <2>1, PageRows
  <2>3. row \in PageRow /\ row.ws = page[p].ws /\ row.by = page[p].by BY <2>2 DEF PageRow
  <2> HIDE DEF p, row
  <2>4. Rows(page') = Rows(page) /\ page'[p] = row /\ \A x \in Rows(page) \ {p} : page'[x] = page[x]
    BY <1>2, <2>1, <2>3, PageSet
  <2> QED BY <2>3, <2>4 DEF RowsNoted
<1>5. ASSUME NEW r \in Slots, ArchiveWrite(r) PROVE RowsNoted(page, page', since)
  <2> DEFINE row(p) == [page[p] EXCEPT !.archived = req[r].archived]
  <2>1. page' = [p \in Pages |-> IF p \in req[r].pages \cap Rows(page) THEN row(p) ELSE page[p]]
    BY <1>5 DEF ArchiveWrite
  <2>2. \A p \in Rows(page) : p \in Pages /\ page[p] \in PageRow BY <1>2, PageRows
  <2>3. \A p \in Rows(page) : row(p).ws = page[p].ws /\ row(p).by = page[p].by BY <2>2 DEF PageRow
  <2> HIDE DEF row
  <2>4. Rows(page') \subseteq Rows(page) BY <1>2, <2>1 DEF Rows, Table
  <2>5. \A p \in Rows(page) : page'[p].ws = page[p].ws /\ page'[p].by = page[p].by BY <2>1, <2>2, <2>3
  <2> QED BY <2>4, <2>5 DEF RowsNoted
<1>6. RowsNoted(page, page', since)
  <2>1. ASSUME page' = page PROVE RowsNoted(page, page', since) BY <2>1, SameRows
  <2>2. ASSUME NEW r \in Slots, NEW u \in Users, PageStarts(r, u) PROVE page' = page
    BY <2>2 DEF PageStarts, CreateStart, MoveStart, ArchiveStart, FlagStart, BlockStart, NestStart, DropStart, treeVars
  <2> QED BY <1>3, <1>4, <1>5, <2>1, <2>2
          DEF PagesNext, RecipeNext, UseRecipe, CreateStart, treeVars, Fill, BlockWrite, NestWrite, DropWrite
<1> QED BY <1>1, <1>6 DEF AllNoted

LEMMA FilesNews ==
  ASSUME TypeOK, FilesNext, UNCHANGED <<owner, role, page>>, NEW q \in Slots, req[q].op = "erase", req'[q].op = "erase"
  PROVE  AllNoted(req'[q].since)
<1> DEFINE since == req'[q].since
<1>1. SpacesNoted(since) /\ RowsNoted(page, page', since) BY SameSpaces, SameRows
<1>2. task \in Table(TaskIds, TaskRow) /\ FileTyped /\ req \in [Slots -> Request] BY TypeParts DEF TypeOK
<1>3. ASSUME NEW r \in Slots, TaskWrite(r) PROVE RowsNoted(task, task', since)
  <2> DEFINE t == CHOOSE x \in Free(task) : TRUE
             row == [ws |-> req[r].ws, by |-> req[r].by]
             reqs == [req EXCEPT ![r] = Idle]
  <2>1. t \in Free(task) /\ task' = [task EXCEPT ![t] = row] /\ req' = Noting({t}, reqs)
    BY <1>3 DEF TaskWrite
  <2>2. t \in TaskIds BY <1>2, <2>1, FileRows
  <2>3. q # r BY <1>3 DEF TaskWrite
  <2>4. reqs \in [Slots -> Request] /\ reqs[q].op \in Kinds BY <1>2, <2>3, IdleTyped DEF Kinds
  <2>5. {t} \in SUBSET Things BY <2>2 DEF Things
  <2> HIDE DEF t, reqs, row
  <2>6. t \in since BY <2>1, <2>4, <2>5, NotedIs
  <2>7. Rows(task') \subseteq Rows(task) \cup {t} /\ \A x \in Rows(task) \ {t} : task'[x] = task[x]
    BY <1>2, <2>1 DEF Rows, Table
  <2> QED BY <2>6, <2>7 DEF RowsNoted
<1>4. ASSUME NEW r \in Slots, TaskRemoveWrite(r) PROVE RowsNoted(task, task', since)
  BY <1>2, <1>4, ContentAssumption DEF TaskRemoveWrite, RowsNoted, Rows, Table
<1>5. RowsNoted(task, task', since)
  <2>1. ASSUME task' = task PROVE RowsNoted(task, task', since) BY <2>1, SameRows
  <2> QED BY <1>3, <1>4, <2>1
          DEF FilesNext, FileStarts, TaskStart, TaskRemoveStart, UploadStart, FileRemove, UploadSave, Sweep, UploadRow, fileVars
<1> QED BY <1>1, <1>5 DEF AllNoted

LEMMA BuildNews ==
  ASSUME TypeOK, BuildNext, NEW since
  PROVE  AllNoted(since)
<1>1. PICK r \in Slots, w \in Workspaces : Build(r, w) BY DEF BuildNext
<1> DEFINE s == req[r].shape
<1>2. req[r].by \in Users /\ s \in Shape BY <1>1, BuildIs, TypeParts
<1>3. PICK asPage \in [DOMAIN s.pages -> Free(page)], asBlock \in [DOMAIN s.blocks -> Free(block)],
           asTask \in [s.tasks -> Free(task)] : Built(r, w, asPage, asBlock, asTask)
  BY <1>1, BuildIs, TypeParts
<1>4. Founded(w, req[r].by) /\ owner[w] = None BY <1>1 DEF Build, Founded
<1>5. /\ owner \in Table(Workspaces, Users) /\ role \in [Workspaces -> [Users -> Roles]]
      /\ page \in Table(Pages, PageRow) /\ task \in Table(TaskIds, TaskRow)
  BY DEF TypeOK
<1>6. SpacesNoted(since) BY <1>2, <1>4, <1>5 DEF Founded, SpacesNoted, Table
<1>7. RowsNoted(page, page', since)
  <2>1. \A p \in Pages : page'[p] = page[p] \/ (page'[p].ws = w /\ p \notin Rows(page)) BY <1>3 DEF Built, Free, Rows
  <2>2. DOMAIN page' = Pages /\ DOMAIN page = Pages BY <1>3, <1>5 DEF Built, Table
  <2>3. \A p \in Rows(page') : p \in Pages /\ (page'[p] = page[p] => p \in Rows(page)) BY <2>2 DEF Rows
  <2> QED BY <1>4, <2>1, <2>3 DEF RowsNoted
<1>8. RowsNoted(task, task', since)
  <2>1. \A t \in TaskIds : task'[t] = task[t] \/ (task'[t].ws = w /\ t \notin Rows(task)) BY <1>3 DEF Built, Free, Rows
  <2>2. DOMAIN task' = TaskIds /\ DOMAIN task = TaskIds BY <1>3, <1>5 DEF Built, Table
  <2>3. \A t \in Rows(task') : t \in TaskIds /\ (task'[t] = task[t] => t \in Rows(task)) BY <2>2 DEF Rows
  <2> QED BY <1>4, <2>1, <2>3 DEF RowsNoted
<1> QED BY <1>6, <1>7, <1>8 DEF AllNoted

LEMMA EraseNews ==
  ASSUME TypeOK, NEW r \in Slots, Erase(r), NEW q \in Slots, req[q].op = "erase", req'[q].op = "erase", ~HandOver(q)
  PROVE  AllNoted(req'[q].since)
<1> DEFINE since == req'[q].since
<1>0. /\ owner \in Table(Workspaces, Users) /\ role \in [Workspaces -> [Users -> Roles]]
      /\ page \in Table(Pages, PageRow) /\ task \in Table(TaskIds, TaskRow)
      /\ req \in [Slots -> Request] /\ None # Gone
  BY ContentAssumption DEF TypeOK
<1>1. ASSUME UNCHANGED contentVars PROVE AllNoted(since)
  BY <1>1, SameSpaces, SameRows DEF AllNoted, contentVars, spaceVars, treeVars, fileVars
<1>2. ASSUME HandOver(r), UNCHANGED spaceVars PROVE AllNoted(since)
  <2> DEFINE S == Handed(task, r) \cup Handed(page, r) \cup HandedFiles(r)
             next == [req[r] EXCEPT !.pc = "list"]
  <2>1. S \in SUBSET Things BY FileRows, PageRows, TypeParts DEF Things, Handed, HandedFiles
  <2>2. req' = [Noting(S, req) EXCEPT ![r] = next] /\ q # r BY <1>2 DEF HandOver
  <2>3. S \subseteq since
    <3>1. req'[q] = [req[q] EXCEPT !.since = @ \cup S] BY <1>0, <2>2 DEF Noting
    <3>2. req[q] \in EraseRequests BY <1>0, Carries
    <3> QED BY <3>1, <3>2 DEF EraseRequests
  <2> HIDE DEF next
  <2>4. RowsNoted(page, page', since)
    <3>1. /\ \A p \in Pages \ Handed(page, r) : page'[p] = page[p]
          /\ DOMAIN page' = Pages /\ DOMAIN page = Pages /\ Handed(page, r) \subseteq S
      BY <1>0, <1>2 DEF HandOver, Given, Table
    <3>2. \A p \in Rows(page') : p \in Pages /\ (page'[p] = page[p] => p \in Rows(page)) BY <3>1 DEF Rows
    <3> QED BY <2>3, <3>1, <3>2 DEF RowsNoted
  <2>5. RowsNoted(task, task', since)
    <3>1. /\ \A t \in TaskIds \ Handed(task, r) : task'[t] = task[t]
          /\ DOMAIN task' = TaskIds /\ DOMAIN task = TaskIds /\ Handed(task, r) \subseteq S
      BY <1>0, <1>2 DEF HandOver, Given, Table
    <3>2. \A t \in Rows(task') : t \in TaskIds /\ (task'[t] = task[t] => t \in Rows(task)) BY <3>1 DEF Rows
    <3> QED BY <2>3, <3>1, <3>2 DEF RowsNoted
  <2> QED BY <1>2, <2>4, <2>5, SameSpaces DEF AllNoted, spaceVars
<1>3. ASSUME EraseRow(r) PROVE AllNoted(since)
  <2> DEFINE u == req[r].by
  <2>1. /\ task' = Without(task, LostTasks(u)) /\ page' = Without(page, LostPages(u))
        /\ owner' = Without(owner, LostSpaces(u))
        /\ role' = [w \in Workspaces |-> [v \in Users |-> IF v = u \/ w \in LostSpaces(u) THEN "none" ELSE role[w][v]]]
    BY <1>3 DEF EraseRow
  <2> HIDE DEF u
  <2>2. RowsNoted(task, task', since) /\ RowsNoted(page, page', since)
    <3>1. /\ Rows(task') = Rows(task) \ LostTasks(u) /\ \A t \in Rows(task) \ LostTasks(u) : task'[t] = task[t]
          /\ Rows(page') = Rows(page) \ LostPages(u) /\ \A p \in Rows(page) \ LostPages(u) : page'[p] = page[p]
      BY <1>0, <2>1, WithoutIs
    <3> QED BY <3>1 DEF RowsNoted
  <2>3. SpacesNoted(since)
    <3>1. \A w \in Workspaces : owner'[w] = Gone \/ owner'[w] = owner[w] BY <1>0, <2>1 DEF Without, Table
    <3>2. Gone \notin Users BY ContentAssumption
    <3> QED BY <1>0, <2>1, <3>1, <3>2 DEF SpacesNoted
  <2> QED BY <2>2, <2>3 DEF AllNoted
<1> QED BY <1>1, <1>2, <1>3 DEF Erase, contentVars

\* While a deletion is under way, what others bring about is noted in it.
LEMMA Noticed ==
  ASSUME TypeOK, [Next]_vars, NEW q \in Slots, req[q].op = "erase", req'[q].op = "erase", ~HandOver(q)
  PROVE  AllNoted(req'[q].since)
<1>1. ASSUME UNCHANGED contentVars PROVE AllNoted(req'[q].since)
  BY <1>1, SameSpaces, SameRows DEF AllNoted, contentVars, spaceVars, treeVars, fileVars
<1> QED BY <1>1, SpacesNews, PagesNews, FilesNews, BuildNews, EraseNews
        DEF Next, vars, contentVars, spaceVars, treeVars, fileVars

\* What a deletion owes to others, but for what came since.
Kept(f, q) == \A x \in Rows(f) : f[x].by = q.by /\ f[x].ws \in DOMAIN q.heir => x \in q.since
Owed(q) ==
  /\ Shared(q.by) \subseteq q.since
  /\ q.pc \in {"hand", "list", "row"} =>
       \A w \in DOMAIN q.heir : owner[w] # None /\ q.heir[w] # q.by /\ (owner[w] = q.by => w \in q.since)
  /\ q.pc \in {"list", "row"} => Kept(task, q) /\ Kept(page, q)
EraseInv == \A r \in Slots : req[r].op = "erase" => Owed(req[r])

\* What is noted leaves Owed true.
LEMMA StillOwed ==
  ASSUME TypeOK, SpaceInv, NEW q \in EraseRequests, Owed(q), NEW then \in EraseRequests, AllNoted(then.since),
         then.by = q.by, q.since \subseteq then.since,
         \/ then.pc \in {"stop", "read"}
         \/ then.pc = "hand" /\ q.pc = "hand" /\ then.heir = q.heir
         \/ then.pc \in {"list", "row"} /\ q.pc \in {"list", "row"} /\ then.heir = q.heir
  PROVE  Owed(then)'
<1> DEFINE u == q.by
<1>0. u \in Users BY DEF EraseRequests
<1>1. ASSUME NEW w \in Shared(u)' PROVE w \in then.since
  <2>1. w \in Workspaces /\ owner'[w] = u BY <1>1 DEF Shared
  <2>2. PICK v \in Users \ {u} : role'[w][v] # "none" BY <1>1 DEF Shared
  <2>3. CASE owner[w] = None
    <3>1. role[w][v] = "none" BY <2>1, <2>3, ContentAssumption DEF SpaceInv
    <3> QED BY <2>1, <2>2, <3>1 DEF AllNoted, SpacesNoted
  <2>4. CASE owner[w] # None /\ owner[w] # u BY <1>0, <2>1, <2>4 DEF AllNoted, SpacesNoted
  <2>5. CASE owner[w] = u
    <3>1. CASE role[w][v] = "none" BY <1>0, <2>1, <2>2, <2>5, <3>1, ContentAssumption DEF AllNoted, SpacesNoted
    <3>2. CASE role[w][v] # "none"
      <4>1. w \in Shared(u) BY <1>0, <2>1, <2>2, <2>5, <3>2 DEF Shared, Exists
      <4> QED BY <4>1 DEF Owed
    <3> QED BY <3>1, <3>2
  <2> QED BY <2>3, <2>4, <2>5
<1>2. ASSUME then.pc \in {"hand", "list", "row"}, NEW w \in DOMAIN then.heir
      PROVE  owner'[w] # None /\ then.heir[w] # u /\ (owner'[w] = u => w \in then.since)
  <2>1. then.heir = q.heir /\ q.pc \in {"hand", "list", "row"} BY <1>2
  <2>2. owner[w] # None /\ q.heir[w] # u /\ (owner[w] = u => w \in q.since) BY <1>2, <2>1 DEF Owed
  <2>3. w \in Workspaces
    <3>1. then.heir \in Heirs BY <1>2 DEF EraseRequests
    <3> QED BY <1>2, <3>1, HeirIs
  <2> QED BY <1>0, <2>1, <2>2, <2>3 DEF AllNoted, SpacesNoted
<1>3. ASSUME then.pc \in {"list", "row"}, NEW f, NEW g, RowsNoted(f, g, then.since), Kept(f, q) PROVE Kept(g, then)
  <2>1. then.heir = q.heir /\ q.pc \in {"list", "row"} BY <1>3
  <2>2. \A w \in DOMAIN q.heir : owner[w] # None BY <2>1 DEF Owed
  <2> QED BY <1>3, <2>1, <2>2 DEF RowsNoted, Kept
<1>4. ASSUME then.pc \in {"list", "row"} PROVE Kept(task', then) /\ Kept(page', then)
  <2>1. q.pc \in {"list", "row"} BY <1>4
  <2>2. Kept(task, q) /\ Kept(page, q) BY <2>1 DEF Owed
  <2>3. RowsNoted(task, task', then.since) /\ RowsNoted(page, page', then.since) BY DEF AllNoted
  <2> QED BY <1>3, <1>4, <2>2, <2>3
<1> QED BY <1>1, <1>2, <1>4 DEF Owed

LEMMA OwnHandOver ==
  ASSUME TypeOK, NEW q \in Slots, Owed(req[q]), HandOver(q), UNCHANGED spaceVars,
         NEW then \in EraseRequests, then = req'[q]
  PROVE  Owed(then)'
<1> DEFINE u == req[q].by
           heir == req[q].heir
<1>1. req[q].op = "erase" /\ req[q].pc = "hand" BY DEF HandOver, At
<1>2. req[q] \in EraseRequests /\ u \in Users /\ heir \in Heirs BY <1>1, Erasure, TypeParts
<1>3. then = [req[q] EXCEPT !.pc = "list"] BY DEF HandOver, Noting, TypeOK
<1>4. then.by = u /\ then.heir = heir /\ then.since = req[q].since /\ then.pc = "list"
  BY <1>1, <1>2, <1>3 DEF EraseRequests
<1>5. \A w \in DOMAIN heir : owner[w] # None /\ heir[w] # u /\ (owner[w] = u => w \in req[q].since)
  BY <1>1 DEF Owed
<1>6. \A v : Shared(v)' = Shared(v) BY DEF Shared, Exists, spaceVars
<1>7. ASSUME NEW f, NEW ids, NEW rows, f \in Table(ids, rows),
             \A x \in Handed(f, q) : [f[x] EXCEPT !.by = heir[f[x].ws]].by = heir[f[x].ws]
                                       /\ [f[x] EXCEPT !.by = heir[f[x].ws]].ws = f[x].ws
      PROVE  Kept(Given(f, q), then)
  <2> DEFINE row(x) == [f[x] EXCEPT !.by = heir[f[x].ws]]
  <2>1. Given(f, q) = [x \in DOMAIN f |-> IF x \in Handed(f, q) THEN row(x) ELSE f[x]] BY DEF Given
  <2>2. \A x \in Handed(f, q) : row(x).by # u
    BY <1>5, <1>7 DEF Handed
  <2> HIDE DEF row
  <2>3. ASSUME NEW x \in Rows(Given(f, q)), Given(f, q)[x].by = u, Given(f, q)[x].ws \in DOMAIN heir PROVE FALSE
    <3>1. x \in DOMAIN f BY <2>1, <2>3 DEF Rows
    <3>2. x \notin Handed(f, q) BY <2>1, <2>2, <2>3, <3>1
    <3>3. Given(f, q)[x] = f[x] /\ x \in Rows(f) BY <2>1, <2>3, <3>1, <3>2 DEF Rows
    <3> QED BY <2>3, <3>2, <3>3 DEF Handed
  <2> QED BY <1>4, <2>3 DEF Kept
<1>8. Kept(task', then)
  <2>1. task \in Table(TaskIds, TaskRow) BY DEF TypeOK
  <2>2. \A x \in Handed(task, q) : task[x] \in TaskRow BY FileRows, TypeParts DEF Handed
  <2>3. \A x \in Handed(task, q) : [task[x] EXCEPT !.by = heir[task[x].ws]].by = heir[task[x].ws]
                                     /\ [task[x] EXCEPT !.by = heir[task[x].ws]].ws = task[x].ws
    BY <2>2 DEF TaskRow
  <2> QED BY <1>7, <2>1, <2>3 DEF HandOver
<1>9. Kept(page', then)
  <2>1. page \in Table(Pages, PageRow) BY DEF TypeOK
  <2>2. \A x \in Handed(page, q) : page[x] \in PageRow BY PageRows, TypeParts DEF Handed
  <2>3. \A x \in Handed(page, q) : [page[x] EXCEPT !.by = heir[page[x].ws]].by = heir[page[x].ws]
                                     /\ [page[x] EXCEPT !.by = heir[page[x].ws]].ws = page[x].ws
    BY <2>2 DEF PageRow
  <2> QED BY <1>7, <2>1, <2>3 DEF HandOver
<1>10. owner' = owner /\ Shared(u) \subseteq req[q].since BY DEF spaceVars, Owed
<1> QED BY <1>4, <1>5, <1>6, <1>8, <1>9, <1>10 DEF Owed

LEMMA EraseStep ==
  ASSUME TypeOK, SpaceInv, EraseInv, [Next]_vars
  PROVE  EraseInv'
<1> SUFFICES ASSUME NEW q \in Slots, NEW then, then = req'[q], then.op = "erase" PROVE Owed(then)'
  BY DEF EraseInv, Owed, Shared, Exists, Kept
<1>1. req \in [Slots -> Request] /\ then \in EraseRequests
  <2>1. TypeOK' BY TypeStep
  <2>2. then \in Request BY <2>1 DEF TypeOK
  <2> QED BY <2>2, Carries DEF TypeOK
<1>2. req[q].op = "erase" => req[q] \in EraseRequests /\ Owed(req[q]) BY <1>1, Carries DEF EraseInv
<1>3. ASSUME UNCHANGED contentVars PROVE AllNoted(then.since)
  BY <1>3, SameSpaces, SameRows DEF AllNoted, contentVars, spaceVars, treeVars, fileVars
<1>4. CASE Untouched(q)
  <2>1. /\ req[q].op = "erase" /\ then.by = req[q].by /\ then.pc = req[q].pc
        /\ req[q].since \subseteq then.since
        /\ req[q].pc \in {"hand", "list", "row"} => then.heir = req[q].heir
    BY <1>4, LeftAlone
  <2>2. ~HandOver(q)
    <3>1. SUFFICES ASSUME HandOver(q) PROVE FALSE OBVIOUS
    <3>2. then = [req[q] EXCEPT !.pc = "list"] /\ req[q].pc = "hand" BY <1>1, <3>1 DEF HandOver, At, Noting
    <3>3. then.pc = "list" BY <1>2, <2>1, <3>2 DEF EraseRequests
    <3> QED BY <2>1, <3>2, <3>3
  <2>3. AllNoted(then.since) BY <2>1, <2>2, Noticed
  <2>4. req[q].pc \in {"stop", "read", "hand", "list", "row"} BY <1>2, <2>1 DEF EraseRequests
  <2>5. \/ then.pc \in {"stop", "read"}
        \/ then.pc = "hand" /\ req[q].pc = "hand" /\ then.heir = req[q].heir
        \/ then.pc \in {"list", "row"} /\ req[q].pc \in {"list", "row"} /\ then.heir = req[q].heir
    BY <2>1, <2>4
  <2> QED BY <1>1, <1>2, <2>1, <2>3, <2>5, StillOwed
<1>5. ASSUME NEW u \in Users, Starts(q, u) PROVE Owed(then)'
  <2>1. then = [op |-> "erase", pc |-> "stop", by |-> u, since |-> {}] BY <1>1, <1>5 DEF Starts, EraseStart, Begin
  <2>2. Shared(u)' = {}
    BY <1>5 DEF Starts, EraseStart, contentVars, spaceVars, Shared, Exists
  <2>3. then.by = u /\ then.pc = "stop" BY <2>1
  <2> QED BY <2>2, <2>3 DEF Owed
<1>6. ASSUME StopBilling(q), UNCHANGED contentVars PROVE Owed(then)'
  <2>1. req[q].op = "erase" /\ req[q].pc = "stop" BY <1>6 DEF StopBilling, At
  <2>2. then = [req[q] EXCEPT !.pc = "read"] BY <1>1, <1>6 DEF StopBilling, Onto, Ends, Goes, Idle
  <2>3. then.by = req[q].by /\ then.pc = "read" /\ then.since = req[q].since
    BY <1>2, <2>1, <2>2 DEF EraseRequests
  <2> QED BY <1>1, <1>2, <1>3, <1>6, <2>1, <2>3, StillOwed
<1>7. ASSUME ReadMemberships(q), UNCHANGED contentVars PROVE Owed(then)'
  <2> DEFINE u == req[q].by
             others == {w \in Workspaces : Exists(w) /\ role[w][u] # "none" /\ owner[w] # u}
             heir == [w \in others |-> owner[w]]
  <2>1. req[q].op = "erase" /\ u \in Users BY <1>1, <1>7, Erasure, TypeParts DEF ReadMemberships, At
  <2>2. then = [op |-> "erase", pc |-> "hand", by |-> u, since |-> req[q].since, heir |-> heir]
    BY <1>1, <1>7 DEF ReadMemberships, Goes
  <2>3. \A w \in DOMAIN heir : owner[w] # None /\ heir[w] # u /\ owner[w] # u BY ContentAssumption DEF Exists
  <2>4. (\A v : Shared(v)' = Shared(v)) /\ owner' = owner BY <1>7 DEF contentVars, spaceVars, Shared, Exists
  <2>5. Shared(u) \subseteq req[q].since BY <1>2, <2>1 DEF Owed
  <2> HIDE DEF heir
  <2>6. then.by = u /\ then.pc = "hand" /\ then.since = req[q].since /\ then.heir = heir BY <2>2
  <2> QED BY <2>3, <2>4, <2>5, <2>6 DEF Owed
<1>8. ASSUME ListFiles(q), UNCHANGED contentVars PROVE Owed(then)'
  <2>1. req[q].op = "erase" /\ req[q].pc = "list" BY <1>8 DEF ListFiles, At
  <2>2. then.by = req[q].by /\ then.pc = "row" /\ then.since = req[q].since /\ then.heir = req[q].heir
    BY <1>1, <1>8 DEF ListFiles, Goes
  <2> QED BY <1>1, <1>2, <1>3, <1>8, <2>1, <2>2, StillOwed
<1>9. ASSUME HandOver(q), UNCHANGED spaceVars PROVE Owed(then)'
  <2>1. req[q].op = "erase" BY <1>9 DEF HandOver, At
  <2> QED BY <1>1, <1>2, <1>9, <2>1, OwnHandOver
<1>10. ~EraseRow(q) /\ ~TaskRemoveWrite(q)
  BY <1>1 DEF EraseRow, TaskRemoveWrite, Goes
<1>11. ASSUME NEW v \in Users, NEW f \in Files PROVE ~FileRemove(q, v, f)
  BY <1>1 DEF FileRemove, Begin
<1>12. ASSUME NEW f \in Files PROVE ~Sweep(q, f)
  <2>1. SUFFICES ASSUME Sweep(q, f) PROVE FALSE OBVIOUS
  <2>2. req[q] \in SweepRequests BY <1>1, <2>1, Carries DEF Sweep
  <2>3. [req[q] EXCEPT !.objects = @ \ {f}].op = "sweep" BY <2>2 DEF SweepRequests
  <2> QED BY <1>1, <2>1, <2>3 DEF Sweep, Goes, Idle
<1>13. then.op \in Kinds BY DEF Kinds
<1> QED BY <1>4, <1>5, <1>6, <1>7, <1>8, <1>9, <1>10, <1>11, <1>12, <1>13, Turns DEF Steps

\* What a deletion takes that is not its maker's is in a workspace of theirs, and noted.
LEMMA PagesOfOthers ==
  ASSUME TypeOK, TreesStayApart, NEW u, NEW since, NEW handed,
         \A p \in Rows(page) : page[p].ws \in handed => (page[p].by = u => p \in since) /\ page[p].ws \notin LostSpaces(u)
  PROVE  \A p \in LostPages(u) \ Below(page, since) : page[p].ws \notin handed
<1> DEFINE first == {p \in Rows(page) : page[p].by = u \/ page[p].ws \in LostSpaces(u)}
           K == {p \in Rows(page) : page[p].ws \in handed => p \in Below(page, since)}
<1>1. first \subseteq K BY BelowIsClosed
<1>2. ASSUME NEW p \in Rows(page), page[p].parent \in K PROVE p \in K
  <2>1. page[p].parent # None BY <1>2, NoneIsNoRow
  <2>2. page[page[p].parent].ws = page[p].ws BY <2>1, Halves DEF PagesApart
  <2> QED BY <1>2, <2>2, BelowIsClosed
<1>3. K \in WithChildren(page, first) BY <1>1, <1>2 DEF WithChildren
<1>4. LostPages(u) \subseteq K BY <1>3 DEF LostPages, Below
<1> QED BY <1>4

\* Deleting an account takes nothing of others but what came while it was under way (deleteAccount,
\* user.service.js 186-231).
THEOREM OthersKeep == Spec => OthersKeepTheirs
<1>1. Init => EraseInv BY DEF Init, EraseInv, Idle
<1>2. ASSUME TypeOK, EraseInv, TreesStayApart, NEW r \in Slots, Erasing(r)
      PROVE  LET u == req[r].by
                 since == req[r].since
                 handed == DOMAIN req[r].heir \ since
             IN
             /\ Shared(u) \subseteq since
             /\ \A t \in LostTasks(u) \ since : task[t].ws \notin handed
             /\ \A p \in LostPages(u) \ Below(page, since) : page[p].ws \notin handed
  <2> DEFINE u == req[r].by
             since == req[r].since
             handed == DOMAIN req[r].heir \ since
  <2>1. req[r].op = "erase" /\ req[r].pc = "row" BY <1>2 DEF Erasing, At
  <2>2. Owed(req[r]) BY <1>2, <2>1 DEF EraseInv
  <2>3. Shared(u) \subseteq since BY <2>2 DEF Owed
  <2>4. \A w \in handed : w \notin LostSpaces(u) BY <2>1, <2>2 DEF Owed, LostSpaces
  <2>5. \A t \in LostTasks(u) \ since : task[t].ws \notin handed BY <2>1, <2>2, <2>4 DEF Owed, Kept, LostTasks
  <2>6. \A p \in Rows(page) : page[p].ws \in handed => (page[p].by = u => p \in since) /\ page[p].ws \notin LostSpaces(u)
    BY <2>1, <2>2, <2>4 DEF Owed, Kept
  <2>7. \A p \in LostPages(u) \ Below(page, since) : page[p].ws \notin handed
    <3> HIDE DEF u, since, handed
    <3> QED BY <1>2, <2>6, PagesOfOthers
  <2> QED BY <2>3, <2>5, <2>7
<1>3. TypeOK /\ EraseInv /\ TreesStayApart /\ [Next]_vars =>
        [ \A r \in Slots : Erasing(r) =>
            LET u == req[r].by
                since == req[r].since
                handed == DOMAIN req[r].heir \ since
            IN
            /\ Shared(u) \subseteq since
            /\ \A t \in LostTasks(u) \ since : task[t].ws \notin handed
            /\ \A p \in LostPages(u) \ Below(page, since) : page[p].ws \notin handed ]_vars
  BY <1>2
<1>4. TypeOK /\ SpaceInv /\ EraseInv /\ [Next]_vars => EraseInv' BY EraseStep
<1> QED BY <1>1, <1>3, <1>4, SpacesKept, TreesApart, PTL DEF Spec, OthersKeepTheirs

-----------------------------------------------------------------------------
(* Files. *)

\* A file id is used once, and a file stays on its task; so does a task in its workspace.
FilesKeep ==
  \A f \in Files : file[f] # None =>
    file'[f] # None /\ (f \in Rows(file') => f \in Rows(file) /\ file'[f].task = file[f].task)
TasksKeep ==
  \A t \in TaskIds : task[t] # None =>
    task'[t] # None /\ (t \in Rows(task') => t \in Rows(task) /\ task'[t].ws = task[t].ws)

\* A file is on a task that is there.
Hung == \A f \in Rows(file) : file[f].task \in Rows(task) \cup {None}

\* An upload that has stored its object has the id to itself.
Uploading(r) == req[r].op = "row"
Uploads ==
  \A r \in Slots : Uploading(r) =>
    /\ file[req[r].file] = None /\ req[r].file \in object
    /\ \A q \in Slots \ {r} : Uploading(q) => req[q].file # req[r].file

\* A file that changed hands, and one that a deletion takes along.
ChangedHands(f, since) == {f, file[f].task, SpaceOf(f)} \cap since # {}
Taken(f, u) ==
  \/ file[f].by = u
  \/ file[f].task # None /\ task[file[f].task].by = u
  \/ Exists(SpaceOf(f)) /\ owner[SpaceOf(f)] = u

\* What the lists of objects that a request carries are about.
Lists(q) ==
  /\ q.op = "untask" => \A f \in q.objects : file[f] # None /\ (f \in Rows(file) => file[f].task = q.task)
  /\ q.op = "erase" /\ q.pc = "row" =>
       \A f \in q.objects : file[f] # None /\ (f \in Rows(file) => ChangedHands(f, q.since) \/ Taken(f, q.by))
  /\ q.op = "sweep" => \A f \in q.objects : file[f] # None /\ (f \in Rows(file) => ChangedHands(f, q.since))
ListsNow == \A r \in Slots : Lists(req[r])

FileInv == Hung /\ Uploads /\ ListsNow

LEMMA FilesStill ==
  ASSUME TypeOK, UNCHANGED <<file, task>>
  PROVE  FilesKeep /\ TasksKeep /\ (Hung => Hung')
BY DEF FilesKeep, TasksKeep, Hung

LEMMA FilesKept ==
  ASSUME TypeOK, Hung, Uploads, [Next]_vars
  PROVE  FilesKeep /\ TasksKeep /\ Hung'
<1> DEFINE Now == FilesKeep /\ TasksKeep /\ Hung'
<1>0. /\ file \in Table(Files, FileRow) /\ task \in Table(TaskIds, TaskRow) /\ req \in [Slots -> Request] /\ None # Gone
      /\ \A f \in Rows(file) : f \in Files /\ file[f] \in FileRow
      /\ \A t \in Rows(task) : t \in TaskIds /\ task[t] \in TaskRow
      /\ None \notin Rows(task)
  BY FileRows, TypeParts, ContentAssumption DEF TypeOK, Rows, Table
<1>1. ASSUME UNCHANGED <<file, task>> PROVE Now
  BY <1>1, FilesStill
<1>2. ASSUME NEW r \in Slots, TaskWrite(r) PROVE Now
  <2> DEFINE t == CHOOSE x \in Free(task) : TRUE
             row == [ws |-> req[r].ws, by |-> req[r].by]
  <2>1. t \in Free(task) /\ task' = [task EXCEPT ![t] = row] /\ file' = file BY <1>2 DEF TaskWrite
  <2>2. req[r].by \in Users /\ req[r].ws \in Workspaces BY <1>0, <1>2, Carries DEF TaskWrite
  <2>3. row \in TaskRow BY <2>2 DEF TaskRow
  <2>4. row # None /\ row # Gone BY <2>3, ContentAssumption
  <2> HIDE DEF t, row
  <2>5. Rows(task') = Rows(task) \cup {t} /\ \A x \in TaskIds : task[x] # None => task'[x] = task[x]
    BY <1>0, <2>1, <2>4 DEF Rows, Free, Table
  <2>6. \A x \in TaskIds : task[x] # None /\ x \in Rows(task') => x \in Rows(task)
    BY <2>1, <2>5 DEF Free
  <2> QED BY <2>1, <2>5, <2>6 DEF FilesKeep, TasksKeep, Hung
<1>3. ASSUME NEW r \in Slots, TaskRemoveWrite(r) PROVE Now
  <2> DEFINE t == req[r].task
  <2>1. /\ t \in Rows(task) /\ task' = [task EXCEPT ![t] = Gone]
        /\ file' = [f \in Files |-> IF f \in FilesOf(t) THEN Gone ELSE file[f]]
    BY <1>3 DEF TaskRemoveWrite
  <2>2. \A f \in Rows(file) : f \in FilesOf(t) <=> file[f].task = t BY DEF FilesOf
  <2> HIDE DEF t
  <2>3. Rows(task') = Rows(task) \ {t} /\ \A x \in TaskIds \ {t} : task'[x] = task[x] BY <1>0, <2>1 DEF Rows, Table
  <2>4. Rows(file') = Rows(file) \ FilesOf(t) /\ \A f \in Rows(file) \ FilesOf(t) : file'[f] = file[f]
    BY <1>0, <2>1 DEF Rows, Table
  <2>5. (\A f \in Files : file[f] # None => file'[f] # None) /\ (\A x \in TaskIds : task[x] # None => task'[x] # None)
    BY <1>0, <2>1 DEF Table
  <2> QED BY <2>2, <2>3, <2>4, <2>5 DEF FilesKeep, TasksKeep, Hung
<1>4. ASSUME NEW r \in Slots, UploadRow(r) PROVE Now
  <2> DEFINE g == req[r].file
             row == [by |-> req[r].by, task |-> req[r].task]
  <2>1. file' = [file EXCEPT ![g] = row] /\ task' = task /\ req[r].task \in Rows(task) \cup {None} /\ row.task = req[r].task
    BY <1>4 DEF UploadRow
  <2>2. file[g] = None BY <1>4 DEF Uploads, Uploading, UploadRow
  <2> HIDE DEF g, row
  <2>3. \A f \in Files : file[f] # None => file'[f] = file[f] BY <1>0, <2>1, <2>2 DEF Table
  <2>4. \A f \in Rows(file') : (f \in Rows(file) /\ file'[f] = file[f]) \/ file'[f] = row
    BY <1>0, <2>1 DEF Rows, Table
  <2>5. \A f \in Files : file[f] # None /\ f \in Rows(file') => f \in Rows(file) BY <1>0, <2>1, <2>2 DEF Rows, Table
  <2> QED BY <2>1, <2>3, <2>4, <2>5 DEF FilesKeep, TasksKeep, Hung
<1>5. ASSUME NEW r \in Slots, NEW u, NEW g \in Files, FileRemove(r, u, g) PROVE Now
  <2>1. file' = [file EXCEPT ![g] = Gone] /\ task' = task BY <1>5 DEF FileRemove
  <2>2. Rows(file') = Rows(file) \ {g} /\ \A f \in Files \ {g} : file'[f] = file[f] BY <1>0, <2>1 DEF Rows, Table
  <2>3. \A f \in Files : file[f] # None => file'[f] # None BY <1>0, <2>1 DEF Table
  <2> QED BY <1>0, <2>1, <2>2, <2>3 DEF FilesKeep, TasksKeep, Hung
<1>6. ASSUME NEW r \in Slots, NEW w, Build(r, w), file' = file PROVE Now
  <2>1. PICK asPage \in [DOMAIN req[r].shape.pages -> Free(page)], asBlock \in [DOMAIN req[r].shape.blocks -> Free(block)],
             asTask \in [req[r].shape.tasks -> Free(task)] : Built(r, w, asPage, asBlock, asTask)
    BY <1>6, BuildIs, TypeParts
  <2>2. /\ task' = [t \in TaskIds |-> IF {x \in DOMAIN asTask : asTask[x] = t} = {} THEN task[t] ELSE [ws |-> w, by |-> req[r].by]]
    BY <2>1 DEF Built
  <2>3. \A t \in TaskIds : task[t] # None => task'[t] = task[t] BY <2>1, <2>2 DEF Free
  <2>4. Rows(task) \subseteq Rows(task') /\ \A t \in TaskIds : task[t] # None /\ t \in Rows(task') => t \in Rows(task)
    BY <1>0, <2>2, <2>3 DEF Rows, Table
  <2> QED BY <1>6, <2>3, <2>4 DEF FilesKeep, TasksKeep, Hung
<1>7. ASSUME NEW r \in Slots, HandOver(r) PROVE Now
  <2> DEFINE heir == req[r].heir
             row(f) == [file[f] EXCEPT !.by = heir[SpaceOf(f)]]
             trow(t) == [task[t] EXCEPT !.by = heir[task[t].ws]]
  <2>1. req[r].op = "erase" /\ req[r].pc = "hand" BY <1>7 DEF HandOver, At
  <2>2. \A x \in DOMAIN heir : heir[x] \in Users BY <2>1, Erasure, TypeParts, HeirIs
  <2>3. /\ file' = [f \in Files |-> IF f \in HandedFiles(r) THEN row(f) ELSE file[f]]
        /\ task' = [t \in TaskIds |-> IF t \in Handed(task, r) THEN trow(t) ELSE task[t]]
        /\ HandedFiles(r) \subseteq Rows(file) /\ Handed(task, r) \subseteq Rows(task)
    BY <1>0, <1>7 DEF HandOver, Given, Table, HandedFiles, Handed
  <2>4. ASSUME NEW f \in HandedFiles(r) PROVE row(f) \in FileRow /\ row(f).task = file[f].task
    <3>1. file[f] \in FileRow /\ SpaceOf(f) \in DOMAIN heir BY <1>0 DEF HandedFiles
    <3>2. heir[SpaceOf(f)] \in Users BY <2>2, <3>1
    <3> QED BY <3>1, <3>2 DEF FileRow
  <2>5. ASSUME NEW t \in Handed(task, r) PROVE trow(t) \in TaskRow /\ trow(t).ws = task[t].ws
    <3>1. task[t] \in TaskRow /\ task[t].ws \in DOMAIN heir BY <1>0 DEF Handed
    <3>2. heir[task[t].ws] \in Users BY <2>2, <3>1
    <3> QED BY <3>1, <3>2 DEF TaskRow
  <2>6. /\ \A f \in HandedFiles(r) : row(f) # None /\ row(f) # Gone
        /\ \A t \in Handed(task, r) : trow(t) # None /\ trow(t) # Gone
    BY <2>4, <2>5, ContentAssumption
  <2> HIDE DEF row, trow
  <2>7. Rows(file') = Rows(file) /\ \A f \in Rows(file) : file'[f].task = file[f].task
    BY <1>0, <2>3, <2>4, <2>6 DEF Rows, Table
  <2>8. Rows(task') = Rows(task) /\ \A t \in Rows(task) : task'[t].ws = task[t].ws
    BY <1>0, <2>3, <2>5, <2>6 DEF Rows, Table
  <2>9. (\A f \in Files : file[f] # None => file'[f] # None) /\ (\A x \in TaskIds : task[x] # None => task'[x] # None)
    BY <2>3, <2>6
  <2> QED BY <2>7, <2>8, <2>9 DEF FilesKeep, TasksKeep, Hung
<1>8. ASSUME NEW r \in Slots, EraseRow(r) PROVE Now
  <2> DEFINE u == req[r].by
  <2>1. task' = Without(task, LostTasks(u)) /\ file' = Without(file, LostFiles(u)) BY <1>8 DEF EraseRow
  <2>2. \A f \in Rows(file) : file[f].task \in LostTasks(u) => f \in LostFiles(u) BY DEF LostFiles
  <2> HIDE DEF u
  <2>3. /\ Rows(task') = Rows(task) \ LostTasks(u) /\ \A t \in Rows(task) \ LostTasks(u) : task'[t] = task[t]
        /\ Rows(file') = Rows(file) \ LostFiles(u) /\ \A f \in Rows(file) \ LostFiles(u) : file'[f] = file[f]
    BY <1>0, <2>1, WithoutIs
  <2>4. (\A f \in Files : file[f] # None => file'[f] # None) /\ (\A x \in TaskIds : task[x] # None => task'[x] # None)
    BY <1>0, <2>1 DEF Without, Table
  <2> QED BY <2>2, <2>3, <2>4 DEF FilesKeep, TasksKeep, Hung
<1>9. ASSUME FilesNext PROVE Now
  BY <1>1, <1>2, <1>3, <1>4, <1>5, <1>9
     DEF FilesNext, FileStarts, TaskStart, TaskRemoveStart, UploadStart, UploadSave, Sweep, fileVars
<1> QED BY <1>1, <1>6, <1>7, <1>8, <1>9 DEF Next, BuildNext, RecipeNext, Erase, vars, fileVars

\* Where the other requests come from that have something in hand: a file, a page to move, a shape, a member row.
Handling == {"row", "untask", "move", "copy", "save", "leave"}
Quiet(q) == req'[q] = req[q]
Filing(q) ==
  (\E f \in Files : UploadSave(q, f)) \/ (\E u \in Users, t \in TaskIds : TaskRemoveStart(q, u, t))
Moving(q) == \E u \in Users, p \in Pages, to \in Pages \cup {None} : MoveStart(q, u, p, to)
Overtaken(q) == req[q].op = "move" /\ req'[q] = [req[q] EXCEPT !.late = TRUE]
Copying(q) == Read(q) \/ \E u \in Users, x \in Templates, parts \in SUBSET Parts : UseStart(q, u, x, parts)

Leaving(q) == \E u \in Users, w \in Workspaces : LeaveStart(q, w, u)

Taking(q) == Filing(q) \/ Moving(q) \/ Overtaken(q) \/ Copying(q) \/ Leaving(q)

LEMMA PutQuiet ==
  ASSUME TypeOK, NEW r \in Slots, NEW next, next.op \notin Handling, req' = [req EXCEPT ![r] = next],
         NEW q \in Slots, req'[q].op \in Handling
  PROVE  Quiet(q)
BY DEF TypeOK, Quiet

LEMMA EndQuiet ==
  ASSUME TypeOK, NEW r \in Slots, Ends(r), NEW q \in Slots, req'[q].op \in Handling
  PROVE  Quiet(q)
<1>1. Idle.op \notin Handling BY DEF Idle, Handling
<1> QED BY <1>1, PutQuiet DEF Ends, Goes

LEMMA NotedQuiet ==
  ASSUME TypeOK, NEW S \in SUBSET Things, NEW reqs \in [Slots -> Request], req' = Noting(S, reqs),
         NEW q \in Slots, req'[q].op \in Handling
  PROVE  req'[q] = reqs[q]
<1>1. req'[q] = IF reqs[q].op \in {"erase", "sweep"} THEN [reqs[q] EXCEPT !.since = @ \cup S] ELSE reqs[q]
  BY DEF Noting
<1>2. ASSUME reqs[q].op \in {"erase", "sweep"} PROVE FALSE
  <2>1. reqs[q] \in EraseRequests \/ reqs[q] \in SweepRequests BY <1>2, Carries
  <2>2. [reqs[q] EXCEPT !.since = @ \cup S].op = reqs[q].op BY <2>1 DEF EraseRequests, SweepRequests
  <2> QED BY <1>1, <1>2, <2>2 DEF Handling
<1> QED BY <1>1, <1>2

LEMMA SpacesQuiet ==
  ASSUME TypeOK, SpacesNext, NEW q \in Slots, req'[q].op \in Handling
  PROVE  Quiet(q) \/ Leaving(q)
<1>1. ASSUME NEW w \in Workspaces, req' = Noting({w}, req) PROVE Quiet(q)
  <2>1. {w} \in SUBSET Things BY DEF Things
  <2>2. req \in [Slots -> Request] BY DEF TypeOK
  <2> QED BY <1>1, <2>1, <2>2, NotedQuiet DEF Quiet
<1>2. ASSUME NEW r \in Slots, NEW u \in Users, NEW w, NEW v, ListStart(r, u) \/ TransferStart(r, w, u, v) PROVE Quiet(q)
  <2>1. [op |-> "default", by |-> u].op \notin Handling BY DEF Handling
  <2>2. [op |-> "transfer", ws |-> w, by |-> u, to |-> v].op \notin Handling BY DEF Handling
  <2> QED BY <1>2, <2>1, <2>2, PutQuiet DEF ListStart, TransferStart, Begin
<1>3. ASSUME req' = req PROVE Quiet(q)
  BY <1>3 DEF Quiet
<1>4. ASSUME NEW r \in Slots, NEW u \in Users, NEW w \in Workspaces, LeaveStart(r, w, u) PROVE Quiet(q) \/ Leaving(q)
  <2>1. q # r => req'[q] = req[q] BY <1>4 DEF LeaveStart, Begin, TypeOK
  <2> QED BY <1>4, <2>1 DEF Quiet, Leaving
<1>5. ASSUME NEW r \in Slots, TransferWrite(r) PROVE Quiet(q)
  <2> DEFINE reqs == [req EXCEPT ![r] = Idle]
  <2>1. req \in [Slots -> Request] BY DEF TypeOK
  <2>2. {req[r].ws} \in SUBSET Things BY <1>5, <2>1, Carries DEF TransferWrite, Things
  <2>3. reqs \in [Slots -> Request] /\ (reqs[q] = req[q] \/ reqs[q].op \notin Handling)
    BY <2>1, IdleTyped DEF Idle, Handling
  <2>4. req' = Noting({req[r].ws}, reqs) BY <1>5 DEF TransferWrite, Handing
  <2> HIDE DEF reqs
  <2>5. req'[q] = reqs[q] BY <2>2, <2>3, <2>4, NotedQuiet
  <2> QED BY <2>3, <2>5 DEF Quiet
<1> QED BY <1>1, <1>2, <1>3, <1>4, <1>5, EndQuiet DEF SpacesNext, CreateSpace, Join, LeaveWrite, ListLock, Abandon

LEMMA PagesQuiet ==
  ASSUME TypeOK, PagesNext \/ RecipeNext, NEW q \in Slots, req'[q].op \in Handling
  PROVE  Quiet(q) \/ Moving(q) \/ Overtaken(q)
<1> USE DEF Handling
<1>1. ASSUME NEW r \in Slots, NEW u, NEW next, next.op \notin Handling, Begin(r, u, next) PROVE Quiet(q)
  BY <1>1, PutQuiet DEF Begin
<1>2. ASSUME NEW r \in Slots, NEW u \in Users, NEW w, NEW p, NEW n, CreateStart(r, u, w, p, n) PROVE Quiet(q)
  BY <1>1, <1>2 DEF CreateStart
<1>3. ASSUME NEW r \in Slots, NEW u \in Users, PageStarts(r, u) PROVE Quiet(q) \/ Moving(q)
  <2>1. ASSUME NEW p \in Pages, NEW to \in Pages \cup {None}, MoveStart(r, u, p, to) PROVE Quiet(q) \/ Moving(q)
    <3>1. q # r => req'[q] = req[q] BY <2>1 DEF MoveStart, Begin, TypeOK
    <3> QED BY <2>1, <3>1 DEF Quiet, Moving
  <2> QED BY <1>1, <1>2, <1>3, <2>1 DEF PageStarts, ArchiveStart, FlagStart, BlockStart, NestStart, DropStart
<1>4. ASSUME NEW r \in Slots, CreateWrite(r) PROVE Quiet(q)
  <2> DEFINE p == CHOOSE x \in Free(page) : TRUE
             next == IF req[r].fill = 0 THEN Idle ELSE [op |-> "fill", page |-> p, fill |-> req[r].fill]
  <2>1. p \in Pages BY <1>4, PageRows, TypeParts DEF CreateWrite
  <2>2. req' = Noting({p}, [req EXCEPT ![r] = next]) BY <1>4 DEF CreateWrite
  <2>3. req \in [Slots -> Request] BY DEF TypeOK
  <2>4. req[r].fill \in Nat BY <1>4, <2>3, Carries DEF CreateWrite
  <2> HIDE DEF p
  <2>5. next \in Request BY <2>1, <2>4, IdleTyped DEF Request, PageRequests
  <2>6. next.op \notin Handling BY DEF Idle
  <2> HIDE DEF next
  <2>7. {p} \in SUBSET Things BY <2>1 DEF Things
  <2> DEFINE reqs == [req EXCEPT ![r] = next]
  <2>8. reqs \in [Slots -> Request] /\ (reqs[q] = req[q] \/ reqs[q].op \notin Handling) BY <2>3, <2>5, <2>6
  <2>9. req' = Noting({p}, reqs) BY <2>2
  <2> HIDE DEF reqs
  <2>10. req'[q] = reqs[q] BY <2>7, <2>8, <2>9, NotedQuiet
  <2> QED BY <2>8, <2>10 DEF Quiet
<1>5. ASSUME NEW r \in Slots, MoveWrite(r) PROVE Quiet(q) \/ Overtaken(q)
  <2>1. req'[q] = IF q = r THEN Idle ELSE IF req[q].op = "move" THEN [req[q] EXCEPT !.late = TRUE] ELSE req[q]
    BY <1>5 DEF MoveWrite
  <2> QED BY <2>1 DEF Quiet, Overtaken, Idle
<1> QED BY <1>2, <1>3, <1>4, <1>5, EndQuiet
    DEF PagesNext, RecipeNext, UseRecipe, Fill, ArchiveWrite, BlockWrite, NestWrite, DropWrite

LEMMA FilesQuiet ==
  ASSUME TypeOK, FilesNext, NEW q \in Slots, req'[q].op \in Handling
  PROVE  Quiet(q) \/ Filing(q)
<1>0. req \in [Slots -> Request] BY DEF TypeOK
<1>1. ASSUME NEW r \in Slots, NEW next, next.op \notin Handling, req' = [req EXCEPT ![r] = next] PROVE Quiet(q)
  BY <1>1, PutQuiet
<1>2. ASSUME NEW r \in Slots, NEW u, NEW w, TaskStart(r, u, w) PROVE Quiet(q)
  <2>1. [op |-> "task", by |-> u, ws |-> w].op \notin Handling BY DEF Handling
  <2> QED BY <1>1, <1>2, <2>1 DEF TaskStart, Begin
<1>3. ASSUME NEW r \in Slots, NEW u, NEW t, TaskRemoveStart(r, u, t) PROVE Quiet(q) \/ q = r
  BY <1>0, <1>3 DEF TaskRemoveStart, Begin, Quiet
<1>4. ASSUME NEW r \in Slots, NEW u, NEW t, UploadStart(r, u, t) PROVE Quiet(q)
  <2>1. [op |-> "upload", by |-> u, task |-> t].op \notin Handling BY DEF Handling
  <2> QED BY <1>1, <1>4, <2>1 DEF UploadStart, Begin
<1>5. ASSUME NEW r \in Slots, NEW u, NEW f, FileRemove(r, u, f) PROVE Quiet(q)
  <2>1. [op |-> "sweep", objects |-> {f}, since |-> {}].op \notin Handling BY DEF Handling
  <2> QED BY <1>1, <1>5, <2>1 DEF FileRemove, Begin
<1>6. ASSUME NEW r \in Slots, NEW f, UploadSave(r, f) PROVE Quiet(q) \/ q = r
  BY <1>0, <1>6 DEF UploadSave, Goes, Quiet
<1>7. ASSUME NEW r \in Slots, NEW f, Sweep(r, f) PROVE Quiet(q)
  <2> DEFINE next == IF req[r].objects = {f} THEN Idle ELSE [req[r] EXCEPT !.objects = @ \ {f}]
  <2>1. req[r] \in SweepRequests BY <1>0, <1>7, Carries DEF Sweep
  <2>2. next.op \notin Handling BY <2>1 DEF SweepRequests, Idle, Handling
  <2>3. req' = [req EXCEPT ![r] = next] BY <1>7 DEF Sweep, Goes
  <2> HIDE DEF next
  <2> QED BY <1>1, <2>2, <2>3
<1>8. ASSUME NEW r \in Slots, TaskWrite(r) PROVE Quiet(q)
  <2> DEFINE t == CHOOSE x \in Free(task) : TRUE
             reqs == [req EXCEPT ![r] = Idle]
  <2>1. t \in TaskIds BY <1>8, FileRows, TypeParts DEF TaskWrite
  <2>2. req' = Noting({t}, reqs) BY <1>8 DEF TaskWrite
  <2>3. {t} \in SUBSET Things BY <2>1 DEF Things
  <2> HIDE DEF t
  <2>4. reqs \in [Slots -> Request] /\ (reqs[q] = req[q] \/ reqs[q].op \notin Handling) BY <1>0, IdleTyped DEF Idle, Handling
  <2> HIDE DEF reqs
  <2>5. req'[q] = reqs[q] BY <2>2, <2>3, <2>4, NotedQuiet
  <2> QED BY <2>4, <2>5 DEF Quiet
<1>9. ASSUME NEW r \in Slots, TaskRemoveWrite(r) PROVE Quiet(q)
  <2>1. [op |-> "sweep", objects |-> req[r].objects, since |-> {}].op \notin Handling BY DEF Handling
  <2> QED BY <1>1, <1>9, <2>1 DEF TaskRemoveWrite, Goes
<1>10. ASSUME NEW r \in Slots, UploadRow(r) PROVE Quiet(q)
  BY <1>10, EndQuiet DEF UploadRow
<1> QED BY <1>2, <1>3, <1>4, <1>5, <1>6, <1>7, <1>8, <1>9, <1>10 DEF FilesNext, FileStarts, Filing

LEMMA LibraryQuiet ==
  ASSUME TypeOK, LibraryNext \/ BuildNext, NEW q \in Slots, req'[q].op \in Handling
  PROVE  Quiet(q) \/ Copying(q)
<1>0. req \in [Slots -> Request] BY DEF TypeOK
<1>1. ASSUME NEW r \in Slots, NEW next, next.op \notin Handling, req' = [req EXCEPT ![r] = next] PROVE Quiet(q)
  BY <1>1, PutQuiet
<1>2. ASSUME NEW r \in Slots, NEW u \in Users, LibraryStarts(r, u) PROVE Quiet(q) \/ Copying(q)
  <2>1. ASSUME NEW x \in Templates, NEW parts \in SUBSET Parts, UseStart(r, u, x, parts) PROVE Quiet(q) \/ Copying(q)
    <3>1. q # r => req'[q] = req[q] BY <1>0, <2>1 DEF UseStart, Begin
    <3> QED BY <2>1, <3>1 DEF Quiet, Copying
  <2> QED BY <1>1, <1>2, <2>1 DEF LibraryStarts, DuplicateStart, SaveStart, Begin, Handling
<1>3. ASSUME NEW r \in Slots, Read(r) PROVE Quiet(q) \/ Copying(q)
  <2>1. q # r => req'[q] = req[q] BY <1>0, <1>3 DEF Read, Goes
  <2> QED BY <1>3, <2>1 DEF Quiet, Copying
<1>4. ASSUME req' = req PROVE Quiet(q)
  BY <1>4 DEF Quiet
<1> QED BY <1>2, <1>3, <1>4, EndQuiet
    DEF LibraryNext, BuildNext, Build, Save, RemoveTemplate, SaveRecipe, RemoveRecipe

LEMMA EraseQuiet ==
  ASSUME TypeOK, BillingNext \/ \E r \in Slots : Erase(r), NEW q \in Slots, req'[q].op \in Handling
  PROVE  Quiet(q)
<1>0. req \in [Slots -> Request] BY DEF TypeOK
<1>1. ASSUME NEW r \in Slots, NEW next, next.op \in Kinds, req' = [req EXCEPT ![r] = next] PROVE Quiet(q)
  <2>1. next.op \notin Handling BY <1>1 DEF Kinds, Handling
  <2> QED BY <1>1, <2>1, PutQuiet
<1>2. ASSUME NEW r \in Slots, StopBilling(r) PROVE Quiet(q)
  <2>1. req[r] \in EraseRequests BY <1>0, <1>2, Carries DEF StopBilling, At
  <2>2. [req[r] EXCEPT !.pc = "read"].op \in Kinds BY <2>1 DEF EraseRequests, Kinds
  <2>3. Onto(r, "read") \/ Ends(r) BY <1>2 DEF StopBilling
  <2> QED BY <1>1, <2>2, <2>3, EndQuiet DEF Onto, Goes
<1>3. ASSUME NEW r \in Slots, ReadMemberships(r) \/ ListFiles(r) \/ EraseRow(r) PROVE Quiet(q)
  <2>1. \E next : next.op \in Kinds /\ req' = [req EXCEPT ![r] = next]
    <3>1. \A u, since, heir : [op |-> "erase", pc |-> "hand", by |-> u, since |-> since, heir |-> heir].op \in Kinds
      BY DEF Kinds
    <3>2. \A u, since, heir, mine :
            [op |-> "erase", pc |-> "row", by |-> u, since |-> since, heir |-> heir, objects |-> mine].op \in Kinds
      BY DEF Kinds
    <3>3. \A mine, since : [op |-> "sweep", objects |-> mine, since |-> since].op \in Kinds BY DEF Kinds
    <3>4. CASE ReadMemberships(r) BY <3>1, <3>4 DEF ReadMemberships, Goes
    <3>5. CASE ListFiles(r) BY <3>2, <3>5 DEF ListFiles, Goes
    <3>6. CASE EraseRow(r) BY <3>3, <3>6 DEF EraseRow, Goes
    <3> QED BY <1>3, <3>4, <3>5, <3>6
  <2> QED BY <1>1, <2>1
<1>4. ASSUME NEW r \in Slots, NEW u \in Users, EraseStart(r, u) PROVE Quiet(q)
  <2>1. [op |-> "erase", pc |-> "stop", by |-> u, since |-> {}].op \in Kinds BY DEF Kinds
  <2> QED BY <1>1, <1>4, <2>1 DEF EraseStart, Begin
<1>5. ASSUME NEW r \in Slots, HandOver(r) PROVE Quiet(q)
  <2> DEFINE S == Handed(task, r) \cup Handed(page, r) \cup HandedFiles(r)
             next == [req[r] EXCEPT !.pc = "list"]
  <2>1. req[r] \in EraseRequests BY <1>0, <1>5, Carries DEF HandOver, At
  <2>2. next.op = "erase" BY <2>1 DEF EraseRequests
  <2>3. req' = [Noting(S, req) EXCEPT ![r] = next] BY <1>5 DEF HandOver
  <2> HIDE DEF S, next
  <2>4. q # r BY <2>2, <2>3 DEF Noting, Handling
  <2>5. req'[q] = IF req[q].op \in {"erase", "sweep"} THEN [req[q] EXCEPT !.since = @ \cup S] ELSE req[q]
    BY <2>3, <2>4 DEF Noting
  <2>6. ASSUME req[q].op \in {"erase", "sweep"} PROVE FALSE
    <3>1. req[q] \in EraseRequests \/ req[q] \in SweepRequests BY <1>0, <2>6, Carries
    <3>2. [req[q] EXCEPT !.since = @ \cup S].op = req[q].op BY <3>1 DEF EraseRequests, SweepRequests
    <3> QED BY <2>5, <2>6, <3>2 DEF Handling
  <2> QED BY <2>5, <2>6 DEF Quiet
<1>6. ASSUME req' = req PROVE Quiet(q)
  BY <1>6 DEF Quiet
<1> QED BY <1>2, <1>3, <1>4, <1>5, <1>6 DEF BillingNext, Checkout, Pay, Learn, Erase

LEMMA HandlingTurns ==
  ASSUME TypeOK, [Next]_vars, NEW q \in Slots, req'[q].op \in Handling
  PROVE  Quiet(q) \/ Taking(q)
<1>1. ASSUME UNCHANGED vars PROVE Quiet(q)
  BY <1>1 DEF vars, Quiet
<1> QED BY <1>1, SpacesQuiet, PagesQuiet, FilesQuiet, LibraryQuiet, EraseQuiet DEF Next, Taking

\* Those with a file in hand.
LEMMA FilingTurns ==
  ASSUME TypeOK, [Next]_vars, NEW q \in Slots, req'[q].op \in {"row", "untask"}
  PROVE  Quiet(q) \/ (\E f \in Files : UploadSave(q, f)) \/ (\E u \in Users, t \in TaskIds : TaskRemoveStart(q, u, t))
<1>0. req[q] \in Request /\ req \in [Slots -> Request] BY DEF TypeOK
<1>1. Quiet(q) \/ Taking(q) BY HandlingTurns DEF Handling
<1>2. ~Moving(q) BY <1>0 DEF Moving, MoveStart, Begin
<1>3. ASSUME Overtaken(q) PROVE FALSE
  <2>1. req[q] \in MoveRequest BY <1>0, <1>3, Carries DEF Overtaken
  <2> QED BY <1>3, <2>1 DEF Overtaken, MoveRequest
<1>4. ASSUME Read(q) PROVE FALSE
  <2>1. req[q].next \in {"copy", "save"} BY <1>0, <1>4, Carries DEF Read
  <2> QED BY <1>0, <1>4, <2>1 DEF Read, Goes
<1>5. ASSUME NEW u, NEW x, NEW parts, UseStart(q, u, x, parts) PROVE FALSE
  BY <1>0, <1>5 DEF UseStart, Begin
<1>6. ~Copying(q) BY <1>4, <1>5 DEF Copying
<1>7. ~Leaving(q) BY <1>0 DEF Leaving, LeaveStart, Begin
<1> QED BY <1>1, <1>2, <1>3, <1>6, <1>7 DEF Taking, Filing

-----------------------------------------------------------------------------
(* Access. *)

\* An owner has a member row, and so will one who is about to lose it, but for one who was handed the workspace meanwhile.
MemberInv ==
  /\ \A w \in Workspaces \ slipped : Exists(w) => role[w][owner[w]] # "none"
  /\ \A q \in Slots : req[q].op = "leave" =>
       owner[req[q].ws] # None /\ (owner[req[q].ws] = req[q].by => req[q].ws \in slipped)

\* How owners, member rows and the workspaces that slipped through may change.
MembersMove ==
  /\ slipped \subseteq slipped'
  /\ \A w \in Workspaces : owner[w] # None => owner'[w] # None
  /\ \A w \in Workspaces :
       \/ owner'[w] = owner[w] /\ (Exists(w) /\ role[w][owner[w]] # "none" => role'[w][owner[w]] # "none" \/ w \in slipped')
       \/ owner'[w] \notin Users
       \/ owner'[w] \in Users /\ role'[w][owner'[w]] # "none"
            /\ \A q \in Slots : req[q].op = "leave" /\ req[q].ws = w /\ req[q].by = owner'[w] =>
                 w \in slipped' \/ owner[w] = None

LEMMA MembersMoved ==
  ASSUME TypeOK, MemberInv, [Next]_vars
  PROVE  MembersMove
<1>0. /\ owner \in Table(Workspaces, Users) /\ role \in [Workspaces -> [Users -> Roles]]
      /\ req \in [Slots -> Request]
  BY DEF TypeOK
<1>1. ASSUME UNCHANGED <<owner, role, slipped>> PROVE MembersMove
  BY <1>1 DEF MembersMove
<1>2. ASSUME NEW u \in Users, NEW w \in Workspaces, Founded(w, u) PROVE MembersMove
  <2>1. /\ owner[w] = None /\ owner' = [owner EXCEPT ![w] = u]
        /\ role' = [role EXCEPT ![w][u] = "owner"] /\ slipped' = slipped
    BY <1>2 DEF Founded
  <2>2. owner'[w] = u /\ role'[w][u] # "none" BY <1>0, <2>1 DEF Table
  <2>3. \A x \in Workspaces \ {w} : owner'[x] = owner[x] /\ role'[x] = role[x] BY <1>0, <2>1 DEF Table
  <2> QED BY <2>1, <2>2, <2>3 DEF MembersMove
<1>3. ASSUME NEW u \in Users, NEW w \in Workspaces, NEW kind \in {"viewer", "editor"}, Join(w, u, kind) PROVE MembersMove
  BY <1>0, <1>3 DEF Join, MembersMove
<1>4. ASSUME NEW r \in Slots, LeaveWrite(r) PROVE MembersMove
  <2> DEFINE w == req[r].ws
             u == req[r].by
  <2>1. /\ req[r].op = "leave" /\ role' = [role EXCEPT ![w][u] = "none"] /\ owner' = owner /\ slipped' = slipped
    BY <1>4 DEF LeaveWrite
  <2>2. w \in Workspaces /\ u \in Users BY <1>0, <2>1, Carries
  <2>3. owner[w] = u => w \in slipped BY <2>1 DEF MemberInv
  <2> HIDE DEF w, u
  <2> QED BY <1>0, <2>1, <2>2, <2>3 DEF MembersMove
<1>5. ASSUME NEW r \in Slots, TransferWrite(r) PROVE MembersMove
  <2> DEFINE w == req[r].ws
             v == req[r].to
  <2>1. w \in Workspaces /\ req[r].by \in Users /\ v \in Users BY <1>0, <1>5, Carries DEF TransferWrite
  <2>2. /\ owner' = [owner EXCEPT ![w] = v]
        /\ role' = [role EXCEPT ![w][req[r].by] = "editor", ![w][v] = "owner"]
        /\ slipped' = IF \E q \in Slots : req[q].op = "leave" /\ req[q].ws = w /\ req[q].by = v
                      THEN slipped \cup {w} ELSE slipped
    BY <1>5 DEF TransferWrite, Handing
  <2> HIDE DEF w, v
  <2>3. owner'[w] = v /\ v # None /\ role'[w][v] # "none" BY <1>0, <2>1, <2>2, ContentAssumption DEF Table
  <2>4. \A x \in Workspaces \ {w} : owner'[x] = owner[x] /\ role'[x] = role[x] BY <1>0, <2>1, <2>2 DEF Table
  <2> QED BY <2>1, <2>2, <2>3, <2>4 DEF MembersMove
<1>6. ASSUME NEW r \in Slots, NEW w \in Workspaces, ListLock(r, w) PROVE MembersMove
  <2>1. req[r].by \in Users BY <1>0, <1>6, Carries DEF ListLock
  <2> QED BY <1>2, <1>6, <2>1 DEF ListLock
<1>7. ASSUME NEW r \in Slots, NEW w \in Workspaces, Build(r, w) PROVE MembersMove
  <2>1. req[r].by \in Users BY <1>0, <1>7, Carries DEF Build
  <2> QED BY <1>2, <1>7, <2>1 DEF Build
<1>8. ASSUME NEW r \in Slots, EraseRow(r), slipped' = slipped PROVE MembersMove
  <2> DEFINE u == req[r].by
  <2>1. /\ owner' = [w \in Workspaces |-> IF owner[w] = u THEN Gone ELSE owner[w]]
        /\ role' = [w \in Workspaces |-> [v \in Users |-> IF v = u \/ owner[w] = u THEN "none" ELSE role[w][v]]]
    BY <1>0, <1>8 DEF EraseRow, LostSpaces, Without, Table
  <2> HIDE DEF u
  <2>2. Gone \notin Users /\ Gone # None BY ContentAssumption
  <2> QED BY <1>0, <1>8, <2>1, <2>2 DEF MembersMove, Exists
<1>9. ASSUME SpacesNext PROVE MembersMove
  BY <1>1, <1>2, <1>3, <1>4, <1>5, <1>6, <1>9
     DEF SpacesNext, CreateSpace, ListStart, LeaveStart, TransferStart, Abandon, spaceVars
<1> QED BY <1>1, <1>7, <1>8, <1>9 DEF Next, BuildNext, Erase, vars, spaceVars

LEMMA LeavingTurns ==
  ASSUME TypeOK, [Next]_vars, NEW q \in Slots, req'[q].op = "leave"
  PROVE  Quiet(q) \/ Leaving(q)
<1>0. req[q] \in Request /\ req \in [Slots -> Request] BY DEF TypeOK
<1>1. Quiet(q) \/ Taking(q) BY HandlingTurns DEF Handling
<1>2. ~Moving(q) BY <1>0 DEF Moving, MoveStart, Begin
<1>3. ASSUME Overtaken(q) PROVE FALSE
  <2>1. req[q] \in MoveRequest BY <1>0, <1>3, Carries DEF Overtaken
  <2> QED BY <1>3, <2>1 DEF Overtaken, MoveRequest
<1>4. ASSUME Read(q) PROVE FALSE
  <2>1. req[q].next \in {"copy", "save"} BY <1>0, <1>4, Carries DEF Read
  <2> QED BY <1>0, <1>4, <2>1 DEF Read, Goes
<1>5. ASSUME NEW u, NEW x, NEW parts, UseStart(q, u, x, parts) PROVE FALSE
  BY <1>0, <1>5 DEF UseStart, Begin
<1>6. ~Filing(q) BY <1>0 DEF Filing, UploadSave, TaskRemoveStart, Begin, Goes
<1> QED BY <1>1, <1>2, <1>3, <1>4, <1>5, <1>6 DEF Taking, Copying

LEMMA MemberStep ==
  ASSUME TypeOK, MemberInv, [Next]_vars
  PROVE  MemberInv'
<1>0. TypeOK' BY TypeStep
<1>1. MembersMove BY MembersMoved
<1>2. ASSUME NEW w \in Workspaces \ slipped', Exists(w)' PROVE role'[w][owner'[w]] # "none"
  <2>1. owner'[w] \in Users BY <1>2 DEF Exists
  <2>2. CASE owner'[w] = owner[w]
    <3>1. Exists(w) /\ w \notin slipped BY <1>1, <1>2, <2>1, <2>2 DEF Exists, MembersMove
    <3> QED BY <1>1, <1>2, <2>1, <2>2, <3>1 DEF MembersMove, MemberInv
  <2> QED BY <1>1, <1>2, <2>1, <2>2 DEF MembersMove
<1>3. ASSUME NEW q \in Slots, req'[q].op = "leave"
      PROVE  owner'[req'[q].ws] # None /\ (owner'[req'[q].ws] = req'[q].by => req'[q].ws \in slipped')
  <2> DEFINE w == req'[q].ws
             u == req'[q].by
  <2>1. w \in Workspaces /\ u \in Users BY <1>0, <1>3, Carries DEF TypeOK
  <2>2. Quiet(q) \/ Leaving(q) BY <1>3, LeavingTurns
  <2>3. ASSUME Quiet(q) PROVE owner'[w] # None /\ (owner'[w] = u => w \in slipped')
    <3>1. /\ req[q].op = "leave" /\ req[q].ws = w /\ req[q].by = u
          /\ owner[w] # None /\ (owner[w] = u => w \in slipped)
      BY <1>3, <2>3 DEF MemberInv, Quiet
    <3> HIDE DEF w, u
    <3> QED BY <1>1, <2>1, <3>1 DEF MembersMove
  <2>4. ASSUME NEW v \in Users, NEW x \in Workspaces, LeaveStart(q, x, v) PROVE owner'[w] # None /\ owner'[w] # u
    <3>1. req'[q] = [op |-> "leave", ws |-> x, by |-> v] BY <2>4 DEF LeaveStart, Begin, TypeOK
    <3>2. owner'[x] # v /\ owner'[x] \in Users BY <2>4 DEF LeaveStart, spaceVars, Exists
    <3> QED BY <3>1, <3>2, ContentAssumption
  <2> QED BY <2>2, <2>3, <2>4 DEF Leaving
<1> QED BY <1>2, <1>3 DEF MemberInv

\* The workspaces one may read are those that are listed as one's own.
LEMMA ReadIsMine ==
  ASSUME TypeOK, NEW u \in Users, NEW w
  PROVE  CanAccess(w, u, "read") <=> w \in Mine(u)
<1>1. ASSUME Exists(w) PROVE RoleOf(w, u) \in Roles /\ (RoleOf(w, u) # "none" <=> owner[w] = u \/ role[w][u] # "none")
  BY <1>1 DEF RoleOf, TypeOK, Exists, Roles
<1>2. ~Exists(w) => RoleOf(w, u) = "none" BY DEF RoleOf
<1>3. CanAccess(w, u, "read") <=> RoleOf(w, u) \in Roles \ {"none"} BY DEF CanAccess
<1>4. w \in Mine(u) <=> Exists(w) /\ (owner[w] = u \/ role[w][u] # "none") BY DEF Mine, Exists
<1> QED BY <1>1, <1>2, <1>3, <1>4

\* What one may read of a row, put the way the lists put it.
LEMMA ReadOneRow ==
  ASSUME TypeOK, NEW u \in Users, NEW x
  PROVE  /\ MayUse(x, u, "read") <=> (x.by = u /\ x.ws = None) \/ x.ws \in Mine(u)
         /\ OwnReachable(x, u) <=> x.by = u /\ MayUse(x, u, "read")
BY ReadIsMine DEF MayUse, OwnReachable

\* What is listed, found or exported is what may be read (workspace.service.js 226-256, page.service.js 170-220,
\* task.service.js 20-81, user.service.js 72-92).
THEOREM ListsMatch == Spec => []ListsMatchAccess
<1>1. ASSUME TypeOK, MemberInv, TreesStayApart PROVE ListsMatchAccess
  <2> SUFFICES ASSUME NEW u \in Users
      PROVE  LET pages == {p \in Rows(page) : MayUse(page[p], u, "read")}
                 tasks == {t \in Rows(task) : MayUse(task[t], u, "read")}
                 mine  == Exported(u)
             IN
             /\ Found(u) = pages \cap Live /\ OwnPages(u) = {p \in pages \cap Live : page[p].by = u}
             /\ TasksFound(u) = tasks /\ OwnTasks(u) = tasks \cap mine.tasks
             /\ \A w \in Rows(owner) : Listed(u, w) \subseteq pages /\ TasksListed(u, w) \subseteq tasks
             /\ mine.owned \cup mine.member \subseteq Mine(u) /\ Mine(u) \ slipped \subseteq mine.owned \cup mine.member
             /\ mine.blocks = {b \in Rows(block) : block[b].page \in pages \cap mine.pages}
    BY DEF ListsMatchAccess
  <2> DEFINE pages == {p \in Rows(page) : MayUse(page[p], u, "read")}
             tasks == {t \in Rows(task) : MayUse(task[t], u, "read")}
             mine  == Exported(u)
  <2>1. Live \subseteq Rows(page) BY DEF Live
  <2>2. Found(u) = pages \cap Live BY <1>1, <2>1, ReadOneRow DEF Found
  <2>3. OwnPages(u) = {p \in pages \cap Live : page[p].by = u} BY <1>1, <2>1, ReadOneRow DEF OwnPages
  <2>4. TasksFound(u) = tasks BY <1>1, ReadOneRow DEF TasksFound
  <2>5. OwnTasks(u) = tasks \cap mine.tasks BY <1>1, ReadOneRow DEF OwnTasks, Exported
  <2>6. ASSUME NEW w \in Rows(owner) PROVE Listed(u, w) \subseteq pages /\ TasksListed(u, w) \subseteq tasks
    BY <1>1, <2>1, ReadIsMine, ReadOneRow DEF Listed, TasksListed
  <2>7. mine.owned \cup mine.member \subseteq Mine(u) /\ Mine(u) \ slipped \subseteq mine.owned \cup mine.member
    <3>1. \A w \in Workspaces \ slipped : Exists(w) /\ owner[w] = u => role[w][u] # "none" BY <1>1 DEF MemberInv
    <3> QED BY <3>1 DEF Exported, Mine
  <2>8. mine.blocks = {b \in Rows(block) : block[b].page \in pages \cap mine.pages}
    <3>1. \A b \in Rows(block) : block[b].page \in Rows(page) BY <1>1 DEF TreesStayApart, Apart
    <3>2. mine.blocks = {b \in Rows(block) : OwnReachable(page[block[b].page], u)}
          /\ mine.pages = {p \in Rows(page) : page[p].by = u}
      BY DEF Exported
    <3> HIDE DEF mine
    <3> QED BY <1>1, <3>1, <3>2, ReadOneRow
  <2> QED BY <2>2, <2>3, <2>4, <2>5, <2>6, <2>7, <2>8
<1>2. Init => MemberInv
  BY StartAssumption, ContentAssumption DEF Init, MemberInv, Exists, Idle
<1> QED BY <1>1, <1>2, TypeInit, TypeStep, MemberStep, TreesApart, PTL DEF Spec

-----------------------------------------------------------------------------
(* The store. *)

LEMMA ObjectMoves ==
  ASSUME [Next]_vars, object' # object
  PROVE  \E r \in Slots, f \in Files : UploadSave(r, f) \/ Sweep(r, f)
<1>1. ASSUME FilesNext PROVE \E r \in Slots, f \in Files : UploadSave(r, f) \/ Sweep(r, f)
  BY <1>1 DEF FilesNext, FileStarts, TaskStart, TaskWrite, TaskRemoveStart, TaskRemoveWrite, UploadStart, UploadRow,
              FileRemove, fileVars
<1> QED BY <1>1 DEF Next, Erase, vars, fileVars

LEMMA FileBorn ==
  ASSUME TypeOK, [Next]_vars, NEW f \in Files, file[f] = None, file'[f] # None
  PROVE  \E r \in Slots : UploadRow(r) /\ req[r].file = f
<1>1. f \notin Rows(file) /\ DOMAIN file = Files BY DEF Rows, TypeOK, Table
<1>2. ~\E r \in Slots : TaskRemoveWrite(r) \/ HandOver(r) \/ EraseRow(r) \/ \E u \in Users, g \in Files : FileRemove(r, u, g)
  BY <1>1 DEF TaskRemoveWrite, FilesOf, HandOver, HandedFiles, EraseRow, Without, LostFiles, FileRemove, TypeOK, Table
<1>3. file' # file OBVIOUS
<1>4. FilesNext
  BY <1>2, <1>3 DEF Next, BuildNext, RecipeNext, Erase, vars, fileVars
<1>5. PICK r \in Slots : UploadRow(r)
  BY <1>2, <1>3, <1>4
     DEF FilesNext, FileStarts, TaskStart, TaskRemoveStart, UploadStart, UploadSave, Sweep, TaskWrite, fileVars
<1>6. file' = [file EXCEPT ![req[r].file] = [by |-> req[r].by, task |-> req[r].task]] BY <1>5 DEF UploadRow
<1> QED BY <1>1, <1>5, <1>6

LEMMA UploadsStep ==
  ASSUME TypeOK, Uploads, ListsNow, [Next]_vars
  PROVE  Uploads'
<1>0. req \in [Slots -> Request] BY DEF TypeOK
<1>1. ASSUME NEW q \in Slots, req'[q].op = "row"
      PROVE  /\ Quiet(q) \/ \E f \in Files : UploadSave(q, f)
             /\ Quiet(q) => file[req[q].file] = None /\ req[q].file \in object /\ req[q].file \in Files
  <2>1. Quiet(q) \/ (\E f \in Files : UploadSave(q, f)) \/ (\E u \in Users, t \in TaskIds : TaskRemoveStart(q, u, t))
    BY <1>1, FilingTurns
  <2>2. ASSUME NEW u, NEW t, TaskRemoveStart(q, u, t) PROVE FALSE
    BY <1>0, <1>1, <2>2 DEF TaskRemoveStart, Begin
  <2>3. ASSUME Quiet(q) PROVE file[req[q].file] = None /\ req[q].file \in object /\ req[q].file \in Files
    <3>1. req[q].op = "row" BY <1>1, <2>3 DEF Quiet
    <3> QED BY <1>0, <3>1, Carries DEF Uploads, Uploading
  <2> QED BY <2>1, <2>2, <2>3
<1>2. ASSUME NEW q \in Slots, NEW f \in Files, UploadSave(q, f)
      PROVE  /\ req[q].op = "upload" /\ req'[q].file = f /\ file' = file /\ file[f] = None
             /\ f \notin object /\ object' = object \cup {f} /\ \A p \in Slots \ {q} : Quiet(p)
  <2>1. req' = [req EXCEPT ![q] = [op |-> "row", by |-> req[q].by, task |-> req[q].task, file |-> f]]
    BY <1>2 DEF UploadSave, Goes
  <2>2. req'[q] = [op |-> "row", by |-> req[q].by, task |-> req[q].task, file |-> f] /\ \A p \in Slots \ {q} : Quiet(p)
    BY <1>0, <2>1 DEF Quiet
  <2>3. req'[q].file = f BY <2>2
  <2> QED BY <1>2, <2>2, <2>3 DEF UploadSave
<1>3. ASSUME NEW q \in Slots, req'[q].op = "row" PROVE file'[req'[q].file] = None /\ req'[q].file \in object'
  <2>1. CASE \E f \in Files : UploadSave(q, f) BY <1>2, <2>1
  <2>2. CASE Quiet(q)
    <3> DEFINE g == req[q].file
    <3>1. req'[q].file = g /\ file[g] = None /\ g \in object /\ g \in Files /\ req[q].op = "row"
      BY <1>1, <1>3, <2>2 DEF Quiet
    <3> HIDE DEF g
    <3>2. ASSUME NEW r \in Slots, UploadRow(r), req[r].file = g PROVE FALSE
      <4>1. CASE r = q BY <1>0, <1>3, <3>2, <4>1 DEF UploadRow, Ends, Goes, Idle
      <4>2. CASE r # q
        <5>1. req[r].op = "row" BY <3>2 DEF UploadRow
        <5> QED BY <3>1, <3>2, <4>2, <5>1 DEF Uploads, Uploading, g
      <4> QED BY <4>1, <4>2
    <3>3. file'[g] = None BY <3>1, <3>2, FileBorn
    <3>4. ASSUME NEW r \in Slots, NEW f \in Files, Sweep(r, f) PROVE f # g /\ object' = object \ {f}
      <4>1. Lists(req[r]) /\ req[r].op = "sweep" /\ f \in req[r].objects BY <3>4 DEF ListsNow, Sweep
      <4>2. file[f] # None BY <4>1 DEF Lists
      <4> QED BY <3>1, <3>4, <4>2 DEF Sweep
    <3>5. g \in object'
      BY <1>2, <3>1, <3>4, ObjectMoves
    <3> QED BY <3>1, <3>3, <3>5
  <2> QED BY <1>1, <1>3, <2>1, <2>2
<1>4. ASSUME NEW q \in Slots, NEW p \in Slots \ {q}, req'[q].op = "row", req'[p].op = "row", Quiet(p)
      PROVE  req'[p].file # req'[q].file
  <2>1. req'[p].file = req[p].file /\ req[p].op = "row" /\ req[p].file \in object BY <1>1, <1>4 DEF Quiet
  <2>2. CASE Quiet(q)
    <3>1. req'[q].file = req[q].file /\ req[q].op = "row" BY <1>4, <2>2 DEF Quiet
    <3> QED BY <1>4, <2>1, <3>1 DEF Uploads, Uploading
  <2>3. CASE \E f \in Files : UploadSave(q, f) BY <1>2, <2>1, <2>3
  <2> QED BY <1>1, <1>4, <2>2, <2>3
<1>5. ASSUME NEW q \in Slots, NEW p \in Slots \ {q}, req'[q].op = "row", req'[p].op = "row"
      PROVE  req'[p].file # req'[q].file
  <2>1. Quiet(p) \/ Quiet(q) BY <1>1, <1>2, <1>5
  <2> QED BY <1>4, <1>5, <2>1
<1> QED BY <1>3, <1>5 DEF Uploads, Uploading

LEMMA OwnersGo ==
  ASSUME TypeOK, [Next]_vars, NEW w \in Workspaces, owner[w] \in Users, owner'[w] \notin Users
  PROVE  \E r \in Slots : EraseRow(r) /\ req[r].by = owner[w]
<1>1. owner' # owner OBVIOUS
<1>2. ASSUME NEW u \in Users, NEW x \in Workspaces, Founded(x, u) PROVE FALSE
  <2>1. owner[x] = None /\ owner' = [owner EXCEPT ![x] = u] BY <1>2 DEF Founded
  <2> QED BY <2>1 DEF TypeOK, Table
<1>3. ASSUME NEW r \in Slots, TransferWrite(r) PROVE FALSE
  <2>1. owner' = [owner EXCEPT ![req[r].ws] = req[r].to] BY <1>3 DEF TransferWrite, Handing
  <2>2. req[r].ws \in Workspaces /\ req[r].to \in Users BY <1>3, Carries DEF TransferWrite, TypeOK
  <2> QED BY <2>1, <2>2 DEF TypeOK, Table
<1>4. ~SpacesNext
  <2>1. ASSUME NEW r \in Slots, NEW x \in Workspaces, ListLock(r, x) PROVE FALSE
    <3>1. req[r].op = "default" BY <2>1 DEF ListLock
    <3>2. req[r].by \in Users BY <3>1, Carries DEF TypeOK
    <3> QED BY <1>1, <1>2, <2>1, <3>2 DEF ListLock, spaceVars
  <2> QED BY <1>1, <1>2, <1>3, <2>1 DEF SpacesNext, CreateSpace, Join, LeaveStart, LeaveWrite, TransferStart, ListStart, Abandon, spaceVars
<1>5. ~BuildNext
  <2>1. SUFFICES ASSUME NEW r \in Slots, NEW x \in Workspaces, Build(r, x) PROVE FALSE BY DEF BuildNext
  <2>2. req[r].by \in Users BY <2>1, BuildIs, TypeParts
  <2> QED BY <1>2, <2>1, <2>2 DEF Build
<1>6. PICK r \in Slots : EraseRow(r)
  BY <1>1, <1>4, <1>5 DEF Next, vars, spaceVars, Erase
<1>7. owner' = Without(owner, LostSpaces(req[r].by)) BY <1>6 DEF EraseRow
<1>8. w \in LostSpaces(req[r].by) BY <1>7 DEF Without, TypeOK, Table
<1> QED BY <1>6, <1>8 DEF LostSpaces

\* Who a file belongs to is changed by deletions only, which note it in each other.
LEMMA MakersNoted ==
  ASSUME TypeOK, Uploads, [Next]_vars, NEW q \in Slots, req[q].op = "erase", req'[q].op = "erase", ~HandOver(q),
         NEW f \in Rows(file), f \in Rows(file')
  PROVE  file'[f].by = file[f].by \/ f \in req'[q].since
<1>0. /\ file \in Table(Files, FileRow) /\ req \in [Slots -> Request] /\ f \in Files
      /\ file[f] # None /\ file'[f] # Gone
  BY DEF TypeOK, Rows, Table
<1>1. ASSUME NEW r \in Slots, HandOver(r) PROVE file'[f] = file[f] \/ f \in req'[q].since
  <2> DEFINE S == Handed(task, r) \cup Handed(page, r) \cup HandedFiles(r)
             next == [req[r] EXCEPT !.pc = "list"]
  <2>1. req' = [Noting(S, req) EXCEPT ![r] = next] /\ q # r BY <1>1 DEF HandOver
  <2>2. S \subseteq req'[q].since
    <3>1. req'[q] = [req[q] EXCEPT !.since = @ \cup S] BY <1>0, <2>1 DEF Noting
    <3>2. req[q] \in EraseRequests BY <1>0, Carries
    <3> QED BY <3>1, <3>2 DEF EraseRequests
  <2>3. f \notin HandedFiles(r) => file'[f] = file[f] BY <1>0, <1>1 DEF HandOver
  <2> QED BY <2>2, <2>3
<1>2. ASSUME NEW r \in Slots, TaskRemoveWrite(r) \/ EraseRow(r) \/ \E u \in Users, g \in Files : FileRemove(r, u, g)
      PROVE  file'[f] = file[f]
  BY <1>0, <1>2 DEF TaskRemoveWrite, EraseRow, Without, FileRemove, Table
<1>3. ASSUME NEW r \in Slots, UploadRow(r) PROVE file'[f] = file[f]
  <2>1. file[req[r].file] = None BY <1>3 DEF Uploads, Uploading, UploadRow
  <2> QED BY <1>0, <1>3, <2>1 DEF UploadRow, Table
<1>4. ASSUME FilesNext PROVE file'[f] = file[f]
  BY <1>2, <1>3, <1>4
     DEF FilesNext, FileStarts, TaskStart, TaskRemoveStart, UploadStart, UploadSave, Sweep, TaskWrite, fileVars
<1>5. ASSUME file' = file PROVE file'[f] = file[f]
  BY <1>5
<1> QED BY <1>1, <1>2, <1>4, <1>5 DEF Next, BuildNext, RecipeNext, Erase, vars, fileVars

\* A file that is still there is where it was.
LEMMA FileStays ==
  ASSUME TypeOK, Hung, Uploads, [Next]_vars, NEW f \in Rows(file')
  PROVE  /\ f \in Files
         /\ file[f] # None => f \in Rows(file) /\ file'[f].task = file[f].task /\ SpaceOf(f)' = SpaceOf(f)
                                /\ (file[f].task # None => file[f].task \in Rows(task) /\ file[f].task \in Rows(task'))
<1>1. TypeOK' BY TypeStep
<1>2. f \in Files BY <1>1 DEF TypeOK, Rows, Table
<1>3. FilesKeep /\ TasksKeep /\ Hung' BY FilesKept
<1>4. ASSUME file[f] # None
      PROVE f \in Rows(file) /\ file'[f].task = file[f].task /\ SpaceOf(f)' = SpaceOf(f)
                                /\ (file[f].task # None => file[f].task \in Rows(task) /\ file[f].task \in Rows(task'))
  <2>1. f \in Rows(file) /\ file'[f].task = file[f].task BY <1>2, <1>3, <1>4 DEF FilesKeep
  <2>2. file[f].task # None => file[f].task \in Rows(task) /\ file[f].task \in Rows(task')
    BY <1>3, <2>1 DEF Hung
  <2>3. \A t \in Rows(task) : t \in TaskIds /\ task[t] # None BY FileRows, TypeParts DEF Rows
  <2>4. file[f].task # None => task'[file[f].task].ws = task[file[f].task].ws
    BY <1>3, <2>2, <2>3 DEF TasksKeep
  <2> QED BY <2>1, <2>2, <2>4 DEF SpaceOf
<1> QED BY <1>2, <1>4

\* What a deletion would take along, it still does, but for what changes hands.
LEMMA TakenStays ==
  ASSUME TypeOK, Hung, Uploads, [Next]_vars, NEW q \in Slots, req[q].op = "erase", req'[q].op = "erase", ~HandOver(q),
         NEW since, since = req'[q].since, NEW u \in Users,
         NEW f \in Rows(file'), file[f] # None, Taken(f, u)
  PROVE  ChangedHands(f, since)' \/ Taken(f, u)'
<1> DEFINE t == file[f].task
           w == SpaceOf(f)
<1>1. /\ f \in Files /\ f \in Rows(file) /\ file'[f].task = t /\ SpaceOf(f)' = w
      /\ (t # None => t \in Rows(task) /\ t \in Rows(task'))
  BY FileStays
<1>2. AllNoted(since) BY Noticed
<1>3. CASE file[f].by = u
  BY <1>1, <1>3, MakersNoted DEF ChangedHands, Taken
<1>4. CASE t # None /\ task[t].by = u
  BY <1>1, <1>2, <1>4 DEF AllNoted, RowsNoted, ChangedHands, Taken
<1>5. CASE Exists(w) /\ owner[w] = u
  <2> HIDE DEF w
  <2>1. w \in Workspaces BY <1>5 DEF Exists
  <2>2. CASE owner'[w] = u
    BY <1>1, <2>1, <2>2 DEF Taken, Exists
  <2>3. CASE owner'[w] \in Users /\ owner'[w] # u
    <3>1. owner[w] # None /\ owner'[w] # owner[w] BY <1>5, <2>3, ContentAssumption
    <3>2. w \in since BY <1>2, <2>1, <2>3, <3>1 DEF AllNoted, SpacesNoted
    <3>3. SpaceOf(f)' \in since BY <1>1, <3>2
    <3> QED BY <3>3 DEF ChangedHands
  <2>4. CASE owner'[w] \notin Users
    <3>1. PICK r \in Slots : EraseRow(r) /\ req[r].by = u BY <1>5, <2>1, <2>4, OwnersGo
    <3>2. file' = Without(file, LostFiles(u)) BY <3>1 DEF EraseRow
    <3>3. t # None /\ task[t].ws = w BY <1>1, <2>1, ContentAssumption DEF SpaceOf, w
    <3>4. w \in LostSpaces(u) BY <1>5, <2>1 DEF LostSpaces
    <3>5. f \in LostFiles(u) BY <1>1, <3>3, <3>4 DEF LostFiles, LostTasks
    <3>6. f \notin Rows(file') BY <3>2, <3>5, WithoutIs DEF TypeOK
    <3> QED BY <3>6
  <2> QED BY <1>1, <2>2, <2>3, <2>4
<1> QED BY <1>3, <1>4, <1>5 DEF Taken

LEMMA SweepAlone ==
  ASSUME TypeOK, NEW q \in Slots, Untouched(q), req'[q].op = "sweep"
  PROVE  req[q].op = "sweep" /\ req'[q].objects = req[q].objects /\ req[q].since \subseteq req'[q].since
<1>1. req[q].op = "sweep" BY DEF Untouched
<1>2. req[q] \in SweepRequests BY <1>1, Carries DEF TypeOK
<1>3. ASSUME NEW S \in SUBSET Things, req'[q] = [req[q] EXCEPT !.since = @ \cup S]
      PROVE  req'[q].objects = req[q].objects /\ req[q].since \subseteq req'[q].since
  BY <1>2, <1>3 DEF SweepRequests
<1> QED BY <1>1, <1>3 DEF Untouched

LEMMA ListsStep ==
  ASSUME TypeOK, FileInv, [Next]_vars
  PROVE  ListsNow'
<1> SUFFICES ASSUME NEW q \in Slots, NEW then, then = req'[q] PROVE Lists(then)'
  BY DEF ListsNow, Lists, ChangedHands, Taken, SpaceOf, Exists
<1>0. /\ req \in [Slots -> Request] /\ then \in Request /\ Hung /\ Uploads /\ Lists(req[q])
      /\ file \in Table(Files, FileRow) /\ task \in Table(TaskIds, TaskRow)
  <2>1. TypeOK' BY TypeStep
  <2> QED BY <2>1 DEF TypeOK, FileInv, ListsNow
<1>1. FilesKeep BY <1>0, FilesKept
<1>2. ASSUME NEW f \in Files, file[f] # None
      PROVE  /\ file'[f] # None
             /\ f \in Rows(file') => f \in Rows(file) /\ file'[f].task = file[f].task /\ SpaceOf(f)' = SpaceOf(f)
             /\ \A old : f \in Rows(file') /\ old \subseteq then.since /\ ChangedHands(f, old) => ChangedHands(f, then.since)'
  <2>1. file'[f] # None BY <1>1, <1>2 DEF FilesKeep
  <2>2. f \in Rows(file') => f \in Rows(file) /\ file'[f].task = file[f].task /\ SpaceOf(f)' = SpaceOf(f)
    BY <1>0, <1>2, FileStays
  <2> QED BY <2>1, <2>2 DEF ChangedHands
<1>3. ASSUME then.op = "untask" PROVE Lists(then)'
  <2>1. SUFFICES ASSUME NEW f \in then.objects PROVE file'[f] # None /\ (f \in Rows(file') => file'[f].task = then.task)
    BY <1>3 DEF Lists
  <2>2. f \in Files BY <1>0, <1>3, <2>1, Carries
  <2>3. CASE Quiet(q)
    <3>1. then = req[q] BY <2>3 DEF Quiet
    <3>2. file[f] # None /\ (f \in Rows(file) => file[f].task = then.task) BY <1>0, <1>3, <2>1, <3>1 DEF Lists
    <3> QED BY <1>2, <2>2, <3>2
  <2>4. ASSUME NEW u, NEW t, TaskRemoveStart(q, u, t) PROVE file'[f] # None /\ (f \in Rows(file') => file'[f].task = then.task)
    <3>1. then = [op |-> "untask", task |-> t, objects |-> FilesOf(t)] /\ file' = file
      BY <1>0, <2>4 DEF TaskRemoveStart, Begin, fileVars
    <3>2. then.objects = FilesOf(t) /\ then.task = t BY <3>1
    <3> QED BY <2>1, <3>1, <3>2 DEF FilesOf, Rows
  <2>5. ASSUME NEW g \in Files, UploadSave(q, g) PROVE FALSE
    <3>1. then = [op |-> "row", by |-> req[q].by, task |-> req[q].task, file |-> g]
      BY <1>0, <2>5 DEF UploadSave, Goes
    <3> QED BY <1>3, <3>1
  <2> QED BY <1>3, <2>3, <2>4, <2>5, FilingTurns
<1>4. ASSUME Untouched(q), then.op = "erase", then.pc = "row", NEW f \in then.objects
      PROVE  file'[f] # None /\ (f \in Rows(file') => ChangedHands(f, then.since)' \/ Taken(f, then.by)')
  <2>1. /\ req[q].op = "erase" /\ then.by = req[q].by /\ req[q].pc = "row" /\ then.objects = req[q].objects
        /\ req[q].since \subseteq then.since
    BY <1>4, LeftAlone
  <2>2. f \in Files /\ then.by \in Users
    <3>1. then \in EraseRequests BY <1>0, <1>4, Carries
    <3> QED BY <1>4, <3>1 DEF EraseRequests
  <2>3. file[f] # None /\ (f \in Rows(file) => ChangedHands(f, req[q].since) \/ Taken(f, then.by))
    BY <1>0, <1>4, <2>1 DEF Lists
  <2>4. ~HandOver(q) BY <2>1 DEF HandOver, At
  <2>5. ASSUME f \in Rows(file') PROVE ChangedHands(f, then.since)' \/ Taken(f, then.by)'
    <3>1. f \in Rows(file) BY <1>2, <2>2, <2>3, <2>5
    <3>2. CASE ChangedHands(f, req[q].since) BY <1>2, <2>1, <2>2, <2>3, <2>5, <3>2
    <3>3. CASE Taken(f, then.by) BY <1>0, <1>4, <2>1, <2>2, <2>3, <2>4, <2>5, <3>3, TakenStays
    <3> QED BY <2>3, <3>1, <3>2, <3>3
  <2> QED BY <1>2, <2>2, <2>3, <2>5
<1>5. ASSUME Untouched(q), then.op = "sweep", NEW f \in then.objects
      PROVE  file'[f] # None /\ (f \in Rows(file') => ChangedHands(f, then.since)')
  <2>1. req[q].op = "sweep" /\ then.objects = req[q].objects /\ req[q].since \subseteq then.since
    BY <1>5, SweepAlone
  <2>2. f \in Files
    <3>1. then \in SweepRequests BY <1>0, <1>5, Carries
    <3> QED BY <1>5, <3>1 DEF SweepRequests
  <2>3. file[f] # None /\ (f \in Rows(file) => ChangedHands(f, req[q].since)) BY <1>0, <1>5, <2>1 DEF Lists
  <2> QED BY <1>2, <2>1, <2>2, <2>3
<1>6. ASSUME ListFiles(q), UNCHANGED contentVars PROVE Lists(then)'
  <2> DEFINE u == req[q].by
             mine == {f \in Rows(file) : Taken(f, u)}
  <2>1. then = [op |-> "erase", pc |-> "row", by |-> u, since |-> req[q].since, heir |-> req[q].heir, objects |-> mine]
    BY <1>0, <1>6 DEF ListFiles, Goes, Taken
  <2> HIDE DEF mine
  <2>2. then.op = "erase" /\ then.by = u /\ then.objects = mine BY <2>1
  <2>3. \A f, v : Taken(f, v)' = Taken(f, v) BY <1>6 DEF contentVars, spaceVars, fileVars, Taken, SpaceOf, Exists
  <2>4. file' = file BY <1>6 DEF contentVars, fileVars
  <2>5. \A f \in mine : file[f] # None /\ Taken(f, u) BY DEF mine, Rows
  <2> QED BY <2>2, <2>3, <2>4, <2>5 DEF Lists
<1>7. ASSUME EraseRow(q) PROVE Lists(then)'
  <2> DEFINE u == req[q].by
  <2>1. then = [op |-> "sweep", objects |-> req[q].objects, since |-> req[q].since] BY <1>0, <1>7 DEF EraseRow, Goes
  <2>2. then.op = "sweep" /\ then.objects = req[q].objects /\ then.since = req[q].since BY <2>1
  <2>3. req[q].op = "erase" /\ req[q].pc = "row" /\ file' = Without(file, LostFiles(u)) BY <1>7 DEF EraseRow, At
  <2>4. req[q].objects \subseteq Files BY <1>0, <2>3, Erasure DEF ReqTyped, TypeOK
  <2>5. ASSUME NEW f \in then.objects PROVE file'[f] # None /\ (f \in Rows(file') => ChangedHands(f, then.since)')
    <3>1. f \in Files /\ file[f] # None /\ (f \in Rows(file) => ChangedHands(f, then.since) \/ Taken(f, u))
      BY <1>0, <2>2, <2>3, <2>4, <2>5 DEF Lists
    <3>2. ASSUME f \in Rows(file') PROVE ChangedHands(f, then.since)'
      <4>1. f \in Rows(file) /\ f \notin LostFiles(u) BY <1>0, <2>3, <3>2, WithoutIs
      <4>2. file[f].task # None => file[f].task \in Rows(task) BY <1>0, <4>1 DEF Hung
      <4>3. file[f].by # u /\ file[f].task \notin LostTasks(u) BY <4>1 DEF LostFiles
      <4>4. ~(file[f].task # None /\ task[file[f].task].by = u) BY <4>2, <4>3 DEF LostTasks
      <4>5. ~(Exists(SpaceOf(f)) /\ owner[SpaceOf(f)] = u)
        BY <4>2, <4>3, ContentAssumption DEF LostTasks, LostSpaces, SpaceOf, Exists
      <4>6. ~Taken(f, u) BY <4>3, <4>4, <4>5 DEF Taken
      <4> QED BY <1>2, <3>1, <3>2, <4>1, <4>6
    <3> QED BY <1>2, <3>1, <3>2
  <2> QED BY <2>2, <2>5 DEF Lists
<1>8. ASSUME TaskRemoveWrite(q) PROVE Lists(then)'
  <2>1. then = [op |-> "sweep", objects |-> req[q].objects, since |-> {}] BY <1>0, <1>8 DEF TaskRemoveWrite, Goes
  <2>2. then.op = "sweep" /\ then.objects = req[q].objects BY <2>1
  <2>3. req[q].op = "untask" /\ file' = [f \in Files |-> IF f \in FilesOf(req[q].task) THEN Gone ELSE file[f]]
    BY <1>8 DEF TaskRemoveWrite
  <2>4. req[q].objects \subseteq Files BY <1>0, <2>3, Carries
  <2>5. ASSUME NEW f \in then.objects PROVE file'[f] # None /\ f \notin Rows(file')
    <3>1. f \in Files /\ file[f] # None /\ (f \in Rows(file) => file[f].task = req[q].task)
      BY <1>0, <2>2, <2>3, <2>4, <2>5 DEF Lists
    <3>2. f \in Rows(file) => file'[f] = Gone BY <2>3, <3>1 DEF FilesOf
    <3> QED BY <1>2, <3>1, <3>2 DEF Rows
  <2> QED BY <2>2, <2>5 DEF Lists
<1>9. ASSUME NEW u, NEW g \in Files, FileRemove(q, u, g) PROVE Lists(then)'
  <2>1. then = [op |-> "sweep", objects |-> {g}, since |-> {}] /\ file' = [file EXCEPT ![g] = Gone]
    BY <1>0, <1>9 DEF FileRemove, Begin
  <2>2. then.op = "sweep" /\ then.objects = {g} BY <2>1
  <2>3. file'[g] = Gone BY <1>0, <2>1 DEF Table
  <2> QED BY <2>2, <2>3, ContentAssumption DEF Lists, Rows
<1>10. ASSUME NEW g \in Files, Sweep(q, g) PROVE Lists(then)'
  <2>1. req[q].op = "sweep" /\ file' = file /\ task' = task BY <1>10 DEF Sweep
  <2>2. req[q] \in SweepRequests BY <1>0, <2>1, Carries
  <2>3. then = IF req[q].objects = {g} THEN Idle ELSE [req[q] EXCEPT !.objects = @ \ {g}] BY <1>0, <1>10 DEF Sweep, Goes
  <2>4. CASE then = Idle BY <2>4 DEF Idle, Lists
  <2>5. CASE then = [req[q] EXCEPT !.objects = @ \ {g}]
    <3>1. then.op = "sweep" /\ then.objects \subseteq req[q].objects /\ then.since = req[q].since
      BY <2>1, <2>2, <2>5 DEF SweepRequests
    <3>2. \A f : ChangedHands(f, then.since)' = ChangedHands(f, req[q].since) BY <2>1, <3>1 DEF ChangedHands, SpaceOf
    <3> QED BY <1>0, <2>1, <3>1, <3>2 DEF Lists
  <2> QED BY <2>3, <2>4, <2>5
<1>11. ASSUME NEW u, Starts(q, u) PROVE Lists(then)'
  <2>1. then = [op |-> "erase", pc |-> "stop", by |-> u, since |-> {}] BY <1>0, <1>11 DEF Starts, EraseStart, Begin
  <2>2. then.op = "erase" /\ then.pc = "stop" BY <2>1
  <2> QED BY <2>2 DEF Lists
<1>12. ASSUME then.op = "erase", StopBilling(q) \/ ReadMemberships(q) \/ HandOver(q) PROVE Lists(then)'
  <2>1. req[q].op = "erase" BY <1>12 DEF StopBilling, ReadMemberships, HandOver, At
  <2>2. req[q] \in EraseRequests BY <1>0, <2>1, Carries
  <2>3. CASE StopBilling(q)
    <3>1. then = [req[q] EXCEPT !.pc = "read"] BY <1>0, <1>12, <2>3 DEF StopBilling, Onto, Ends, Goes, Idle
    <3> QED BY <1>12, <2>2, <3>1 DEF EraseRequests, Lists
  <2>4. CASE ReadMemberships(q)
    <3>1. \E u, since, heir : then = [op |-> "erase", pc |-> "hand", by |-> u, since |-> since, heir |-> heir]
      BY <1>0, <2>4 DEF ReadMemberships, Goes
    <3>2. then.op = "erase" /\ then.pc = "hand" BY <3>1
    <3> QED BY <3>2 DEF Lists
  <2>5. CASE HandOver(q)
    <3>1. then = [req[q] EXCEPT !.pc = "list"] BY <1>0, <2>5 DEF HandOver, Noting
    <3> QED BY <1>12, <2>2, <3>1 DEF EraseRequests, Lists
  <2> QED BY <1>12, <2>3, <2>4, <2>5
<1>13. CASE then.op \notin {"untask", "erase", "sweep"} BY <1>13 DEF Lists
<1>14. CASE Untouched(q) /\ then.op \in Kinds
  BY <1>4, <1>5, <1>14 DEF Lists, Kinds
<1>15. CASE then.op \in Kinds
  <2>1. \/ Untouched(q) \/ Steps(q) \/ TaskRemoveWrite(q)
        \/ \E u \in Users : Starts(q, u) \/ \E f \in Files : FileRemove(q, u, f)
        \/ \E f \in Files : Sweep(q, f)
    BY <1>15, Turns
  <2>2. ASSUME Steps(q) PROVE Lists(then)'
    <3>1. ASSUME then.op = "sweep", StopBilling(q) \/ ReadMemberships(q) \/ HandOver(q) PROVE FALSE
      <4>1. req[q].op = "erase" BY <3>1 DEF StopBilling, ReadMemberships, HandOver, At
      <4>2. req[q] \in EraseRequests BY <1>0, <4>1, Carries
      <4>3. \A pc : [req[q] EXCEPT !.pc = pc].op = "erase" BY <4>2 DEF EraseRequests
      <4>4. CASE StopBilling(q)
        <5>1. then = [req[q] EXCEPT !.pc = "read"] \/ then = Idle
          BY <1>0, <4>4 DEF StopBilling, Onto, Ends, Goes
        <5>2. Idle.op = "none" BY DEF Idle
        <5> QED BY <3>1, <4>3, <5>1, <5>2
      <4>5. CASE ReadMemberships(q)
        <5>1. \E u, since, heir : then = [op |-> "erase", pc |-> "hand", by |-> u, since |-> since, heir |-> heir]
          BY <1>0, <4>5 DEF ReadMemberships, Goes
        <5>2. then.op = "erase" BY <5>1
        <5> QED BY <3>1, <5>2
      <4>6. CASE HandOver(q) BY <1>0, <3>1, <4>3, <4>6 DEF HandOver, Noting
      <4> QED BY <3>1, <4>4, <4>5, <4>6
    <3> QED BY <1>6, <1>7, <1>12, <1>15, <2>2, <3>1 DEF Steps, Kinds
  <2> QED BY <1>8, <1>9, <1>10, <1>11, <1>14, <1>15, <2>1, <2>2
<1> QED BY <1>3, <1>13, <1>15 DEF Kinds

LEMMA FileInit == Init => FileInv
<1> SUFFICES ASSUME Init PROVE FileInv OBVIOUS
<1>1. Hung BY StartAssumption DEF Init, Hung
<1>2. Uploads /\ ListsNow BY DEF Init, Idle, Uploads, Uploading, ListsNow, Lists
<1> QED BY <1>1, <1>2 DEF FileInv

\* The store loses the content of no file that is still listed, but for what changed hands during a
\* deletion (file.service.js 55-63, task.service.js 322-333, user.service.js 232-245).
THEOREM ObjectsLast == Spec => ObjectsGoLast
<1>1. ASSUME TypeOK, FileInv, [Next]_vars PROVE FileInv'
  BY <1>1, FilesKept, UploadsStep, ListsStep DEF FileInv
<1>2. ASSUME FileInv, Next
      PROVE  \A f \in object \ object' : f \in Rows(file) =>
               \E r \in Slots :
                 /\ req[r].op = "sweep" /\ f \in req[r].objects
                 /\ {f, file[f].task, SpaceOf(f)} \cap req[r].since # {}
  <2> SUFFICES ASSUME NEW f \in object \ object', f \in Rows(file)
               PROVE  \E r \in Slots : /\ req[r].op = "sweep" /\ f \in req[r].objects
                                       /\ {f, file[f].task, SpaceOf(f)} \cap req[r].since # {}
    OBVIOUS
  <2>1. PICK r \in Slots, g \in Files : UploadSave(r, g) \/ Sweep(r, g) BY <1>2, ObjectMoves
  <2>2. Sweep(r, g) /\ g = f BY <2>1 DEF UploadSave, Sweep
  <2>3. req[r].op = "sweep" /\ f \in req[r].objects /\ Lists(req[r]) BY <1>2, <2>2 DEF Sweep, FileInv, ListsNow
  <2> QED BY <2>3 DEF Lists, ChangedHands
<1>3. TypeOK /\ FileInv /\ [Next]_vars =>
        [ \A f \in object \ object' : f \in Rows(file) =>
            \E r \in Slots :
              /\ req[r].op = "sweep" /\ f \in req[r].objects
              /\ {f, file[f].task, SpaceOf(f)} \cap req[r].since # {} ]_vars
  BY <1>2
<1>4. TypeOK /\ FileInv /\ [Next]_vars => FileInv' BY <1>1
<1> QED BY <1>3, <1>4, FileInit, TypeCorrect, PTL DEF Spec, ObjectsGoLast

-----------------------------------------------------------------------------
(* Circles. *)

\* Of a function that gives each of its elements the one above it: what is below p.
Closed(g, p, C) == \A x \in DOMAIN g : g[x] \in C \cup {p} => x \in C
Down(g, p) == {x \in DOMAIN g : \A C \in SUBSET DOMAIN g : Closed(g, p, C) => x \in C}

\* Whoever is below itself has one of L in its circle.
CircleHas(g, L) == \A p \in DOMAIN g : p \in Down(g, p) => \E q \in L : q \in Down(g, p) /\ p \in Down(g, q)

\* What is below something is in every set that is closed.
LEMMA DownIn ==
  ASSUME NEW g, NEW p, NEW C, Closed(g, p, C)
  PROVE  Down(g, p) \subseteq C
<1>1. Closed(g, p, C \cap DOMAIN g) BY DEF Closed
<1> QED BY <1>1 DEF Down

LEMMA DownClosed ==
  ASSUME NEW g, NEW p
  PROVE  Closed(g, p, Down(g, p)) /\ Down(g, p) \subseteq DOMAIN g
BY DEF Closed, Down

LEMMA DownTurns ==
  ASSUME NEW g, NEW p, NEW y \in Down(g, p)
  PROVE  g[y] = p \/ g[y] \in Down(g, p)
<1> DEFINE C == {x \in DOMAIN g : g[x] = p \/ g[x] \in Down(g, p)}
<1>1. Closed(g, p, C) BY DownClosed DEF Closed
<1> QED BY <1>1, DownIn

LEMMA DownDown ==
  ASSUME NEW g, NEW p, NEW y \in Down(g, p)
  PROVE  Down(g, y) \subseteq Down(g, p)
<1>1. Closed(g, y, Down(g, p)) BY DownClosed DEF Closed
<1> QED BY <1>1, DownIn

\* What is above something in a circle is in it.
LEMMA CircleUp ==
  ASSUME NEW g, NEW p, p \in Down(g, p), NEW x, p \in Down(g, x)
  PROVE  x \in Down(g, p)
<1> SUFFICES ASSUME x \notin Down(g, p) PROVE FALSE OBVIOUS
<1> DEFINE C == Down(g, x) \ Down(g, p)
<1>1. \A y \in Down(g, p) : g[y] \in Down(g, p) BY DownTurns
<1>2. Closed(g, x, C) BY <1>1, DownClosed DEF Closed
<1> QED BY <1>2, DownIn

\* Its elements are the same where the functions agree on them.
LEMMA CircleKept ==
  ASSUME NEW g, NEW h, NEW p, p \in Down(h, p),
         \A x \in Down(h, p) : p \in Down(h, x) => x \in DOMAIN g /\ g[x] = h[x]
  PROVE  /\ p \in Down(g, p)
         /\ \A q : p \in Down(g, q) => q \in Down(h, p) /\ p \in Down(h, q)
<1> DEFINE S == {x \in DOMAIN h : p \in Down(h, x)}
<1>1. S \subseteq Down(h, p) BY CircleUp
<1>2. p \in S BY DownClosed
<1>3. ASSUME NEW x \in S PROVE h[x] \in S
  <2>1. h[x] = p \/ h[x] \in Down(h, p) BY <1>1, DownTurns
  <2>2. x \in Down(h, h[x]) BY DownClosed DEF Closed
  <2>3. p \in Down(h, h[x]) BY <2>2, DownDown
  <2> QED BY <1>2, <2>1, <2>3, DownClosed
<1>4. \A x \in S : x \in DOMAIN g /\ g[x] = h[x] BY <1>1
<1> HIDE DEF S
<1>5. ASSUME NEW C \in SUBSET DOMAIN g, Closed(g, p, C) PROVE p \in C
  <2> DEFINE K == (DOMAIN h \ S) \cup (C \cap S)
  <2>1. ASSUME NEW x \in DOMAIN h, h[x] \in K \cup {p} PROVE x \in K
    <3>1. CASE x \in S
      <4>1. h[x] \in S /\ x \in DOMAIN g /\ g[x] = h[x] BY <1>3, <1>4, <3>1
      <4>2. g[x] \in C \cup {p} BY <2>1, <4>1
      <4> QED BY <1>5, <3>1, <4>1, <4>2 DEF Closed
    <3> QED BY <3>1
  <2>2. Closed(h, p, K) BY <2>1 DEF Closed
  <2>3. p \in K BY <2>2, DownIn
  <2> QED BY <1>2, <2>3
<1>6. p \in Down(g, p) BY <1>2, <1>4, <1>5 DEF Down
<1>7. ASSUME NEW q, p \in Down(g, q) PROVE q \in S
  <2> SUFFICES ASSUME q \notin S PROVE FALSE OBVIOUS
  <2>1. ASSUME NEW x \in DOMAIN g, g[x] \in (DOMAIN g \ S) \cup {q} PROVE x \in DOMAIN g \ S
    BY <1>3, <1>4, <2>1
  <2>2. Closed(g, q, DOMAIN g \ S) BY <2>1 DEF Closed
  <2>3. p \in DOMAIN g \ S BY <1>7, <2>2, DownIn
  <2> QED BY <1>2, <2>3
<1>8. \A q \in S : q \in Down(h, p) /\ p \in Down(h, q) BY <1>1 DEF S
<1> QED BY <1>6, <1>7, <1>8

\* And so circles have one of L, if those of them that have none had it before.
LEMMA CirclesKept ==
  ASSUME NEW g, NEW h, NEW L, NEW M, CircleHas(g, L),
         \A p \in DOMAIN h : p \in Down(h, p) =>
           \/ \E q \in M : q \in Down(h, p) /\ p \in Down(h, q)
           \/ /\ \A x \in Down(h, p) : p \in Down(h, x) => x \in DOMAIN g /\ g[x] = h[x]
              /\ \A q \in L : q \in Down(h, p) /\ p \in Down(h, q) => q \in M
  PROVE  CircleHas(h, M)
<1> SUFFICES ASSUME NEW p \in DOMAIN h, p \in Down(h, p)
             PROVE  \E q \in M : q \in Down(h, p) /\ p \in Down(h, q)
  BY DEF CircleHas
<1>1. CASE /\ \A x \in Down(h, p) : p \in Down(h, x) => x \in DOMAIN g /\ g[x] = h[x]
           /\ \A q \in L : q \in Down(h, p) /\ p \in Down(h, q) => q \in M
  <2>1. p \in DOMAIN g /\ p \in Down(g, p) /\ \A q : p \in Down(g, q) => q \in Down(h, p) /\ p \in Down(h, q)
    <3>1. p \in Down(g, p) /\ \A q : p \in Down(g, q) => q \in Down(h, p) /\ p \in Down(h, q)
      BY <1>1, CircleKept
    <3> QED BY <3>1, DownClosed
  <2>2. PICK q \in L : q \in Down(g, p) /\ p \in Down(g, q) BY <2>1 DEF CircleHas
  <2> QED BY <1>1, <2>1, <2>2
<1> QED BY <1>1

\* A part of what had them.
LEMMA FewerCircles ==
  ASSUME NEW g, NEW h, NEW L, CircleHas(g, L), DOMAIN h \subseteq DOMAIN g, \A x \in DOMAIN h : h[x] = g[x]
  PROVE  CircleHas(h, L)
<1>1. \A p : Down(h, p) \subseteq DOMAIN g /\ \A x \in Down(h, p) : g[x] = h[x] BY DownClosed
<1> QED BY <1>1, CirclesKept

\* Something with nothing below it is in no circle.
LEMMA LeafAdded ==
  ASSUME NEW g, NEW h, NEW L, NEW n, CircleHas(g, L), DOMAIN h = DOMAIN g \cup {n}, n \notin DOMAIN g,
         \A x \in DOMAIN g : h[x] = g[x] /\ g[x] # n, h[n] # n
  PROVE  CircleHas(h, L)
<1>1. Closed(h, n, {}) BY DEF Closed
<1>2. Down(h, n) = {} BY <1>1, DownIn
<1>3. \A p, x : x \in Down(h, p) /\ p \in Down(h, x) => x \in DOMAIN g /\ g[x] = h[x] BY <1>2, DownClosed
<1> QED BY <1>3, CirclesKept

\* One that is moved elsewhere is in a circle only if it went below itself.
LEMMA MovedOff ==
  ASSUME NEW g, NEW h, NEW n \in DOMAIN g, DOMAIN h = DOMAIN g, \A x \in DOMAIN g \ {n} : h[x] = g[x],
         h[n] \notin Down(g, n), h[n] # n
  PROVE  n \notin Down(h, n)
<1> DEFINE C == Down(g, n) \ {n}
<1>1. ASSUME NEW x \in DOMAIN h, h[x] \in C \cup {n} PROVE x \in C
  <2>1. x # n BY <1>1
  <2>2. g[x] \in Down(g, n) \cup {n} BY <1>1, <2>1
  <2>3. x \in Down(g, n) BY <2>1, <2>2, DownClosed DEF Closed
  <2> QED BY <2>1, <2>3
<1>2. Closed(h, n, C) BY <1>1 DEF Closed
<1> QED BY <1>2, DownIn

LEMMA OneMoved ==
  ASSUME NEW g, NEW h, NEW L, NEW M, NEW n \in DOMAIN g, CircleHas(g, L),
         DOMAIN h = DOMAIN g, \A x \in DOMAIN g \ {n} : h[x] = g[x],
         n \in M \/ (h[n] \notin Down(g, n) /\ h[n] # n), L \subseteq M \cup {n}
  PROVE  CircleHas(h, M)
<1>1. ASSUME NEW p \in DOMAIN h, p \in Down(h, p)
      PROVE  \/ \E q \in M : q \in Down(h, p) /\ p \in Down(h, q)
             \/ /\ \A x \in Down(h, p) : p \in Down(h, x) => x \in DOMAIN g /\ g[x] = h[x]
                /\ \A q \in L : q \in Down(h, p) /\ p \in Down(h, q) => q \in M
  <2>1. CASE n \in Down(h, p) /\ p \in Down(h, n)
    <3>1. n \in Down(h, n) BY <2>1, DownDown
    <3>2. n \in M BY <3>1, MovedOff
    <3> QED BY <2>1, <3>2
  <2>2. CASE ~(n \in Down(h, p) /\ p \in Down(h, n))
    <3>1. \A x \in Down(h, p) : p \in Down(h, x) => x \in DOMAIN g /\ g[x] = h[x] BY <2>2, DownClosed
    <3> QED BY <2>2, <3>1
  <2> QED BY <2>1, <2>2
<1> QED BY <1>1, CirclesKept

\* What a function is carried over to one by one has the same below it.
CarriesOver(s, h, m) ==
  /\ DOMAIN m = DOMAIN s /\ \A x, y \in DOMAIN s : x # y => m[x] # m[y]
  /\ \A x \in DOMAIN s : m[x] \in DOMAIN h
  /\ \A x \in DOMAIN s : IF s[x] \in DOMAIN s THEN h[m[x]] = m[s[x]] ELSE h[m[x]] \notin DOMAIN h
  /\ \A x \in DOMAIN h : (\E y \in DOMAIN s : h[x] = m[y]) => \E y \in DOMAIN s : x = m[y]

LEMMA CarriedOver ==
  ASSUME NEW s, NEW h, NEW m, CarriesOver(s, h, m), NEW q \in DOMAIN s
  PROVE  \A x : x \in Down(h, m[q]) <=> \E y \in Down(s, q) : x = m[y]
<1> DEFINE C == {m[y] : y \in Down(s, q)}
<1> USE DEF CarriesOver
<1>0. Down(s, q) \subseteq DOMAIN s BY DownClosed
<1>1. ASSUME NEW x \in DOMAIN h, h[x] \in C \cup {m[q]} PROVE x \in C
  <2>1. PICK z \in Down(s, q) \cup {q} : h[x] = m[z] BY <1>1
  <2>2. z \in DOMAIN s BY <1>0, <2>1
  <2>3. PICK y \in DOMAIN s : x = m[y] BY <2>1, <2>2
  <2>4. s[y] \in DOMAIN s /\ m[s[y]] = m[z] BY <2>1, <2>2, <2>3
  <2>5. s[y] = z BY <2>2, <2>4
  <2>6. y \in Down(s, q) BY <2>1, <2>3, <2>5, DownClosed DEF Closed
  <2> QED BY <2>3, <2>6
<1>2. Closed(h, m[q], C) BY <1>1 DEF Closed
<1>3. Down(h, m[q]) \subseteq C BY <1>2, DownIn
<1>4. ASSUME NEW y \in Down(s, q) PROVE m[y] \in Down(h, m[q])
  <2> DEFINE K == {x \in DOMAIN s : m[x] \in Down(h, m[q])}
  <2>1. ASSUME NEW x \in DOMAIN s, s[x] \in K \cup {q} PROVE x \in K
    <3>1. s[x] \in DOMAIN s /\ h[m[x]] = m[s[x]] BY <2>1
    <3>2. h[m[x]] \in Down(h, m[q]) \cup {m[q]} BY <2>1, <3>1
    <3>3. m[x] \in Down(h, m[q]) BY <3>2, DownClosed DEF Closed
    <3> QED BY <3>3
  <2>2. Closed(s, q, K) BY <2>1 DEF Closed
  <2> QED BY <2>2, DownIn
<1> QED BY <1>3, <1>4

\* The page above each page that is there.
Parents(f) == [x \in Rows(f) |-> f[x].parent]

LEMMA UnderIsDown ==
  ASSUME NEW f, NEW p
  PROVE  Under(f, p) = Down(Parents(f), p)
<1> DEFINE S == {x \in Rows(f) : f[x].parent = p}
<1>1. WithChildren(f, S) = {C \in SUBSET Rows(f) : Closed(Parents(f), p, C)}
  BY DEF WithChildren, Closed, Parents
<1>2. Under(f, p) = {x \in Rows(f) : \A C \in WithChildren(f, S) : x \in C} BY DEF Under, Below
<1>3. DOMAIN Parents(f) = Rows(f) BY DEF Parents
<1> HIDE DEF S
<1> QED BY <1>1, <1>2, <1>3 DEF Down

LEMMA CirclesAre == CyclesNeedOverlap <=> CircleHas(Parents(page), raced)
<1>1. \A p : Descendants(p) = Down(Parents(page), p) BY UnderIsDown DEF Descendants
<1>2. DOMAIN Parents(page) = Rows(page) BY DEF Parents
<1> QED BY <1>1, <1>2 DEF CyclesNeedOverlap, CircleHas

\* A move that no other has overtaken goes on being to a page that is not under the one that moves.
Checked(q, pages) ==
  q.op = "move" /\ ~q.late /\ q.page \in Rows(pages) =>
    q.to # q.page /\ q.to \notin Down(Parents(pages), q.page)

\* A circle of a shape was one.
ShapeCircles(s) == CircleHas(s.pages, s.late)

CircleInv ==
  /\ CircleHas(Parents(page), raced)
  /\ \A r \in Slots : Checked(req[r], page)
  /\ \A r \in Slots : req[r].op \in {"copy", "save"} => ShapeCircles(req[r].shape)
  /\ \A x \in Rows(saved) : ShapeCircles(saved[x].shape)

\* The steps that write pages.
Writes(r) ==
  \/ CreateWrite(r)
  \/ MoveWrite(r)
  \/ (ArchiveWrite(r) \/ HandOver(r) \/ EraseRow(r)) /\ raced' = raced
  \/ \E w \in Workspaces : Build(r, w)

LEMMA PageSteps ==
  ASSUME [Next]_vars
  PROVE  (page' = page /\ raced' = raced) \/ \E r \in Slots : Writes(r)
<1> DEFINE Now == (page' = page /\ raced' = raced) \/ \E r \in Slots : Writes(r)
<1>1. ASSUME UNCHANGED treeVars PROVE Now BY <1>1 DEF treeVars
<1>2. ASSUME PagesNext PROVE Now
  <2>1. ASSUME NEW r \in Slots, NEW u \in Users, PageStarts(r, u) PROVE Now
    <3>1. UNCHANGED treeVars
      BY <2>1 DEF PageStarts, MoveStart, ArchiveStart, FlagStart, BlockStart, CreateStart, NestStart, DropStart
    <3> QED BY <1>1, <3>1
  <2>2. ASSUME NEW r \in Slots, Fill(r) \/ BlockWrite(r) \/ NestWrite(r) \/ DropWrite(r) PROVE Now
    BY <2>2 DEF Fill, BlockWrite, NestWrite, DropWrite
  <2>3. ASSUME NEW r \in Slots, ArchiveWrite(r) PROVE Now BY <2>3 DEF ArchiveWrite, Writes
  <2>4. ASSUME NEW r \in Slots, CreateWrite(r) \/ MoveWrite(r) PROVE Now BY <2>4 DEF Writes
  <2> HIDE DEF Now
  <2> QED BY <1>2, <2>1, <2>2, <2>3, <2>4 DEF PagesNext
<1>3. ASSUME RecipeNext PROVE Now
  <2>1. UNCHANGED treeVars BY <1>3 DEF RecipeNext, UseRecipe, CreateStart
  <2> QED BY <1>1, <2>1
<1>4. ASSUME NEW r \in Slots, Erase(r) PROVE Now
  BY <1>1, <1>4 DEF Erase, Writes
<1>5. ASSUME BuildNext PROVE Now
  BY <1>5 DEF BuildNext, Writes
<1> HIDE DEF Now
<1>6. Now BY <1>1, <1>2, <1>3, <1>4, <1>5 DEF Next, vars, treeVars
<1> QED BY <1>6 DEF Now

\* Ids are used once, and pages that stay keep their parent.
SameParents ==
  \A p \in Rows(page') : p \in Rows(page) /\ page'[p].parent = page[p].parent

LEMMA ArchiveParents ==
  ASSUME TypeOK, NEW r \in Slots, ArchiveWrite(r)
  PROVE  SameParents
<1> DEFINE S == req[r].pages \cap Rows(page)
           row(p) == [page[p] EXCEPT !.archived = req[r].archived]
<1>1. page' = [p \in Pages |-> IF p \in S THEN row(p) ELSE page[p]] /\ page \in Table(Pages, PageRow)
  BY DEF ArchiveWrite, TypeOK
<1>2. \A p \in Rows(page) : page[p] \in PageRow BY PageRows, TypeParts
<1>3. \A p \in S : row(p).parent = page[p].parent BY <1>2 DEF PageRow
<1>4. S \subseteq Rows(page) OBVIOUS
<1> HIDE DEF S, row
<1> QED BY <1>1, <1>3, <1>4 DEF SameParents, Rows, Table

LEMMA HandOverParents ==
  ASSUME TypeOK, NEW r \in Slots, HandOver(r)
  PROVE  SameParents
<1> DEFINE S == Handed(page, r)
           row(p) == [page[p] EXCEPT !.by = req[r].heir[page[p].ws]]
<1>1. page' = [p \in Pages |-> IF p \in S THEN row(p) ELSE page[p]] /\ page \in Table(Pages, PageRow)
  BY DEF HandOver, Given, TypeOK, Table
<1>2. \A p \in Rows(page) : page[p] \in PageRow BY PageRows, TypeParts
<1>3. S \subseteq Rows(page) BY DEF Handed
<1>4. \A p \in S : row(p).parent = page[p].parent BY <1>2, <1>3 DEF PageRow
<1> HIDE DEF S, row
<1> QED BY <1>1, <1>3, <1>4 DEF SameParents, Rows, Table

LEMMA EraseParents ==
  ASSUME TypeOK, NEW r \in Slots, EraseRow(r)
  PROVE  SameParents
<1>1. page \in Table(Pages, PageRow) /\ page' = Without(page, LostPages(req[r].by)) BY DEF TypeOK, EraseRow
<1> QED BY <1>1, WithoutIs DEF SameParents

\* A page is created with nothing under it.
LEMMA CreateParents ==
  ASSUME TypeOK, NEW r \in Slots, CreateWrite(r)
  PROVE  \E n \in Free(page) :
           /\ Rows(page') = Rows(page) \cup {n} /\ page'[n].parent \in Rows(page) \cup {None}
           /\ \A p \in Rows(page) : page'[p] = page[p]
<1> DEFINE n == CHOOSE x \in Free(page) : TRUE
           row == [ws |-> req[r].ws, by |-> req[r].by, parent |-> req[r].parent, archived |-> FALSE]
<1>1. n \in Free(page) BY DEF CreateWrite
<1>2. page' = [page EXCEPT ![n] = row] BY DEF CreateWrite
<1>3. req[r] \in Request /\ req[r].op = "page" BY DEF CreateWrite, TypeOK
<1>4. req[r].by \in Users /\ req[r].ws \in Workspaces /\ req[r].parent \in Pages \cup {None}
  BY <1>3, Carries
<1>5. row \in PageRow /\ row.parent = req[r].parent BY <1>4 DEF PageRow
<1>6. req[r].parent \in Rows(page) \cup {None} BY DEF CreateWrite
<1>7. TreeTyped BY TypeParts
<1> HIDE DEF n, row
<1> QED BY <1>1, <1>2, <1>5, <1>6, <1>7, PagesAdded

\* A page that is moved has its new parent.
LEMMA MoveParents ==
  ASSUME TypeOK, NEW r \in Slots, MoveWrite(r)
  PROVE  /\ req[r].page \in Rows(page) /\ Rows(page') = Rows(page) /\ page'[req[r].page].parent = req[r].to
         /\ \A p \in Rows(page) \ {req[r].page} : page'[p] = page[p]
<1> DEFINE p == req[r].page
           to == req[r].to
           row == [page[p] EXCEPT !.parent = to]
<1>1. p \in Rows(page) /\ to \in Rows(page) \cup {None} /\ page' = [page EXCEPT ![p].parent = to]
  BY DEF MoveWrite
<1>2. page[p] \in PageRow /\ TreeTyped BY <1>1, PageRows, TypeParts
<1>3. to \in Pages \cup {None} BY <1>1, PageRows, TypeParts
<1>4. row \in PageRow /\ row.ws = page[p].ws /\ row.parent = to BY <1>2, <1>3 DEF PageRow
<1>5. page' = [page EXCEPT ![p] = row] BY <1>1
<1> HIDE DEF row
<1>6. Rows(page') = Rows(page) /\ page'[p] = row /\ \A q \in Rows(page) \ {p} : page'[q] = page[q]
  BY <1>1, <1>2, <1>4, <1>5, PageSet
<1> QED BY <1>1, <1>4, <1>6

\* A copy has the parents of its shape, under new ids.
CopiedAs(s, m) ==
  /\ \A x, y \in DOMAIN s.pages : x # y => m[x] # m[y]
  /\ Rows(page') = Rows(page) \cup {m[x] : x \in DOMAIN s.pages}
  /\ \A p \in Rows(page) : page'[p] = page[p]
  /\ \A x \in DOMAIN s.pages :
       page'[m[x]].parent = IF s.pages[x] \in DOMAIN s.pages THEN m[s.pages[x]] ELSE None
  /\ raced \subseteq raced' /\ \A x \in DOMAIN s.pages : x \in s.late => m[x] \in raced'

LEMMA BuildParents ==
  ASSUME TypeOK, NEW r \in Slots, NEW w \in Workspaces, Build(r, w), NEW s, s = req[r].shape
  PROVE  s \in Shape /\ \E m \in [DOMAIN s.pages -> Free(page)] : CopiedAs(s, m)
<1>1. req[r].by \in Users /\ s \in Shape BY BuildIs, TypeParts
<1>2. PICK asPage \in [DOMAIN s.pages -> Free(page)], asBlock \in [DOMAIN s.blocks -> Free(block)],
           asTask \in [s.tasks -> Free(task)] :
        /\ \A x, y \in DOMAIN asPage : x # y => asPage[x] # asPage[y]
        /\ Built(r, w, asPage, asBlock, asTask)
  BY BuildIs, TypeParts
<1>3. page \in Table(Pages, PageRow) /\ None # Gone BY ContentAssumption DEF TypeOK
<1> DEFINE To(g, x) == IF x \in DOMAIN g THEN g[x] ELSE None
           row(x) == [ws |-> w, by |-> req[r].by, archived |-> FALSE, parent |-> To(asPage, s.pages[x])]
<1>4. /\ page' = [p \in Pages |-> IF {x \in DOMAIN asPage : asPage[x] = p} = {} THEN page[p] ELSE
           row(CHOOSE x \in {x \in DOMAIN asPage : asPage[x] = p} : TRUE)]
      /\ raced' = raced \cup {p \in Pages : {x \in DOMAIN asPage : asPage[x] = p} \cap s.late # {}}
  BY <1>2 DEF Built
<1>5. ASSUME NEW x \in DOMAIN s.pages
      PROVE  asPage[x] \in Pages /\ page[asPage[x]] = None /\ {y \in DOMAIN asPage : asPage[y] = asPage[x]} = {x}
  BY <1>2, <1>3 DEF Free, Table
<1>6. ASSUME NEW x \in DOMAIN s.pages
      PROVE  row(x) \in PageRow /\ row(x).parent = IF s.pages[x] \in DOMAIN s.pages THEN asPage[s.pages[x]] ELSE None
  <2>1. To(asPage, s.pages[x]) = IF s.pages[x] \in DOMAIN s.pages THEN asPage[s.pages[x]] ELSE None BY <1>2
  <2>2. To(asPage, s.pages[x]) \in Pages \cup {None} BY <1>5, <2>1
  <2> QED BY <1>1, <2>1, <2>2 DEF PageRow
<1>7. \A x \in DOMAIN s.pages : row(x) # None /\ row(x) # Gone BY <1>6, ContentAssumption
<1> HIDE DEF row, To
<1>8. /\ \A x \in DOMAIN s.pages : page'[asPage[x]] = row(x)
      /\ \A p \in Pages : (\A x \in DOMAIN s.pages : asPage[x] # p) => page'[p] = page[p]
  BY <1>2, <1>4, <1>5
<1>9. \A p \in Rows(page) : p \in Pages /\ \A x \in DOMAIN s.pages : asPage[x] # p
  BY <1>3, <1>5 DEF Rows, Table
<1>10. DOMAIN page' = Pages BY <1>4
<1>11. Rows(page') = Rows(page) \cup {asPage[x] : x \in DOMAIN s.pages}
  <2>1. ASSUME NEW p \in Rows(page') PROVE p \in Rows(page) \cup {asPage[x] : x \in DOMAIN s.pages}
    BY <1>3, <1>8, <1>10, <2>1 DEF Rows, Table
  <2>2. ASSUME NEW p \in Rows(page) PROVE p \in Rows(page')
    BY <1>8, <1>9, <1>10, <2>2 DEF Rows
  <2>3. ASSUME NEW x \in DOMAIN s.pages PROVE asPage[x] \in Rows(page')
    BY <1>5, <1>7, <1>8, <1>10, <2>3 DEF Rows
  <2> QED BY <2>1, <2>2, <2>3
<1>12. \A x \in DOMAIN s.pages : x \in s.late => asPage[x] \in raced'
  <2>1. ASSUME NEW x \in DOMAIN s.pages, x \in s.late PROVE asPage[x] \in raced'
    <3>1. x \in {y \in DOMAIN asPage : asPage[y] = asPage[x]} \cap s.late BY <1>2, <2>1
    <3> QED BY <1>4, <1>5, <3>1
  <2> QED BY <2>1
<1>13. raced \subseteq raced' BY <1>4
<1>14. CopiedAs(s, asPage) BY <1>2, <1>6, <1>8, <1>9, <1>11, <1>12, <1>13 DEF CopiedAs
<1>15. asPage \in [DOMAIN s.pages -> Free(page)] BY <1>2
<1> QED BY <1>1, <1>14, <1>15

\* Pages have ids of their own, and the parents of those there are.
LEMMA ParentsAre ==
  ASSUME TypeOK, TreesStayApart
  PROVE  /\ Rows(page) \subseteq Pages /\ None \notin Pages /\ \A n \in Free(page) : n \in Pages /\ n \notin Rows(page)
         /\ \A x \in Rows(page) : page[x].parent \in Rows(page) \cup {None}
BY PageRows, TypeParts, Halves, ContentAssumption DEF PagesApart, Rows, Free

\* Circles that are there after a step have one that was moved too late, or is a copy of one.
LEMMA StillCircles ==
  ASSUME CircleHas(Parents(page), raced), SameParents, raced' = raced
  PROVE  CircleHas(Parents(page'), raced')
<1> DEFINE g == Parents(page)
           h == Parents(page')
<1>1. DOMAIN h \subseteq DOMAIN g /\ \A x \in DOMAIN h : h[x] = g[x] BY DEF SameParents, Parents
<1> HIDE DEF g, h
<1>2. CircleHas(g, raced) => CircleHas(h, raced) BY <1>1, FewerCircles
<1> QED BY <1>2 DEF g, h

LEMMA CreateCircles ==
  ASSUME TypeOK, TreesStayApart, CircleHas(Parents(page), raced), NEW r \in Slots, CreateWrite(r)
  PROVE  CircleHas(Parents(page'), raced')
<1> DEFINE g == Parents(page)
           h == Parents(page')
<1>1. PICK n \in Free(page) :
        /\ Rows(page') = Rows(page) \cup {n} /\ page'[n].parent \in Rows(page) \cup {None}
        /\ \A p \in Rows(page) : page'[p] = page[p]
  BY CreateParents
<1>2. DOMAIN h = DOMAIN g \cup {n} /\ n \notin DOMAIN g /\ h[n] # n /\ \A x \in DOMAIN g : h[x] = g[x] /\ g[x] # n
  BY <1>1, ParentsAre DEF Parents
<1>3. raced' = raced BY DEF CreateWrite
<1> HIDE DEF g, h
<1>4. CircleHas(g, raced) => CircleHas(h, raced) BY <1>2, LeafAdded
<1> QED BY <1>3, <1>4 DEF g, h

LEMMA MoveCircles ==
  ASSUME TypeOK, TreesStayApart, CircleHas(Parents(page), raced), NEW r \in Slots, MoveWrite(r), Checked(req[r], page)
  PROVE  CircleHas(Parents(page'), raced')
<1> DEFINE g == Parents(page)
           h == Parents(page')
           n == req[r].page
<1>1. /\ n \in Rows(page) /\ Rows(page') = Rows(page) /\ page'[n].parent = req[r].to
      /\ \A p \in Rows(page) \ {n} : page'[p] = page[p]
  BY MoveParents
<1>2. n \in DOMAIN g /\ DOMAIN h = DOMAIN g /\ h[n] = req[r].to /\ \A x \in DOMAIN g \ {n} : h[x] = g[x]
  BY <1>1 DEF Parents
<1>3. raced' = IF req[r].late THEN raced \cup {n} ELSE raced \ {n} BY DEF MoveWrite
<1>4. req[r].late \in BOOLEAN /\ req[r].op = "move"
  <2>1. req[r] \in MoveRequest BY Carries DEF TypeOK, MoveWrite
  <2> QED BY <2>1 DEF MoveRequest
<1>5. n \in raced' \/ (h[n] \notin Down(g, n) /\ h[n] # n)
  <2>1. CASE req[r].late BY <1>3, <2>1
  <2>2. CASE ~req[r].late BY <1>1, <1>2, <1>4, <2>2 DEF Checked
  <2> QED BY <1>4, <2>1, <2>2
<1>6. raced \subseteq raced' \cup {n} BY <1>3
<1> HIDE DEF g, h, n
<1>7. CircleHas(g, raced) => CircleHas(h, raced') BY <1>2, <1>5, <1>6, OneMoved
<1> QED BY <1>7 DEF g, h

LEMMA BuildCircles ==
  ASSUME TypeOK, TreesStayApart, CircleHas(Parents(page), raced), NEW r \in Slots, NEW w \in Workspaces, Build(r, w),
         ShapeCircles(req[r].shape)
  PROVE  CircleHas(Parents(page'), raced')
<1> DEFINE g == Parents(page)
           h == Parents(page')
<1>1. PICK s : s = req[r].shape OBVIOUS
<1>2. PICK m \in [DOMAIN s.pages -> Free(page)] : CopiedAs(s, m) BY <1>1, BuildParents
<1>3. /\ DOMAIN h = DOMAIN g \cup {m[x] : x \in DOMAIN s.pages} /\ None \notin DOMAIN h
      /\ \A x \in DOMAIN g : h[x] = g[x] /\ g[x] \in DOMAIN g \cup {None}
      /\ \A x \in DOMAIN s.pages :
           h[m[x]] = (IF s.pages[x] \in DOMAIN s.pages THEN m[s.pages[x]] ELSE None) /\ m[x] \notin DOMAIN g /\ m[x] # None
  <2>1. None \notin Rows(page) /\ \A x \in DOMAIN s.pages : m[x] \in Free(page) /\ m[x] # None /\ m[x] \notin Rows(page)
    BY <1>2, ParentsAre
  <2> QED BY <1>2, <2>1, ParentsAre DEF Parents, CopiedAs
<1>4. CircleHas(s.pages, s.late) BY <1>1 DEF ShapeCircles
<1> HIDE DEF g, h
<1>5. ASSUME NEW p \in DOMAIN g
      PROVE  /\ \A x \in Down(h, p) : p \in Down(h, x) => x \in DOMAIN g /\ g[x] = h[x]
             /\ \A q \in raced : q \in Down(h, p) /\ p \in Down(h, q) => q \in raced'
  <2>1. Closed(h, p, DOMAIN g) BY <1>3, <1>5 DEF Closed
  <2>2. Down(h, p) \subseteq DOMAIN g BY <2>1, DownIn
  <2> QED BY <1>2, <1>3, <2>2 DEF CopiedAs
<1>6. ASSUME NEW y \in DOMAIN s.pages, m[y] \in Down(h, m[y])
      PROVE  \E q \in raced' : q \in Down(h, m[y]) /\ m[y] \in Down(h, q)
  <2>0. PICK f : f = s.pages OBVIOUS
  <2>1. CarriesOver(f, h, m) BY <1>2, <1>3, <2>0 DEF CopiedAs, CarriesOver
  <2>2. ASSUME NEW q \in DOMAIN f PROVE \A x : x \in Down(h, m[q]) <=> \E z \in Down(f, q) : x = m[z]
    BY <2>1, CarriedOver
  <2>3. y \in Down(f, y)
    <3>1. PICK z \in Down(f, y) : m[y] = m[z] BY <1>6, <2>0, <2>2
    <3>2. z \in DOMAIN f BY <3>1, DownClosed
    <3> QED BY <2>0, <2>1, <3>1, <3>2 DEF CarriesOver
  <2>4. PICK q \in s.late : q \in Down(f, y) /\ y \in Down(f, q) BY <1>4, <2>0, <2>3 DEF CircleHas
  <2>5. q \in DOMAIN f BY <2>4, DownClosed
  <2>6. m[q] \in Down(h, m[y]) /\ m[y] \in Down(h, m[q]) BY <2>0, <2>2, <2>4, <2>5
  <2>7. m[q] \in raced' BY <1>2, <2>0, <2>4, <2>5 DEF CopiedAs
  <2> QED BY <2>6, <2>7
<1>7. ASSUME NEW p \in DOMAIN h, p \in Down(h, p)
      PROVE  \/ \E q \in raced' : q \in Down(h, p) /\ p \in Down(h, q)
             \/ /\ \A x \in Down(h, p) : p \in Down(h, x) => x \in DOMAIN g /\ g[x] = h[x]
                /\ \A q \in raced : q \in Down(h, p) /\ p \in Down(h, q) => q \in raced'
  BY <1>3, <1>5, <1>6, <1>7
<1>8. CircleHas(g, raced) => CircleHas(h, raced') BY <1>7, CirclesKept
<1> QED BY <1>8 DEF g, h

LEMMA CirclesStep ==
  ASSUME TypeOK, TreesStayApart, CircleInv, [Next]_vars
  PROVE  CircleHas(Parents(page'), raced')
<1>1. CircleHas(Parents(page), raced) /\ \A r \in Slots : Checked(req[r], page) BY DEF CircleInv
<1>2. CASE page' = page /\ raced' = raced BY <1>1, <1>2
<1>3. ASSUME NEW r \in Slots, Writes(r) PROVE CircleHas(Parents(page'), raced')
  <2>1. CASE CreateWrite(r) BY <1>1, <2>1, CreateCircles
  <2>2. CASE MoveWrite(r) BY <1>1, <2>2, MoveCircles
  <2>3. CASE (ArchiveWrite(r) \/ HandOver(r) \/ EraseRow(r)) /\ raced' = raced
    <3>1. SameParents BY <2>3, ArchiveParents, HandOverParents, EraseParents
    <3> QED BY <1>1, <2>3, <3>1, StillCircles
  <2>4. ASSUME NEW w \in Workspaces, Build(r, w) PROVE CircleHas(Parents(page'), raced')
    <3>1. ShapeCircles(req[r].shape) BY <2>4 DEF CircleInv, Build
    <3> QED BY <1>1, <2>4, <3>1, BuildCircles
  <2> QED BY <1>3, <2>1, <2>2, <2>3, <2>4 DEF Writes
<1> QED BY <1>2, <1>3, PageSteps

\* What comes below a page is new, unless something is moved.
LEMMA DownGrows ==
  ASSUME NEW g, NEW h, NEW N, NEW p, p \notin N, DOMAIN h \subseteq DOMAIN g \cup N,
         \A x \in DOMAIN h \ N : h[x] = g[x] /\ g[x] \notin N
  PROVE  Down(h, p) \subseteq Down(g, p) \cup N
<1> DEFINE C == Down(g, p) \cup N
<1>1. ASSUME NEW x \in DOMAIN h, h[x] \in C \cup {p} PROVE x \in C
  <2>1. CASE x \in N BY <2>1
  <2>2. CASE x \notin N
    <3>1. x \in DOMAIN g /\ h[x] = g[x] /\ g[x] \notin N BY <1>1, <2>2
    <3>2. g[x] \in Down(g, p) \cup {p} BY <1>1, <3>1
    <3> QED BY <3>1, <3>2, DownClosed DEF Closed
  <2> QED BY <2>1, <2>2
<1>2. Closed(h, p, C) BY <1>1 DEF Closed
<1> QED BY <1>2, DownIn

\* New pages have new ids.
NewOnes ==
  \A p \in Rows(page') : p \in Free(page) \/ (p \in Rows(page) /\ page'[p].parent = page[p].parent)

LEMMA NewOnesOnly ==
  ASSUME TypeOK, [Next]_vars, \A r \in Slots : ~MoveWrite(r)
  PROVE  NewOnes
<1>1. CASE page' = page BY <1>1 DEF NewOnes
<1>2. ASSUME NEW r \in Slots, Writes(r) PROVE NewOnes
  <2>1. CASE CreateWrite(r)
    <3>1. PICK n \in Free(page) : Rows(page') = Rows(page) \cup {n} /\ \A p \in Rows(page) : page'[p] = page[p]
      BY <2>1, CreateParents
    <3> QED BY <3>1 DEF NewOnes
  <2>2. CASE (ArchiveWrite(r) \/ HandOver(r) \/ EraseRow(r)) /\ raced' = raced
    <3>1. SameParents BY <2>2, ArchiveParents, HandOverParents, EraseParents
    <3> QED BY <3>1 DEF NewOnes, SameParents
  <2>3. ASSUME NEW w \in Workspaces, Build(r, w) PROVE NewOnes
    <3>1. PICK s : s = req[r].shape OBVIOUS
    <3>2. PICK m \in [DOMAIN s.pages -> Free(page)] : CopiedAs(s, m) BY <2>3, <3>1, BuildParents
    <3> QED BY <3>2 DEF NewOnes, CopiedAs
  <2> QED BY <1>2, <2>1, <2>2, <2>3 DEF Writes
<1> QED BY <1>1, <1>2, PageSteps

\* And so what was checked of a move goes on holding.
LEMMA StillChecked ==
  ASSUME TypeOK, TreesStayApart, NewOnes, NEW q \in Request, Linked(q, page, block), Checked(q, page)
  PROVE  Checked(q, page')
<1> SUFFICES ASSUME q.op = "move", ~q.late, q.page \in Rows(page')
             PROVE  q.to # q.page /\ q.to \notin Down(Parents(page'), q.page)
  BY DEF Checked
<1> DEFINE g == Parents(page)
           h == Parents(page')
<1>1. page[q.page] # None /\ (q.to # None => page[q.to] # None) BY DEF Linked
<1>2. q.page \notin Free(page) /\ q.to \notin Free(page) BY <1>1, ParentsAre DEF Free
<1>3. q.page \in Rows(page) BY <1>2 DEF NewOnes
<1>4. q.to # q.page /\ q.to \notin Down(g, q.page) BY <1>3 DEF Checked
<1>5. DOMAIN h \subseteq DOMAIN g \cup Free(page) /\ \A x \in DOMAIN h \ Free(page) : h[x] = g[x] /\ g[x] \notin Free(page)
  BY ParentsAre DEF NewOnes, Parents
<1> HIDE DEF g, h
<1>6. Down(h, q.page) \subseteq Down(g, q.page) \cup Free(page) BY <1>2, <1>5, DownGrows
<1> QED BY <1>2, <1>4, <1>6 DEF h

LEMMA CheckedStep ==
  ASSUME TypeOK, TreeInv, CircleInv, [Next]_vars, NEW q \in Slots
  PROVE  Checked(req'[q], page')
<1> SUFFICES ASSUME req'[q].op = "move", ~req'[q].late PROVE Checked(req'[q], page')
  BY DEF Checked
<1>0. req \in [Slots -> Request] /\ req[q] \in Request BY DEF TypeOK
<1>1. ASSUME req[q].op = "move", req'[q] = [req[q] EXCEPT !.late = TRUE] PROVE FALSE
  <2>1. req[q] \in MoveRequest BY <1>0, <1>1, Carries
  <2> QED BY <1>1, <2>1 DEF MoveRequest
<1>2. \A r \in Slots : ~MoveWrite(r)
  <2>1. ASSUME NEW r \in Slots, MoveWrite(r) PROVE FALSE
    <3>1. req'[q] = IF q = r THEN Idle ELSE IF req[q].op = "move" THEN [req[q] EXCEPT !.late = TRUE] ELSE req[q]
      BY <2>1 DEF MoveWrite
    <3> QED BY <1>1, <3>1 DEF Idle
  <2> QED BY <2>1
<1>3. CASE Quiet(q)
  <2>1. NewOnes BY <1>2, NewOnesOnly
  <2>2. Linked(req[q], page, block) /\ Checked(req[q], page) /\ TreesStayApart BY DEF TreeInv, LinkedNow, CircleInv
  <2> QED BY <1>0, <1>3, <2>1, <2>2, StillChecked DEF Quiet
<1>4. ASSUME Moving(q) PROVE Checked(req'[q], page')
  <2>1. PICK u \in Users, p \in Pages, to \in Pages \cup {None} : MoveStart(q, u, p, to) BY <1>4 DEF Moving
  <2>2. page' = page /\ req'[q] = [op |-> "move", page |-> p, to |-> to, late |-> FALSE]
    BY <1>0, <2>1 DEF MoveStart, Begin, treeVars
  <2>3. to # None => to # p /\ to \notin Descendants(p) BY <2>1 DEF MoveStart
  <2>4. to # p /\ to \notin Descendants(p)
    BY <2>3, DescendantsArePages, ParentsAre, TypeParts DEF TreeInv
  <2>5. Descendants(p) = Down(Parents(page), p) BY UnderIsDown DEF Descendants
  <2> QED BY <2>2, <2>4, <2>5 DEF Checked
<1>5. ~Filing(q) BY <1>0 DEF Filing, UploadSave, TaskRemoveStart, Begin, Goes
<1>6. ~Copying(q)
  <2>1. ASSUME Read(q) PROVE FALSE
    <3>1. req[q].next \in {"copy", "save"} BY <1>0, <2>1, Carries DEF Read
    <3> QED BY <1>0, <2>1, <3>1 DEF Read, Goes
  <2>2. ASSUME NEW u, NEW x, NEW parts, UseStart(q, u, x, parts) PROVE FALSE
    BY <1>0, <2>2 DEF UseStart, Begin
  <2> QED BY <2>1, <2>2 DEF Copying
<1>7. ~Overtaken(q) BY <1>1 DEF Overtaken
<1>8. ~Leaving(q) BY <1>0 DEF Leaving, LeaveStart, Begin
<1> QED BY <1>3, <1>4, <1>5, <1>6, <1>7, <1>8, HandlingTurns DEF Handling, Taking

\* A snapshot has circles only of pages that had them, and says which were moved too late.
LEMMA CollectCircles ==
  ASSUME TypeOK, TreesStayApart, CircleHas(Parents(page), raced), NEW w, NEW parts
  PROVE  ShapeCircles(Collect(w, parts))
<1> DEFINE g == Parents(page)
           pages == {p \in Live : "pages" \in parts /\ page[p].ws = w}
           h == [p \in pages |-> IF page[p].parent \in pages THEN page[p].parent ELSE None]
           L == raced \cap pages
<1>1. pages \subseteq Rows(page) /\ None \notin pages BY ParentsAre DEF Live
<1>2. \A x \in pages : x \in DOMAIN g /\ (h[x] \in pages => g[x] = h[x]) BY <1>1 DEF Parents
<1>3. DOMAIN h = pages OBVIOUS
<1>4. Collect(w, parts).pages = h /\ Collect(w, parts).late = L BY DEF Collect
<1> HIDE DEF g, h, pages
<1>5. ASSUME NEW p \in DOMAIN h, p \in Down(h, p)
      PROVE  /\ \A x \in Down(h, p) : p \in Down(h, x) => x \in DOMAIN g /\ g[x] = h[x]
             /\ \A q \in raced : q \in Down(h, p) /\ p \in Down(h, q) => q \in L
  <2>1. Down(h, p) \subseteq pages BY <1>3, DownClosed
  <2>2. \A x \in Down(h, p) : h[x] \in pages BY <1>3, <1>5, <2>1, DownTurns
  <2> QED BY <1>2, <2>1, <2>2
<1>6. CircleHas(g, raced) => CircleHas(h, L) BY <1>5, CirclesKept
<1>7. CircleHas(h, L) BY <1>6 DEF g
<1> QED BY <1>4, <1>7 DEF ShapeCircles

LEMMA OnlyCircles ==
  ASSUME NEW shape, ShapeCircles(shape), NEW parts
  PROVE  ShapeCircles(Only(shape, parts))
<1>1. Only(shape, parts).late = shape.late BY DEF Only
<1>2. CASE "pages" \in parts
  <2>1. Only(shape, parts).pages = shape.pages BY <1>2 DEF Only
  <2> QED BY <1>1, <2>1 DEF ShapeCircles
<1>3. CASE "pages" \notin parts
  <2>1. DOMAIN Only(shape, parts).pages = {} BY <1>3 DEF Only
  <2> QED BY <2>1 DEF ShapeCircles, CircleHas
<1> QED BY <1>2, <1>3

\* What a copy or a template in the making carries comes from a snapshot.
LEMMA ShapeStep ==
  ASSUME TypeOK, TreesStayApart, CircleInv, [Next]_vars, NEW q \in Slots, req'[q].op \in {"copy", "save"}
  PROVE  ShapeCircles(req'[q].shape)
<1>0. req \in [Slots -> Request] /\ req[q] \in Request BY DEF TypeOK
<1>1. CASE Quiet(q) BY <1>1 DEF Quiet, CircleInv
<1>2. ASSUME Read(q) PROVE ShapeCircles(req'[q].shape)
  <2>1. req'[q].shape = Collect(req[q].ws, req[q].parts) BY <1>0, <1>2 DEF Read, Goes
  <2> QED BY <2>1, CollectCircles DEF CircleInv
<1>3. ASSUME NEW u, NEW x, NEW parts, UseStart(q, u, x, parts) PROVE ShapeCircles(req'[q].shape)
  <2>1. x \in Rows(saved) /\ req'[q].shape = Only(saved[x].shape, parts)
    BY <1>0, <1>3 DEF UseStart, Begin, SavedBy
  <2> QED BY <2>1, OnlyCircles DEF CircleInv
<1>4. ~Filing(q) BY <1>0 DEF Filing, UploadSave, TaskRemoveStart, Begin, Goes
<1>5. ~Moving(q) BY <1>0 DEF Moving, MoveStart, Begin
<1>6. ASSUME Overtaken(q) PROVE FALSE
  <2>1. req[q] \in MoveRequest BY <1>0, <1>6, Carries DEF Overtaken
  <2> QED BY <1>6, <2>1 DEF Overtaken, MoveRequest
<1>7. ~Leaving(q) BY <1>0 DEF Leaving, LeaveStart, Begin
<1> QED BY <1>1, <1>2, <1>3, <1>4, <1>5, <1>6, <1>7, HandlingTurns DEF Handling, Taking, Copying

\* A template that is saved stays as it was made.
LEMMA SavedTurns ==
  ASSUME TypeOK, [Next]_vars, NEW x \in Rows(saved')
  PROVE  \/ x \in Rows(saved) /\ saved'[x] = saved[x]
         \/ \E r \in Slots : req[r].op = "save" /\ saved'[x].shape = req[r].shape
<1> DEFINE Now == \/ x \in Rows(saved) /\ saved'[x] = saved[x]
                  \/ \E r \in Slots : req[r].op = "save" /\ saved'[x].shape = req[r].shape
<1>0. saved \in Table(Templates, SavedRow) BY DEF TypeOK
<1>1. CASE saved' = saved BY <1>1
<1>2. ASSUME NEW r \in Slots, NEW y \in Templates, Save(r, y) PROVE Now
  <2>1. saved' = [saved EXCEPT ![y] = [by |-> req[r].by, shape |-> req[r].shape]] /\ req[r].op = "save"
    BY <1>2 DEF Save
  <2>2. CASE x = y BY <1>0, <2>1, <2>2 DEF Table
  <2>3. CASE x # y BY <1>0, <2>1, <2>3 DEF Rows, Table
  <2> QED BY <2>2, <2>3
<1>3. ASSUME NEW u, NEW y \in Templates, RemoveTemplate(u, y) PROVE Now
  <2>1. saved' = [saved EXCEPT ![y] = Gone] BY <1>3 DEF RemoveTemplate
  <2> QED BY <1>0, <2>1 DEF Rows, Table
<1>4. ASSUME NEW r \in Slots, EraseRow(r) PROVE Now
  <2>1. PICK S : saved' = Without(saved, S) BY <1>4 DEF EraseRow
  <2> QED BY <1>0, <2>1, WithoutIs
<1>5. ASSUME UNCHANGED libVars PROVE saved' = saved BY <1>5 DEF libVars
<1>6. ASSUME LibraryNext PROVE Now
  <2>1. ASSUME NEW r \in Slots, NEW u \in Users, LibraryStarts(r, u) PROVE saved' = saved
    BY <2>1 DEF LibraryStarts, DuplicateStart, SaveStart, UseStart, libVars
  <2>2. ASSUME NEW r \in Slots, Read(r) PROVE saved' = saved BY <2>2 DEF Read, libVars
  <2> HIDE DEF Now
  <2>3. saved' = saved => Now BY <1>1 DEF Now
  <2> QED BY <1>2, <1>3, <1>6, <2>1, <2>2, <2>3 DEF LibraryNext, SaveRecipe, RemoveRecipe
<1>7. ASSUME BuildNext \/ RecipeNext PROVE saved' = saved
  BY <1>7 DEF BuildNext, Build, RecipeNext, UseRecipe, libVars
<1>8. ASSUME NEW r \in Slots, Erase(r) PROVE Now
  BY <1>1, <1>4, <1>5, <1>8 DEF Erase
<1> HIDE DEF Now
<1>9. saved' = saved => Now BY <1>1 DEF Now
<1>10. Now BY <1>5, <1>6, <1>7, <1>8, <1>9 DEF Next, vars
<1> QED BY <1>10 DEF Now

LEMMA CircleStep ==
  ASSUME TypeOK, TreeInv, CircleInv, [Next]_vars
  PROVE  CircleInv'
<1>0. TreesStayApart BY DEF TreeInv
<1>1. CircleHas(Parents(page'), raced') BY <1>0, CirclesStep
<1>2. \A q \in Slots : Checked(req'[q], page') BY CheckedStep
<1>3. \A q \in Slots : req'[q].op \in {"copy", "save"} => ShapeCircles(req'[q].shape) BY <1>0, ShapeStep
<1>4. ASSUME NEW x \in Rows(saved') PROVE ShapeCircles(saved'[x].shape)
  BY SavedTurns DEF CircleInv
<1> QED BY <1>1, <1>2, <1>3, <1>4 DEF CircleInv

LEMMA CircleInit == Init => CircleInv
<1> SUFFICES ASSUME Init PROVE CircleInv OBVIOUS
<1>1. page = Start.page /\ raced = {p \in Rows(page) : p \in Under(page, p)} BY DEF Init
<1>2. raced = {p \in DOMAIN Parents(page) : p \in Down(Parents(page), p)}
  BY <1>1, UnderIsDown DEF Parents
<1>3. CircleHas(Parents(page), raced) BY <1>2 DEF CircleHas
<1>4. \A r \in Slots : req[r].op = "none" BY DEF Init, Idle
<1>5. Rows(saved) = {} BY DEF Init, Rows
<1> QED BY <1>3, <1>4, <1>5 DEF CircleInv, Checked

\* A page under itself was moved there by one of several moves at once, each of which had been checked before another was
\* written, or is a copy of such a page, or was there at first (page.service.js 84-117 and workspaceCopy.service.js 97-104).
THEOREM CirclesNeedOverlaps == Spec => []CyclesNeedOverlap
<1>1. Init => TypeOK /\ TreeInv /\ CircleInv
  <2>1. Init => TreeInv
    BY StartAssumption DEF Init, TreeInv, TreesStayApart, LinkedNow, Linked, Idle, SavedApart, Rows
  <2> QED BY <2>1, TypeInit, CircleInit
<1>2. TypeOK /\ TreeInv /\ CircleInv /\ [Next]_vars => (TypeOK /\ TreeInv /\ CircleInv)'
  BY TypeStep, TreeStep, CircleStep
<1>3. CircleInv => CyclesNeedOverlap BY CirclesAre DEF CircleInv
<1> QED BY <1>1, <1>2, <1>3, PTL DEF Spec
=============================================================================
