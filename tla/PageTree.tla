------------------------------- MODULE PageTree -------------------------------
(* Pages, nested by parentId, and their blocks, nested under toggles. A request   *)
(* checks in one step and writes in another. Titles, contents and positions are   *)
(* left out.                                                                      *)
EXTENDS Spaces

CONSTANTS
  Pages,
  Blocks

VARIABLES
  page,    \* page[p]: its row, None or Gone
  block,   \* block[b]: its row, None or Gone
  \* History:
  raced    \* pages whose last move was checked before another move was written, and copies of them

treeVars == <<page, block, raced>>

PageRow ==
  [ws : Workspaces \cup {None}, by : Users, parent : Pages \cup {None}, archived : BOOLEAN]
BlockRow == [page : Pages, parent : Blocks \cup {None}]

MoveRequest == [op : {"move"}, page : Pages, to : Pages \cup {None}, late : BOOLEAN]
PageRequests ==
  [op : {"page"}, by : Users, ws : Workspaces, parent : Pages \cup {None}, fill : Nat]
  \cup [op : {"fill"}, page : Pages, fill : Nat]
  \cup MoveRequest
  \cup [op : {"archive"}, pages : SUBSET Pages, archived : BOOLEAN]
BlockRequests ==
  [op : {"block"}, page : Pages, parent : Blocks \cup {None}]
  \cup [op : {"nest"}, block : Blocks, to : Blocks \cup {None}]
  \cup [op : {"drop"}, block : Blocks]

\* The rows of S and every row under them: the query goes up to 1000 levels deep.
WithChildren(f, S) == {C \in SUBSET Rows(f) : S \cap Rows(f) \subseteq C /\ \A x \in Rows(f) : f[x].parent \in C => x \in C}
Below(f, S) == LET closed == WithChildren(f, S) IN {x \in Rows(f) : \A C \in closed : x \in C}

\* collectDescendantIds. In a cycle a page is its own descendant.
Under(f, p) == Below(f, {x \in Rows(f) : f[x].parent = p})
Descendants(p) == Under(page, p)

Writable(p, u) == p \in Rows(page) /\ MayUse(page[p], u, "write")
ParentUsable(q, w, u) == Writable(q, u) /\ page[q].ws = w

-----------------------------------------------------------------------------
\* What the lists and the search return.
Live == {p \in Rows(page) : ~page[p].archived}

\* With a workspace; which of one's workspaces also lists one's pages of no workspace is left out.
Listed(u, w) ==
  {p \in Live : CanAccess(w, u, "read") /\ (page[p].ws = w \/ (page[p].by = u /\ page[p].ws = None))}
OwnPages(u) == {p \in Live : OwnReachable(page[p], u)}
Found(u) == LET mine == Mine(u) IN {p \in Live : (page[p].by = u /\ page[p].ws = None) \/ page[p].ws \in mine}

-----------------------------------------------------------------------------
\* Creating in a named workspace. With none named it is the first of Mine(u), after ListStart.
\* fill: how many blocks of a template follow the page.
CreateStart(r, u, w, q, fill) ==
  /\ Begin(r, u, [op |-> "page", by |-> u, ws |-> w, parent |-> q, fill |-> fill])
  /\ CanAccess(w, u, "write")
  /\ q # None => ParentUsable(q, w, u)
  /\ UNCHANGED treeVars

CreateWrite(r) ==
  /\ req[r].op = "page" /\ Free(page) # {}
  /\ account[req[r].by] /\ Exists(req[r].ws) /\ req[r].parent \in Rows(page) \cup {None}
  /\ LET p == CHOOSE x \in Free(page) : TRUE IN
       /\ page' = [page EXCEPT ![p] =
            [ws |-> req[r].ws, by |-> req[r].by, parent |-> req[r].parent, archived |-> FALSE]]
       /\ req' = Noting({p}, [req EXCEPT ![r] =
            IF req[r].fill = 0 THEN Idle ELSE [op |-> "fill", page |-> p, fill |-> req[r].fill]])
  /\ UNCHANGED <<calls, block, raced>>

FreeSets(n) == {S \in SUBSET Free(block) : Cardinality(S) = n}

\* template.use: the blocks are created after the page, in a call of their own.
Fill(r) ==
  /\ req[r].op = "fill" /\ req[r].page \in Rows(page) /\ FreeSets(req[r].fill) # {}
  /\ LET new == CHOOSE S \in FreeSets(req[r].fill) : TRUE IN
       block' = [b \in Blocks |-> IF b \in new THEN [page |-> req[r].page, parent |-> None] ELSE block[b]]
  /\ Ends(r)
  /\ UNCHANGED <<page, raced>>

\* Seeded fault: only the page itself is refused as the new parent.
MoveStartAnywhere(r, u, p, q) ==
  /\ Begin(r, u, [op |-> "move", page |-> p, to |-> q, late |-> FALSE])
  /\ Writable(p, u)
  /\ q # None => q # p /\ ParentUsable(q, page[p].ws, u)
  /\ UNCHANGED treeVars

\* update with a parentId.
MoveStart(r, u, p, q) ==
  /\ Begin(r, u, [op |-> "move", page |-> p, to |-> q, late |-> FALSE])
  /\ Writable(p, u)
  /\ q # None => q # p /\ ParentUsable(q, page[p].ws, u) /\ q \notin Descendants(p)
  /\ UNCHANGED treeVars

MoveWrite(r) ==
  /\ req[r].op = "move" /\ req[r].page \in Rows(page) /\ req[r].to \in Rows(page) \cup {None}
  /\ page' = [page EXCEPT ![req[r].page].parent = req[r].to]
  /\ raced' = IF req[r].late THEN raced \cup {req[r].page} ELSE raced \ {req[r].page}
  /\ req' = [q \in Slots |->
       IF q = r THEN Idle ELSE IF req[q].op = "move" THEN [req[q] EXCEPT !.late = TRUE] ELSE req[q]]
  /\ UNCHANGED <<calls, block>>

\* remove archives what is below the page as well; update with archived, the page alone.
ArchiveStart(r, u, p) ==
  /\ Begin(r, u, [op |-> "archive", pages |-> Descendants(p) \cup {p}, archived |-> TRUE])
  /\ Writable(p, u)
  /\ UNCHANGED treeVars

FlagStart(r, u, p, archived) ==
  /\ Begin(r, u, [op |-> "archive", pages |-> {p}, archived |-> archived])
  /\ Writable(p, u)
  /\ UNCHANGED treeVars

ArchiveWrite(r) ==
  /\ req[r].op = "archive"
  /\ page' = [p \in Pages |->
       IF p \in req[r].pages \cap Rows(page) THEN [page[p] EXCEPT !.archived = req[r].archived] ELSE page[p]]
  /\ Ends(r)
  /\ UNCHANGED <<block, raced>>

-----------------------------------------------------------------------------
\* assertParentBlockOnPage.
OnPage(b, p) == b # None => b \in Rows(block) /\ block[b].page = p

BlockStart(r, u, p, b) ==
  /\ Begin(r, u, [op |-> "block", page |-> p, parent |-> b])
  /\ Writable(p, u) /\ OnPage(b, p)
  /\ UNCHANGED treeVars

BlockWrite(r) ==
  /\ req[r].op = "block" /\ Free(block) # {}
  /\ req[r].page \in Rows(page) /\ req[r].parent \in Rows(block) \cup {None}
  /\ block' = [block EXCEPT ![CHOOSE x \in Free(block) : TRUE] = [page |-> req[r].page, parent |-> req[r].parent]]
  /\ Ends(r)
  /\ UNCHANGED <<page, raced>>

\* update with a parentBlockId. A block is refused as its own parent, and nothing deeper is looked for.
NestStart(r, u, b, to) ==
  /\ Begin(r, u, [op |-> "nest", block |-> b, to |-> to])
  /\ b \in Rows(block) /\ Writable(block[b].page, u)
  /\ to # b /\ OnPage(to, block[b].page)
  /\ UNCHANGED treeVars

NestWrite(r) ==
  /\ req[r].op = "nest" /\ req[r].block \in Rows(block) /\ req[r].to \in Rows(block) \cup {None}
  /\ block' = [block EXCEPT ![req[r].block].parent = req[r].to]
  /\ Ends(r)
  /\ UNCHANGED <<page, raced>>

DropStart(r, u, b) ==
  /\ Begin(r, u, [op |-> "drop", block |-> b])
  /\ b \in Rows(block) /\ Writable(block[b].page, u)
  /\ UNCHANGED treeVars

\* The blocks under it go with it.
DropWrite(r) ==
  /\ req[r].op = "drop" /\ req[r].block \in Rows(block)
  /\ block' = [b \in Blocks |-> IF b \in Below(block, {req[r].block}) THEN Gone ELSE block[b]]
  /\ Ends(r)
  /\ UNCHANGED <<page, raced>>

PageStarts(r, u) ==
  \/ \E p \in Pages :
       \/ \E q \in Pages \cup {None} : MoveStart(r, u, p, q)
       \/ ArchiveStart(r, u, p)
       \/ \E archived \in BOOLEAN : FlagStart(r, u, p, archived)
       \/ \E b \in Blocks \cup {None} : BlockStart(r, u, p, b)
  \/ \E w \in Workspaces, q \in Pages \cup {None} : CreateStart(r, u, w, q, 0)
  \/ \E b \in Blocks :
       \/ \E to \in Blocks \cup {None} : NestStart(r, u, b, to)
       \/ DropStart(r, u, b)

PagesNext ==
  \E r \in Slots :
    \/ Open(r) /\ \E u \in Users : PageStarts(r, u)
    \/ CreateWrite(r) \/ Fill(r) \/ MoveWrite(r) \/ ArchiveWrite(r)
    \/ BlockWrite(r) \/ NestWrite(r) \/ DropWrite(r)

-----------------------------------------------------------------------------
Apart(pages, blocks) ==
  /\ \A p \in Rows(pages) : pages[p].parent # None =>
       pages[p].parent \in Rows(pages) /\ pages[pages[p].parent].ws = pages[p].ws
  /\ \A b \in Rows(blocks) :
       /\ blocks[b].page \in Rows(pages)
       /\ blocks[b].parent # None =>
            blocks[b].parent \in Rows(blocks) /\ blocks[blocks[b].parent].page = blocks[b].page

\* A page hangs under a page of its own workspace that is there, and a block under a block of its own
\* page, through moves, copies, templates and deletions (page.service.js 39-47, block.service.js 22-33,
\* workspaceCopy.service.js 97-104, the cascades of the schema).
TreesStayApart == Apart(page, block)

\* Pages in a circle come only from moves that overlapped: one page of the circle was moved by a
\* request that had checked before another move was written, or is a copy of such a page (page.service.js
\* 102-117, 147-151, workspaceCopy.service.js 78-98, 174-187).
CyclesNeedOverlap ==
  \A p \in Rows(page) : p \in Descendants(p) =>
    \E q \in raced : q \in Descendants(p) /\ p \in Descendants(q)
=============================================================================
