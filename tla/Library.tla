-------------------------------- MODULE Library -------------------------------
(* Copies of a client: read one workspace into a shape, build another from it at *)
(* once or from a saved client template; and templates of single pages. Dates,    *)
(* wording, milestones and subtasks are left out.                                 *)
EXTENDS PageTree, Attachments

CONSTANTS
  Templates,      \* ids of client templates
  MaxTemplates,   \* MAX_TEMPLATES
  BuiltIn         \* how many blocks each page template has that ships with the app

VARIABLES
  saved,      \* saved[x]: a client template, None or Gone
  recipes     \* recipes[u]: how many blocks each page template of u has

libVars == <<saved, recipes>>

Parts == {"pages", "tasks"}

\* Rows without their workspace, named by the ids they had; blocks come with their page.
\* late: those of its pages that had raced (history).
Partly(S, T) == UNION {[U -> T] : U \in SUBSET S}
Shape ==
  {s \in [pages : Partly(Pages, Pages \cup {None}), blocks : Partly(Blocks, BlockRow), tasks : SUBSET TaskIds,
         late : SUBSET Pages] :
     \A b \in DOMAIN s.blocks : s.blocks[b].page \in DOMAIN s.pages}
SavedRow == [by : Users, shape : Shape]

LibraryRequests ==
  [op : {"read"}, by : Users, ws : Workspaces, parts : SUBSET Parts, next : {"copy", "save"}]
  \cup [op : {"copy", "save"}, by : Users, shape : Shape]

\* collectStructure. A page whose parent is not copied is at the top.
Collect(w, parts) ==
  LET pages == {p \in Live : "pages" \in parts /\ page[p].ws = w}
      blocks == {b \in Rows(block) : block[b].page \in pages}
  IN [ pages  |-> [p \in pages |-> IF page[p].parent \in pages THEN page[p].parent ELSE None],
       late   |-> raced \cap pages,
       blocks |-> [b \in blocks |-> block[b]],
       tasks  |-> {t \in Rows(task) : "tasks" \in parts /\ task[t].ws = w} ]

\* createFromStructure takes the parts asked for.
Only(shape, parts) ==
  [ pages  |-> IF "pages" \in parts THEN shape.pages ELSE [p \in {} |-> None],
    late   |-> shape.late,
    blocks |-> IF "pages" \in parts THEN shape.blocks ELSE [b \in {} |-> None],
    tasks  |-> IF "tasks" \in parts THEN shape.tasks ELSE {} ]

\* Fresh ids for the rows of a shape.
Namings(S, pool) == {g \in [S -> pool] : \A x, y \in S : x # y => g[x] # g[y]}
Naming(S, pool) == CHOOSE g \in Namings(S, pool) : TRUE
Fits(S, pool) == Namings(S, pool) # {}

-----------------------------------------------------------------------------
\* duplicate and save: the owner only. save counts before the snapshot as well.
DuplicateStart(r, u, w, parts) ==
  /\ Begin(r, u, [op |-> "read", by |-> u, ws |-> w, parts |-> parts, next |-> "copy"])
  /\ Exists(w) /\ owner[w] = u
  /\ UNCHANGED libVars

SavedBy(u) == {x \in Rows(saved) : saved[x].by = u}

SaveStart(r, u, w) ==
  /\ Begin(r, u, [op |-> "read", by |-> u, ws |-> w, parts |-> Parts, next |-> "save"])
  /\ Exists(w) /\ owner[w] = u
  /\ Cardinality(SavedBy(u)) < MaxTemplates
  /\ UNCHANGED libVars

Read(r) ==
  /\ req[r].op = "read" /\ Exists(req[r].ws)
  /\ Goes(r, [op |-> req[r].next, by |-> req[r].by, shape |-> Collect(req[r].ws, req[r].parts)])
  /\ UNCHANGED libVars

\* Seeded fault: counted before the snapshot only.
SaveUncounted(r, x) ==
  /\ req[r].op = "save" /\ account[req[r].by] /\ saved[x] = None
  /\ saved' = [saved EXCEPT ![x] = [by |-> req[r].by, shape |-> req[r].shape]]
  /\ Ends(r)
  /\ UNCHANGED recipes

\* Under templates:<owner>: counted again, then created.
Save(r, x) ==
  /\ req[r].op = "save" /\ account[req[r].by] /\ saved[x] = None
  /\ Cardinality(SavedBy(req[r].by)) < MaxTemplates
  /\ saved' = [saved EXCEPT ![x] = [by |-> req[r].by, shape |-> req[r].shape]]
  /\ Ends(r)
  /\ UNCHANGED recipes

RemoveTemplate(u, x) ==
  /\ Call
  /\ account[u] /\ x \in SavedBy(u)
  /\ saved' = [saved EXCEPT ![x] = Gone]
  /\ UNCHANGED <<req, recipes>>

\* clientTemplate.use of one's own template. A starter template takes the same way.
UseStart(r, u, x, parts) ==
  /\ x \in SavedBy(u)
  /\ Begin(r, u, [op |-> "copy", by |-> u, shape |-> Only(saved[x].shape, parts)])
  /\ UNCHANGED libVars

\* Seeded fault: a page keeps the parent it had.
BuildUnder(r, w) ==
  LET u == req[r].by
      s == req[r].shape
  IN
  /\ req[r].op = "copy"
  /\ Fits(DOMAIN s.pages, Free(page)) /\ Fits(DOMAIN s.blocks, Free(block)) /\ Fits(s.tasks, Free(task))
  /\ Founded(w, u)
  /\ LET asPage == Naming(DOMAIN s.pages, Free(page))
     IN page' = [p \in Pages |->
          IF \E q \in DOMAIN asPage : asPage[q] = p
            THEN LET q == CHOOSE q \in DOMAIN asPage : asPage[q] = p
                 IN [ws |-> w, by |-> u, parent |-> s.pages[q], archived |-> FALSE]
            ELSE page[p]]
  /\ Ends(r)
  /\ UNCHANGED <<libVars, block, raced, task, auto>>

\* createFromStructure: one transaction, new ids, everything the requester's own.
Build(r, w) ==
  LET u == req[r].by
      s == req[r].shape
  IN
  /\ req[r].op = "copy"
  /\ Fits(DOMAIN s.pages, Free(page)) /\ Fits(DOMAIN s.blocks, Free(block)) /\ Fits(s.tasks, Free(task))
  /\ Founded(w, u)
  /\ LET asPage  == Naming(DOMAIN s.pages, Free(page))
         asBlock == Naming(DOMAIN s.blocks, Free(block))
         asTask  == Naming(s.tasks, Free(task))
         To(g, x) == IF x \in DOMAIN g THEN g[x] ELSE None
         From(g, y) == {x \in DOMAIN g : g[x] = y}
     IN
     /\ page' = [p \in Pages |-> IF From(asPage, p) = {} THEN page[p] ELSE
          [ws |-> w, by |-> u, archived |-> FALSE,
           parent |-> To(asPage, s.pages[CHOOSE q \in From(asPage, p) : TRUE])]]
     /\ raced' = raced \cup {p \in Pages : From(asPage, p) \cap s.late # {}}
     /\ block' = [b \in Blocks |-> IF From(asBlock, b) = {} THEN block[b] ELSE
          LET row == s.blocks[CHOOSE c \in From(asBlock, b) : TRUE]
          IN [page |-> asPage[row.page], parent |-> To(asBlock, row.parent)]]
     /\ task' = [t \in TaskIds |-> IF From(asTask, t) = {} THEN task[t] ELSE [ws |-> w, by |-> u]]
  /\ Ends(r)
  /\ UNCHANGED <<libVars, auto>>

-----------------------------------------------------------------------------
\* Templates of a page.
SaveRecipe(u, p) ==
  /\ Call
  /\ account[u] /\ p \in Rows(page) /\ OwnReachable(page[p], u)
  /\ recipes' = [recipes EXCEPT ![u] = @ \cup {Cardinality({b \in Rows(block) : block[b].page = p})}]
  /\ UNCHANGED <<req, saved>>

RemoveRecipe(u, n) ==
  /\ Call
  /\ account[u] /\ n \in recipes[u]
  /\ recipes' = [recipes EXCEPT ![u] = @ \ {n}]
  /\ UNCHANGED <<req, saved>>

UseRecipe(r, u, w, q, n) ==
  /\ CreateStart(r, u, w, q, n)
  /\ n \in BuiltIn \cup recipes[u]
  /\ UNCHANGED libVars

LibraryStarts(r, u) ==
  \/ \E w \in Workspaces :
       \/ \E parts \in SUBSET Parts : DuplicateStart(r, u, w, parts)
       \/ SaveStart(r, u, w)
  \/ \E x \in Templates, parts \in SUBSET Parts : UseStart(r, u, x, parts)

\* Steps that change the library alone, and the two that go beyond it.
LibraryNext ==
  \/ \E r \in Slots :
       \/ Open(r) /\ \E u \in Users : LibraryStarts(r, u)
       \/ Read(r)
       \/ \E x \in Templates : Save(r, x)
  \/ \E u \in Users :
       \/ \E x \in Templates : RemoveTemplate(u, x)
       \/ \E p \in Pages : SaveRecipe(u, p)
       \/ \E n \in recipes[u] : RemoveRecipe(u, n)

BuildNext == \E r \in Slots, w \in Workspaces : Build(r, w)
RecipeNext ==
  \E r \in Slots :
    /\ Open(r)
    /\ \E u \in Users, w \in Workspaces, q \in Pages \cup {None} :
         \E n \in BuiltIn \cup recipes[u] : UseRecipe(r, u, w, q, n)

-----------------------------------------------------------------------------
\* Saves at once do not pass the limit of client templates: the count before the snapshot is made
\* again under the owner's lock (clientTemplate.service.js 22-50).
TemplatesWithinLimit == \A u \in Users : Cardinality(SavedBy(u)) <= MaxTemplates
=============================================================================
