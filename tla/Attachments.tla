------------------------------ MODULE Attachments -----------------------------
(* Tasks and the files on them: rows in the database, objects in the store, and  *)
(* no transaction over the two. What a task says is in Tasks.                     *)
EXTENDS Spaces

CONSTANTS
  TaskIds,
  Files,     \* a file row and its stored object share an id
  Quota      \* files an account may keep: every file has size one

VARIABLES
  task,      \* task[t]: its row, None or Gone
  file,      \* file[f]: its row, None or Gone
  object     \* objects in the store

fileVars == <<task, file, object>>

TaskRow == [ws : Workspaces \cup {None}, by : Users]
FileRow == [by : Users, task : TaskIds \cup {None}]

FileRequests ==
  [op : {"task"}, by : Users, ws : Workspaces]
  \cup [op : {"untask"}, task : TaskIds, objects : SUBSET Files]
  \cup [op : {"upload"}, by : Users, task : TaskIds \cup {None}]
  \cup [op : {"row"}, by : Users, task : TaskIds \cup {None}, file : Files]

FilesOf(t) == {f \in Rows(file) : file[f].task = t}
SpaceOf(f) == IF file[f].task = None THEN None ELSE task[file[f].task].ws

\* What getAll returns for a workspace and without one, and search.
TasksListed(u, w) ==
  {t \in Rows(task) : CanAccess(w, u, "read") /\ (task[t].ws = w \/ (task[t].by = u /\ task[t].ws = None))}
OwnTasks(u) == {t \in Rows(task) : OwnReachable(task[t], u)}
TasksFound(u) ==
  LET mine == Mine(u) IN {t \in Rows(task) : (task[t].by = u /\ task[t].ws = None) \/ task[t].ws \in mine}

TaskUsable(t, u, need) == t \in Rows(task) /\ MayUse(task[t], u, need)

-----------------------------------------------------------------------------
\* create in a named workspace, then the transaction.
TaskStart(r, u, w) ==
  /\ Begin(r, u, [op |-> "task", by |-> u, ws |-> w])
  /\ CanAccess(w, u, "write")
  /\ UNCHANGED fileVars

TaskWrite(r) ==
  /\ req[r].op = "task" /\ Free(task) # {}
  /\ account[req[r].by] /\ Exists(req[r].ws)
  /\ LET t == CHOOSE x \in Free(task) : TRUE IN
       /\ task' = [task EXCEPT ![t] = [ws |-> req[r].ws, by |-> req[r].by]]
       /\ req' = Noting({t}, [req EXCEPT ![r] = Idle])
  /\ UNCHANGED <<calls, file, object>>

\* remove: the files are listed, the row goes and takes their rows along, then the objects go.
TaskRemoveStart(r, u, t) ==
  /\ Begin(r, u, [op |-> "untask", task |-> t, objects |-> FilesOf(t)])
  /\ TaskUsable(t, u, "write")
  /\ UNCHANGED fileVars

TaskRemoveWrite(r) ==
  /\ req[r].op = "untask" /\ req[r].task \in Rows(task)
  /\ task' = [task EXCEPT ![req[r].task] = Gone]
  /\ file' = [f \in Files |-> IF f \in FilesOf(req[r].task) THEN Gone ELSE file[f]]
  /\ Goes(r, [op |-> "sweep", objects |-> req[r].objects, since |-> {}])
  /\ UNCHANGED object

\* Best effort: a delete that fails is logged, and Abandon leaves the rest.
Sweep(r, f) ==
  /\ req[r].op = "sweep" /\ f \in req[r].objects
  /\ object' = object \ {f}
  /\ Goes(r, IF req[r].objects = {f} THEN Idle ELSE [req[r] EXCEPT !.objects = @ \ {f}])
  /\ UNCHANGED <<task, file>>

-----------------------------------------------------------------------------
\* Uploads at once may pass the quota by a file or two, as the code says.
UploadStart(r, u, t) ==
  /\ Begin(r, u, [op |-> "upload", by |-> u, task |-> t])
  /\ t # None => TaskUsable(t, u, "write")
  /\ Cardinality({f \in Rows(file) : file[f].by = u}) < Quota
  /\ UNCHANGED fileVars

UploadSave(r, f) ==
  /\ req[r].op = "upload"
  /\ file[f] = None /\ f \notin object
  /\ object' = object \cup {f}
  /\ Goes(r, [op |-> "row", by |-> req[r].by, task |-> req[r].task, file |-> f])
  /\ UNCHANGED <<task, file>>

\* Fails when the account or the task is gone by now, and leaves the object.
UploadRow(r) ==
  /\ req[r].op = "row" /\ account[req[r].by] /\ req[r].task \in Rows(task) \cup {None}
  /\ file' = [file EXCEPT ![req[r].file] = [by |-> req[r].by, task |-> req[r].task]]
  /\ Ends(r)
  /\ UNCHANGED <<task, object>>

\* file.service remove: the uploader only.
FileRemove(r, u, f) ==
  /\ Begin(r, u, [op |-> "sweep", objects |-> {f}, since |-> {}])
  /\ f \in Rows(file) /\ file[f].by = u
  /\ file' = [file EXCEPT ![f] = Gone]
  /\ UNCHANGED <<task, object>>

FileStarts(r, u) ==
  \/ \E w \in Workspaces : TaskStart(r, u, w)
  \/ \E t \in TaskIds : TaskRemoveStart(r, u, t)
  \/ \E t \in TaskIds \cup {None} : UploadStart(r, u, t)
  \/ \E f \in Files : FileRemove(r, u, f)

FilesNext ==
  \E r \in Slots :
    \/ Open(r) /\ \E u \in Users : FileStarts(r, u)
    \/ \E f \in Files : UploadSave(r, f) \/ Sweep(r, f)
    \/ TaskWrite(r) \/ TaskRemoveWrite(r) \/ UploadRow(r)
=============================================================================
