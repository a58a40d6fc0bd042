-------------------------------- MODULE Tasks --------------------------------
(* The tasks of a board and the updates under way on them. An update reads the  *)
(* task, checks access, and writes in a later step; completing a recurring task *)
(* makes its next occurrence in a third one. Others run between them. A refused *)
(* call is one that does not start, or ends without a write.                    *)
EXTENDS FiniteSets, Naturals

CONSTANTS
  TaskIds, Editors,  \* rows that may ever exist; updates under way at the same time
  MaxUpdates,        \* bound on updates
  None

VARIABLES
  task,       \* task[t]: the row, or None
  edit,       \* edit[e]: an update and what it has read
  born,       \* ids in use or used
  updates,
  \* History:
  completed,  \* completed[t]: times the row went from open to done
  spawned,    \* spawned[t]: next occurrences made of t
  overlap     \* overlap[t]: updates to done that found t done, or open, unlike when they read it

taskVars == <<task, edit, born, updates, completed, spawned, overlap>>

Status == {"todo", "in_progress", "done"}
\* dated: completedAt is set.
Task == [status : Status, dated : BOOLEAN, recurring : BOOLEAN]
Patch == [status : Status \cup {None}, recurring : BOOLEAN \cup {None}]
Idle == [pc |-> "idle"]
Edit ==
  [pc : {"write"}, id : TaskIds, patch : Patch, read : Status] \cup [pc : {"spawn"}, id : TaskIds]

TasksTypeOK ==
  /\ task \in [TaskIds -> Task \cup {None}]
  /\ edit \in [Editors -> Edit \cup {Idle}]
  /\ born \subseteq TaskIds /\ updates \in 0 .. MaxUpdates
  /\ completed \in [TaskIds -> Nat] /\ spawned \in [TaskIds -> Nat] /\ overlap \in [TaskIds -> Nat]

-----------------------------------------------------------------------------
Exists(t) == task[t] # None

\* withCompletedAt: the date that goes with a patch, given the status that was read.
Dated(old, patch, read) ==
  IF patch = None \/ (patch = "done" /\ read = "done") THEN old ELSE patch = "done"

\* Seeded fault: whoever says "done" completes the task.
CompletesAgain(patch, read) == patch = "done" /\ read \in Status

Completes(patch, read) == patch = "done" /\ read # "done"

Add(ids, rows) ==
  /\ ids \cap born = {}
  /\ born' = born \cup ids
  /\ task' = [t \in TaskIds |-> IF t \in ids THEN rows[t] ELSE task[t]]

Create(t, status, recurring) ==
  /\ Add({t}, [i \in {t} |-> [status |-> status, dated |-> Dated(FALSE, status, None),
                              recurring |-> recurring]])
  /\ UNCHANGED <<edit, updates, completed, spawned, overlap>>

\* importMany: done rows keep the file's date, or the due date, or have none.
ImportMany(ids, status, dated) ==
  /\ Add(ids, [i \in ids |-> [status |-> status, dated |-> dated /\ status = "done",
                              recurring |-> FALSE]])
  /\ UNCHANGED <<edit, updates, completed, spawned, overlap>>

UpdateStart(e, t, patch) ==
  /\ edit[e] = Idle /\ Exists(t)
  /\ updates < MaxUpdates /\ updates' = updates + 1
  /\ edit' = [edit EXCEPT ![e] = [pc |-> "write", id |-> t, patch |-> patch, read |-> task[t].status]]
  /\ UNCHANGED <<task, born, completed, spawned, overlap>>

Patched(t, p, read) ==
  [status |-> IF p.status = None THEN task[t].status ELSE p.status,
   dated |-> Dated(task[t].dated, p.status, read),
   recurring |-> IF p.recurring = None THEN task[t].recurring ELSE p.recurring]

Tick(count, t, when) == IF when THEN [count EXCEPT ![t] = @ + 1] ELSE count

UpdateWrite(e) ==
  LET t == edit[e].id
      p == edit[e].patch
      new == Patched(t, p, edit[e].read)
      wasDone == task[t].status = "done"
  IN
  /\ edit[e].pc = "write" /\ Exists(t)
  /\ task' = [task EXCEPT ![t] = new]
  /\ edit' = [edit EXCEPT ![e] = IF Completes(p.status, edit[e].read) /\ new.recurring
                                 THEN [pc |-> "spawn", id |-> t] ELSE Idle]
  /\ completed' = Tick(completed, t, ~wasDone /\ new.status = "done")
  /\ overlap' = Tick(overlap, t, p.status = "done" /\ (edit[e].read = "done") # wasDone)
  /\ UNCHANGED <<born, updates, spawned>>

\* spawnNextOccurrence: an open task that carries the rest over.
Spawn(e, t) ==
  /\ edit[e].pc = "spawn"
  /\ Add({t}, [i \in {t} |-> [status |-> "todo", dated |-> FALSE, recurring |-> TRUE]])
  /\ edit' = [edit EXCEPT ![e] = Idle]
  /\ spawned' = Tick(spawned, edit[e].id, TRUE)
  /\ UNCHANGED <<updates, completed, overlap>>

\* The row is gone when it is written, the database fails, or the server stops.
UpdateFails(e) ==
  /\ edit[e] # Idle
  /\ edit' = [edit EXCEPT ![e] = Idle]
  /\ UNCHANGED <<task, born, updates, completed, spawned, overlap>>

Remove(t) ==
  /\ Exists(t)
  /\ task' = [task EXCEPT ![t] = None]
  /\ UNCHANGED <<edit, born, updates, completed, spawned, overlap>>

TasksInit ==
  /\ task = [t \in TaskIds |-> None] /\ born = {}
  /\ edit = [e \in Editors |-> Idle] /\ updates = 0
  /\ completed = [t \in TaskIds |-> 0] /\ spawned = completed /\ overlap = completed

\* Everything that happens on a board but for removals, which a request may notice.
EditorStep(e) ==
  \/ \E t \in TaskIds, patch \in Patch : UpdateStart(e, t, patch)
  \/ UpdateWrite(e)
  \/ \E t \in TaskIds : Spawn(e, t)
  \/ UpdateFails(e)

TasksNext ==
  \/ \E t \in TaskIds, status \in Status, recurring \in BOOLEAN : Create(t, status, recurring)
  \/ \E ids \in SUBSET TaskIds \ {{}}, status \in Status, dated \in BOOLEAN :
       ImportMany(ids, status, dated)
  \/ \E e \in Editors : EditorStep(e)

-----------------------------------------------------------------------------
(* What must hold. *)

Spawning(t) == {e \in Editors : edit[e] = [pc |-> "spawn", id |-> t]}

\* A recurring task gets one next occurrence for each time it is completed; it gets another one only
\* for an update that overlapped the completing one (task.service.js 94-97, 303).
ExtraOccurrenceNeedsOverlap ==
  \A t \in TaskIds : spawned[t] + Cardinality(Spawning(t)) <= completed[t] + overlap[t]

\* Statistics trust completedAt: an open task has none, and a done one loses it only to updates that
\* overlapped (task.service.js 133-149). A task imported as done may come without.
OpenHasNoDate == \A t \in TaskIds : Exists(t) /\ task[t].dated => task[t].status = "done"
=============================================================================
