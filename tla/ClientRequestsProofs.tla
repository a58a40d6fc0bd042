------------------------- MODULE ClientRequestsProofs -------------------------
(* Proofs about client requests and their board, for any number of tasks,       *)
(* requests, updates, accepts and failures.                                     *)
EXTENDS ClientRequests, FiniteSetTheorems, TLAPS

LEMMA Distinct == Idle \notin Edit /\ Idle \notin Accept /\ None \notin Status /\ None \notin BOOLEAN
BY ClientRequestsAssumption DEF Idle, Edit, Accept

\* A step of the board keeps its variables typed.
LEMMA BoardTyped ==
  ASSUME TasksTypeOK, TasksNext
  PROVE  TasksTypeOK'
<1>1. ASSUME NEW t \in TaskIds, NEW status \in Status, NEW recurring \in BOOLEAN, Create(t, status, recurring)
      PROVE  TasksTypeOK'
  BY <1>1, Distinct DEF TasksTypeOK, Create, Add, Task, Dated
<1>2. ASSUME NEW ids \in SUBSET TaskIds \ {{}}, NEW status \in Status, NEW dated \in BOOLEAN,
             ImportMany(ids, status, dated)
      PROVE  TasksTypeOK'
  BY <1>2 DEF TasksTypeOK, ImportMany, Add, Task
<1>3. ASSUME NEW e \in Editors, EditorStep(e) PROVE TasksTypeOK'
  <2>1. ASSUME NEW t \in TaskIds, NEW patch \in Patch, UpdateStart(e, t, patch) PROVE TasksTypeOK'
    <3>1. task[t].status \in Status
      BY <2>1 DEF TasksTypeOK, UpdateStart, Exists, Task
    <3>2. edit' \in [Editors -> Edit \cup {Idle}]
      BY <2>1, <3>1 DEF TasksTypeOK, UpdateStart, Edit
    <3> QED BY <2>1, <3>2, ClientRequestsAssumption DEF TasksTypeOK, UpdateStart
  <2>2. CASE UpdateWrite(e)
    <3> DEFINE t == edit[e].id
               p == edit[e].patch
    <3>1. edit[e] \in Edit /\ t \in TaskIds /\ p \in Patch /\ edit[e].read \in Status
      BY <2>2 DEF TasksTypeOK, UpdateWrite, Edit, Idle
    <3>2. task[t] \in Task
      BY <2>2, <3>1 DEF TasksTypeOK, UpdateWrite, Exists
    <3>3. Patched(t, p, edit[e].read) \in Task
      BY <3>1, <3>2 DEF Patched, Patch, Dated, Task
    <3>4. task' \in [TaskIds -> Task \cup {None}]
      BY <2>2, <3>1, <3>3 DEF TasksTypeOK, UpdateWrite
    <3>5. edit' \in [Editors -> Edit \cup {Idle}]
      BY <2>2, <3>1 DEF TasksTypeOK, UpdateWrite, Edit
    <3>6. completed' \in [TaskIds -> Nat] /\ overlap' \in [TaskIds -> Nat]
      BY <2>2, <3>1 DEF TasksTypeOK, UpdateWrite, Tick
    <3> QED BY <2>2, <3>4, <3>5, <3>6 DEF TasksTypeOK, UpdateWrite
  <2>3. ASSUME NEW t \in TaskIds, Spawn(e, t) PROVE TasksTypeOK'
    <3>1. edit[e].id \in TaskIds
      BY <2>3 DEF TasksTypeOK, Spawn, Edit, Idle
    <3>2. spawned' \in [TaskIds -> Nat]
      BY <2>3, <3>1 DEF TasksTypeOK, Spawn, Tick
    <3>3. task' \in [TaskIds -> Task \cup {None}]
      BY <2>3 DEF TasksTypeOK, Spawn, Add, Task, Status
    <3> QED BY <2>3, <3>2, <3>3 DEF TasksTypeOK, Spawn, Add
  <2>4. CASE UpdateFails(e)
    BY <2>4 DEF TasksTypeOK, UpdateFails
  <2> QED BY <1>3, <2>1, <2>2, <2>3, <2>4 DEF EditorStep
<1> QED BY <1>1, <1>2, <1>3 DEF TasksNext

\* The type invariant holds in every reachable state, for any ids, slots and bounds.
THEOREM TypeCorrect == Spec => []TypeOK
<1>1. Init => TypeOK
  BY ClientRequestsAssumption DEF Init, TasksInit, TypeOK, TasksTypeOK
<1>2. ASSUME TypeOK, [Next]_vars PROVE TypeOK'
  <2>1. CASE TasksNext /\ UNCHANGED requestVars
    BY <1>2, <2>1, BoardTyped DEF TypeOK, requestVars
  <2>2. ASSUME NEW t \in TaskIds, RemoveTask(t) PROVE TypeOK'
    <3>1. TasksTypeOK'
      BY <1>2, <2>2 DEF TypeOK, TasksTypeOK, RemoveTask, Remove
    <3>2. request' \in [RequestIds -> Request \cup {None}]
      BY <1>2, <2>2 DEF TypeOK, RemoveTask, Request
    <3> QED BY <1>2, <2>2, <3>1, <3>2 DEF TypeOK, RemoveTask
  <2>3. ASSUME NEW q \in RequestIds, Submit(q) \/ Decline(q) \/ RemoveRequest(q) PROVE TypeOK'
    <3>1. request' \in [RequestIds -> Request \cup {None}]
      BY <1>2, <2>3 DEF TypeOK, Submit, Decline, RemoveRequest, Received, Request
    <3> QED BY <1>2, <2>3, <3>1
            DEF TypeOK, TasksTypeOK, taskVars, Submit, Decline, RemoveRequest
  <2>4. ASSUME NEW d \in Deciders, NEW q \in RequestIds, AcceptStart(d, q) PROVE TypeOK'
    <3>1. accept' \in [Deciders -> Accept \cup {Idle}]
      BY <1>2, <2>4 DEF TypeOK, AcceptStart, Accept
    <3> QED BY <1>2, <2>4, <3>1, ClientRequestsAssumption DEF TypeOK, TasksTypeOK, taskVars, AcceptStart
  <2>5. ASSUME NEW d \in Deciders, AcceptStep(d) PROVE TypeOK'
    <3>1. ASSUME NEW t \in TaskIds, MakeTask(d, t) PROVE TypeOK'
      <4>1. TasksNext
        BY <3>1 DEF MakeTask, TasksNext, Status
      <4>2. accept[d] \in Accept
        BY <1>2, <3>1 DEF TypeOK, MakeTask, Idle
      <4>3. accept' \in [Deciders -> Accept \cup {Idle}] /\ from' \in [TaskIds -> RequestIds \cup {None}]
        BY <1>2, <3>1, <4>2 DEF TypeOK, MakeTask, Accept
      <4> QED BY <1>2, <3>1, <4>1, <4>3, BoardTyped DEF TypeOK, MakeTask
    <3>2. CASE ~\E t \in TaskIds : MakeTask(d, t)
      <4>1. accept[d] \in Accept /\ accept[d] # Idle
        BY <1>2, <2>5, <3>2
           DEF TypeOK, AcceptStep, Claim, CreateFails, Link, LinkRefused, LinkFails, Answer, AnswerFails,
               PutBack, AcceptStops, Idle
      <4>2. accept' \in [Deciders -> Accept \cup {Idle}]
        BY <1>2, <2>5, <3>2, <4>1
           DEF TypeOK, AcceptStep, Claim, CreateFails, Link, LinkRefused, LinkFails, Answer, AnswerFails,
               PutBack, AcceptStops, Go, Finish, Accept
      <4>3. request' \in [RequestIds -> Request \cup {None}]
        BY <1>2, <2>5, <3>2, <4>1
           DEF TypeOK, AcceptStep, Claim, CreateFails, Link, LinkRefused, LinkFails, Answer, AnswerFails,
               PutBack, AcceptStops, Received, Request, Accept
      <4>4. UNCHANGED <<taskVars, asked, accepts, from>>
        BY <2>5, <3>2
           DEF AcceptStep, Claim, CreateFails, Link, LinkRefused, LinkFails, Answer, AnswerFails, PutBack,
               AcceptStops
      <4>5. faults' \in 0 .. MaxFaults /\ unlinked' \subseteq RequestIds /\ linked' \subseteq RequestIds
        BY <1>2, <2>5, <3>2, <4>1, ClientRequestsAssumption
           DEF TypeOK, AcceptStep, Claim, CreateFails, Link, LinkRefused, LinkFails, Answer, AnswerFails,
               PutBack, AcceptStops, Fault, Accept
      <4> QED BY <1>2, <4>2, <4>3, <4>4, <4>5 DEF TypeOK, TasksTypeOK, taskVars
    <3> QED BY <3>1, <3>2
  <2>6. CASE UNCHANGED vars
    BY <1>2, <2>6 DEF TypeOK, TasksTypeOK, vars, taskVars
  <2> QED BY <1>2, <2>1, <2>2, <2>3, <2>4, <2>5, <2>6 DEF Next
<1> QED BY <1>1, <1>2, PTL DEF Spec

-----------------------------------------------------------------------------
(* The board. *)

\* What the board sees of a step: something of its own, a task removed, or nothing.
LEMMA BoardSteps ==
  ASSUME [Next]_vars
  PROVE  TasksNext \/ (\E t \in TaskIds : Remove(t)) \/ UNCHANGED taskVars
<1>1. ASSUME NEW d \in Deciders, AcceptStep(d) PROVE TasksNext \/ UNCHANGED taskVars
  <2>1. ASSUME NEW t \in TaskIds, MakeTask(d, t) PROVE TasksNext
    BY <2>1 DEF MakeTask, TasksNext, Status
  <2> QED BY <1>1, <2>1
          DEF AcceptStep, Claim, CreateFails, Link, LinkRefused, LinkFails, Answer, AnswerFails, PutBack,
              AcceptStops
<1> QED BY <1>1 DEF Next, vars, Submit, Decline, RemoveRequest, RemoveTask, AcceptStart

\* An open task has no completion date, however updates overlap.
THEOREM DatesFollowStatus == Spec => []OpenHasNoDate
<1>1. Init => OpenHasNoDate
  BY DEF Init, TasksInit, OpenHasNoDate, Exists
<1>2. ASSUME TypeOK, OpenHasNoDate, [Next]_vars PROVE OpenHasNoDate'
  <2>1. ASSUME NEW t \in TaskIds, NEW status \in Status, NEW recurring \in BOOLEAN,
               Create(t, status, recurring)
        PROVE  OpenHasNoDate'
    BY <1>2, <2>1, Distinct DEF OpenHasNoDate, Create, Add, Exists, Dated, TypeOK, TasksTypeOK
  <2>2. ASSUME NEW ids \in SUBSET TaskIds \ {{}}, NEW status \in Status, NEW dated \in BOOLEAN,
               ImportMany(ids, status, dated)
        PROVE  OpenHasNoDate'
    BY <1>2, <2>2 DEF OpenHasNoDate, ImportMany, Add, Exists, TypeOK, TasksTypeOK
  <2>3. ASSUME NEW e \in Editors, EditorStep(e) PROVE OpenHasNoDate'
    <3>1. CASE UpdateWrite(e)
      <4> DEFINE t == edit[e].id
                 p == edit[e].patch
      <4>1. t \in TaskIds /\ p.status \in Status \cup {None} /\ task[t] \in Task
        BY <1>2, <3>1 DEF TypeOK, TasksTypeOK, UpdateWrite, Edit, Idle, Exists, Patch
      <4>2. Patched(t, p, edit[e].read).dated => Patched(t, p, edit[e].read).status = "done"
        BY <1>2, <3>1, <4>1, Distinct DEF Patched, Dated, OpenHasNoDate, UpdateWrite, Status
      <4>3. task' = [task EXCEPT ![t] = Patched(t, p, edit[e].read)]
        BY <3>1 DEF UpdateWrite
      <4> HIDE DEF t, p
      <4> QED BY <1>2, <4>1, <4>2, <4>3 DEF OpenHasNoDate, Exists, TypeOK, TasksTypeOK
    <3>2. ASSUME NEW t \in TaskIds, Spawn(e, t) PROVE OpenHasNoDate'
      BY <1>2, <3>2 DEF OpenHasNoDate, Spawn, Add, Exists, TypeOK, TasksTypeOK
    <3> QED BY <1>2, <2>3, <3>1, <3>2 DEF EditorStep, UpdateStart, UpdateFails, OpenHasNoDate, Exists
  <2>4. ASSUME NEW t \in TaskIds, Remove(t) PROVE OpenHasNoDate'
    BY <1>2, <2>4 DEF OpenHasNoDate, Remove, Exists, TypeOK, TasksTypeOK
  <2>5. CASE UNCHANGED taskVars
    BY <1>2, <2>5 DEF OpenHasNoDate, taskVars, Exists
  <2> QED BY <1>2, <2>1, <2>2, <2>3, <2>4, <2>5, BoardSteps DEF TasksNext
<1> QED BY <1>1, <1>2, TypeCorrect, PTL DEF Spec

Balanced(t) == spawned[t] + Cardinality(Spawning(t)) <= completed[t] + overlap[t]

LEMMA SpawningFinite == ASSUME NEW t PROVE IsFiniteSet(Spawning(t)) /\ Cardinality(Spawning(t)) \in Nat
<1>1. Spawning(t) \subseteq Editors
  BY DEF Spawning
<1> QED BY <1>1, FS_Subset, FS_CardinalityType, ClientRequestsAssumption

\* A recurring task has one next occurrence for each completion, and another one only for an update to
\* done that overlapped it, for any number of updates.
THEOREM ExtraNeedsOverlap == Spec => []ExtraOccurrenceNeedsOverlap
<1>1. Init => ExtraOccurrenceNeedsOverlap
  <2> SUFFICES ASSUME Init, NEW t \in TaskIds PROVE Balanced(t)
    BY DEF ExtraOccurrenceNeedsOverlap, Balanced
  <2>1. Spawning(t) = {}
    BY DEF Init, TasksInit, Spawning, Idle
  <2> QED BY <2>1, FS_EmptySet DEF Init, TasksInit, Balanced
<1>2. ASSUME TypeOK, ExtraOccurrenceNeedsOverlap, [Next]_vars PROVE ExtraOccurrenceNeedsOverlap'
  <2> SUFFICES ASSUME NEW t \in TaskIds PROVE Balanced(t)'
    BY DEF ExtraOccurrenceNeedsOverlap, Balanced
  <2>0. /\ spawned[t] \in Nat /\ completed[t] \in Nat /\ overlap[t] \in Nat
        /\ Cardinality(Spawning(t)) \in Nat /\ IsFiniteSet(Spawning(t)) /\ Balanced(t)
    BY <1>2, SpawningFinite DEF TypeOK, TasksTypeOK, ExtraOccurrenceNeedsOverlap, Balanced
  <2>1. CASE UNCHANGED <<edit, completed, spawned, overlap>>
    <3>1. Spawning(t)' = Spawning(t)
      BY <2>1 DEF Spawning
    <3> QED BY <2>0, <2>1, <3>1 DEF Balanced
  <2>2. ASSUME NEW e \in Editors, EditorStep(e) PROVE Balanced(t)'
    <3>1. ASSUME NEW u \in TaskIds, NEW patch \in Patch, UpdateStart(e, u, patch) PROVE Balanced(t)'
      <4>1. Spawning(t)' = Spawning(t)
        BY <1>2, <3>1 DEF Spawning, UpdateStart, Idle, TypeOK, TasksTypeOK
      <4> QED BY <2>0, <3>1, <4>1 DEF Balanced, UpdateStart
    <3>2. CASE UpdateWrite(e)
      <4> DEFINE u == edit[e].id
                 p == edit[e].patch
                 wasDone == task[u].status = "done"
      <4>1. u \in TaskIds /\ edit[e] \in Edit /\ e \notin Spawning(t)
        BY <1>2, <3>2 DEF TypeOK, TasksTypeOK, UpdateWrite, Edit, Idle, Spawning
      <4>2. spawned' = spawned
        BY <3>2 DEF UpdateWrite
      <4>3. completed[t]' \in Nat /\ overlap[t]' \in Nat
        BY <1>2, <2>0, <3>2, <4>1 DEF UpdateWrite, Tick, TypeOK, TasksTypeOK
      <4>4. completed[t]' >= completed[t] /\ overlap[t]' >= overlap[t]
        BY <1>2, <2>0, <3>2, <4>1 DEF UpdateWrite, Tick, TypeOK, TasksTypeOK
      <4>5. CASE u = t /\ Completes(p.status, edit[e].read)
        <5>1. Spawning(t)' \subseteq Spawning(t) \cup {e}
          BY <1>2, <3>2 DEF Spawning, UpdateWrite, TypeOK, TasksTypeOK
        <5>2. Cardinality(Spawning(t)') <= Cardinality(Spawning(t)) + 1 /\ Cardinality(Spawning(t)') \in Nat
          <6>1. Cardinality(Spawning(t) \cup {e}) = Cardinality(Spawning(t)) + 1
                /\ IsFiniteSet(Spawning(t) \cup {e})
            BY <2>0, <4>1, FS_AddElement
          <6>2. IsFiniteSet(Spawning(t)') /\ Cardinality(Spawning(t)') <= Cardinality(Spawning(t) \cup {e})
            BY <5>1, <6>1, FS_Subset
          <6> QED BY <6>1, <6>2, FS_CardinalityType
        <5>3. Patched(u, p, edit[e].read).status = "done"
          BY <4>5, Distinct DEF Completes, Patched, Status
        <5>4. CASE wasDone
          <6>1. overlap[t]' = overlap[t] + 1
            BY <1>2, <3>2, <4>1, <4>5, <5>4 DEF UpdateWrite, Tick, Completes, TypeOK, TasksTypeOK
          <6> QED BY <2>0, <4>2, <4>3, <4>4, <5>2, <6>1 DEF Balanced
        <5>5. CASE ~wasDone
          <6>1. completed[t]' = completed[t] + 1
            BY <1>2, <3>2, <4>1, <4>5, <5>3, <5>5 DEF UpdateWrite, Tick, TypeOK, TasksTypeOK
          <6> QED BY <2>0, <4>2, <4>3, <4>4, <5>2, <6>1 DEF Balanced
        <5> QED BY <5>4, <5>5
      <4>6. CASE ~(u = t /\ Completes(p.status, edit[e].read))
        <5>1. Spawning(t)' = Spawning(t)
          BY <1>2, <3>2, <4>1, <4>6 DEF Spawning, UpdateWrite, TypeOK, TasksTypeOK, Idle
        <5> QED BY <2>0, <4>2, <4>3, <4>4, <5>1 DEF Balanced
      <4> QED BY <4>5, <4>6
    <3>3. ASSUME NEW v \in TaskIds, Spawn(e, v) PROVE Balanced(t)'
      <4> DEFINE u == edit[e].id
      <4>0. edit[e] = [pc |-> "spawn", id |-> u] /\ u \in TaskIds
        BY <1>2, <3>3 DEF TypeOK, TasksTypeOK, Spawn, Edit, Idle
      <4>1. CASE u = t
        <5>1. e \in Spawning(t) /\ Spawning(t)' = Spawning(t) \ {e}
          BY <1>2, <3>3, <4>0, <4>1 DEF Spawning, Spawn, Idle, TypeOK, TasksTypeOK
        <5>2. Cardinality(Spawning(t)') = Cardinality(Spawning(t)) - 1
          BY <2>0, <5>1, FS_RemoveElement
        <5>3. spawned[t]' = spawned[t] + 1
          BY <1>2, <3>3, <4>1 DEF Spawn, Tick, TypeOK, TasksTypeOK
        <5>4. completed' = completed /\ overlap' = overlap
          BY <3>3 DEF Spawn
        <5> HIDE DEF u
        <5> QED BY <2>0, <5>2, <5>3, <5>4 DEF Balanced
      <4>2. CASE u # t
        <5>1. Spawning(t)' = Spawning(t)
          BY <1>2, <3>3, <4>0, <4>2 DEF Spawning, Spawn, Idle, TypeOK, TasksTypeOK
        <5>2. spawned[t]' = spawned[t]
          BY <1>2, <3>3, <4>0, <4>2 DEF Spawn, Tick, TypeOK, TasksTypeOK
        <5> QED BY <2>0, <3>3, <5>1, <5>2 DEF Balanced, Spawn
      <4> QED BY <4>1, <4>2
    <3>4. CASE UpdateFails(e)
      <4>1. Spawning(t)' \subseteq Spawning(t)
        BY <1>2, <3>4 DEF Spawning, UpdateFails, Idle, TypeOK, TasksTypeOK
      <4>2. Cardinality(Spawning(t)') <= Cardinality(Spawning(t)) /\ Cardinality(Spawning(t)') \in Nat
        BY <2>0, <4>1, FS_Subset, FS_CardinalityType
      <4> QED BY <2>0, <3>4, <4>2 DEF Balanced, UpdateFails
    <3> QED BY <2>2, <3>1, <3>2, <3>3, <3>4 DEF EditorStep
  <2> QED BY <1>2, <2>1, <2>2, BoardSteps DEF TasksNext, Create, ImportMany, Remove, taskVars
<1> QED BY <1>1, <1>2, TypeCorrect, PTL DEF Spec

-----------------------------------------------------------------------------
(* Requests. *)

Holds(d, q) == accept[d].pc \in {"create", "link", "answer", "putBack"} /\ accept[d].id = q

\* Ids are used once, and a task was made from a request only if it was ever made.
IdsInv ==
  /\ \A t \in TaskIds : t \notin born => task[t] = None /\ from[t] = None
  /\ \A t \in TaskIds : from[t] # None => from[t] \in asked
  /\ \A q \in RequestIds : request[q] # None => q \in asked
  /\ \A d \in Deciders : accept[d] # Idle => accept[d].id \in asked

\* A request that some accept has claimed is accepted or gone, and nobody else has claimed it.
ClaimInv ==
  /\ \A d \in Deciders, q \in RequestIds :
       Holds(d, q) /\ request[q] # None => request[q].state = "accepted"
  /\ \A c \in Deciders, d \in Deciders, q \in RequestIds : Holds(c, q) /\ Holds(d, q) => c = d
  /\ \A q \in RequestIds : request[q] # None /\ request[q].task # None => request[q].state = "accepted"

\* What is on the board of a request, at each place of its accept.
WorkInv(q) ==
  /\ \A t \in Made(q), u \in Made(q) : t = u
  /\ request[q] # None /\ request[q].state # "accepted" => Made(q) = {}
  /\ \A d \in Deciders :
       Holds(d, q) =>
         /\ accept[d].pc = "create" => Made(q) = {}
         /\ accept[d].pc = "link" => Made(q) \subseteq {accept[d].task}
         /\ accept[d].pc \in {"answer", "putBack"} /\ request[q] # None
              => Made(q) \subseteq {request[q].task}

RequestsInv == IdsInv /\ ClaimInv /\ \A q \in RequestIds \ unlinked : WorkInv(q)

LEMMA RequestsInvInit == ASSUME Init PROVE RequestsInv
BY DEF Init, TasksInit, RequestsInv, IdsInv, ClaimInv, WorkInv, Holds, Made, Exists, Idle

LEMMA IdsStep == ASSUME TypeOK, IdsInv, [Next]_vars PROVE IdsInv'
<1>1. ASSUME NEW ids \in SUBSET TaskIds, NEW rows, Add(ids, rows), UNCHANGED requestVars PROVE IdsInv'
  BY <1>1 DEF IdsInv, Add, requestVars
<1>2. CASE TasksNext /\ UNCHANGED requestVars
  <2>1. ASSUME NEW e \in Editors, EditorStep(e) PROVE IdsInv'
    <3>1. CASE UpdateWrite(e)
      BY <1>2, <3>1 DEF IdsInv, UpdateWrite, requestVars, Exists, TypeOK, TasksTypeOK
    <3>2. ASSUME NEW t \in TaskIds, Spawn(e, t) PROVE IdsInv'
      BY <1>1, <1>2, <3>2 DEF Spawn
    <3> QED BY <1>2, <2>1, <3>1, <3>2 DEF EditorStep, UpdateStart, UpdateFails, IdsInv, requestVars
  <2> QED BY <1>1, <1>2, <2>1 DEF TasksNext, Create, ImportMany
<1>3. ASSUME NEW t \in TaskIds, RemoveTask(t) PROVE IdsInv'
  BY <1>3 DEF IdsInv, RemoveTask, Remove, TypeOK, TasksTypeOK
<1>4. ASSUME NEW q \in RequestIds, Submit(q) \/ Decline(q) \/ RemoveRequest(q) PROVE IdsInv'
  BY <1>4 DEF IdsInv, Submit, Decline, RemoveRequest, Received, taskVars, TypeOK
<1>5. ASSUME NEW d \in Deciders, NEW q \in RequestIds, AcceptStart(d, q) PROVE IdsInv'
  BY <1>5 DEF IdsInv, AcceptStart, taskVars, TypeOK
<1>6. ASSUME NEW d \in Deciders, AcceptStep(d) PROVE IdsInv'
  <2>1. ASSUME NEW t \in TaskIds, MakeTask(d, t) PROVE IdsInv'
    <3>1. accept[d] \in Accept /\ accept[d] # Idle
      BY <2>1 DEF MakeTask, TypeOK, Idle
    <3>2. \A c \in Deciders : accept'[c] # Idle => accept[c] # Idle /\ accept'[c].id = accept[c].id
      BY <2>1, <3>1 DEF MakeTask, TypeOK, Accept
    <3>3. from' = [from EXCEPT ![t] = accept[d].id] /\ accept[d].id \in asked
          /\ UNCHANGED <<request, asked>>
      BY <2>1, <3>1 DEF MakeTask, IdsInv
    <3>4. t \in born' /\ born \subseteq born' /\ \A u \in TaskIds : u # t => task'[u] = task[u]
      BY <2>1 DEF MakeTask, Create, Add
    <3> QED BY <3>2, <3>3, <3>4 DEF IdsInv, TypeOK
  <2>2. CASE Claim(d) \/ Link(d) \/ PutBack(d)
    <3>1. accept[d] # Idle
      BY <2>2 DEF Claim, Link, PutBack, Idle
    <3>2. \A c \in Deciders : accept'[c] # Idle => accept[c] # Idle /\ accept'[c].id = accept[c].id
      BY <2>2, <3>1 DEF Claim, Link, PutBack, Go, Finish, TypeOK, Accept
    <3>3. \A q \in RequestIds : request'[q] # None => request[q] # None
      BY <2>2 DEF Claim, Link, PutBack, Received, TypeOK
    <3> QED BY <2>2, <3>2, <3>3 DEF IdsInv, Claim, Link, PutBack, taskVars
  <2>3. CASE CreateFails(d) \/ LinkRefused(d) \/ LinkFails(d) \/ Answer(d) \/ AnswerFails(d) \/ AcceptStops(d)
    <3>1. accept[d] # Idle
      BY <2>3 DEF CreateFails, LinkRefused, LinkFails, Answer, AnswerFails, AcceptStops, Idle
    <3>2. \A c \in Deciders : accept'[c] # Idle => accept[c] # Idle /\ accept'[c].id = accept[c].id
      BY <2>3, <3>1 DEF CreateFails, LinkRefused, LinkFails, Answer, AnswerFails, AcceptStops, Go, Finish,
                        TypeOK, Accept
    <3> QED BY <2>3, <3>2 DEF IdsInv, CreateFails, LinkRefused, LinkFails, Answer, AnswerFails, AcceptStops,
                              taskVars
  <2> QED BY <1>6, <2>1, <2>2, <2>3 DEF AcceptStep
<1>7. CASE UNCHANGED vars
  BY <1>7 DEF IdsInv, vars, taskVars
<1> QED BY <1>2, <1>3, <1>4, <1>5, <1>6, <1>7 DEF Next

\* An accept that is not at its claim, and its step.
AcceptMoves(d, pc) ==
  /\ accept[d] \in Accept
  /\ accept'[d].pc = pc /\ accept'[d].id = accept[d].id /\ accept'[d].task = accept[d].task
  /\ \A c \in Deciders : c # d => accept'[c] = accept[c]

AcceptEnds(d) ==
  /\ accept[d] \in Accept
  /\ accept'[d] = Idle
  /\ \A c \in Deciders : c # d => accept'[c] = accept[c]

LEMMA Moves ==
  ASSUME TypeOK, NEW d \in Deciders, accept[d] # Idle, NEW pc, Go(d, pc)
  PROVE  AcceptMoves(d, pc)
BY DEF TypeOK, Go, AcceptMoves, Accept

LEMMA Ends ==
  ASSUME TypeOK, NEW d \in Deciders, accept[d] # Idle, Finish(d)
  PROVE  AcceptEnds(d)
BY DEF TypeOK, Finish, AcceptEnds

LEMMA ClaimStep == ASSUME TypeOK, IdsInv, ClaimInv, [Next]_vars PROVE ClaimInv'
<1>1. CASE UNCHANGED <<accept, request>>
  BY <1>1 DEF ClaimInv, Holds
<1>2. ASSUME NEW t \in TaskIds, RemoveTask(t) PROVE ClaimInv'
  <2>1. \A q \in RequestIds :
          /\ request'[q] # None => request[q] # None /\ request'[q].state = request[q].state
          /\ request'[q] # None /\ request'[q].task # None => request[q].task # None
    BY <1>2 DEF RemoveTask, TypeOK, Request
  <2> QED BY <1>2, <2>1 DEF ClaimInv, Holds, RemoveTask
<1>3. ASSUME NEW q \in RequestIds, Submit(q) PROVE ClaimInv'
  <2>1. \A d \in Deciders : ~Holds(d, q)
    BY <1>3 DEF Submit, IdsInv, Holds, Idle
  <2> QED BY <1>3, <2>1 DEF ClaimInv, Holds, Submit, TypeOK
<1>4. ASSUME NEW q \in RequestIds, Decline(q) \/ RemoveRequest(q) PROVE ClaimInv'
  BY <1>4 DEF ClaimInv, Holds, Decline, RemoveRequest, Received, TypeOK, Request
<1>5. ASSUME NEW d \in Deciders, NEW q \in RequestIds, AcceptStart(d, q) PROVE ClaimInv'
  BY <1>5 DEF ClaimInv, Holds, AcceptStart, TypeOK
<1>6. ASSUME NEW d \in Deciders, AcceptStep(d) PROVE ClaimInv'
  <2>0. accept[d] # Idle
    <3>1. accept[d].pc \in {"claim", "create", "link", "answer", "putBack"} \/ accept[d] # Idle
      BY <1>6 DEF AcceptStep, Claim, MakeTask, CreateFails, Link, LinkRefused, LinkFails, Answer,
                  AnswerFails, PutBack, AcceptStops
    <3> QED BY <3>1 DEF Idle
  <2>1. CASE Claim(d)
    <3> DEFINE q == accept[d].id
    <3>0. q \in RequestIds
      BY <2>0 DEF TypeOK, Accept
    <3>1. CASE Received(q) /\ Go(d, "create")
      <4>1. AcceptMoves(d, "create")
        BY <2>0, <3>1, Moves
      <4>2. \A c \in Deciders : ~Holds(c, q)
        BY <3>0, <3>1 DEF ClaimInv, Received
      <4>3. request' = [request EXCEPT ![q].state = "accepted"]
        BY <2>1, <3>1 DEF Claim
      <4> HIDE DEF q
      <4> QED BY <3>0, <4>1, <4>2, <4>3 DEF ClaimInv, Holds, AcceptMoves, TypeOK, Request, q
    <3>2. CASE UNCHANGED request /\ Finish(d)
      <4>1. AcceptEnds(d)
        BY <2>0, <3>2, Ends
      <4> QED BY <3>2, <4>1 DEF ClaimInv, Holds, AcceptEnds, Idle
    <3> QED BY <2>1, <3>1, <3>2 DEF Claim
  <2>2. CASE UNCHANGED request /\ \A c \in Deciders, q \in RequestIds : Holds(c, q)' => Holds(c, q)
    BY <2>2 DEF ClaimInv
  <2>3. ASSUME NEW t \in TaskIds, MakeTask(d, t) PROVE ClaimInv'
    BY <2>0, <2>2, <2>3 DEF MakeTask, Holds, TypeOK, Accept
  <2>4. CASE CreateFails(d) \/ LinkRefused(d) \/ LinkFails(d) \/ AnswerFails(d)
    <3>1. AcceptMoves(d, "putBack") /\ UNCHANGED request /\ accept[d].pc \in {"create", "link", "answer"}
      BY <2>0, <2>4, Moves DEF CreateFails, LinkRefused, LinkFails, AnswerFails
    <3> QED BY <2>2, <3>1 DEF AcceptMoves, Holds
  <2>5. CASE Answer(d) \/ AcceptStops(d)
    <3>1. AcceptEnds(d) /\ UNCHANGED request
      BY <2>0, <2>5, Ends DEF Answer, AcceptStops
    <3> QED BY <2>2, <3>1 DEF AcceptEnds, Holds, Idle
  <2>6. CASE Link(d)
    <3> DEFINE q == accept[d].id
    <3>1. AcceptMoves(d, "answer") /\ q \in RequestIds /\ Holds(d, q)
      BY <2>0, <2>6, Moves DEF Link, Holds, TypeOK, Accept
    <3>2. request' = [request EXCEPT ![q].task = accept[d].task] /\ request[q] # None
          /\ request[q].state = "accepted"
      BY <2>6, <3>1 DEF Link, ClaimInv
    <3>3. \A c \in Deciders, p \in RequestIds : Holds(c, p)' => Holds(c, p)
      BY <2>6, <3>1 DEF AcceptMoves, Holds, Link
    <3>4. \A p \in RequestIds :
            request'[p] # None =>
              /\ request[p] # None
              /\ request'[p] = request[p] \/ request'[p].state = "accepted"
      BY <3>1, <3>2 DEF TypeOK, Request
    <3> QED BY <3>3, <3>4 DEF ClaimInv
  <2>7. CASE PutBack(d)
    <3>0. PICK q \in RequestIds : q = accept[d].id
      BY <2>0 DEF TypeOK, Accept
    <3>1. AcceptEnds(d) /\ Holds(d, q)
      BY <2>0, <2>7, <3>0, Ends DEF PutBack, Holds
    <3>2. \A c \in Deciders : ~Holds(c, q)'
      BY <3>1 DEF ClaimInv, AcceptEnds, Holds, Idle
    <3>3. \A c \in Deciders, p \in RequestIds : Holds(c, p)' => Holds(c, p)
      BY <3>1 DEF AcceptEnds, Holds, Idle
    <3>4. \A p \in RequestIds :
            request'[p] # None =>
              /\ request[p] # None
              /\ request'[p].task = request[p].task
              /\ request'[p] = request[p] \/ (p = q /\ request[p].task = None)
      BY <2>7, <3>0 DEF PutBack, TypeOK, Request
    <3> QED BY <3>2, <3>3, <3>4 DEF ClaimInv
  <2> QED BY <1>6, <2>1, <2>3, <2>4, <2>5, <2>6, <2>7 DEF AcceptStep
<1> QED BY <1>1, <1>2, <1>3, <1>4, <1>5, <1>6 DEF Next, requestVars, vars

\* What a step may do to a request for its work to stay as it should: no new work, the same row, and
\* no accept of it further on than before, unless it ended.
WorkKept(q) ==
  /\ Made(q)' \subseteq Made(q)
  /\ request'[q] = request[q]
  /\ \A d \in Deciders : Holds(d, q)' => accept'[d] = accept[d]

LEMMA Kept == ASSUME NEW q, WorkInv(q), WorkKept(q) PROVE WorkInv(q)'
BY DEF WorkInv, WorkKept, Holds

\* A step of the board takes no work from requests and adds none.
LEMMA BoardMakesNothing ==
  ASSUME TypeOK, IdsInv, TasksNext, UNCHANGED from, NEW q \in RequestIds
  PROVE  Made(q)' \subseteq Made(q)
<1> SUFFICES ASSUME NEW t \in TaskIds, from[t] = q, task'[t] # None PROVE task[t] # None
  BY DEF Made, Exists
<1>1. t \in born
  BY ClientRequestsAssumption DEF IdsInv
<1>2. ASSUME NEW ids \in SUBSET TaskIds, NEW rows, Add(ids, rows) PROVE task[t] # None
  BY <1>1, <1>2 DEF Add
<1>3. ASSUME NEW e \in Editors, EditorStep(e) PROVE task[t] # None
  <2>1. CASE UpdateWrite(e)
    BY <2>1 DEF UpdateWrite, Exists, TypeOK, TasksTypeOK
  <2>2. ASSUME NEW u \in TaskIds, Spawn(e, u) PROVE task[t] # None
    BY <1>2, <2>2 DEF Spawn
  <2> QED BY <1>3, <2>1, <2>2 DEF EditorStep, UpdateStart, UpdateFails
<1> QED BY <1>2, <1>3 DEF TasksNext, Create, ImportMany

LEMMA WorkStep ==
  ASSUME TypeOK, IdsInv, ClaimInv, NEW q \in RequestIds, WorkInv(q), [Next]_vars, q \notin unlinked'
  PROVE  WorkInv(q)'
<1>1. CASE TasksNext /\ UNCHANGED requestVars
  BY <1>1, BoardMakesNothing, Kept DEF WorkKept, requestVars
<1>2. ASSUME NEW t \in TaskIds, RemoveTask(t) PROVE WorkInv(q)'
  <2>1. Made(q)' = Made(q) \ {t} /\ UNCHANGED accept
    BY <1>2 DEF Made, Exists, RemoveTask, Remove, TypeOK, TasksTypeOK
  <2>2. CASE request'[q] = request[q]
    BY <2>1, <2>2 DEF WorkInv, Holds
  <2>3. CASE request[q] # None /\ request[q].task = t /\ request'[q] = [request[q] EXCEPT !.task = None]
    <3>1. request'[q].state = request[q].state /\ request[q].state = "accepted"
      BY <1>2, <2>3, ClientRequestsAssumption DEF TypeOK, Request, ClaimInv
    <3> QED BY <2>1, <2>3, <3>1 DEF WorkInv, Holds
  <2> QED BY <1>2, <2>2, <2>3 DEF RemoveTask
<1>3. ASSUME NEW p \in RequestIds, Submit(p) \/ Decline(p) \/ RemoveRequest(p) PROVE WorkInv(q)'
  <2>1. Made(q)' = Made(q) /\ UNCHANGED accept
    BY <1>3 DEF Submit, Decline, RemoveRequest, taskVars, Made, Exists
  <2>2. CASE p # q
    BY <1>3, <2>1, <2>2, Kept DEF WorkKept, Submit, Decline, RemoveRequest, TypeOK
  <2>3. CASE p = q /\ Submit(p)
    <3>1. Made(q) = {} /\ \A d \in Deciders : ~Holds(d, q)
      BY <2>3, ClientRequestsAssumption DEF Submit, IdsInv, Made, Holds, Idle
    <3> QED BY <2>1, <3>1 DEF WorkInv, Holds
  <2>4. CASE p = q /\ Decline(p)
    <3>1. Made(q) = {} /\ \A d \in Deciders : ~Holds(d, q)
      BY <2>4 DEF Decline, Received, WorkInv, ClaimInv
    <3> QED BY <2>1, <3>1 DEF WorkInv, Holds
  <2>5. CASE p = q /\ RemoveRequest(p)
    BY <2>1, <2>5 DEF RemoveRequest, WorkInv, Holds, TypeOK
  <2> QED BY <1>3, <2>2, <2>3, <2>4, <2>5
<1>4. ASSUME NEW d \in Deciders, NEW p \in RequestIds, AcceptStart(d, p) PROVE WorkInv(q)'
  BY <1>4, Kept DEF WorkKept, AcceptStart, taskVars, Made, Exists, Holds, TypeOK
<1>5. ASSUME NEW d \in Deciders, AcceptStep(d) PROVE WorkInv(q)'
  <2>0. ASSUME accept[d].pc \in {"claim", "create", "link", "answer", "putBack"} PROVE accept[d] # Idle
    BY <2>0 DEF Idle
  <2>1. ASSUME NEW t \in TaskIds, MakeTask(d, t) PROVE WorkInv(q)'
    <3>1. /\ accept[d] \in Accept /\ accept[d].pc = "create" /\ UNCHANGED request
          /\ accept'[d].pc = "link" /\ accept'[d].id = accept[d].id /\ accept'[d].task = t
          /\ \A c \in Deciders : c # d => accept'[c] = accept[c]
      BY <2>0, <2>1 DEF MakeTask, TypeOK, Accept
    <3>2. task[t] = None /\ from[t] = None /\ from' = [from EXCEPT ![t] = accept[d].id]
          /\ \A u \in TaskIds : u # t => task'[u] = task[u]
      BY <2>1 DEF MakeTask, Create, Add, IdsInv
    <3>3. CASE accept[d].id = q
      <4>1. Holds(d, q) /\ Made(q) = {} /\ \A c \in Deciders : Holds(c, q) => c = d
        BY <3>1, <3>3 DEF Holds, WorkInv, ClaimInv
      <4>2. Made(q)' \subseteq {t}
        BY <3>2, <4>1 DEF Made, Exists, TypeOK
      <4>3. request[q] # None => request[q].state = "accepted"
        BY <4>1 DEF ClaimInv
      <4>4. \A c \in Deciders : Holds(c, q)' => c = d
        BY <3>1, <4>1 DEF Holds
      <4> QED BY <3>1, <4>2, <4>3, <4>4 DEF WorkInv, Holds
    <3>4. CASE accept[d].id # q
      <4>1. Made(q)' \subseteq Made(q)
        BY <3>2, <3>4 DEF Made, Exists, TypeOK
      <4> QED BY <3>1, <3>4, <4>1, Kept DEF WorkKept, Holds
    <3> QED BY <3>3, <3>4
  <2>2. ASSUME UNCHANGED <<taskVars, from>> PROVE Made(q)' = Made(q)
    BY <2>2 DEF Made, Exists, taskVars
  <2>3. ASSUME UNCHANGED <<taskVars, from, request>>, AcceptEnds(d) PROVE WorkInv(q)'
    BY <2>2, <2>3, Kept DEF WorkKept, AcceptEnds, Holds, Idle
  <2>4. CASE Claim(d)
    <3>1. CASE Received(accept[d].id) /\ Go(d, "create")
      <4>1. AcceptMoves(d, "create") /\ accept[d].id \in RequestIds /\ Made(q)' = Made(q)
        BY <2>0, <2>2, <2>4, <3>1, Moves DEF Claim, AcceptMoves, Accept
      <4>2. CASE accept[d].id = q
        <5>1. Made(q) = {} /\ \A c \in Deciders : ~Holds(c, q)
          BY <3>1, <4>2 DEF Received, WorkInv, ClaimInv
        <5>2. \A c \in Deciders : Holds(c, q)' => c = d /\ accept'[c].pc = "create"
          BY <4>1, <5>1 DEF AcceptMoves, Holds
        <5> QED BY <4>1, <5>1, <5>2 DEF WorkInv
      <4>3. CASE accept[d].id # q
        BY <2>4, <4>1, <4>3, Kept DEF WorkKept, Claim, AcceptMoves, Holds, TypeOK
      <4> QED BY <4>2, <4>3
    <3>2. CASE UNCHANGED request /\ Finish(d)
      BY <2>0, <2>3, <2>4, <3>2, Ends DEF Claim
    <3> QED BY <2>4, <3>1, <3>2 DEF Claim
  <2>5. CASE CreateFails(d) \/ LinkRefused(d) \/ LinkFails(d) \/ AnswerFails(d)
    <3>1. /\ AcceptMoves(d, "putBack") /\ UNCHANGED request /\ Made(q)' = Made(q)
          /\ accept[d].pc \in {"create", "link", "answer"}
      BY <2>0, <2>2, <2>5, Moves DEF CreateFails, LinkRefused, LinkFails, AnswerFails
    <3>2. CASE accept[d].id = q
      <4>1. Holds(d, q)
        BY <3>1, <3>2 DEF Holds
      <4>2. request[q] # None => Made(q) \subseteq {request[q].task}
        <5>1. CASE CreateFails(d)
          BY <4>1, <5>1 DEF CreateFails, WorkInv
        <5>2. CASE LinkRefused(d)
          BY <3>2, <4>1, <5>2 DEF LinkRefused, WorkInv, Made, Exists
        <5>3. CASE AnswerFails(d)
          BY <4>1, <5>3 DEF AnswerFails, WorkInv
        <5>4. ~LinkFails(d)
          BY <3>2 DEF LinkFails
        <5> QED BY <2>5, <5>1, <5>2, <5>3, <5>4
      <4>3. \A c \in Deciders : Holds(c, q)' => c = d
        BY <3>1, <4>1 DEF AcceptMoves, Holds, ClaimInv
      <4> QED BY <3>1, <4>2, <4>3 DEF WorkInv, AcceptMoves
    <3>3. CASE accept[d].id # q
      BY <3>1, <3>3, Kept DEF WorkKept, AcceptMoves, Holds
    <3> QED BY <3>2, <3>3
  <2>6. CASE Answer(d) \/ AcceptStops(d)
    BY <2>0, <2>3, <2>6, Ends DEF Answer, AcceptStops
  <2>7. CASE Link(d)
    <3>1. /\ AcceptMoves(d, "answer") /\ Made(q)' = Made(q) /\ accept[d].pc = "link"
          /\ accept[d].id \in RequestIds
          /\ request' = [request EXCEPT ![accept[d].id].task = accept[d].task]
      BY <2>0, <2>2, <2>7, Moves DEF Link, AcceptMoves, Accept
    <3>2. CASE accept[d].id = q
      <4>1. Holds(d, q) /\ Made(q) \subseteq {accept[d].task}
        BY <3>1, <3>2 DEF Holds, WorkInv
      <4>2. request[q] # None /\ request[q].state = "accepted"
        BY <2>7, <3>2, <4>1 DEF Link, ClaimInv
      <4>3. request'[q].task = accept[d].task /\ request'[q].state = "accepted"
        BY <3>1, <3>2, <4>2 DEF TypeOK, Request
      <4>4. \A c \in Deciders : Holds(c, q)' => c = d
        BY <3>1, <4>1 DEF AcceptMoves, Holds, ClaimInv
      <4> QED BY <3>1, <4>1, <4>3, <4>4 DEF WorkInv, AcceptMoves
    <3>3. CASE accept[d].id # q
      <4>1. request'[q] = request[q]
        BY <3>1, <3>3 DEF TypeOK
      <4> QED BY <3>1, <3>3, <4>1, Kept DEF WorkKept, AcceptMoves, Holds
    <3> QED BY <3>2, <3>3
  <2>8. CASE PutBack(d)
    <3>1. AcceptEnds(d) /\ Made(q)' = Made(q)
      BY <2>0, <2>2, <2>8, Ends DEF PutBack
    <3>2. CASE request'[q] = request[q]
      BY <3>1, <3>2, Kept DEF WorkKept, AcceptEnds, Holds, Idle
    <3>3. CASE accept[d].id = q /\ request[q] # None /\ request[q].task = None
      <4>1. Holds(d, q) /\ Made(q) = {}
        <5>1. Holds(d, q) /\ Made(q) \subseteq {None}
          BY <2>8, <3>3 DEF PutBack, Holds, WorkInv
        <5> QED BY <5>1, ClientRequestsAssumption DEF Made
      <4>2. \A c \in Deciders : ~Holds(c, q)'
        BY <3>1, <4>1 DEF AcceptEnds, Holds, ClaimInv, Idle
      <4> QED BY <3>1, <4>1, <4>2 DEF WorkInv
    <3> QED BY <2>8, <3>2, <3>3 DEF PutBack, TypeOK
  <2> QED BY <1>5, <2>1, <2>4, <2>5, <2>6, <2>7, <2>8 DEF AcceptStep
<1>6. CASE UNCHANGED vars
  BY <1>6, Kept DEF WorkKept, vars, taskVars, Made, Exists
<1> QED BY <1>1, <1>2, <1>3, <1>4, <1>5, <1>6 DEF Next

\* The inductive invariant of requests: who has claimed one, and what is on the board of it.
THEOREM RequestsSafe == Spec => []RequestsInv
<1>1. ASSUME TypeOK, RequestsInv, [Next]_vars PROVE RequestsInv'
  <2>1. unlinked \subseteq unlinked'
    BY <1>1 DEF Next, vars, requestVars, RemoveTask, Submit, Decline, RemoveRequest, AcceptStart, AcceptStep,
                Claim, MakeTask, CreateFails, Link, LinkRefused, LinkFails, Answer, AnswerFails, PutBack,
                AcceptStops
  <2> QED BY <1>1, <2>1, IdsStep, ClaimStep, WorkStep DEF RequestsInv
<1> QED BY <1>1, RequestsInvInit, TypeCorrect, PTL DEF Spec

\* However many accept the same request, decline, remove and fail, it has one task on the board, unless
\* the link to a task failed.
THEOREM OneTask == Spec => []OneTaskPerRequest
<1>1. ASSUME RequestsInv PROVE OneTaskPerRequest
  <2> SUFFICES ASSUME NEW q \in RequestIds, q \notin unlinked PROVE ~(Cardinality(Made(q)) > 1)
    BY DEF OneTaskPerRequest
  <2>1. CASE Made(q) = {}
    BY <2>1, FS_EmptySet
  <2>2. ASSUME NEW t \in Made(q) PROVE ~(Cardinality(Made(q)) > 1)
    <3>1. Made(q) = {t}
      BY <1>1, <2>2 DEF RequestsInv, WorkInv
    <3>2. Cardinality({t}) = 1
      BY FS_Singleton
    <3> QED BY <3>1, <3>2
  <2> QED BY <2>1, <2>2
<1> QED BY <1>1, RequestsSafe, PTL

\* A request that is not accepted has no work on the board, unless the link to a task failed.
THEOREM OnlyAcceptedWork == Spec => []OnlyAcceptedIsWork
<1>1. RequestsInv => OnlyAcceptedIsWork
  BY DEF RequestsInv, WorkInv, OnlyAcceptedIsWork
<1> QED BY <1>1, RequestsSafe, PTL

\* A request linked to a task that is there stays accepted.
THEOREM LinkedStays == Spec => LinkedStaysAccepted
<1>1. ASSUME TypeOK, RequestsInv, [Next]_vars,
             NEW q \in RequestIds, request[q] # None, request[q].task # None, request'[q] # None
      PROVE  request'[q].state = "accepted"
  <2>1. request[q].state = "accepted" /\ q \in asked
    BY <1>1 DEF RequestsInv, ClaimInv, IdsInv
  <2>2. request'[q] = request[q] \/ request'[q].state = "accepted"
    <3>1. ASSUME NEW d \in Deciders, AcceptStep(d)
          PROVE  request'[q] = request[q] \/ request'[q].state = "accepted"
      BY <1>1, <2>1, <3>1
         DEF AcceptStep, Claim, MakeTask, CreateFails, Link, LinkRefused, LinkFails, Answer, AnswerFails,
             PutBack, AcceptStops, Received, TypeOK, Request
    <3>2. ASSUME NEW t \in TaskIds, RemoveTask(t)
          PROVE  request'[q] = request[q] \/ request'[q].state = "accepted"
      BY <1>1, <2>1, <3>2 DEF RemoveTask, TypeOK, Request
    <3> QED BY <1>1, <2>1, <3>1, <3>2
            DEF Next, vars, requestVars, Submit, Decline, RemoveRequest, AcceptStart, Received, TypeOK
  <2> QED BY <2>1, <2>2
<1>2. TypeOK /\ RequestsInv /\ [Next]_vars
        => [\A q \in RequestIds :
              request[q] # None /\ request[q].task # None /\ request'[q] # None
                => request'[q].state = "accepted"]_vars
  BY <1>1
<1> QED BY <1>2, TypeCorrect, RequestsSafe, PTL DEF Spec, LinkedStaysAccepted
=============================================================================
