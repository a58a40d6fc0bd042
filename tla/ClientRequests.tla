---------------------------- MODULE ClientRequests ----------------------------
(* What clients ask for on the status page, and the board the accepted requests *)
(* become tasks of. Accepting is a claim on the request, a new task and a link  *)
(* between them: three writes, with anything of the board and of other          *)
(* decisions between them, and any of them may fail.                            *)
EXTENDS Tasks

CONSTANTS
  RequestIds, Deciders,  \* rows that may ever exist; accepts under way at the same time
  MaxAccepts, MaxFaults  \* bounds on accepts and on failing writes and reads

ASSUME ClientRequestsAssumption ==
  /\ IsFiniteSet(TaskIds) /\ IsFiniteSet(Editors)
  /\ None \notin TaskIds \cup RequestIds /\ None \notin Status /\ None \notin BOOLEAN
  /\ MaxUpdates \in Nat /\ MaxAccepts \in Nat /\ MaxFaults \in Nat

VARIABLES
  request,   \* request[q]: the ClientRequest row, or None
  accept,    \* accept[d]: an accept under way
  asked,     \* ids in use or used
  accepts, faults,
  \* History:
  from,      \* from[t]: the request task t was made from
  unlinked,  \* requests whose task was made and could not be linked
  linked     \* requests that have been linked to their task

vars == <<taskVars, request, accept, asked, accepts, faults, from, unlinked, linked>>
requestVars == <<request, accept, asked, accepts, faults, from, unlinked, linked>>

Request == [state : {"received", "accepted", "declined"}, task : TaskIds \cup {None}]
Accept ==
  [pc : {"claim", "create", "link", "answer", "putBack"}, id : RequestIds, task : TaskIds \cup {None}]

TypeOK ==
  /\ TasksTypeOK
  /\ request \in [RequestIds -> Request \cup {None}]
  /\ accept \in [Deciders -> Accept \cup {Idle}]
  /\ asked \subseteq RequestIds /\ accepts \in 0 .. MaxAccepts /\ faults \in 0 .. MaxFaults
  /\ from \in [TaskIds -> RequestIds \cup {None}]
  /\ unlinked \subseteq RequestIds /\ linked \subseteq RequestIds

-----------------------------------------------------------------------------
Received(q) == request[q] # None /\ request[q].state = "received"

Go(d, pc) == accept' = [accept EXCEPT ![d].pc = pc]
Finish(d) == accept' = [accept EXCEPT ![d] = Idle]
Fault == faults < MaxFaults /\ faults' = faults + 1

Submit(q) ==
  /\ q \notin asked
  /\ asked' = asked \cup {q}
  /\ request' = [request EXCEPT ![q] = [state |-> "received", task |-> None]]
  /\ UNCHANGED <<taskVars, accept, accepts, faults, from, unlinked, linked>>

AcceptStart(d, q) ==
  /\ accept[d] = Idle /\ request[q] # None
  /\ accepts < MaxAccepts /\ accepts' = accepts + 1
  /\ accept' = [accept EXCEPT ![d] = [pc |-> "claim", id |-> q, task |-> None]]
  /\ UNCHANGED <<taskVars, request, asked, faults, from, unlinked, linked>>

\* Seeded fault: the row is claimed whatever has become of it.
ClaimBlindly(d) ==
  LET q == accept[d].id IN
  /\ accept[d].pc = "claim" /\ request[q] # None
  /\ request' = [request EXCEPT ![q].state = "accepted"]
  /\ Go(d, "create")
  /\ UNCHANGED <<taskVars, asked, accepts, faults, from, unlinked, linked>>

Claim(d) ==
  LET q == accept[d].id IN
  /\ accept[d].pc = "claim"
  /\ \/ /\ Received(q)
        /\ request' = [request EXCEPT ![q].state = "accepted"]
        /\ Go(d, "create")
     \/ /\ ~Received(q)
        /\ Finish(d) /\ UNCHANGED request
  /\ UNCHANGED <<taskVars, asked, accepts, faults, from, unlinked, linked>>

\* taskService.create, in a serializable transaction that may be aborted.
MakeTask(d, t) ==
  /\ accept[d].pc = "create"
  /\ Create(t, "todo", FALSE)
  /\ accept' = [accept EXCEPT ![d].pc = "link", ![d].task = t]
  /\ from' = [from EXCEPT ![t] = accept[d].id]
  /\ UNCHANGED <<request, asked, accepts, faults, unlinked, linked>>

CreateFails(d) ==
  /\ accept[d].pc = "create"
  /\ Go(d, "putBack")
  /\ UNCHANGED <<taskVars, request, asked, accepts, faults, from, unlinked, linked>>

Link(d) ==
  LET q == accept[d].id IN
  /\ accept[d].pc = "link" /\ request[q] # None /\ Exists(accept[d].task)
  /\ request' = [request EXCEPT ![q].task = accept[d].task]
  /\ linked' = linked \cup {q}
  /\ Go(d, "answer")
  /\ UNCHANGED <<taskVars, asked, accepts, faults, from, unlinked>>

\* The request or the task is gone.
LinkRefused(d) ==
  /\ accept[d].pc = "link" /\ (request[accept[d].id] = None \/ ~Exists(accept[d].task))
  /\ Go(d, "putBack")
  /\ UNCHANGED <<taskVars, request, asked, accepts, faults, from, unlinked, linked>>

LinkFails(d) ==
  /\ accept[d].pc = "link" /\ Fault
  /\ unlinked' = unlinked \cup {accept[d].id}
  /\ Go(d, "putBack")
  /\ UNCHANGED <<taskVars, request, asked, accepts, from, linked>>

\* The row is read once more for the answer.
Answer(d) ==
  /\ accept[d].pc = "answer"
  /\ Finish(d)
  /\ UNCHANGED <<taskVars, request, asked, accepts, faults, from, unlinked, linked>>

AnswerFails(d) ==
  /\ accept[d].pc = "answer" /\ Fault
  /\ Go(d, "putBack")
  /\ UNCHANGED <<taskVars, request, asked, accepts, from, unlinked, linked>>

PutBack(d) ==
  LET q == accept[d].id IN
  /\ accept[d].pc = "putBack"
  /\ request' = IF request[q] # None /\ request[q].task = None
                THEN [request EXCEPT ![q].state = "received"] ELSE request
  /\ Finish(d)
  /\ UNCHANGED <<taskVars, asked, accepts, faults, from, unlinked, linked>>

\* The server stops, or putting back fails.
AcceptStops(d) ==
  /\ accept[d] # Idle /\ Fault
  /\ Finish(d)
  /\ UNCHANGED <<taskVars, request, asked, accepts, from, unlinked, linked>>

\* Seeded fault: declined whatever it is by now.
DeclineAny(q) ==
  /\ request[q] # None /\ request[q].state # "declined"
  /\ request' = [request EXCEPT ![q].state = "declined"]
  /\ UNCHANGED <<taskVars, accept, asked, accepts, faults, from, unlinked, linked>>

Decline(q) ==
  /\ Received(q)
  /\ request' = [request EXCEPT ![q].state = "declined"]
  /\ UNCHANGED <<taskVars, accept, asked, accepts, faults, from, unlinked, linked>>

RemoveRequest(q) ==
  /\ request[q] # None
  /\ request' = [request EXCEPT ![q] = None]
  /\ UNCHANGED <<taskVars, accept, asked, accepts, faults, from, unlinked, linked>>

\* The link goes with the task (ClientRequest.task, onDelete: SetNull).
RemoveTask(t) ==
  /\ Remove(t)
  /\ request' = [q \in RequestIds |-> IF request[q] # None /\ request[q].task = t
                                      THEN [request[q] EXCEPT !.task = None] ELSE request[q]]
  /\ UNCHANGED <<accept, asked, accepts, faults, from, unlinked, linked>>

Init ==
  /\ TasksInit
  /\ request = [q \in RequestIds |-> None] /\ asked = {}
  /\ accept = [d \in Deciders |-> Idle] /\ accepts = 0 /\ faults = 0
  /\ from = [t \in TaskIds |-> None] /\ unlinked = {} /\ linked = {}

AcceptStep(d) ==
  \/ Claim(d)
  \/ \E t \in TaskIds : MakeTask(d, t)
  \/ CreateFails(d)
  \/ Link(d)
  \/ LinkRefused(d)
  \/ LinkFails(d)
  \/ Answer(d)
  \/ AnswerFails(d)
  \/ PutBack(d)
  \/ AcceptStops(d)

Next ==
  \/ TasksNext /\ UNCHANGED requestVars
  \/ \E t \in TaskIds : RemoveTask(t)
  \/ \E q \in RequestIds : Submit(q) \/ Decline(q) \/ RemoveRequest(q)
  \/ \E d \in Deciders, q \in RequestIds : AcceptStart(d, q)
  \/ \E d \in Deciders : AcceptStep(d)

Spec == Init /\ [][Next]_vars

-----------------------------------------------------------------------------
(* What must hold. *)

Made(q) == {t \in TaskIds : Exists(t) /\ from[t] = q}

\* However many people press "accept", and whatever is put back, removed or declined meanwhile, the
\* board has one task of a request; a second one takes a link that failed (request.service.js 155-184).
OneTaskPerRequest ==
  \A q \in RequestIds : Cardinality(Made(q)) > 1 => q \in unlinked

\* A request the client sees as received or declined is no work on the board (request.service.js
\* 41-46, 177-184).
OnlyAcceptedIsWork ==
  \A q \in RequestIds :
    request[q] # None /\ request[q].state # "accepted" /\ q \notin unlinked => Made(q) = {}

\* Once a request is linked to its task and the task is there, nobody takes the decision back: no
\* later failure of the same accept, no second accept and no decline (request.service.js 158-201).
LinkedStaysAccepted ==
  [][\A q \in RequestIds :
       request[q] # None /\ request[q].task # None /\ request'[q] # None
         => request'[q].state = "accepted"]_vars
=============================================================================
