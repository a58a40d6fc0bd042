---------------------------- MODULE WebhookLedger ----------------------------
(* The WebhookEvent table and the four webhook handlers around it: the id of an *)
(* event is recorded before anything else, a conflict is answered "received",   *)
(* and a failure forgets the id so that the gateway's next attempt is handled.  *)
(* Gateways deliver at least once, again until answered, and now and then after *)
(* that; the server may stop between any two steps. Old rows are pruned.        *)
EXTENDS Naturals

CONSTANTS
  Events,
  Handlers,     \* attempts the server can be working on at the same time
  None,
  RetryDays,    \* a gateway delivers an event for this long (Stripe: about 3 days)
  KeepDays,     \* the ledger keeps a row this long (30 days)
  MaxDay,       \* bound on the calendar
  MaxFailures,  \* bound on attempts whose processing throws
  MaxCrashes    \* bound on restarts, and on rows that could not be forgotten

ASSUME LedgerAssumption ==
  /\ RetryDays \in Nat /\ KeepDays \in Nat /\ RetryDays <= KeepDays
  /\ MaxDay \in Nat /\ MaxFailures \in Nat /\ MaxCrashes \in Nat
  /\ None \notin Events \cup Nat

VARIABLES
  sentOn,    \* the day an event happened at its gateway
  answered,  \* events a gateway has had a 2xx for
  ledger,    \* ledger[e]: the day e's row was created, or None
  handler,   \* handler[h]: where attempt h is, and with which event
  applied,   \* applied[e]: completed runs of processEvent
  today, failures, crashes

vars == <<sentOn, answered, ledger, handler, applied, today, failures, crashes>>

Days == 0 .. MaxDay
Idle == [pc |-> "idle", event |-> None]

TypeOK ==
  /\ sentOn \in [Events -> Days \cup {None}]
  /\ answered \subseteq Events
  /\ ledger \in [Events -> Days \cup {None}]
  /\ handler \in [Handlers -> [pc : {"idle"}, event : {None}]
                                \cup [pc : {"record", "process", "forget", "ok"}, event : Events]]
  /\ applied \in [Events -> Nat]
  /\ today \in Days /\ failures \in 0 .. MaxFailures /\ crashes \in 0 .. MaxCrashes

At(h, pc) == handler[h].pc = pc
Event(h) == handler[h].event
Goto(h, pc) == handler' = [handler EXCEPT ![h].pc = pc]
Leave(h) == handler' = [handler EXCEPT ![h] = Idle]

Open(e) == sentOn[e] # None /\ today <= sentOn[e] + RetryDays

-----------------------------------------------------------------------------
Happens(e) ==
  /\ sentOn[e] = None
  /\ sentOn' = [sentOn EXCEPT ![e] = today]
  /\ UNCHANGED <<answered, ledger, handler, applied, today, failures, crashes>>

\* A gateway's attempt reaches the server, its signature in order.
Deliver(h, e) ==
  /\ At(h, "idle") /\ Open(e)
  /\ handler' = [handler EXCEPT ![h] = [pc |-> "record", event |-> e]]
  /\ UNCHANGED <<sentOn, answered, ledger, applied, today, failures, crashes>>

\* Seeded fault: the id is looked up here and written only once the event is processed.
RecordLate(h) ==
  /\ At(h, "record")
  /\ IF ledger[Event(h)] = None THEN Goto(h, "process") ELSE Goto(h, "ok")
  /\ UNCHANGED <<sentOn, answered, ledger, applied, today, failures, crashes>>

\* The unique index decides which attempt may go on.
Record(h) ==
  /\ At(h, "record")
  /\ \/ /\ ledger[Event(h)] = None
        /\ ledger' = [ledger EXCEPT ![Event(h)] = today]
        /\ Goto(h, "process")
     \/ /\ ledger[Event(h)] # None
        /\ Goto(h, "ok") /\ UNCHANGED ledger
  /\ UNCHANGED <<sentOn, answered, applied, today, failures, crashes>>

Process(h) ==
  /\ At(h, "process")
  /\ applied' = [applied EXCEPT ![Event(h)] = @ + 1]
  /\ Goto(h, "ok")
  /\ UNCHANGED <<sentOn, answered, ledger, today, failures, crashes>>

ProcessFails(h) ==
  /\ At(h, "process")
  /\ failures < MaxFailures /\ failures' = failures + 1
  /\ Goto(h, "forget")
  /\ UNCHANGED <<sentOn, answered, ledger, applied, today, crashes>>

\* Seeded fault: the error is passed on and the row stays.
ForgetNothing(h) ==
  /\ At(h, "forget")
  /\ Leave(h)
  /\ UNCHANGED <<sentOn, answered, ledger, applied, today, failures, crashes>>

\* deleteMany, whose own failure is ignored; then a 5xx, and the gateway will try again.
Forget(h) ==
  /\ At(h, "forget")
  /\ \/ ledger' = [ledger EXCEPT ![Event(h)] = None] /\ UNCHANGED crashes
     \/ crashes < MaxCrashes /\ crashes' = crashes + 1 /\ UNCHANGED ledger
  /\ Leave(h)
  /\ UNCHANGED <<sentOn, answered, applied, today, failures>>

Respond(h) ==
  /\ At(h, "ok")
  /\ answered' = answered \cup {Event(h)}
  /\ Leave(h)
  /\ UNCHANGED <<sentOn, ledger, applied, today, failures, crashes>>

\* The process ends; what is in the table stays.
Crash ==
  /\ crashes < MaxCrashes /\ crashes' = crashes + 1
  /\ handler' = [h \in Handlers |-> Idle]
  /\ UNCHANGED <<sentOn, answered, ledger, applied, today, failures>>

\* Seeded fault: rows are pruned a day too early.
PruneEarly ==
  /\ \E e \in Events : ledger[e] # None /\ ledger[e] < today
  /\ ledger' = [e \in Events |-> IF ledger[e] # None /\ ledger[e] < today THEN None ELSE ledger[e]]
  /\ UNCHANGED <<sentOn, answered, handler, applied, today, failures, crashes>>

\* runCleanup's deleteMany.
Old(e) == ledger[e] # None /\ ledger[e] + KeepDays < today
Prune ==
  /\ \E e \in Events : Old(e)
  /\ ledger' = [e \in Events |-> IF Old(e) THEN None ELSE ledger[e]]
  /\ UNCHANGED <<sentOn, answered, handler, applied, today, failures, crashes>>

\* No attempt runs from one day to the next.
NextDay ==
  /\ today < MaxDay /\ today' = today + 1
  /\ \A h \in Handlers : At(h, "idle")
  /\ UNCHANGED <<sentOn, answered, ledger, handler, applied, failures, crashes>>

-----------------------------------------------------------------------------
Init ==
  /\ sentOn = [e \in Events |-> None]
  /\ answered = {}
  /\ ledger = [e \in Events |-> None]
  /\ handler = [h \in Handlers |-> Idle]
  /\ applied = [e \in Events |-> 0]
  /\ today = 0 /\ failures = 0 /\ crashes = 0

Handle(h) == Record(h) \/ Process(h) \/ ProcessFails(h) \/ Forget(h) \/ Respond(h)

Next ==
  \/ \E e \in Events : Happens(e) \/ \E h \in Handlers : Deliver(h, e)
  \/ \E h \in Handlers : Handle(h)
  \/ Crash \/ Prune \/ NextDay

Spec == Init /\ [][Next]_vars

\* A handler that was started goes on, and a gateway repeats what was not answered. Strong,
\* because another event may take the handler each time it is free.
Fairness ==
  /\ \A h \in Handlers : WF_vars(Handle(h))
  /\ \A e \in Events : SF_vars(e \notin answered /\ \E h \in Handlers : Deliver(h, e))

FairSpec == Spec /\ Fairness

-----------------------------------------------------------------------------
(* Properties. *)

\* Two attempts never process the same event at the same time, however often a gateway
\* delivers it and whatever failed or crashed before.
OneAttemptAtATime ==
  \A g, h \in Handlers :
    At(g, "process") /\ At(h, "process") /\ Event(g) = Event(h) => g = h

\* The ledger implements OnceEach: an event takes effect at most once, also when it is delivered
\* again after its row was pruned.
Once == INSTANCE OnceEach
          WITH busy <- {e \in Events : ledger[e] # None /\ applied[e] = 0}, times <- applied
ImplementsOnceEach == Once!Spec

\* An event that fails is handled for real by a later attempt: while no attempt overlaps another
\* and the server stays up, every event is applied, unless its gateway stops sending it.
Calm == crashes = 0 /\ \A g, h \in Handlers : Event(g) = Event(h) /\ Event(g) # None => g = h
FailedIsRetried ==
  []Calm => \A e \in Events : sentOn[e] # None ~> applied[e] > 0 \/ ~Open(e)
=============================================================================
