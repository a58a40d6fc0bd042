------------------------- MODULE WebhookLedgerProofs -------------------------
(* The webhook ledger implements OnceEach for any number of events, attempts,    *)
(* crashes and days, as long as it keeps a row at least as long as a gateway     *)
(* goes on delivering the event.                                                 *)
EXTENDS WebhookLedger, TLAPS

-----------------------------------------------------------------------------
(* The strengthening. An attempt that holds an event is within the time the      *)
(* gateway delivers it; one that has the row has it alone, before any effect;    *)
(* and an event whose row is gone after it took effect is delivered no more.     *)
Holds(h, e) == handler[h].pc \in {"process", "forget"} /\ Event(h) = e

RowsAreDated ==
  \A e \in Events :
    /\ sentOn[e] # None => sentOn[e] <= today
    /\ ledger[e] # None => sentOn[e] # None /\ sentOn[e] <= ledger[e]
AttemptsAreOpen ==
  \A h \in Handlers : ~At(h, "idle") => Open(Event(h))
HoldersHaveRows ==
  \A h \in Handlers, e \in Events : Holds(h, e) => ledger[e] # None /\ applied[e] = 0
OneHolder ==
  \A g, h \in Handlers, e \in Events : Holds(g, e) /\ Holds(h, e) => g = h
AppliedIsOver ==
  \A e \in Events : applied[e] # 0 =>
    applied[e] = 1 /\ sentOn[e] # None /\ (ledger[e] # None \/ ~Open(e))

LedgerInv ==
  /\ TypeOK
  /\ RowsAreDated /\ AttemptsAreOpen /\ HoldersHaveRows /\ OneHolder /\ AppliedIsOver

-----------------------------------------------------------------------------
\* A handler is idle with no event, or at work with one.
LEMMA HandlerFields ==
  ASSUME TypeOK, NEW h \in Handlers
  PROVE  /\ handler[h].pc \in {"idle", "record", "process", "forget", "ok"}
         /\ handler[h].pc # "idle" => Event(h) \in Events
         /\ handler[h].pc = "idle" => Event(h) = None
BY DEF TypeOK, Event

\* A handler that moves on keeps its event, and the others stay where they are.
LEMMA Moved ==
  ASSUME TypeOK, NEW h \in Handlers, NEW pc, Goto(h, pc)
  PROVE  /\ handler'[h].pc = pc /\ handler'[h].event = handler[h].event
         /\ \A g \in Handlers : g # h => handler'[g] = handler[g]
         /\ handler[h].pc # "idle" /\ pc \in {"record", "process", "forget", "ok"} =>
              handler' \in [Handlers -> [pc : {"idle"}, event : {None}]
                             \cup [pc : {"record", "process", "forget", "ok"}, event : Events]]
BY DEF TypeOK, Goto

\* LedgerInv is inductive.
LEMMA LedgerStep == LedgerInv /\ [Next]_vars => LedgerInv'
<1> SUFFICES ASSUME LedgerInv, [Next]_vars PROVE LedgerInv'
  OBVIOUS
<1> USE LedgerAssumption DEF LedgerInv, Holds, At, Open, Event, Days
<1>1. ASSUME NEW e \in Events, Happens(e) PROVE LedgerInv'
  <2>1. \A h \in Handlers : handler[h].pc # "idle" => handler[h].event \in Events /\ handler[h].event # e
    BY <1>1, HandlerFields DEF Happens, AttemptsAreOpen
  <2>2. applied[e] = 0
    BY <1>1 DEF Happens, AppliedIsOver, RowsAreDated
  <2> QED BY <1>1, <2>1, <2>2
       DEF Happens, TypeOK, RowsAreDated, AttemptsAreOpen, HoldersHaveRows, OneHolder, AppliedIsOver
<1>2. ASSUME NEW h \in Handlers, NEW e \in Events, Deliver(h, e) PROVE LedgerInv'
  BY <1>2 DEF Deliver, TypeOK, RowsAreDated, AttemptsAreOpen, HoldersHaveRows, OneHolder, AppliedIsOver
<1>3. ASSUME NEW h \in Handlers, Record(h) PROVE LedgerInv'
  <2> DEFINE e == Event(h)
  <2>1. e \in Events /\ Open(e) /\ handler[h].pc = "record"
    BY <1>3, HandlerFields DEF Record, AttemptsAreOpen
  <2>2. CASE ledger[e] = None /\ ledger' = [ledger EXCEPT ![e] = today] /\ Goto(h, "process")
    <3>1. applied[e] = 0 /\ \A g \in Handlers : ~Holds(g, e)
      BY <2>1, <2>2 DEF AppliedIsOver, HoldersHaveRows
    <3>2. TypeOK'
      BY <1>3, <2>1, <2>2, Moved DEF Record, TypeOK
    <3>3. sentOn[e] \in Nat /\ today \in Nat /\ None \notin Nat
      BY <2>1 DEF TypeOK
    <3>4. RowsAreDated' /\ AppliedIsOver'
      BY <1>3, <2>1, <2>2, <3>1 DEF Record, TypeOK, RowsAreDated, AppliedIsOver
    <3>5. AttemptsAreOpen' /\ HoldersHaveRows' /\ OneHolder'
      BY <1>3, <2>1, <2>2, <3>1, <3>3, Moved DEF Record, TypeOK, AttemptsAreOpen, HoldersHaveRows, OneHolder
    <3> QED BY <3>2, <3>4, <3>5
  <2>3. CASE UNCHANGED ledger /\ Goto(h, "ok")
    BY <1>3, <2>1, <2>3, Moved
       DEF Record, TypeOK, RowsAreDated, AttemptsAreOpen, HoldersHaveRows, OneHolder, AppliedIsOver
  <2> QED BY <1>3, <2>2, <2>3 DEF Record
<1>4. ASSUME NEW h \in Handlers, Process(h) PROVE LedgerInv'
  <2> DEFINE e == Event(h)
  <2>1. e \in Events /\ Holds(h, e) /\ handler[h].pc = "process" /\ ledger[e] # None /\ applied[e] = 0
    BY <1>4, HandlerFields DEF Process, HoldersHaveRows
  <2>2. \A g \in Handlers : Holds(g, e) => g = h
    BY <2>1 DEF OneHolder
  <2>3. TypeOK'
    BY <1>4, <2>1, Moved DEF Process, TypeOK
  <2>4. RowsAreDated' /\ AppliedIsOver'
    BY <1>4, <2>1 DEF Process, TypeOK, RowsAreDated, AppliedIsOver
  <2>5. AttemptsAreOpen' /\ HoldersHaveRows' /\ OneHolder'
    BY <1>4, <2>1, <2>2, Moved DEF Process, TypeOK, AttemptsAreOpen, HoldersHaveRows, OneHolder
  <2> QED BY <2>3, <2>4, <2>5
<1>5. ASSUME NEW h \in Handlers, ProcessFails(h) PROVE LedgerInv'
  <2>1. handler[h].pc = "process"
    BY <1>5 DEF ProcessFails
  <2>2. TypeOK'
    BY <1>5, <2>1, Moved DEF ProcessFails, TypeOK
  <2> QED BY <1>5, <2>1, <2>2, Moved
       DEF ProcessFails, RowsAreDated, AttemptsAreOpen, HoldersHaveRows, OneHolder, AppliedIsOver
<1>6. ASSUME NEW h \in Handlers, Forget(h) PROVE LedgerInv'
  <2> DEFINE e == Event(h)
  <2>1. e \in Events /\ Holds(h, e) /\ applied[e] = 0
    BY <1>6, HandlerFields DEF Forget, HoldersHaveRows
  <2>2. \A g \in Handlers : Holds(g, e) => g = h
    BY <2>1 DEF OneHolder
  <2>3. \A g \in Handlers : handler'[g] = IF g = h THEN Idle ELSE handler[g]
    BY <1>6 DEF Forget, Leave, TypeOK
  <2>4. TypeOK'
    BY <1>6, <2>1 DEF Forget, Leave, TypeOK, Idle
  <2>5. RowsAreDated' /\ AppliedIsOver'
    BY <1>6, <2>1 DEF Forget, TypeOK, RowsAreDated, AppliedIsOver
  <2>6. AttemptsAreOpen' /\ HoldersHaveRows' /\ OneHolder'
    BY <1>6, <2>1, <2>2, <2>3 DEF Forget, Idle, TypeOK, AttemptsAreOpen, HoldersHaveRows, OneHolder
  <2> QED BY <2>4, <2>5, <2>6
<1>7. ASSUME NEW h \in Handlers, Respond(h) PROVE LedgerInv'
  <2>1. Event(h) \in Events
    BY <1>7, HandlerFields DEF Respond
  <2>2. \A g \in Handlers : handler'[g] = IF g = h THEN Idle ELSE handler[g]
    BY <1>7 DEF Respond, Leave, TypeOK
  <2> QED BY <1>7, <2>1, <2>2
       DEF Respond, Leave, Idle, TypeOK, RowsAreDated, AttemptsAreOpen, HoldersHaveRows, OneHolder, AppliedIsOver
<1>8. ASSUME Crash PROVE LedgerInv'
  BY <1>8 DEF Crash, Idle, TypeOK, RowsAreDated, AttemptsAreOpen, HoldersHaveRows, OneHolder, AppliedIsOver
<1>9. ASSUME Prune PROVE LedgerInv'
  <2>1. \A e \in Events : Old(e) => ~Open(e)
    BY DEF Old, TypeOK, RowsAreDated
  <2>2. \A h \in Handlers, e \in Events : Holds(h, e) => ~Old(e)
    BY <2>1 DEF AttemptsAreOpen
  <2>3. TypeOK'
    BY <1>9 DEF Prune, TypeOK
  <2>4. RowsAreDated' /\ AttemptsAreOpen' /\ OneHolder'
    BY <1>9 DEF Prune, TypeOK, RowsAreDated, AttemptsAreOpen, OneHolder
  <2>5. HoldersHaveRows' /\ AppliedIsOver'
    BY <1>9, <2>1, <2>2 DEF Prune, TypeOK, HoldersHaveRows, AppliedIsOver
  <2> QED BY <2>3, <2>4, <2>5
<1>10. ASSUME NextDay PROVE LedgerInv'
  BY <1>10 DEF NextDay, TypeOK, RowsAreDated, AttemptsAreOpen, HoldersHaveRows, OneHolder, AppliedIsOver
<1>11. CASE UNCHANGED vars
  BY <1>11 DEF vars, TypeOK, RowsAreDated, AttemptsAreOpen, HoldersHaveRows, OneHolder, AppliedIsOver
<1> QED BY <1>1, <1>2, <1>3, <1>4, <1>5, <1>6, <1>7, <1>8, <1>9, <1>10, <1>11 DEF Next, Handle

\* Every variable keeps its type, and the four facts above always hold.
THEOREM LedgerSafe == Spec => []LedgerInv
<1>1. Init => LedgerInv
  BY LedgerAssumption DEF Init, LedgerInv, TypeOK, Idle, Days, RowsAreDated, AttemptsAreOpen,
     HoldersHaveRows, OneHolder, AppliedIsOver, Holds, At, Event
<1> QED BY <1>1, LedgerStep, PTL DEF Spec

\* Two attempts never process the same event at the same time: the unique index and the
\* forgetting of failures (handleWebhookEvent) are enough, whatever crashes or is pruned.
THEOREM NeverTwoAttempts == Spec => []OneAttemptAtATime
<1>1. LedgerInv => OneAttemptAtATime
  BY HandlerFields DEF LedgerInv, OneAttemptAtATime, OneHolder, Holds, At, Event
<1> QED BY <1>1, LedgerSafe, PTL

\* Every step of the ledger is a step of OnceEach, or none.
LEMMA LedgerStepMaps == LedgerInv /\ [Next]_vars => [Once!Next]_<<{e \in Events : ledger[e] # None /\ applied[e] = 0}, applied>>
<1> DEFINE B == {e \in Events : ledger[e] # None /\ applied[e] = 0}
<1> SUFFICES ASSUME LedgerInv, [Next]_vars PROVE Once!Next \/ (B' = B /\ applied' = applied)
  BY DEF Once!Next, Once!Begin, Once!Finish, Once!Abandon
<1> USE DEF LedgerInv, Holds, At, Event
<1>1. ASSUME UNCHANGED <<ledger, applied>> PROVE Once!Next \/ (B' = B /\ applied' = applied)
  BY <1>1
<1>2. ASSUME NEW h \in Handlers, Record(h), ledger[handler[h].event] = None,
             ledger' = [ledger EXCEPT ![handler[h].event] = today]
      PROVE  Once!Next
  <2> DEFINE e == handler[h].event
  <2>1. e \in Events /\ applied[e] = 0 /\ today # None
    BY <1>2, HandlerFields, LedgerAssumption DEF Record, AttemptsAreOpen, AppliedIsOver, TypeOK, Days
  <2>2. B' = B \cup {e} /\ e \notin B
    BY <1>2, <2>1 DEF Record, TypeOK
  <2> QED BY <1>2, <2>1, <2>2 DEF Record, Once!Next, Once!Begin
<1>3. ASSUME NEW h \in Handlers, Process(h) PROVE Once!Next
  <2> DEFINE e == handler[h].event
  <2>1. e \in Events /\ ledger[e] # None /\ applied[e] = 0
    BY <1>3, HandlerFields DEF Process, HoldersHaveRows
  <2>2. B' = B \ {e} /\ e \in B
    BY <1>3, <2>1 DEF Process, TypeOK
  <2> QED BY <1>3, <2>1, <2>2 DEF Process, Once!Next, Once!Finish
<1>4. ASSUME NEW h \in Handlers, Forget(h), ledger' = [ledger EXCEPT ![handler[h].event] = None]
      PROVE  Once!Next
  <2> DEFINE e == handler[h].event
  <2>1. e \in Events /\ ledger[e] # None /\ applied[e] = 0
    BY <1>4, HandlerFields DEF Forget, HoldersHaveRows
  <2>2. B' = B \ {e} /\ {e} \in SUBSET B
    BY <1>4, <2>1 DEF Forget, TypeOK
  <2> QED BY <1>4, <2>2 DEF Forget, Once!Next, Once!Abandon
<1>5. ASSUME Prune PROVE Once!Next
  <2>1. B' = B \ {e \in B : Old(e)} /\ {e \in B : Old(e)} \in SUBSET B
    BY <1>5 DEF Prune, TypeOK
  <2> QED BY <1>5, <2>1 DEF Prune, Once!Next, Once!Abandon
<1> QED BY <1>1, <1>2, <1>3, <1>4, <1>5
        DEF Next, Handle, vars, Happens, Deliver, Record, ProcessFails, Forget, Respond, Crash, NextDay

\* The webhook ledger implements OnceEach: an event takes effect at most once although it is
\* delivered at least once, through failures, restarts and pruning.
THEOREM LedgerImplementsOnceEach == Spec => ImplementsOnceEach
<1>1. Init => Once!Init
  BY DEF Init, Once!Init
<1>2. LedgerInv /\ [Next]_vars => [Once!Next]_<<{e \in Events : ledger[e] # None /\ applied[e] = 0}, applied>>
  BY LedgerStepMaps
<1> QED BY <1>1, <1>2, LedgerSafe, PTL DEF Spec, ImplementsOnceEach, Once!Spec
=============================================================================
