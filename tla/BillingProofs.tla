---------------------------- MODULE BillingProofs ----------------------------
(* What holds of Billing for every set of subscriptions and requests, every      *)
(* assignment of gateways and every bound: types; that nobody has Pro before a   *)
(* gateway has taken money; that what the gateways bill and what the row grants  *)
(* agree, however many requests overlap, until a call fails or two of them cross *)
(* (no Stripe); and that a lifetime purchase lasts.                              *)
EXTENDS Billing, TLAPS

-----------------------------------------------------------------------------
(* Types of the operators. *)

\* A gateway's status is reduced to a state of the shared kind.
LEMMA StatesTyped ==
  /\ \A st \in StripeStatus : StripeState(st) \in GatewayState
  /\ \A st \in RazorpayStatus \cup {"none"} : RazorpayState(st) \in GatewayState
  /\ \A st \in PaypalStatus : PaypalState(st) \in GatewayState
  /\ \A st \in CashfreeStatus, a, b, c \in BOOLEAN : CashfreeState(st, a, b, c) \in GatewayState
<1>1. \A st \in StripeStatus : StripeState(st) \in GatewayState
  BY DEF StripeStatus, StripeState, State, GatewayState, StoredStatus
<1>2. \A st \in RazorpayStatus \cup {"none"} : RazorpayState(st) \in GatewayState
  BY DEF RazorpayStatus, RazorpayState, State, GatewayState, StoredStatus, RazorpayEnded
<1>3. \A st \in PaypalStatus : PaypalState(st) \in GatewayState
  BY DEF PaypalStatus, PaypalState, State, GatewayState, StoredStatus
<1>4. \A st \in CashfreeStatus, a, b, c \in BOOLEAN : CashfreeState(st, a, b, c) \in GatewayState
  BY DEF CashfreeStatus, CashfreeState, State, GatewayState, StoredStatus
<1> QED BY <1>1, <1>2, <1>3, <1>4

\* What a request has read has the type its place in the code gives it.
LEMMA RequestFields ==
  ASSUME NEW r \in Request
  PROVE  /\ r.pc = "remember" => r.sub \in Subs
         /\ r.pc \in {"stored", "payments"} =>
              r = [pc |-> r.pc, sub |-> r.sub, type |-> r.type, status |-> r.status,
                   periodEnd |-> r.periodEnd]
              /\ r.sub \in Subs /\ r.type \in EventTypes \cup {"sync"}
              /\ r.status \in CashfreeStatus /\ r.periodEnd \in Dates
         /\ r.pc = "apply" =>
              r.sub \in Subs /\ r.state \in GatewayState /\ r.periodEnd \in Dates
              /\ r.atEnd \in BOOLEAN
         /\ r.pc = "write" => r.sub \in Subs /\ r.patch \in Patch
         /\ r.pc \in {"cancelDuplicate", "cancelAtCycleEnd", "mark"} => r.sub \in Subs
         /\ r.pc = "flag" => r.sub \in Subs /\ r.until \in Dates /\ r.snapshot \in Dates
         /\ r.pc = "stop" => r.sub \in Subs /\ r.snapshot \in Dates
         /\ r.pc = "restore" => r.sub \in Subs /\ r.snapshot \in Dates /\ r.resync \in BOOLEAN
         /\ r.pc = "resync" => r.gateway \in Gateways
BY DEF Request, Idle

\* Requests are made only with the fields of their place.
LEMMA RequestMade ==
  /\ Idle \in Request
  /\ \A s \in Subs :
       /\ [pc |-> "remember", sub |-> s] \in Request
       /\ [pc |-> "cancelDuplicate", sub |-> s] \in Request
       /\ [pc |-> "cancelAtCycleEnd", sub |-> s] \in Request
       /\ [pc |-> "mark", sub |-> s] \in Request
  /\ \A s \in Subs, t \in EventTypes \cup {"sync"}, st \in CashfreeStatus, d \in Dates :
       /\ [pc |-> "stored", sub |-> s, type |-> t, status |-> st, periodEnd |-> d] \in Request
       /\ [pc |-> "payments", sub |-> s, type |-> t, status |-> st, periodEnd |-> d] \in Request
  /\ \A s \in Subs, st \in GatewayState, d \in Dates, b \in BOOLEAN :
       [pc |-> "apply", sub |-> s, state |-> st, periodEnd |-> d, atEnd |-> b] \in Request
  /\ \A s \in Subs, w \in Patch : [pc |-> "write", sub |-> s, patch |-> w] \in Request
  /\ \A s \in Subs, d, e \in Dates :
       [pc |-> "flag", sub |-> s, snapshot |-> d, until |-> e] \in Request
  /\ \A s \in Subs, d \in Dates : [pc |-> "stop", sub |-> s, snapshot |-> d] \in Request
  /\ \A s \in Subs, d \in Dates, b \in BOOLEAN :
       [pc |-> "restore", sub |-> s, snapshot |-> d, resync |-> b] \in Request
  /\ \A g \in Gateways : [pc |-> "resync", gateway |-> g] \in Request
BY DEF Request

\* A step of request p changes no other request.
LEMMA GotoTyped ==
  ASSUME CodeTypeOK, NEW p \in Procs, NEW r \in Request, Goto(p, r)
  PROVE  reqs' \in [Procs -> Request]
BY DEF CodeTypeOK, Goto

\* A gateway's change of one subscription keeps what the gateways hold well typed.
LEMMA BecomesTyped ==
  ASSUME GatewayTypeOK, NEW s \in Subs, NEW r \in Remote(G(s)), NEW types \in SUBSET EventTypes,
         Becomes(s, r, types), charged' \subseteq Subs, now' = now
  PROVE  GatewayTypeOK'
<1>1. G(s) \in Gateways
  BY GatewaysAssumption DEF G
<1>2. r \in UNION {Remote(g) : g \in Gateways}
  BY <1>1
<1>3. Absent \in Remote(G(s))
  BY DEF Absent, Remote, Dates
<1>4. Absent \in UNION {Remote(g) : g \in Gateways}
  BY <1>1, <1>3
<1>5. \A e \in Notices(s, r, types) :
        /\ e \in [sub : Subs, type : EventTypes, copy : UNION {Remote(g) : g \in Gateways}]
        /\ e.copy \in Remote(G(e.sub))
  BY <1>2, <1>3, <1>4 DEF Notices
<1>6. /\ remote' \in [Subs -> UNION {Remote(g) : g \in Gateways}]
      /\ \A t \in Subs : remote'[t] \in Remote(G(t))
  BY <1>2 DEF GatewayTypeOK, Becomes
<1>7. /\ events' \subseteq [sub : Subs, type : EventTypes,
                            copy : UNION {Remote(g) : g \in Gateways}]
      /\ \A e \in events' : e.copy \in Remote(G(e.sub))
  BY <1>5 DEF GatewayTypeOK, Becomes
<1> QED BY <1>6, <1>7 DEF GatewayTypeOK

LEMMA RemoteTyped ==
  ASSUME GatewayTypeOK, NEW s \in Subs
  PROVE  /\ remote[s] \in Remote(G(s))
         /\ G(s) \in Gateways
         /\ CancelledStatus[G(s)] \in StatusOf(G(s))
         /\ InitialStatus[G(s)] \in StatusOf(G(s)) \cup (IF G(s) = "stripe" THEN {"open"} ELSE {})
         /\ PaidStatus[G(s)] \in StatusOf(G(s))
<1>1. remote[s] \in Remote(G(s)) /\ G(s) \in Gateways
  BY GatewaysAssumption DEF G, GatewayTypeOK
<1>2. \A g \in Gateways :
        /\ CancelledStatus[g] \in StatusOf(g)
        /\ InitialStatus[g] \in StatusOf(g) \cup (IF g = "stripe" THEN {"open"} ELSE {})
        /\ PaidStatus[g] \in StatusOf(g)
  BY DEF Gateways, CancelledStatus, InitialStatus, PaidStatus, StatusOf, StripeStatus,
         RazorpayStatus, PaypalStatus, CashfreeStatus
<1> QED BY <1>1, <1>2

\* Every move of a gateway keeps the gateways' state well typed.
LEMMA GatewayStep ==
  ASSUME GatewayTypeOK, GatewayNext
  PROVE  GatewayTypeOK'
<1>1. ASSUME NEW s \in Subs, NEW from, NEW to \in StatusOf(G(s)),
             NEW types \in SUBSET EventTypes, Moves(s, from, to, types)
      PROVE  GatewayTypeOK'
  <2>1. [remote[s] EXCEPT !.status = to] \in Remote(G(s))
    BY <1>1, RemoteTyped DEF Remote
  <2> QED BY <1>1, <2>1, BecomesTyped DEF Moves, GatewayTypeOK
<1>2. ASSUME NEW s \in Subs, Authorise(s) PROVE GatewayTypeOK'
  BY <1>1, <1>2 DEF Authorise, StatusOf, StripeStatus, RazorpayStatus, CashfreeStatus, EventTypes
<1>3. ASSUME NEW s \in Subs, PaymentSucceeds(s) PROVE GatewayTypeOK'
  <2>1. now + 1 \in Dates
    BY <1>3, GatewaysAssumption DEF PaymentSucceeds, GatewayTypeOK, Dates, Times
  <2>2. [remote[s] EXCEPT !.status = PaidStatus[G(s)], !.periodEnd = now + 1] \in Remote(G(s))
    BY <2>1, RemoteTyped DEF Remote
  <2>3. PaymentNotice(s) \in SUBSET EventTypes
    BY DEF PaymentNotice, EventTypes
  <2> QED BY <1>3, <2>2, <2>3, BecomesTyped DEF PaymentSucceeds, GatewayTypeOK
<1>4. ASSUME NEW s \in Subs, PaymentFails(s) PROVE GatewayTypeOK'
  BY <1>1, <1>4 DEF PaymentFails, StatusOf, StripeStatus, RazorpayStatus, PaypalStatus,
                    CashfreeStatus, EventTypes
<1>5. ASSUME NEW s \in Subs, GivesUp(s) PROVE GatewayTypeOK'
  BY <1>1, <1>5 DEF GivesUp, StatusOf, StripeStatus, RazorpayStatus, PaypalStatus,
                    CashfreeStatus, EventTypes
<1>6. ASSUME NEW s \in Subs, Relabelled(s) PROVE GatewayTypeOK'
  BY <1>1, <1>6 DEF Relabelled, StatusOf, CashfreeStatus, EventTypes
<1>7. ASSUME NEW s \in Subs, EndedThere(s) \/ CycleEnds(s) PROVE GatewayTypeOK'
  BY <1>1, <1>7, RemoteTyped DEF EndedThere, CycleEnds, EventTypes
<1>8. ASSUME NEW s \in Subs, PortalToggles(s) PROVE GatewayTypeOK'
  <2>1. [remote[s] EXCEPT !.atEnd = ~@] \in Remote(G(s))
    BY RemoteTyped DEF Remote
  <2> QED BY <1>8, <2>1, BecomesTyped DEF PortalToggles, GatewayTypeOK, EventTypes
<1>9. ASSUME Tick PROVE GatewayTypeOK'
  BY <1>9, GatewaysAssumption DEF Tick, GatewayTypeOK
<1> QED BY <1>2, <1>3, <1>4, <1>5, <1>6, <1>7, <1>8, <1>9 DEF GatewayNext

-----------------------------------------------------------------------------
(* Types of the requests' steps. *)

\* Reading a gateway gives a request that can go on.
LEMMA FetchedTyped ==
  ASSUME NEW s \in Subs, NEW r \in Remote(G(s)), NEW d \in Dates,
         NEW t \in EventTypes \cup {"sync"},
         r.status # "open", r.status = "none" => G(s) = "razorpay"
  PROVE  Fetched(s, r, d, t) \in Request
<1>1. G(s) \in Gateways
  BY GatewaysAssumption DEF G
<1>2. r.atEnd \in BOOLEAN /\ r.status \in StatusOf(G(s)) \cup {"none"}
  BY DEF Remote
<1>3. CASE G(s) = "cashfree"
  BY <1>2, <1>3, RequestMade DEF Fetched, StatusOf
<1>4. CASE G(s) # "cashfree"
  <2>1. StateOf(s, r.status) \in GatewayState
    BY <1>1, <1>2, <1>4, StatesTyped DEF StateOf, StatusOf, Gateways
  <2> QED BY <1>2, <1>4, <2>1, RequestMade DEF Fetched
<1> QED BY <1>3, <1>4

LEMMA FetchTyped ==
  ASSUME CodeTypeOK, NEW p \in Procs, NEW s \in Subs, NEW t \in EventTypes \cup {"sync"},
         Fetch(p, s, t)
  PROVE  reqs' \in [Procs -> Request]
<1>1. ReportedEnd(s) \in Dates
  BY RemoteTyped DEF CodeTypeOK, ReportedEnd, Remote, Dates
<1>2. Fetched(s, remote[s], ReportedEnd(s), t) \in Request
  BY <1>1, RemoteTyped, FetchedTyped DEF CodeTypeOK, Fetch, Exists
<1> QED BY <1>2, GotoTyped DEF Fetch

\* The verdict on a row and a state is a row's worth of columns.
LEMMA PatchTyped ==
  ASSUME CodeTypeOK, NEW r, r.sub \in Subs, r.state \in GatewayState, r.periodEnd \in Dates,
         r.atEnd \in BOOLEAN
  PROVE  PatchOf(r) \in Patch
BY DEF CodeTypeOK, PatchOf, Patch, Row, GatewayState, StoredStatus, PaidUntilStillRunning

LEMMA AppliedTyped ==
  ASSUME CodeTypeOK, NEW s \in Subs, NEW w \in Patch
  PROVE  Applied(s, w) \in Row
<1>1. G(s) \in Gateways
  BY GatewaysAssumption DEF G
<1> QED BY <1>1 DEF CodeTypeOK, Applied, Row, Patch

LEMMA StoppedTyped ==
  ASSUME CodeTypeOK, NEW s \in Subs
  PROVE  /\ StoppedAt(s) \in Remote(G(s))
         /\ [StoppedAt(s) EXCEPT !.atEnd = TRUE] \in Remote(G(s))
         /\ [remote[s] EXCEPT !.atEnd = TRUE] \in Remote(G(s))
BY RemoteTyped DEF CodeTypeOK, StoppedAt, Remote

\* The steps of a request already in flight.
LEMMA ContinueStep ==
  ASSUME CodeTypeOK, NEW p \in Procs, Continue(p)
  PROVE  CodeTypeOK'
<1> USE DEF At
<1>1. reqs[p] \in Request
  BY DEF CodeTypeOK
<1> DEFINE r == reqs[p]
<1>2. CASE CheckoutRemember(p)
  <2>1. r.sub \in Subs
    BY <1>1, <1>2, RequestFields DEF CheckoutRemember
  <2>2. reqs' \in [Procs -> Request]
    BY <1>2, RequestMade, GotoTyped DEF CheckoutRemember
  <2>3. row' \in Row
    BY <1>2, <2>1, RemoteTyped DEF CheckoutRemember, CodeTypeOK, Row
  <2>4. [remote[r.sub] EXCEPT !.status = InitialStatus[G(r.sub)]] \in Remote(G(r.sub))
    BY <2>1, RemoteTyped DEF CodeTypeOK, Remote
  <2>5. GatewayTypeOK'
    BY <1>2, <2>1, <2>4, RemoteTyped DEF CheckoutRemember, CodeTypeOK, GatewayTypeOK
  <2> QED BY <1>2, <2>2, <2>3, <2>5 DEF CheckoutRemember, CodeTypeOK
<1>3. CASE StoredRead(p)
  <2>1. /\ r.sub \in Subs /\ r.status \in CashfreeStatus /\ r.periodEnd \in Dates
        /\ r.type \in EventTypes \cup {"sync"}
        /\ [r EXCEPT !.pc = "payments"] =
             [pc |-> "payments", sub |-> r.sub, type |-> r.type, status |-> r.status,
              periodEnd |-> r.periodEnd]
    BY <1>1, <1>3, RequestFields DEF StoredRead
  <2>2. [r EXCEPT !.pc = "payments"] \in Request
    <3>1. [pc |-> "payments", sub |-> r.sub, type |-> r.type, status |-> r.status,
           periodEnd |-> r.periodEnd] \in Request
      BY <2>1, RequestMade
    <3> QED BY <2>1, <3>1
  <2>3. \A a, b \in BOOLEAN : CashfreeApply(r, a, b) \in Request
    BY <2>1, StatesTyped, RequestMade DEF CashfreeApply
  <2>4. reqs' \in [Procs -> Request]
    BY <1>3, <2>2, <2>3, GotoTyped DEF StoredRead
  <2> QED BY <1>3, <2>4 DEF StoredRead, gatewayVars, CodeTypeOK, GatewayTypeOK
<1>4. CASE PaymentsRead(p)
  <2>1. /\ r.sub \in Subs /\ r.status \in CashfreeStatus /\ r.periodEnd \in Dates
    BY <1>1, <1>4, RequestFields DEF PaymentsRead
  <2>3. \A a \in BOOLEAN : CashfreeApply(r, a, FALSE) \in Request
    BY <2>1, StatesTyped, RequestMade DEF CashfreeApply
  <2>4. Goto(p, CashfreeApply(r, r.sub \in charged, FALSE)) => reqs' \in [Procs -> Request]
    BY <2>3, GotoTyped, (r.sub \in charged) \in BOOLEAN
  <2>5. Goto(p, CashfreeApply(r, FALSE, FALSE)) => reqs' \in [Procs -> Request]
    BY <2>3, GotoTyped
  <2>6. reqs' \in [Procs -> Request]
    BY <1>4, <2>4, <2>5 DEF PaymentsRead
  <2>7. faults' \in 0 .. MaxFaults
    <3>1. UNCHANGED faults \/ Fault
      BY <1>4, Zenon DEF PaymentsRead
    <3> QED BY <3>1, GatewaysAssumption DEF Fault, CodeTypeOK
  <2> QED BY <1>4, <2>6, <2>7 DEF PaymentsRead, gatewayVars, CodeTypeOK, GatewayTypeOK
<1>5. CASE RowRead(p)
  <2>1. r.sub \in Subs /\ r.state \in GatewayState /\ r.periodEnd \in Dates /\ r.atEnd \in BOOLEAN
    BY <1>1, <1>5, RequestFields DEF RowRead
  <2>2. PatchOf(r) \in Patch
    BY <2>1, PatchTyped
  <2>3. reqs' \in [Procs -> Request]
    BY <1>5, <2>1, <2>2, RequestMade, GotoTyped DEF RowRead
  <2> QED BY <1>5, <2>3 DEF RowRead, gatewayVars, CodeTypeOK, GatewayTypeOK
<1>6. CASE RowWrite(p)
  <2>1. r.sub \in Subs /\ r.patch \in Patch
    BY <1>1, <1>6, RequestFields DEF RowWrite
  <2>2. row' \in Row
    BY <1>6, <2>1, AppliedTyped DEF RowWrite
  <2>3. reqs' \in [Procs -> Request]
    BY <1>6, RequestMade, GotoTyped DEF RowWrite
  <2> QED BY <1>6, <2>2, <2>3 DEF RowWrite, gatewayVars, CodeTypeOK, GatewayTypeOK
<1>7. CASE CancelDuplicate(p)
  <2>1. r.sub \in Subs
    BY <1>1, <1>7, RequestFields DEF CancelDuplicate
  <2>2. reqs' \in [Procs -> Request]
    BY <1>7, RequestMade, GotoTyped DEF CancelDuplicate
  <2>3. CASE Becomes(r.sub, StoppedAt(r.sub), {"status"}) /\ UNCHANGED faults
    <3>1. GatewayTypeOK /\ charged' \subseteq Subs /\ now' = now /\ {"status"} \in SUBSET EventTypes
      BY <1>7 DEF CancelDuplicate, CodeTypeOK, GatewayTypeOK, EventTypes
    <3>2. GatewayTypeOK'
      BY <2>1, <2>3, <3>1, StoppedTyped, BecomesTyped
    <3> QED BY <1>7, <2>2, <2>3, <3>2 DEF CancelDuplicate, CodeTypeOK
  <2>4. CASE UNCHANGED <<remote, events>> /\ (Fault \/ UNCHANGED faults)
    BY <1>7, <2>2, <2>4, GatewaysAssumption DEF CancelDuplicate, Fault, CodeTypeOK, GatewayTypeOK
  <2> QED BY <1>7, <2>3, <2>4 DEF CancelDuplicate
<1>8. CASE CancelAtCycleEnd(p)
  <2>1. r.sub \in Subs
    BY <1>1, <1>8, RequestFields DEF CancelAtCycleEnd
  <2>2. reqs' \in [Procs -> Request]
    BY <1>8, <2>1, RequestMade, GotoTyped DEF CancelAtCycleEnd, Gateways
  <2>3. [remote EXCEPT ![r.sub].atEnd = TRUE] = [remote EXCEPT ![r.sub] = [remote[r.sub] EXCEPT !.atEnd = TRUE]]
    BY <2>1 DEF CodeTypeOK, GatewayTypeOK
  <2>4. /\ remote' \in [Subs -> UNION {Remote(g) : g \in Gateways}]
        /\ \A s \in Subs : remote'[s] \in Remote(G(s))
    <3>1. [remote[r.sub] EXCEPT !.atEnd = TRUE] \in Remote(G(r.sub)) /\ G(r.sub) \in Gateways
      BY <2>1, StoppedTyped, RemoteTyped DEF CodeTypeOK
    <3>2. CASE remote' = remote
      BY <3>2 DEF CodeTypeOK, GatewayTypeOK
    <3>3. CASE remote' = [remote EXCEPT ![r.sub] = [remote[r.sub] EXCEPT !.atEnd = TRUE]]
      BY <2>1, <3>1, <3>3 DEF CodeTypeOK, GatewayTypeOK
    <3> QED BY <1>8, <2>3, <3>2, <3>3 DEF CancelAtCycleEnd
  <2>5. faults' \in 0 .. MaxFaults
    BY <1>8, GatewaysAssumption DEF CancelAtCycleEnd, CodeTypeOK, Fault
  <2> QED BY <1>8, <2>2, <2>4, <2>5 DEF CancelAtCycleEnd, CodeTypeOK, GatewayTypeOK
<1>9. CASE MarkCancelled(p)
  BY <1>9, RequestMade, GotoTyped DEF MarkCancelled, gatewayVars, CodeTypeOK, GatewayTypeOK, Row
<1>10. CASE FlagCancel(p)
  <2>1. r.sub \in Subs /\ r.until \in Dates /\ r.snapshot \in Dates
    BY <1>1, <1>10, RequestFields DEF FlagCancel
  <2>2. reqs' \in [Procs -> Request]
    BY <1>10, <2>1, RequestMade, GotoTyped DEF FlagCancel
  <2>3. now \in Dates
    BY GatewaysAssumption DEF CodeTypeOK, GatewayTypeOK, Dates, Times
  <2>4. row' \in Row
    BY <1>10, <2>1, <2>3 DEF FlagCancel, CodeTypeOK, Row
  <2> QED BY <1>10, <2>2, <2>4 DEF FlagCancel, gatewayVars, CodeTypeOK, GatewayTypeOK
<1>11. CASE StopBilling(p)
  <2>1. r.sub \in Subs /\ r.snapshot \in Dates
    BY <1>1, <1>11, RequestFields DEF StopBilling
  <2>2. reqs' \in [Procs -> Request]
    BY <1>11, <2>1, RequestMade, GotoTyped DEF StopBilling
  <2>3. faults' \in 0 .. MaxFaults
    BY <1>11, GatewaysAssumption DEF StopBilling, CodeTypeOK, Fault
  <2>4. CASE Becomes(r.sub, [StoppedAt(r.sub) EXCEPT !.atEnd = TRUE], {"status"})
    <3>1. GatewayTypeOK /\ charged' \subseteq Subs /\ now' = now /\ {"status"} \in SUBSET EventTypes
      BY <1>11 DEF StopBilling, CodeTypeOK, GatewayTypeOK, EventTypes
    <3>2. GatewayTypeOK'
      BY <2>1, <2>4, <3>1, StoppedTyped, BecomesTyped
    <3> QED BY <1>11, <2>2, <2>3, <3>2 DEF StopBilling, CodeTypeOK
  <2>5. CASE UNCHANGED <<remote, events>>
    BY <1>11, <2>2, <2>3, <2>5 DEF StopBilling, CodeTypeOK, GatewayTypeOK
  <2> QED BY <1>11, <2>4, <2>5 DEF StopBilling
<1>12. CASE RestoreFlag(p)
  <2>1. r.sub \in Subs /\ r.snapshot \in Dates
    BY <1>1, <1>12, RequestFields DEF RestoreFlag
  <2>2. reqs' \in [Procs -> Request]
    BY <1>12, <2>1, RequestMade, RemoteTyped, GotoTyped DEF RestoreFlag, CodeTypeOK
  <2>3. row' \in Row
    BY <1>12, <2>1 DEF RestoreFlag, CodeTypeOK, Row
  <2> QED BY <1>12, <2>2, <2>3 DEF RestoreFlag, gatewayVars, CodeTypeOK, GatewayTypeOK
<1>13. CASE SyncFails(p)
  BY <1>13, RequestMade, GotoTyped, GatewaysAssumption
     DEF SyncFails, Fault, gatewayVars, CodeTypeOK, GatewayTypeOK
<1> QED BY <1>2, <1>3, <1>4, <1>5, <1>6, <1>7, <1>8, <1>9, <1>10, <1>11, <1>12, <1>13 DEF Continue

\* The steps that start a request, and those that need none.
LEMMA StartStep ==
  ASSUME CodeTypeOK, NEW p \in Procs,
         \/ Sync(p) \/ Reconcile(p) \/ CancelStart(p) \/ ExpireCancelled(p) \/ GrantLifetime(p)
         \/ \E s \in Subs : CheckoutStart(p, s) \/ StripeReturn(p, s)
         \/ \E e \in events : Receive(p, e)
  PROVE  CodeTypeOK'
<1>1. reqs[p] \in Request /\ GatewayTypeOK /\ row \in Row
  BY DEF CodeTypeOK
<1>2. CASE Sync(p)
  <2>1. PICK s : Fetch(p, s, "sync") /\ s \in Subs
    BY <1>1, <1>2, RequestFields DEF Sync, Fetch, Row, At
  <2> QED BY <1>2, <2>1, FetchTyped DEF Sync, gatewayVars, CodeTypeOK, GatewayTypeOK
<1>3. CASE Reconcile(p)
  <2>1. PICK s : Fetch(p, s, "sync") /\ s \in Subs
    BY <1>1, <1>3 DEF Reconcile, Stale, Fetch, Row
  <2> QED BY <1>3, <2>1, FetchTyped DEF Reconcile, gatewayVars, CodeTypeOK, GatewayTypeOK
<1>4. CASE CancelStart(p)
  <2> DEFINE s == row.subOf[row.provider]
  <2>1. s \in Subs /\ row.periodEnd \in Dates
    BY <1>1, <1>4 DEF CancelStart, Row, Gateways
  <2>2. ReportedEnd(s) \in Dates
    BY <1>1, <2>1, RemoteTyped DEF ReportedEnd, Remote, Dates
  <2>3. reqs' \in [Procs -> Request]
    BY <1>4, <2>1, <2>2, RequestMade, GotoTyped DEF CancelStart
  <2>4. faults' \in 0 .. MaxFaults
    BY <1>4, GatewaysAssumption DEF CancelStart, Fault, CodeTypeOK
  <2> QED BY <1>4, <2>3, <2>4 DEF CancelStart, gatewayVars, CodeTypeOK, GatewayTypeOK
<1>5. CASE ExpireCancelled(p)
  BY <1>5 DEF ExpireCancelled, gatewayVars, CodeTypeOK, GatewayTypeOK, Row, StoredStatus
<1>6. CASE GrantLifetime(p)
  BY <1>6 DEF GrantLifetime, gatewayVars, CodeTypeOK, GatewayTypeOK, Row
<1>7. ASSUME NEW s \in Subs, CheckoutStart(p, s) PROVE CodeTypeOK'
  BY <1>7, RequestMade, GotoTyped DEF CheckoutStart, gatewayVars, CodeTypeOK, GatewayTypeOK
<1>8. ASSUME NEW s \in Subs, StripeReturn(p, s) PROVE CodeTypeOK'
  BY <1>8, FetchTyped DEF StripeReturn, gatewayVars, CodeTypeOK, GatewayTypeOK
<1>9. ASSUME NEW e \in events PROVE e.sub \in Subs /\ e.type \in EventTypes /\ e.copy \in Remote(G(e.sub))
  BY <1>9, <1>1 DEF GatewayTypeOK
<1>10. ASSUME NEW e \in events, Webhook(p, e) PROVE CodeTypeOK'
  BY <1>9, <1>10, FetchTyped DEF Webhook, CodeTypeOK, GatewayTypeOK
<1>11. ASSUME NEW e \in events, WebhookFromCopy(p, e) PROVE CodeTypeOK'
  <2>1. Fetched(e.sub, e.copy, e.copy.periodEnd, e.type) \in Request
    <3>1. e.copy.status # "open" /\ e.copy.periodEnd \in Dates
      BY <1>9, <1>11 DEF WebhookFromCopy, Remote, StatusOf, RazorpayStatus
    <3>2. G(e.sub) = "razorpay"
      BY <1>11 DEF WebhookFromCopy
    <3> QED BY <1>9, <3>1, <3>2, FetchedTyped
  <2>2. reqs' \in [Procs -> Request]
    BY <1>11, <2>1, GotoTyped DEF WebhookFromCopy
  <2> QED BY <1>11, <2>2, GatewaysAssumption DEF WebhookFromCopy, Fault, CodeTypeOK, GatewayTypeOK
<1>12. ASSUME NEW e \in events, InvoicePaymentFailed(p, e) PROVE CodeTypeOK'
  BY <1>12 DEF InvoicePaymentFailed, CodeTypeOK, GatewayTypeOK, Row, StoredStatus
<1> QED BY <1>2, <1>3, <1>4, <1>5, <1>6, <1>7, <1>8, <1>10, <1>11, <1>12 DEF Receive

\* CodeTypeOK is inductive.
LEMMA TypeStep == CodeTypeOK /\ [Next]_vars => CodeTypeOK'
<1> SUFFICES ASSUME CodeTypeOK, [Next]_vars PROVE CodeTypeOK'
  OBVIOUS
<1>1. CASE UNCHANGED vars
  BY <1>1 DEF vars, codeVars, CodeTypeOK, GatewayTypeOK
<1>2. CASE Gateway
  BY <1>2, GatewayStep DEF Gateway, CodeTypeOK
<1>3. ASSUME NEW e \in events, LoseEvent(e) PROVE CodeTypeOK'
  BY <1>3, GatewaysAssumption DEF LoseEvent, Fault, CodeTypeOK, GatewayTypeOK
<1> QED BY <1>1, <1>2, <1>3, ContinueStep, StartStep DEF Next, Step

\* Every variable keeps the type the code's columns, locals and gateways give it.
THEOREM TypeCorrect == Spec => []TypeOK
<1>0. Init => CodeTypeOK
  BY GatewaysAssumption, RequestMade
     DEF Init, GatewayInit, CodeTypeOK, GatewayTypeOK, Row, Absent, Remote, Dates, G
<1>1. Init => TypeOK
  BY <1>0 DEF Init, TypeOK
<1>2. TypeOK /\ [Next]_vars => TypeOK'
  <2> SUFFICES ASSUME TypeOK, [Next]_vars PROVE TypeOK'
    OBVIOUS
  <2>1. crossed' \in BOOLEAN
    <3>1. CASE Next
      BY <3>1, Zenon DEF Next
    <3>2. CASE UNCHANGED vars
      BY <3>2 DEF vars, TypeOK
    <3> QED BY <3>1, <3>2
  <2> QED BY <2>1, TypeStep DEF TypeOK
<1> QED BY <1>1, <1>2, PTL DEF Spec

\* The columns, locals and gateways alone.
LEMMA CodeTypes == Spec => []CodeTypeOK
<1>1. TypeOK => CodeTypeOK
  BY DEF TypeOK
<1> QED BY <1>1, TypeCorrect, PTL

-----------------------------------------------------------------------------
(* Nobody has Pro before a gateway has taken money. *)

\* A state says "paid", or is stored as paying, only when the gateway's status does.
LEMMA PaidStates ==
  /\ \A s \in Subs : \A r \in Remote(G(s)) :
       G(s) # "cashfree" /\ (StateOf(s, r.status).paid \/ StateOf(s, r.status).status \in PAYING)
         => PaidAtGateway(s, r)
  /\ \A st \in CashfreeStatus, a, b, c \in BOOLEAN :
       CashfreeState(st, a, b, c).paid \/ CashfreeState(st, a, b, c).status \in PAYING => a \/ b
<1>1. ASSUME NEW s \in Subs, NEW r \in Remote(G(s)), G(s) # "cashfree",
             StateOf(s, r.status).paid \/ StateOf(s, r.status).status \in PAYING
      PROVE  PaidAtGateway(s, r)
  <2>1. G(s) \in Gateways
    BY GatewaysAssumption DEF G
  <2>2. r.status \in StatusOf(G(s)) \cup {"none"} \cup (IF G(s) = "stripe" THEN {"open"} ELSE {})
    BY DEF Remote
  <2>3. CASE G(s) = "stripe"
    BY <1>1, <2>2, <2>3 DEF PaidAtGateway, StateOf, StripeState, State, StatusOf, StripeStatus,
                            PAYING, ACTIVE_SUBSCRIPTION_STATUSES
  <2>4. CASE G(s) = "razorpay"
    BY <1>1, <2>2, <2>4 DEF PaidAtGateway, StateOf, RazorpayState, RazorpayEnded, State, StatusOf,
                            RazorpayStatus, PAYING
  <2>5. CASE G(s) = "paypal"
    BY <1>1, <2>2, <2>5 DEF PaidAtGateway, StateOf, PaypalState, State, StatusOf, PaypalStatus, PAYING
  <2> QED BY <1>1, <2>1, <2>3, <2>4, <2>5 DEF Gateways
<1>2. \A st \in CashfreeStatus, a, b, c \in BOOLEAN :
        CashfreeState(st, a, b, c).paid \/ CashfreeState(st, a, b, c).status \in PAYING => a \/ b
  BY DEF CashfreeStatus, CashfreeState, State, PAYING
<1> QED BY <1>1, <1>2

\* Charges are never undone and a lifetime buyer stays one.
LEMMA Lasting ==
  ASSUME CodeTypeOK, [Step]_codeVars
  PROVE  /\ charged \subseteq charged'
         /\ row.lifetime => row'.lifetime
<1>1. CASE Gateway
  BY <1>1 DEF Gateway, GatewayNext, Authorise, PaymentSucceeds, PaymentFails, GivesUp, Relabelled,
              EndedThere, PortalToggles, CycleEnds, Moves, Tick
<1>2. ASSUME NEW p \in Procs, Continue(p) PROVE UNCHANGED charged /\ row'.lifetime = row.lifetime
  BY <1>2 DEF CodeTypeOK, Row, Continue, CheckoutRemember, StoredRead, PaymentsRead, RowRead, RowWrite,
              Applied, CancelDuplicate, CancelAtCycleEnd, MarkCancelled, FlagCancel, StopBilling,
              RestoreFlag, SyncFails, gatewayVars
<1>3. ASSUME NEW p \in Procs,
             Sync(p) \/ Reconcile(p) \/ CancelStart(p) \/ ExpireCancelled(p) \/ GrantLifetime(p)
      PROVE  UNCHANGED charged /\ (row.lifetime => row'.lifetime)
  BY <1>3 DEF CodeTypeOK, Row, Sync, Reconcile, CancelStart, ExpireCancelled, GrantLifetime, gatewayVars
<1>4. ASSUME NEW p \in Procs, NEW s \in Subs, CheckoutStart(p, s) \/ StripeReturn(p, s)
      PROVE  UNCHANGED <<charged, row>>
  BY <1>4 DEF CheckoutStart, StripeReturn, gatewayVars
<1>5. ASSUME NEW p \in Procs, NEW e \in events, Receive(p, e)
      PROVE  UNCHANGED charged /\ row'.lifetime = row.lifetime
  BY <1>5 DEF CodeTypeOK, Row, Receive, Webhook, WebhookFromCopy, InvoicePaymentFailed
<1>6. ASSUME NEW e \in events, LoseEvent(e) PROVE UNCHANGED <<charged, row>>
  BY <1>6 DEF LoseEvent
<1> QED BY <1>1, <1>2, <1>3, <1>4, <1>5, <1>6 DEF Next, Step, vars, codeVars

\* What backed a request goes on backing it.
LEMMA StaysBacked ==
  ASSUME NEW r, RequestBacked(r), charged \subseteq charged', row.lifetime => row'.lifetime
  PROVE  RequestBacked(r)'
BY DEF RequestBacked, SomePaid, PayingFor, OwnWord, NeverStripe

\* A step of request p keeps every request backed when p's new state is.
LEMMA GotoBacked ==
  ASSUME CodeTypeOK, PaidForInv, charged \subseteq charged', row.lifetime => row'.lifetime,
         NEW p \in Procs, NEW r, Goto(p, r), RequestBacked(r)
  PROVE  \A q \in Procs : RequestBacked(reqs[q])'
<1> TAKE q \in Procs
<1>1. CASE q = p
  <2>1. reqs'[q] = r
    BY <1>1 DEF Goto, CodeTypeOK
  <2> QED BY <2>1 DEF RequestBacked, SomePaid, PayingFor, OwnWord, NeverStripe
<1>2. CASE q # p
  <2>1. reqs'[q] = reqs[q] /\ RequestBacked(reqs[q])
    BY <1>2 DEF Goto, CodeTypeOK, PaidForInv
  <2> QED BY <2>1 DEF RequestBacked, SomePaid, PayingFor, OwnWord, NeverStripe
<1> QED BY <1>1, <1>2

\* A change at a gateway keeps what the gateways say backed when the change is.
LEMMA BecomesBacked ==
  ASSUME CodeTypeOK, PaidForInv, charged \subseteq charged', NEW s \in Subs,
         NEW r \in Remote(G(s)), NEW types \in SUBSET EventTypes, Becomes(s, r, types),
         PaidAtGateway(s, r) => SomePaid', "success" \in types => SomePaid',
         "invoice_failed" \in types => G(s) = "stripe"
  PROVE  GatewaysBacked' /\ \A e \in events' : EventBacked(e)'
<1>1. SomePaid => SomePaid'
  BY DEF SomePaid
<1>2. GatewaysBacked'
  <2> SUFFICES ASSUME NEW t \in Subs PROVE PaidAtGateway(t, remote'[t]) => SomePaid'
    BY DEF GatewaysBacked, PaidAtGateway
  <2>1. remote'[t] = IF t = s THEN r ELSE remote[t]
    BY DEF Becomes, CodeTypeOK, GatewayTypeOK
  <2> QED BY <1>1, <2>1 DEF PaidForInv, GatewaysBacked
<1>3. ASSUME NEW e \in events' PROVE EventBacked(e)'
  <2>1. CASE e \in events
    BY <1>1, <2>1 DEF PaidForInv, EventBacked, PaidAtGateway
  <2>2. CASE e \in Notices(s, r, types)
    <3>1. /\ e.sub = s /\ e.type \in types
          /\ e.copy = r \/ e.copy.status = "none"
      BY <2>2 DEF Notices, Absent
    <3> QED BY <3>1 DEF EventBacked, PaidAtGateway
  <2> QED BY <1>3, <2>1, <2>2 DEF Becomes
<1> QED BY <1>2, <1>3

\* The rest of the server's state is not touched by a gateway.
LEMMA RowStaysBacked ==
  ASSUME PaidForInv, charged \subseteq charged', row' = row
  PROVE  RowBacked'
BY DEF PaidForInv, RowBacked, NoAccessBeforePaying, Paying, PayingFor, SomePaid, OwnWord, NeverStripe

\* A gateway never says "paid" of a buyer it has not charged.
LEMMA GatewayBacked ==
  ASSUME CodeTypeOK, PaidForInv, Gateway
  PROVE  PaidForInv'
<1>0. charged \subseteq charged' /\ UNCHANGED <<row, reqs>> /\ GatewayTypeOK
  BY Lasting DEF Gateway, Step, CodeTypeOK
<1>1. RowBacked' /\ \A q \in Procs : RequestBacked(reqs[q])'
  BY <1>0, RowStaysBacked, StaysBacked DEF PaidForInv
<1>2. \A s \in Subs : PaidAtGateway(s, remote[s]) => SomePaid
  BY DEF PaidForInv, GatewaysBacked
<1>3. ASSUME NEW s \in Subs, NEW to \in StatusOf(G(s)), NEW types \in SUBSET EventTypes,
             Becomes(s, [remote[s] EXCEPT !.status = to], types),
             PaidAtGateway(s, [remote[s] EXCEPT !.status = to]) => SomePaid,
             "success" \notin types, "invoice_failed" \in types => G(s) = "stripe"
      PROVE  PaidForInv'
  <2>1. [remote[s] EXCEPT !.status = to] \in Remote(G(s))
    BY <1>0, RemoteTyped DEF Remote
  <2>2. SomePaid => SomePaid'
    BY <1>0 DEF SomePaid
  <2> QED BY <1>0, <1>1, <1>3, <2>1, <2>2, BecomesBacked DEF PaidForInv
<1>4. \A s \in Subs : \A st : [remote[s] EXCEPT !.status = st].status = st
  BY <1>0, RemoteTyped DEF Remote
<1>5. ASSUME NEW s \in Subs, Authorise(s) PROVE PaidForInv'
  <2>1. PICK to \in {"incomplete", "authenticated", "ACTIVE"} :
          /\ Becomes(s, [remote[s] EXCEPT !.status = to], {"status"})
          /\ to \in StatusOf(G(s))
          /\ to = "ACTIVE" => G(s) = "cashfree"
    BY <1>5 DEF Authorise, Moves, StatusOf, StripeStatus, RazorpayStatus, CashfreeStatus
  <2>2. ~PaidAtGateway(s, [remote[s] EXCEPT !.status = to])
    BY <1>4, <2>1 DEF PaidAtGateway, ACTIVE_SUBSCRIPTION_STATUSES
  <2> QED BY <1>3, <2>1, <2>2 DEF EventTypes
<1>6. ASSUME NEW s \in Subs, PaymentSucceeds(s) PROVE PaidForInv'
  <2>1. now + 1 \in Dates
    BY <1>0, <1>6, GatewaysAssumption DEF PaymentSucceeds, GatewayTypeOK, Dates, Times
  <2>2. [remote[s] EXCEPT !.status = PaidStatus[G(s)], !.periodEnd = now + 1] \in Remote(G(s))
    BY <1>0, <2>1, RemoteTyped DEF Remote
  <2>3. PaymentNotice(s) \in SUBSET EventTypes /\ "invoice_failed" \notin PaymentNotice(s)
    BY DEF PaymentNotice, EventTypes
  <2>4. SomePaid'
    BY <1>6 DEF PaymentSucceeds, SomePaid
  <2> QED BY <1>0, <1>1, <1>6, <2>2, <2>3, <2>4, BecomesBacked DEF PaymentSucceeds, PaidForInv
<1>7. ASSUME NEW s \in Subs, PaymentFails(s) PROVE PaidForInv'
  <2>1. CASE s \in charged
    BY <1>3, <1>7, <2>1 DEF PaymentFails, Moves, SomePaid, StatusOf,
                    StripeStatus, RazorpayStatus, PaypalStatus, CashfreeStatus, EventTypes
  <2>2. CASE s \notin charged
    BY <1>3, <1>4, <1>7, <2>2 DEF PaymentFails, Moves, PaidAtGateway, ACTIVE_SUBSCRIPTION_STATUSES,
                    StatusOf, StripeStatus, EventTypes
  <2> QED BY <2>1, <2>2
<1>8. ASSUME NEW s \in Subs, GivesUp(s) \/ Relabelled(s) PROVE PaidForInv'
  BY <1>3, <1>4, <1>8 DEF GivesUp, Relabelled, Moves, PaidAtGateway, ACTIVE_SUBSCRIPTION_STATUSES, StatusOf,
                    StripeStatus, RazorpayStatus, PaypalStatus, CashfreeStatus, EventTypes
<1>9. ASSUME NEW s \in Subs, EndedThere(s) \/ CycleEnds(s) PROVE PaidForInv'
  <2>1. \A g \in Gateways : CancelledStatus[g] \notin ACTIVE_SUBSCRIPTION_STATUSES
                               \cup {"pending", "ACTIVE", "ACTIVE_FAILING"}
    BY DEF Gateways, CancelledStatus, ACTIVE_SUBSCRIPTION_STATUSES
  <2>2. ~PaidAtGateway(s, [remote[s] EXCEPT !.status = CancelledStatus[G(s)]])
    BY <1>0, <1>4, <2>1, RemoteTyped DEF PaidAtGateway, ACTIVE_SUBSCRIPTION_STATUSES
  <2> QED BY <1>0, <1>3, <1>9, <2>2, RemoteTyped DEF EndedThere, CycleEnds, Moves, EventTypes
<1>10. ASSUME NEW s \in Subs, PortalToggles(s) PROVE PaidForInv'
  <2>1. [remote[s] EXCEPT !.atEnd = ~@] \in Remote(G(s))
    BY <1>0, RemoteTyped DEF Remote
  <2>2. PaidAtGateway(s, [remote[s] EXCEPT !.atEnd = ~@]) => SomePaid
    BY <1>0, <1>2, RemoteTyped DEF PaidAtGateway, Remote
  <2>3. SomePaid => SomePaid'
    BY <1>0 DEF SomePaid
  <2> QED BY <1>0, <1>1, <1>10, <2>1, <2>2, <2>3, BecomesBacked DEF PortalToggles, PaidForInv, EventTypes
<1>11. ASSUME Tick PROVE PaidForInv'
  BY <1>1, <1>11 DEF Tick, PaidForInv, GatewaysBacked, EventBacked, SomePaid
<1> QED BY <1>5, <1>6, <1>7, <1>8, <1>9, <1>10, <1>11 DEF Gateway, GatewayNext

\* What a request reads at a gateway is backed.
LEMMA FetchedBacked ==
  ASSUME CodeTypeOK, NEW s \in Subs, NEW r \in Remote(G(s)), NEW d \in Dates,
         NEW t \in EventTypes \cup {"sync"},
         PaidAtGateway(s, r) => SomePaid, t = "success" => SomePaid
  PROVE  RequestBacked(Fetched(s, r, d, t))
<1>1. CASE G(s) = "cashfree"
  BY <1>1 DEF Fetched, RequestBacked
<1>2. CASE G(s) # "cashfree"
  BY <1>2, PaidStates DEF Fetched, RequestBacked
<1> QED BY <1>1, <1>2

\* The verdict on a backed state and a backed row is backed.
LEMMA PatchBacked ==
  ASSUME CodeTypeOK, PaidForInv, OwnWord \/ NeverStripe, NEW r, r.sub \in Subs,
         r.state \in GatewayState, r.state.paid \/ r.state.status \in PAYING => SomePaid
  PROVE  /\ PatchOf(r).isPro => row.lifetime \/ SomePaid
         /\ PatchOf(r).status \in PAYING => SomePaid
         /\ PatchOf(r).cancelFlag => PayingFor
<1>1. row.cancelFlag => PayingFor
  BY DEF PaidForInv, RowBacked
<1>2. PaidUntilStillRunning(r.sub, r.state) => SomePaid
  BY <1>1 DEF PaidUntilStillRunning, PayingFor, OwnWord, NeverStripe
<1>3. G(r.sub) = "stripe" => PayingFor
  BY DEF PayingFor, OwnWord, NeverStripe
<1> QED BY <1>1, <1>2, <1>3 DEF PatchOf, CodeTypeOK, Row

\* The steps of a request already in flight keep everything backed.
LEMMA ContinueBacked ==
  ASSUME CodeTypeOK, PaidForInv, OwnWord \/ NeverStripe, NEW p \in Procs, Continue(p)
  PROVE  PaidForInv'
<1> USE DEF At
<1> DEFINE r == reqs[p]
<1>0. /\ r \in Request /\ RequestBacked(r) /\ GatewayTypeOK /\ RowBacked /\ row \in Row
      /\ charged \subseteq charged' /\ (row.lifetime => row'.lifetime)
      /\ UNCHANGED charged
      /\ \A s \in Subs : PaidAtGateway(s, remote[s]) => SomePaid
      /\ RequestBacked(Idle)
  <2>1. charged \subseteq charged' /\ (row.lifetime => row'.lifetime)
    BY Lasting DEF Step
  <2>2. UNCHANGED charged
    BY DEF Continue, CheckoutRemember, StoredRead, PaymentsRead, RowRead, RowWrite,
           CancelDuplicate, CancelAtCycleEnd, MarkCancelled, FlagCancel, StopBilling,
           RestoreFlag, SyncFails, gatewayVars
  <2> QED BY <2>1, <2>2 DEF CodeTypeOK, PaidForInv, GatewaysBacked, RequestBacked, Idle
<1>1. ASSUME UNCHANGED <<remote, events>> PROVE GatewaysBacked' /\ \A e \in events' : EventBacked(e)'
  BY <1>0, <1>1 DEF PaidForInv, GatewaysBacked, EventBacked, SomePaid
<1>2. ASSUME NEW x, Goto(p, x), RequestBacked(x) PROVE \A q \in Procs : RequestBacked(reqs[q])'
  BY <1>0, <1>2, GotoBacked
<1>3. ASSUME UNCHANGED row PROVE RowBacked'
  BY <1>0, <1>3, RowStaysBacked
<1>4. CASE CheckoutRemember(p)
  <2>1. r.sub \in Subs
    BY <1>0, <1>4, RequestFields DEF CheckoutRemember
  <2>2. RowBacked'
    BY <1>0, <1>4 DEF CheckoutRemember, RowBacked, NoAccessBeforePaying, Paying, PayingFor, SomePaid,
                      OwnWord, NeverStripe, Row
  <2>3. remote[r.sub].status = "none" =>
          ~PaidAtGateway(r.sub, [remote[r.sub] EXCEPT !.status = InitialStatus[G(r.sub)]])
    BY <1>0, <2>1, RemoteTyped DEF PaidAtGateway, InitialStatus, ACTIVE_SUBSCRIPTION_STATUSES,
                                   Remote, Gateways
  <2>4. GatewaysBacked'
    <3> SUFFICES ASSUME NEW s \in Subs PROVE PaidAtGateway(s, remote'[s]) => SomePaid'
      BY DEF GatewaysBacked, PaidAtGateway
    <3>1. \/ remote'[s] = remote[s]
          \/ /\ s = r.sub /\ remote[s] = Absent
             /\ remote'[s] = [remote[s] EXCEPT !.status = InitialStatus[G(s)]]
      <4>1. \/ remote' = remote
            \/ /\ remote[r.sub] = Absent
               /\ remote' = [remote EXCEPT ![r.sub] = [remote[r.sub] EXCEPT !.status = InitialStatus[G(r.sub)]]]
        BY <1>4, <1>0, <2>1 DEF CheckoutRemember, GatewayTypeOK
      <4> QED BY <1>0, <2>1, <4>1 DEF GatewayTypeOK
    <3>2. CASE remote'[s] = remote[s]
      BY <1>0, <3>2 DEF SomePaid
    <3>3. CASE s = r.sub /\ remote[s].status = "none"
                 /\ remote'[s] = [remote[s] EXCEPT !.status = InitialStatus[G(s)]]
      BY <2>3, <3>3
    <3> QED BY <3>1, <3>2, <3>3 DEF Absent
  <2>5. \A e \in events' : EventBacked(e)'
    BY <1>0, <1>4 DEF CheckoutRemember, PaidForInv, EventBacked, SomePaid
  <2> QED BY <1>0, <1>2, <1>4, <2>2, <2>4, <2>5 DEF CheckoutRemember, PaidForInv
<1>5. ASSUME NEW a \in BOOLEAN, NEW b \in BOOLEAN, r.pc \in {"stored", "payments"}, a \/ b => SomePaid
      PROVE  RequestBacked(CashfreeApply(r, a, b))
  <2>1. r.status \in CashfreeStatus /\ (r.type = "failed") \in BOOLEAN
    BY <1>0, <1>5, RequestFields
  <2>2. CashfreeState(r.status, a, b, r.type = "failed").paid
          \/ CashfreeState(r.status, a, b, r.type = "failed").status \in PAYING => SomePaid
    BY <1>5, <2>1, PaidStates
  <2> QED BY <1>0, <2>2 DEF CashfreeApply, RequestBacked, SomePaid
<1>6. CASE StoredRead(p)
  <2>1. r.pc = "stored" /\ G(r.sub) = "cashfree" /\ (r.type = "success" => SomePaid) /\ r.sub \in Subs
    BY <1>0, <1>6, RequestFields DEF StoredRead, RequestBacked
  <2> DEFINE known == row.subOf["cashfree"] = r.sub /\ Paying
             signed == r.type = "success"
  <2>2. known => SomePaid
    BY <1>0, <2>1 DEF RowBacked, PayingFor, OwnWord, NeverStripe
  <2>3. RequestBacked(CashfreeApply(r, signed, known))
    <3>1. signed \in BOOLEAN /\ known \in BOOLEAN
      OBVIOUS
    <3> QED BY <1>5, <2>1, <2>2, <3>1
  <2>4. RequestBacked([r EXCEPT !.pc = "payments"])
    <3>1. r = [pc |-> r.pc, sub |-> r.sub, type |-> r.type, status |-> r.status, periodEnd |-> r.periodEnd]
      BY <1>0, <2>1, RequestFields
    <3>2. [r EXCEPT !.pc = "payments"] = [pc |-> "payments", sub |-> r.sub, type |-> r.type,
                                         status |-> r.status, periodEnd |-> r.periodEnd]
      BY <3>1
    <3> QED BY <1>0, <2>1, <3>2 DEF RequestBacked, SomePaid
  <2>5. Goto(p, [r EXCEPT !.pc = "payments"]) \/ Goto(p, CashfreeApply(r, signed, known))
    BY <1>6, Zenon DEF StoredRead
  <2> QED BY <1>1, <1>2, <1>3, <1>6, <2>3, <2>4, <2>5 DEF StoredRead, gatewayVars, PaidForInv
<1>7. CASE PaymentsRead(p)
  <2>1. r.pc = "payments" /\ UNCHANGED <<gatewayVars, row>>
    BY <1>7 DEF PaymentsRead
  <2>2. r.sub \in charged => SomePaid
    BY DEF SomePaid
  <2>3. RequestBacked(CashfreeApply(r, r.sub \in charged, FALSE)) /\ RequestBacked(CashfreeApply(r, FALSE, FALSE))
    <3>1. (r.sub \in charged) \in BOOLEAN
      OBVIOUS
    <3> QED BY <1>5, <2>1, <2>2, <3>1
  <2>4. Goto(p, CashfreeApply(r, r.sub \in charged, FALSE)) \/ Goto(p, CashfreeApply(r, FALSE, FALSE))
    BY <1>7, Zenon DEF PaymentsRead
  <2> QED BY <1>1, <1>2, <1>3, <2>1, <2>3, <2>4 DEF gatewayVars, PaidForInv
<1>8. CASE RowRead(p)
  <2>1. r.sub \in Subs /\ r.state \in GatewayState /\ (r.state.paid \/ r.state.status \in PAYING => SomePaid)
    BY <1>0, <1>8, RequestFields DEF RowRead, RequestBacked
  <2>2. RequestBacked([pc |-> "write", sub |-> r.sub, patch |-> PatchOf(r)])
    BY <2>1, PatchBacked DEF RequestBacked
  <2>3. RequestBacked([pc |-> "cancelDuplicate", sub |-> r.sub])
    BY DEF RequestBacked
  <2>4. \/ Goto(p, Idle) \/ Goto(p, [pc |-> "cancelDuplicate", sub |-> r.sub])
        \/ Goto(p, [pc |-> "write", sub |-> r.sub, patch |-> PatchOf(r)])
    BY <1>8 DEF RowRead
  <2> QED BY <1>0, <1>1, <1>2, <1>3, <1>8, <2>2, <2>3, <2>4 DEF RowRead, gatewayVars, PaidForInv
<1>9. CASE RowWrite(p)
  <2>1. RowBacked'
    BY <1>0, <1>9 DEF RowWrite, Applied, RequestBacked, RowBacked, NoAccessBeforePaying, Paying,
                      PayingFor, SomePaid, OwnWord, NeverStripe, Row
  <2> QED BY <1>0, <1>1, <1>2, <1>9, <2>1 DEF RowWrite, gatewayVars, PaidForInv
<1>10. ASSUME NEW s \in Subs PROVE /\ ~PaidAtGateway(s, StoppedAt(s))
                                   /\ ~PaidAtGateway(s, [StoppedAt(s) EXCEPT !.atEnd = TRUE])
  <2>1. StoppedAt(s).status = CancelledStatus[G(s)]
        /\ [StoppedAt(s) EXCEPT !.atEnd = TRUE].status = CancelledStatus[G(s)]
    BY <1>0, RemoteTyped DEF StoppedAt, Remote
  <2> QED BY <1>0, <2>1, RemoteTyped DEF PaidAtGateway, CancelledStatus, ACTIVE_SUBSCRIPTION_STATUSES, Gateways
<1>11. ASSUME NEW s \in Subs, NEW x,
              x = StoppedAt(s) \/ x = [StoppedAt(s) EXCEPT !.atEnd = TRUE], Becomes(s, x, {"status"})
       PROVE  GatewaysBacked' /\ \A e \in events' : EventBacked(e)'
  BY <1>0, <1>10, <1>11, StoppedTyped, BecomesBacked DEF EventTypes
<1>12. CASE CancelDuplicate(p)
  <2>1. r.sub \in Subs
    BY <1>0, <1>12, RequestFields DEF CancelDuplicate
  <2>2. GatewaysBacked' /\ \A e \in events' : EventBacked(e)'
    BY <1>1, <1>11, <1>12, <2>1 DEF CancelDuplicate
  <2> QED BY <1>0, <1>2, <1>3, <1>12, <2>2 DEF CancelDuplicate, PaidForInv
<1>13. CASE CancelAtCycleEnd(p)
  <2>1. r.sub \in Subs
    BY <1>0, <1>13, RequestFields DEF CancelAtCycleEnd
  <2>2. /\ RequestBacked([pc |-> "mark", sub |-> r.sub])
        /\ RequestBacked([pc |-> "resync", gateway |-> "razorpay"])
    BY <1>0, <1>13 DEF CancelAtCycleEnd, RequestBacked, PayingFor, SomePaid, OwnWord, NeverStripe
  <2>3. GatewaysBacked'
    <3> SUFFICES ASSUME NEW s \in Subs PROVE PaidAtGateway(s, remote'[s]) => SomePaid'
      BY DEF GatewaysBacked, PaidAtGateway
    <3>1. remote'[s].status = remote[s].status
      BY <1>0, <1>13, <2>1, RemoteTyped DEF CancelAtCycleEnd, GatewayTypeOK, Remote
    <3> QED BY <1>0, <3>1 DEF PaidAtGateway, SomePaid
  <2>4. \A e \in events' : EventBacked(e)'
    BY <1>0, <1>13 DEF CancelAtCycleEnd, PaidForInv, EventBacked, SomePaid
  <2> QED BY <1>0, <1>2, <1>3, <1>13, <2>2, <2>3, <2>4 DEF CancelAtCycleEnd, PaidForInv
<1>14. CASE MarkCancelled(p)
  <2>1. RowBacked'
    BY <1>0, <1>14 DEF MarkCancelled, RequestBacked, RowBacked, NoAccessBeforePaying, Paying,
                       PayingFor, SomePaid, OwnWord, NeverStripe, Row
  <2> QED BY <1>0, <1>1, <1>2, <1>14, <2>1 DEF MarkCancelled, gatewayVars, PaidForInv
<1>15. CASE FlagCancel(p)
  <2>1. RowBacked'
    BY <1>0, <1>15 DEF FlagCancel, RequestBacked, RowBacked, NoAccessBeforePaying, Paying,
                       PayingFor, SomePaid, OwnWord, NeverStripe, Row
  <2>2. RequestBacked([pc |-> "stop", sub |-> r.sub, snapshot |-> r.snapshot])
    BY <1>0, <1>15 DEF FlagCancel, RequestBacked, PayingFor, SomePaid, OwnWord, NeverStripe
  <2> QED BY <1>0, <1>1, <1>2, <1>15, <2>1, <2>2 DEF FlagCancel, gatewayVars, PaidForInv
<1>16. CASE StopBilling(p)
  <2>1. r.sub \in Subs
    BY <1>0, <1>16, RequestFields DEF StopBilling
  <2>2. GatewaysBacked' /\ \A e \in events' : EventBacked(e)'
    BY <1>1, <1>11, <1>16, <2>1 DEF StopBilling
  <2>3. \A b : RequestBacked([pc |-> "restore", sub |-> r.sub, snapshot |-> r.snapshot, resync |-> b])
    BY DEF RequestBacked
  <2> QED BY <1>0, <1>2, <1>3, <1>16, <2>2, <2>3 DEF StopBilling, PaidForInv
<1>17. CASE RestoreFlag(p)
  <2>1. RowBacked'
    BY <1>0, <1>17 DEF RestoreFlag, RowBacked, NoAccessBeforePaying, Paying,
                       PayingFor, SomePaid, OwnWord, NeverStripe, Row
  <2>2. RequestBacked([pc |-> "resync", gateway |-> G(r.sub)])
    BY DEF RequestBacked
  <2> QED BY <1>0, <1>1, <1>2, <1>17, <2>1, <2>2 DEF RestoreFlag, gatewayVars, PaidForInv
<1>18. CASE SyncFails(p)
  BY <1>0, <1>1, <1>2, <1>3, <1>18 DEF SyncFails, gatewayVars, PaidForInv
<1> QED BY <1>4, <1>6, <1>7, <1>8, <1>9, <1>12, <1>13, <1>14, <1>15, <1>16, <1>17, <1>18 DEF Continue

\* The steps that start a request keep everything backed.
LEMMA StartBacked ==
  ASSUME CodeTypeOK, PaidForInv, OwnWord \/ NeverStripe, NEW p \in Procs,
         \/ Sync(p) \/ Reconcile(p) \/ CancelStart(p) \/ ExpireCancelled(p) \/ GrantLifetime(p)
         \/ \E s \in Subs : CheckoutStart(p, s) \/ StripeReturn(p, s)
         \/ \E e \in events : Receive(p, e)
  PROVE  PaidForInv'
<1>0. /\ GatewayTypeOK /\ RowBacked /\ row \in Row /\ reqs[p] \in Request
      /\ charged \subseteq charged' /\ (row.lifetime => row'.lifetime) /\ UNCHANGED charged
      /\ \A s \in Subs : PaidAtGateway(s, remote[s]) => SomePaid
      /\ UNCHANGED remote
      /\ events' \subseteq events
  <2>1. charged \subseteq charged' /\ (row.lifetime => row'.lifetime)
    BY Lasting DEF Step
  <2>2. UNCHANGED <<charged, remote>> /\ events' \subseteq events
    BY DEF Sync, Reconcile, CancelStart, ExpireCancelled, GrantLifetime, CheckoutStart,
           StripeReturn, Receive, Webhook, WebhookFromCopy, InvoicePaymentFailed, gatewayVars
  <2> QED BY <2>1, <2>2 DEF CodeTypeOK, PaidForInv, GatewaysBacked
<1>1. GatewaysBacked' /\ \A e \in events' : EventBacked(e)'
  BY <1>0 DEF PaidForInv, GatewaysBacked, EventBacked, SomePaid
<1>2. ASSUME NEW x, Goto(p, x), RequestBacked(x), UNCHANGED row PROVE PaidForInv'
  BY <1>0, <1>1, <1>2, GotoBacked, RowStaysBacked DEF PaidForInv
<1>3. ASSUME UNCHANGED reqs, RowBacked' PROVE PaidForInv'
  BY <1>0, <1>1, <1>3, StaysBacked DEF PaidForInv
<1>4. ASSUME NEW s, NEW t \in EventTypes \cup {"sync"}, s \in Subs, Fetch(p, s, t),
             t = "success" => SomePaid, UNCHANGED row
      PROVE  PaidForInv'
  <2>1. ReportedEnd(s) \in Dates /\ remote[s] \in Remote(G(s))
    BY <1>0, <1>4, RemoteTyped DEF ReportedEnd, Remote, Dates
  <2>2. RequestBacked(Fetched(s, remote[s], ReportedEnd(s), t))
    BY <1>0, <1>4, <2>1, FetchedBacked
  <2> QED BY <1>2, <1>4, <2>2 DEF Fetch
<1>5. CASE Sync(p)
  <2>1. PICK s : Fetch(p, s, "sync") /\ s \in Subs
    BY <1>0, <1>5, RequestFields DEF Sync, Fetch, Row, At
  <2> QED BY <1>4, <1>5, <2>1 DEF Sync
<1>6. CASE Reconcile(p)
  <2>1. PICK s : Fetch(p, s, "sync") /\ s \in Subs
    BY <1>0, <1>6 DEF Reconcile, Stale, Fetch, Row
  <2> QED BY <1>4, <1>6, <2>1 DEF Reconcile
<1>7. CASE CancelStart(p)
  <2>1. PICK x : Goto(p, x) /\ x.pc \in {"cancelAtCycleEnd", "flag"}
    BY <1>7 DEF CancelStart
  <2>2. PayingFor
    BY <1>0, <1>7 DEF CancelStart, RowBacked
  <2>3. RequestBacked(x)
    BY <2>1, <2>2 DEF RequestBacked
  <2> QED BY <1>2, <1>7, <2>1, <2>3 DEF CancelStart
<1>8. CASE ExpireCancelled(p)
  <2>1. RowBacked'
    BY <1>0, <1>8 DEF ExpireCancelled, RowBacked, NoAccessBeforePaying, Paying, PAYING, Row
  <2> QED BY <1>3, <1>8, <2>1 DEF ExpireCancelled
<1>9. CASE GrantLifetime(p)
  <2>1. RowBacked'
    BY <1>0, <1>9 DEF GrantLifetime, RowBacked, NoAccessBeforePaying, Paying, PayingFor, SomePaid,
                      OwnWord, NeverStripe, Row
  <2> QED BY <1>3, <1>9, <2>1 DEF GrantLifetime
<1>10. ASSUME NEW s \in Subs, CheckoutStart(p, s) PROVE PaidForInv'
  <2>1. RequestBacked([pc |-> "remember", sub |-> s])
    BY DEF RequestBacked
  <2> QED BY <1>2, <1>10, <2>1 DEF CheckoutStart
<1>11. ASSUME NEW s \in Subs, StripeReturn(p, s) PROVE PaidForInv'
  BY <1>4, <1>11 DEF StripeReturn
<1>12. ASSUME NEW e \in events
       PROVE  /\ e.sub \in Subs /\ e.type \in EventTypes /\ e.copy \in Remote(G(e.sub))
              /\ EventBacked(e)
  BY <1>0, <1>12 DEF GatewayTypeOK, PaidForInv
<1>13. ASSUME NEW e \in events, Webhook(p, e) PROVE PaidForInv'
  BY <1>4, <1>12, <1>13 DEF Webhook, EventBacked
<1>14. ASSUME NEW e \in events, WebhookFromCopy(p, e) PROVE PaidForInv'
  <2>1. e.copy.periodEnd \in Dates /\ G(e.sub) = "razorpay"
    BY <1>12, <1>14 DEF WebhookFromCopy, Remote
  <2>2. RequestBacked(Fetched(e.sub, e.copy, e.copy.periodEnd, e.type))
    BY <1>12, <2>1, FetchedBacked DEF EventBacked
  <2> QED BY <1>2, <1>14, <2>2 DEF WebhookFromCopy
<1>15. ASSUME NEW e \in events, InvoicePaymentFailed(p, e) PROVE PaidForInv'
  <2>1. G(e.sub) = "stripe" /\ e.sub \in Subs
    BY <1>12, <1>15 DEF InvoicePaymentFailed, EventBacked
  <2>2. PayingFor
    BY <2>1 DEF PayingFor, OwnWord, NeverStripe
  <2>3. RowBacked'
    BY <1>0, <1>15, <2>2 DEF InvoicePaymentFailed, RowBacked, NoAccessBeforePaying, Paying, PayingFor,
                             SomePaid, OwnWord, NeverStripe, Row
  <2> QED BY <1>3, <1>15, <2>3 DEF InvoicePaymentFailed
<1> QED BY <1>5, <1>6, <1>7, <1>8, <1>9, <1>10, <1>11, <1>13, <1>14, <1>15 DEF Receive

LEMMA PaidForStep ==
  ASSUME OwnWord \/ NeverStripe
  PROVE  CodeTypeOK /\ PaidForInv /\ [Next]_vars => PaidForInv'
<1> SUFFICES ASSUME CodeTypeOK, PaidForInv, [Next]_vars PROVE PaidForInv'
  OBVIOUS
<1>1. CASE UNCHANGED vars
  BY <1>1 DEF vars, codeVars, PaidForInv, RowBacked, NoAccessBeforePaying, Paying, PayingFor, SomePaid,
              GatewaysBacked, EventBacked, RequestBacked
<1>2. ASSUME NEW e \in events, LoseEvent(e) PROVE PaidForInv'
  BY <1>2 DEF LoseEvent, PaidForInv, RowBacked, NoAccessBeforePaying, Paying, PayingFor, SomePaid,
              GatewaysBacked, EventBacked, RequestBacked
<1> QED BY <1>1, <1>2, GatewayBacked, ContinueBacked, StartBacked DEF Next, Step

\* Every source of access goes back to a charge, whatever the interleaving of requests, events
\* and failures, for a buyer who uses Stripe with Razorpay at most, or never.
THEOREM PaidFor ==
  ASSUME OwnWord \/ NeverStripe
  PROVE  Spec => []PaidForInv
<1>1. Init => PaidForInv
  <2> SUFFICES ASSUME Init PROVE PaidForInv
    OBVIOUS
  <2>1. RowBacked
    BY GatewaysAssumption DEF Init, RowBacked, NoAccessBeforePaying, Paying, PAYING, StoredStatus
  <2>2. GatewaysBacked
    BY DEF Init, GatewayInit, Absent, GatewaysBacked, PaidAtGateway, ACTIVE_SUBSCRIPTION_STATUSES
  <2>3. \A p \in Procs : RequestBacked(reqs[p])
    BY DEF Init, Idle, RequestBacked
  <2> QED BY <2>1, <2>2, <2>3 DEF Init, GatewayInit, PaidForInv
<1>2. CodeTypeOK /\ PaidForInv /\ [Next]_vars => PaidForInv'
  BY PaidForStep
<1> QED BY <1>1, <1>2, CodeTypes, PTL DEF Spec

\* Nobody has Pro before a gateway has taken money or the lifetime upgrade was bought: the first
\* rule of subscriptionState.js, for the same buyers.
THEOREM AccessOnlyAfterPaying ==
  ASSUME OwnWord \/ NeverStripe
  PROVE  Spec => []NoAccessBeforePaying
<1>1. PaidForInv => NoAccessBeforePaying
  BY DEF PaidForInv, RowBacked
<1> QED BY <1>1, PaidFor, PTL

-----------------------------------------------------------------------------
(* As long as no call has failed, no event is lost and no two requests cross:   *)
(* for a buyer who never uses Stripe, the row, the gateways, the news still to   *)
(* come and every request in flight agree.                                       *)

StopsAtOnce(s) == G(s) \in {"paypal", "cashfree"}
News(s) == \E e \in events : e.sub = s
OnFile == row.subOf[row.provider]

\* Request r holds a gateway's answer; what it has read is still so.
Reads(r) == r.pc \in {"stored", "payments", "apply"}
Fresh(r) ==
  /\ r.pc \in {"stored", "payments"} => r.status = remote[r.sub].status
  /\ r.pc = "apply" =>
       /\ r.state.paid => \/ G(r.sub) = "cashfree" /\ OtherLive(r.sub)
                          \/ r.sub \in charged /\ Live(r.sub)
       /\ Billing(r.sub) => r.state.paid

\* The server is going to hear of s as it is now, or just has: by an event that is on its way,
\* or by a request that has read s and not reached its verdict.
Told(s) ==
  News(s) \/ \E p \in Procs : Reads(reqs[p]) /\ reqs[p].sub = s /\ Fresh(reqs[p])

\* A status that says "paid" is one of a charged subscription; "set to end" is too, and is
\* over already where the gateway stops at once.
GatewayFacts ==
  /\ \A s \in Subs : PaidAtGateway(s, remote[s]) => s \in charged
  /\ \A e \in events : e.type # "invoice_failed" /\ (e.type = "success" => e.sub \in charged)
  /\ \A s \in Subs : remote[s].atEnd => s \in charged /\ (StopsAtOnce(s) => Over(s))

\* Stored as paying is Pro, on a charged subscription on file; the cancel flag belongs to it.
RowFacts ==
  /\ row.isPro <=> row.lifetime \/ Paying
  /\ \A g \in Gateways : row.subOf[g] # None => G(row.subOf[g]) = g
  /\ Paying => row.provider # None /\ OnFile # None /\ OnFile \in charged
  /\ row.cancelFlag => Paying
  /\ row.cancelFlag /\ StopsAtOnce(OnFile) => row.periodEnd # None
  /\ Paying /\ StopsAtOnce(OnFile) /\ remote[OnFile].atEnd => row.cancelFlag

\* The flag is true of the gateway, except while a request is asking for it.
FlagFacts ==
  row.cancelFlag => remote[OnFile].atEnd \/ \E p \in Procs : reqs[p].pc \in {"stop", "restore"}

\* Request r is about to store s as no longer paying.
Unpays(r, s) == r.pc = "write" /\ r.patch.status \notin PAYING /\ r.sub = s

\* Stored as paying: live, cancelled in the app, about to be known better, or about to be stored.
AccessFacts ==
  Paying =>
    \/ Live(OnFile) \/ Told(OnFile)
    \/ row.cancelFlag /\ StopsAtOnce(OnFile) /\ remote[OnFile].atEnd
    \/ \E p \in Procs : Unpays(reqs[p], OnFile)

\* Request r is about to store s as paying, or to cancel it.
Serves(r, s) ==
  /\ r.pc = "cancelDuplicate" \/ (r.pc = "write" /\ r.patch.status \in PAYING)
  /\ r.sub = s

\* A subscription that bills is the one stored as paying, or about to be known, stored or cancelled.
BillingFacts ==
  \A s \in Subs : Billing(s) =>
    Told(s) \/ (Paying /\ OnFile = s) \/ \E p \in Procs : Serves(reqs[p], s)

Global == GatewayFacts /\ RowFacts /\ FlagFacts /\ AccessFacts /\ BillingFacts

\* What has been read of a Cashfree subscription, fresh or not.
ReadFacts(r) ==
  /\ G(r.sub) = "cashfree"
  /\ r.type = "success" => r.sub \in charged
  /\ remote[r.sub].atEnd => r.status \in OverStatus
  /\ r.pc = "payments" => r.status = "ACTIVE"

\* The state a gateway's answer was reduced to.
ApplyFacts(r) ==
  /\ r.state.paid <=> r.state.status \in PAYING
  /\ r.state.ended => ~r.state.paid
  /\ r.state.paid => (G(r.sub) = "cashfree" /\ OtherLive(r.sub)) \/ r.sub \in charged
  /\ remote[r.sub].atEnd =>
       (StopsAtOnce(r.sub) => r.state.ended) /\ (Billing(r.sub) => r.state.paid)

\* The verdict about to be stored, which never takes the place of another paying one.
WriteFacts(r) ==
  LET keeps == r.patch.status \in PAYING IN
  /\ Paying => OnFile = r.sub
  /\ r.patch.isPro <=> row.lifetime \/ keeps
  /\ keeps => /\ r.sub \in charged
              /\ Live(r.sub) \/ Told(r.sub) \/ (r.patch.cancelFlag /\ StopsAtOnce(r.sub))
  /\ r.patch.cancelFlag =>
       keeps /\ remote[r.sub].atEnd /\ (StopsAtOnce(r.sub) => r.patch.periodEnd # None)
  /\ Billing(r.sub) /\ ~keeps => Told(r.sub)
  /\ remote[r.sub].atEnd =>
       /\ keeps /\ StopsAtOnce(r.sub) => r.patch.cancelFlag
       /\ Billing(r.sub) => keeps
       /\ ~keeps /\ StopsAtOnce(r.sub) /\ Paying => row.periodEnd <= now

\* The in-app cancel is about the subscription on file, from its first step to its last.
CancelFacts(r) ==
  /\ Paying /\ OnFile = r.sub
  /\ StopsAtOnce(r.sub) <=> r.pc \in {"flag", "stop", "restore"}
  /\ StopsAtOnce(r.sub) => ~remote[r.sub].atEnd
  /\ r.pc = "mark" => remote[r.sub].atEnd
  /\ r.pc = "stop" => row.cancelFlag

RequestFacts(r) ==
  /\ r.pc = "remember" => ~row.isPro
  /\ Reads(r) => Told(r.sub)
  /\ r.pc \in {"stored", "payments"} => ReadFacts(r)
  /\ r.pc = "apply" => ApplyFacts(r)
  /\ r.pc = "write" => WriteFacts(r)
  /\ Cancels(r) => CancelFacts(r)

AgreeInv == Global /\ \A p \in Procs : RequestFacts(reqs[p])

-----------------------------------------------------------------------------
(* What the rest of the system may count on when a gateway moves by itself, or  *)
(* cancels a duplicate: a change is announced, and an end is an end.            *)
Announced ==
  /\ charged \subseteq charged' /\ events \subseteq events' /\ now <= now'
  /\ \A s \in Subs :
       /\ News(s)' \/ (remote'[s].status = remote[s].status /\ (s \in charged' => s \in charged))
       /\ remote'[s].atEnd = remote[s].atEnd
       /\ Over(s) => Over(s)'
       /\ remote[s].atEnd /\ Billing(s)' => Billing(s)
  /\ GatewayFacts'

\* A gateway's change of one subscription, with its events, is announced.
LEMMA BecomesAnnounced ==
  ASSUME GatewayTypeOK, GatewayFacts, NEW s \in Subs, NEW x \in Remote(G(s)),
         NEW types \in SUBSET EventTypes, types # {}, Becomes(s, x, types),
         charged' = charged \/ charged' = charged \cup {s}, now' = now,
         x.atEnd = remote[s].atEnd, Over(s) => x.status \in OverStatus,
         s \in charged' /\ remote[s].atEnd
           /\ x.status \in {"active", "past_due", "pending", "ACTIVE", "ACTIVE_FAILING"} => Billing(s),
         PaidAtGateway(s, x) => s \in charged', "success" \in types => s \in charged',
         "invoice_failed" \notin types
  PROVE  Announced
<1>1. remote' = [remote EXCEPT ![s] = x] /\ remote'[s] = x /\ \A t \in Subs \ {s} : remote'[t] = remote[t]
  BY DEF Becomes, GatewayTypeOK
<1>2. charged \subseteq charged' /\ events \subseteq events' /\ now <= now'
  BY GatewaysAssumption DEF Becomes, GatewayTypeOK
<1>3. News(s)'
  <2>1. PICK t \in types : TRUE
    OBVIOUS
  <2> DEFINE e == [sub |-> s, type |-> t,
                   copy |-> IF G(s) = "razorpay" /\ MaxFaults > 0 THEN x ELSE Absent]
  <2>2. e \in Notices(s, x, types) /\ e.sub = s
    BY <2>1 DEF Notices
  <2> QED BY <2>2 DEF Becomes, News
<1>4. \A e \in events' : e.type # "invoice_failed" /\ (e.type = "success" => e.sub \in charged')
  BY <1>2 DEF Becomes, Notices, GatewayFacts
<1>5. GatewayFacts'
  <2>1. \A t \in Subs : PaidAtGateway(t, remote'[t]) => t \in charged'
    BY <1>1, <1>2 DEF GatewayFacts
  <2>2. \A t \in Subs : remote'[t].atEnd => t \in charged' /\ (StopsAtOnce(t) => Over(t)')
    BY <1>1, <1>2 DEF GatewayFacts, Over
  <2> QED BY <1>4, <2>1, <2>2 DEF GatewayFacts, PaidAtGateway, StopsAtOnce
<1>6. ASSUME NEW t \in Subs
      PROVE  /\ News(t)' \/ (remote'[t].status = remote[t].status /\ (t \in charged' => t \in charged))
             /\ remote'[t].atEnd = remote[t].atEnd
             /\ Over(t) => Over(t)'
             /\ remote[t].atEnd /\ Billing(t)' => Billing(t)
  <2>1. CASE t = s
    BY <1>1, <1>3, <2>1 DEF Over, Billing
  <2>2. CASE t # s
    BY <1>1, <2>2 DEF Over, Billing
  <2> QED BY <2>1, <2>2
<1> QED BY <1>2, <1>5, <1>6 DEF Announced

\* Every move of a gateway is announced.
LEMMA GatewayAnnounced ==
  ASSUME CodeTypeOK, NeverStripe, GatewayFacts, Gateway
  PROVE  Announced
<1>0. GatewayTypeOK
  BY DEF CodeTypeOK
<1>1. ASSUME NEW s \in Subs, NEW to \in StatusOf(G(s)), NEW types \in SUBSET EventTypes,
             types # {}, types \subseteq {"status", "failed"},
             Becomes(s, [remote[s] EXCEPT !.status = to], types), UNCHANGED <<charged, now>>,
             ~Over(s),
             to \in {"active", "past_due", "pending", "ACTIVE", "ACTIVE_FAILING"}
               => G(s) = "cashfree" \/ s \in charged,
             remote[s].atEnd /\ to \in {"active", "past_due", "pending", "ACTIVE", "ACTIVE_FAILING"} => Billing(s)
      PROVE  Announced
  <2>1. [remote[s] EXCEPT !.status = to] \in Remote(G(s))
        /\ [remote[s] EXCEPT !.status = to].status = to
        /\ [remote[s] EXCEPT !.status = to].atEnd = remote[s].atEnd
    BY <1>0, RemoteTyped DEF Remote
  <2>2. PaidAtGateway(s, [remote[s] EXCEPT !.status = to]) => s \in charged
    BY <1>1, <2>1 DEF PaidAtGateway, NeverStripe
  <2>3. "success" \notin types /\ "invoice_failed" \notin types
    BY <1>1
  <2> QED BY <1>0, <1>1, <2>1, <2>2, <2>3, BecomesAnnounced
<1>2. ASSUME NEW s \in Subs, Authorise(s) PROVE Announced
  <2>1. \/ G(s) = "razorpay" /\ Moves(s, "created", "authenticated", {"status"})
        \/ G(s) = "cashfree" /\ Moves(s, "INITIALIZED", "ACTIVE", {"status"})
    BY <1>2 DEF Authorise, NeverStripe
  <2>2. G(s) = "cashfree" /\ remote[s].status = "INITIALIZED" => ~remote[s].atEnd
    BY DEF GatewayFacts, StopsAtOnce, Over, OverStatus
  <2> QED BY <1>1, <2>1, <2>2 DEF Moves, StatusOf, RazorpayStatus, CashfreeStatus, EventTypes, Over,
                                  OverStatus
<1>3. ASSUME NEW s \in Subs, PaymentSucceeds(s) PROVE Announced
  <2>1. now + 1 \in Dates
    BY <1>0, <1>3, GatewaysAssumption DEF PaymentSucceeds, GatewayTypeOK, Dates, Times
  <2> DEFINE x == [remote[s] EXCEPT !.status = PaidStatus[G(s)], !.periodEnd = now + 1]
  <2>2. x \in Remote(G(s)) /\ x.atEnd = remote[s].atEnd
    BY <1>0, <2>1, RemoteTyped DEF Remote
  <2>3. PaymentNotice(s) \in SUBSET EventTypes /\ "invoice_failed" \notin PaymentNotice(s)
        /\ PaymentNotice(s) # {}
    BY DEF PaymentNotice, EventTypes
  <2>4. ~remote[s].atEnd /\ ~Over(s) /\ s \in charged'
    BY <1>3, GatewaysAssumption DEF PaymentSucceeds, GatewayFacts, Over, OverStatus
  <2> HIDE DEF x
  <2>5. Becomes(s, x, PaymentNotice(s)) /\ charged' = charged \cup {s} /\ now' = now
    BY <1>3 DEF PaymentSucceeds, x
  <2> QED BY <1>0, <2>2, <2>3, <2>4, <2>5, BecomesAnnounced
<1>4. ASSUME NEW s \in Subs, PaymentFails(s) PROVE Announced
  <2>1. /\ s \in charged /\ ~remote[s].atEnd
        /\ \/ G(s) = "razorpay" /\ Moves(s, "active", "pending", {"status"})
           \/ G(s) = "paypal" /\ Moves(s, "ACTIVE", "ACTIVE_FAILING", {"status"})
           \/ G(s) = "cashfree" /\ Moves(s, "ACTIVE", "ACTIVE", {"failed"})
    BY <1>4 DEF PaymentFails, NeverStripe
  <2> QED BY <1>1, <2>1 DEF Moves, StatusOf, RazorpayStatus, PaypalStatus, CashfreeStatus,
                            EventTypes, Over, OverStatus
<1>5. ASSUME NEW s \in Subs, GivesUp(s) \/ Relabelled(s) PROVE Announced
  <2>1. \/ G(s) = "razorpay" /\ Moves(s, "pending", "halted", {"status"})
        \/ G(s) = "paypal" /\ Moves(s, "ACTIVE_FAILING", "SUSPENDED", {"status"})
        \/ G(s) = "cashfree" /\ Moves(s, "ACTIVE", "HALTED", {"status"})
        \/ G(s) = "cashfree" /\ Moves(s, "ACTIVE", "UNLISTED", {"status"})
    BY <1>5 DEF GivesUp, Relabelled, NeverStripe
  <2> QED BY <1>1, <2>1 DEF Moves, StatusOf, RazorpayStatus, PaypalStatus, CashfreeStatus,
                            EventTypes, Over, OverStatus
<1>6. ASSUME NEW s \in Subs, EndedThere(s) \/ CycleEnds(s) PROVE Announced
  <2>1. Moves(s, remote[s].status, CancelledStatus[G(s)], {"status"}) /\ ~Over(s)
    BY <1>6 DEF EndedThere, CycleEnds
  <2>2. CancelledStatus[G(s)] \in StatusOf(G(s))
        /\ CancelledStatus[G(s)] \in {"canceled", "cancelled", "CANCELLED"}
    BY <1>0, RemoteTyped DEF CancelledStatus, Gateways
  <2> QED BY <1>1, <2>1, <2>2 DEF Moves, EventTypes
<1>7. ASSUME Tick PROVE Announced
  <2>1. GatewayFacts'
    BY <1>7 DEF Tick, GatewayFacts, PaidAtGateway, StopsAtOnce, Over
  <2> QED BY <1>0, <1>7, <2>1, GatewaysAssumption DEF Tick, Announced, Over, Billing, GatewayTypeOK
<1>8. \A s \in Subs : ~PortalToggles(s)
  BY DEF PortalToggles, NeverStripe
<1> QED BY <1>2, <1>3, <1>4, <1>5, <1>6, <1>7, <1>8 DEF Gateway, GatewayNext

\* A cancelled duplicate, too.
LEMMA StoppedAnnounced ==
  ASSUME GatewayTypeOK, GatewayFacts, NeverStripe, NEW s \in Subs,
         Becomes(s, StoppedAt(s), {"status"}), UNCHANGED <<charged, now>>
  PROVE  Announced /\ ~Billing(s)'
<1>1. CancelledStatus[G(s)] \in StatusOf(G(s))
      /\ CancelledStatus[G(s)] \in {"canceled", "cancelled", "CANCELLED"}
  BY RemoteTyped DEF CancelledStatus, Gateways
<1>2. /\ StoppedAt(s) \in Remote(G(s)) /\ StoppedAt(s).atEnd = remote[s].atEnd
      /\ StoppedAt(s).status = CancelledStatus[G(s)]
  BY <1>1, RemoteTyped DEF StoppedAt, Remote
<1>3. ~PaidAtGateway(s, StoppedAt(s)) /\ {"status"} \in SUBSET EventTypes
  BY <1>1, <1>2 DEF PaidAtGateway, ACTIVE_SUBSCRIPTION_STATUSES, EventTypes
<1>4. Announced
  BY <1>1, <1>2, <1>3, BecomesAnnounced DEF OverStatus
<1>5. ~Billing(s)'
  BY <1>1, <1>2 DEF Becomes, Billing, GatewayTypeOK
<1> QED BY <1>4, <1>5

\* What the states read from Razorpay and PayPal, and made of Cashfree's, say.
LEMMA StatesSay ==
  /\ \A s \in Subs : \A st \in StatusOf(G(s)) :
       G(s) \in {"razorpay", "paypal"} =>
         /\ StateOf(s, st).paid <=> StateOf(s, st).status \in PAYING
         /\ StateOf(s, st).paid <=> st \in {"active", "pending", "ACTIVE", "ACTIVE_FAILING"}
         /\ StateOf(s, st).ended => ~StateOf(s, st).paid
         /\ st \in OverStatus => StateOf(s, st).ended
  /\ \A st \in CashfreeStatus, a, b, c \in BOOLEAN :
       LET x == CashfreeState(st, a, b, c) IN
         /\ x.paid <=> x.status \in PAYING
         /\ x.paid <=> (a /\ st = "ACTIVE") \/ (b /\ st \in {"ACTIVE", "UNLISTED"})
         /\ x.ended => ~x.paid
         /\ st \in OverStatus => x.ended
<1>1. ASSUME NEW s \in Subs, NEW st \in StatusOf(G(s)), G(s) = "razorpay"
      PROVE  /\ StateOf(s, st).paid <=> StateOf(s, st).status \in PAYING
             /\ StateOf(s, st).paid <=> st \in {"active", "pending", "ACTIVE", "ACTIVE_FAILING"}
             /\ StateOf(s, st).ended => ~StateOf(s, st).paid
             /\ st \in OverStatus => StateOf(s, st).ended
  BY <1>1 DEF StateOf, RazorpayState, RazorpayEnded, State, StatusOf, RazorpayStatus, PAYING, OverStatus
<1>2. ASSUME NEW s \in Subs, NEW st \in StatusOf(G(s)), G(s) = "paypal"
      PROVE  /\ StateOf(s, st).paid <=> StateOf(s, st).status \in PAYING
             /\ StateOf(s, st).paid <=> st \in {"active", "pending", "ACTIVE", "ACTIVE_FAILING"}
             /\ StateOf(s, st).ended => ~StateOf(s, st).paid
             /\ st \in OverStatus => StateOf(s, st).ended
  BY <1>2 DEF StateOf, PaypalState, State, StatusOf, PaypalStatus, PAYING, OverStatus
<1>3. ASSUME NEW st \in CashfreeStatus, NEW a \in BOOLEAN, NEW b \in BOOLEAN, NEW c \in BOOLEAN
      PROVE  LET x == CashfreeState(st, a, b, c) IN
               /\ x.paid <=> x.status \in PAYING
               /\ x.paid <=> (a /\ st = "ACTIVE") \/ (b /\ st \in {"ACTIVE", "UNLISTED"})
               /\ x.ended => ~x.paid
               /\ st \in OverStatus => x.ended
  BY DEF CashfreeStatus, CashfreeState, State, PAYING, OverStatus
<1> QED BY <1>1, <1>2, <1>3

-----------------------------------------------------------------------------
(* What a step leaves of the facts about everything it does not do itself. *)

\* Requests that have not crossed: those a step leaves in place do not go by the row it writes,
\* nor are they about a subscription it changes or reaches a verdict on by another answer.
LEMMA NotCrossed ==
  ASSUME ~Crosses, NEW q \in Procs, reqs'[q] = reqs[q]
  PROVE  /\ row' = row \/ ~GoesByRow(reqs[q])
         /\ About(reqs[q]) =>
              /\ reqs' = reqs \/ remote'[reqs[q].sub] = remote[reqs[q].sub]
              /\ \A p \in Procs : At(p, "apply") /\ reqs'[p] # reqs[p] /\ reqs[p].sub = reqs[q].sub
                   => reqs[p] = reqs[q]
BY DEF Crosses

\* A request that stays in place, undisturbed, has the same facts.
LEMMA Undisturbed ==
  ASSUME CodeTypeOK, CodeTypeOK', RowFacts, NEW r \in Request, RequestFacts(r),
         row' = row \/ ~GoesByRow(r), charged \subseteq charged', now <= now',
         About(r) =>
           /\ remote'[r.sub].atEnd = remote[r.sub].atEnd
           /\ remote[r.sub].atEnd /\ Billing(r.sub)' => Billing(r.sub)
           /\ Told(r.sub) => Told(r.sub)'
           /\ Billing(r.sub)' => Billing(r.sub) \/ Told(r.sub)'
           /\ Live(r.sub) => Live(r.sub)' \/ Told(r.sub)'
  PROVE  RequestFacts(r)'
<1>1. r.pc = "remember" => ~row'.isPro
  BY DEF RequestFacts, GoesByRow
<1>2. Reads(r) => Told(r.sub)'
  BY DEF RequestFacts, Reads, About
<1>3. r.pc \in {"stored", "payments"} => ReadFacts(r)'
  BY DEF RequestFacts, ReadFacts, About
<1>4. r.pc = "apply" => ApplyFacts(r)'
  <2>1. r.pc = "apply" /\ G(r.sub) = "cashfree" => row' = row
    BY DEF GoesByRow
  <2>2. row' = row => OtherLive(r.sub)' = OtherLive(r.sub)
    BY DEF OtherLive, Paying
  <2> QED BY <2>1, <2>2 DEF RequestFacts, ApplyFacts, About, StopsAtOnce
<1>5. ASSUME row' = row PROVE Paying' = Paying /\ OnFile' = OnFile
  BY <1>5 DEF Paying, OnFile
<1>6. r.pc = "write" => WriteFacts(r)'
  <2> SUFFICES ASSUME r.pc = "write" PROVE WriteFacts(r)'
    OBVIOUS
  <2>1. row' = row /\ WriteFacts(r) /\ About(r)
    BY DEF GoesByRow, RequestFacts, About
  <2>2. row.periodEnd <= now /\ row.periodEnd # None => row.periodEnd <= now'
    BY GatewaysAssumption DEF CodeTypeOK, GatewayTypeOK, Row, Dates, Times
  <2>3. remote[r.sub].atEnd /\ Paying /\ StopsAtOnce(r.sub) => row.periodEnd # None
    BY <2>1 DEF RowFacts, WriteFacts
  <2> QED BY <1>5, <2>1, <2>2, <2>3 DEF WriteFacts, StopsAtOnce
<1>7. Cancels(r) => CancelFacts(r)'
  <2> SUFFICES ASSUME Cancels(r) PROVE CancelFacts(r)'
    OBVIOUS
  <2>1. row' = row /\ CancelFacts(r) /\ About(r)
    BY DEF GoesByRow, RequestFacts, About
  <2> QED BY <1>5, <2>1 DEF CancelFacts, StopsAtOnce
<1> QED BY <1>1, <1>2, <1>3, <1>4, <1>6, <1>7 DEF RequestFacts

\* What a step leaves in a request's place is the request of the next state.
LEMMA InPlace ==
  ASSUME NEW p \in Procs, NEW x, reqs'[p] = x, RequestFacts(x)'
  PROVE  RequestFacts(reqs[p])'
BY DEF RequestFacts, Reads, ReadFacts, ApplyFacts, WriteFacts, CancelFacts, Cancels, StopsAtOnce,
       Live, Billing, OtherLive, Told, News

\* What has been read is still so when neither it nor what the row made of it has moved.
LEMMA StaysFresh ==
  ASSUME NEW q \in Procs, reqs'[q] = reqs[q], Reads(reqs[q]), Fresh(reqs[q]),
         row' = row \/ ~GoesByRow(reqs[q]), UNCHANGED charged,
         remote'[reqs[q].sub].status = remote[reqs[q].sub].status
  PROVE  Fresh(reqs[q])'
<1> PICK r : r = reqs[q]
  OBVIOUS
<1>1. Billing(r.sub)' = Billing(r.sub) /\ Live(r.sub)' = Live(r.sub)
  BY DEF Billing, Live
<1>2. r.pc = "apply" /\ G(r.sub) = "cashfree" => OtherLive(r.sub)' = OtherLive(r.sub)
  BY DEF GoesByRow, OtherLive, Paying
<1>3. Fresh(r)'
  BY <1>1, <1>2 DEF Fresh
<1> QED BY <1>3 DEF Fresh, Billing, Live, OtherLive

\* Nobody forgets: what the server was going to hear, it still is.
ToldOn == \A s \in Subs : Told(s) => Told(s)'

\* Requests that a step of another one leaves in place keep their facts.
LEMMA OthersAgree ==
  ASSUME CodeTypeOK, CodeTypeOK', AgreeInv, ~Crosses, NEW q \in Procs, reqs'[q] = reqs[q],
         UNCHANGED <<charged, now>>, remote' = remote \/ reqs' # reqs,
         About(reqs[q]) => (Told(reqs[q].sub) => Told(reqs[q].sub)')
  PROVE  RequestFacts(reqs[q])'
<1>1. PICK r \in Request : r = reqs[q]
  BY DEF CodeTypeOK
<1>2. RequestFacts(r) /\ RowFacts /\ charged \subseteq charged' /\ now <= now'
  BY <1>1, GatewaysAssumption DEF AgreeInv, Global, CodeTypeOK, GatewayTypeOK
<1>3. row' = row \/ ~GoesByRow(r)
  BY <1>1, NotCrossed
<1>4. About(r) => remote'[r.sub] = remote[r.sub]
  BY <1>1, NotCrossed
<1>5. About(r) => (Billing(r.sub)' = Billing(r.sub) /\ Live(r.sub)' = Live(r.sub))
  BY <1>4 DEF Billing, Live
<1>6. RequestFacts(r)'
  BY <1>1, <1>2, <1>3, <1>4, <1>5, Undisturbed
<1> QED BY <1>1, <1>6, InPlace

\* A step that only moves requests on leaves the rest as it is.
LEMMA StandStill ==
  ASSUME Global, UNCHANGED <<remote, charged, now, row>>, events' \subseteq events, ToldOn,
         \A q \in Procs :
           \/ reqs'[q] = reqs[q]
           \/ /\ reqs[q].pc # "write"
              /\ reqs[q].pc \in {"stop", "restore"} => reqs'[q].pc \in {"stop", "restore"}
              /\ reqs[q].pc = "cancelDuplicate" => ~Billing(reqs[q].sub),
         OnFile \in Subs \/ ~Paying
  PROVE  Global'
<1>1. Paying' = Paying /\ OnFile' = OnFile
  BY DEF Paying, OnFile
<1>2. \A s \in Subs : Live(s)' = Live(s) /\ Billing(s)' = Billing(s) /\ Over(s)' = Over(s)
  BY DEF Live, Billing, Over
<1>3. GatewayFacts'
  BY <1>2 DEF Global, GatewayFacts, PaidAtGateway, StopsAtOnce
<1>4. RowFacts'
  BY <1>1 DEF Global, RowFacts, StopsAtOnce
<1>5. FlagFacts'
  BY <1>1 DEF Global, FlagFacts
<1>6. AccessFacts'
  BY <1>1, <1>2 DEF Global, AccessFacts, ToldOn, Unpays, StopsAtOnce
<1>7. BillingFacts'
  BY <1>1, <1>2 DEF Global, BillingFacts, ToldOn, Serves
<1> QED BY <1>3, <1>4, <1>5, <1>6, <1>7 DEF Global

\* A request that has moved on is the one that made the step; the others are in place.
LEMMA Moved ==
  ASSUME CodeTypeOK, NEW p \in Procs, NEW x, Goto(p, x)
  PROVE  reqs'[p] = x /\ \A q \in Procs \ {p} : reqs'[q] = reqs[q]
BY DEF CodeTypeOK, Goto

\* What the server was going to hear it still is, through an announced change.
LEMMA AnnouncedTold ==
  ASSUME CodeTypeOK, Announced, UNCHANGED row, NEW s \in Subs,
         \A q \in Procs : reqs'[q] = reqs[q] \/ ~Reads(reqs[q])
  PROVE  /\ Told(s) => Told(s)'
         /\ Billing(s)' => Billing(s) \/ Told(s)'
         /\ Live(s) => Live(s)' \/ Told(s)'
<1>1. CASE News(s)'
  BY <1>1 DEF Told
<1>2. CASE ~News(s)'
  <2>1. remote'[s].status = remote[s].status /\ (s \in charged' <=> s \in charged) /\ ~News(s)
    BY <1>2 DEF Announced, News
  <2>2. Billing(s)' = Billing(s) /\ Live(s)' = Live(s) /\ OtherLive(s)' = OtherLive(s)
    BY <2>1 DEF Billing, Live, OtherLive, Paying
  <2>3. ASSUME NEW q \in Procs, Reads(reqs[q]), reqs[q].sub = s, Fresh(reqs[q]) PROVE Told(s)'
    <3>1. reqs'[q] = reqs[q]
      BY <2>3
    <3> PICK r : r = reqs[q]
      OBVIOUS
    <3>2. Fresh(r)'
      BY <2>1, <2>2, <2>3 DEF Fresh
    <3> QED BY <2>3, <3>1, <3>2 DEF Told, Reads, Fresh, Billing, Live, OtherLive
  <2> QED BY <2>1, <2>2, <2>3 DEF Told
<1> QED BY <1>1, <1>2

\* What agrees goes on agreeing through an announced change, which a gateway makes by itself
\* or because a duplicate has been cancelled.
LEMMA AnnouncedAgrees ==
  ASSUME CodeTypeOK, CodeTypeOK', AgreeInv, Announced, UNCHANGED row,
         \A q \in Procs :
           \/ reqs'[q] = reqs[q]
           \/ /\ reqs[q].pc = "cancelDuplicate" /\ reqs'[q] = Idle
              /\ \E d \in Subs : reqs[q].sub = d /\ ~Billing(d)'
  PROVE  AgreeInv'
<1>1. /\ row \in Row /\ GatewayTypeOK /\ Paying' = Paying /\ OnFile' = OnFile
      /\ RowFacts /\ GatewayFacts' /\ charged \subseteq charged' /\ now <= now'
  BY DEF CodeTypeOK, Paying, OnFile, AgreeInv, Global, Announced
<1>2. ASSUME NEW s \in Subs
      PROVE  /\ Told(s) => Told(s)'
             /\ Billing(s)' => Billing(s) \/ Told(s)'
             /\ Live(s) => Live(s)' \/ Told(s)'
             /\ remote[s].atEnd /\ Billing(s)' => Billing(s)
             /\ remote'[s].atEnd = remote[s].atEnd
  BY AnnouncedTold DEF Announced, Reads
<1>3. Paying => OnFile \in Subs
  BY <1>1 DEF RowFacts, CodeTypeOK, GatewayTypeOK
<1>4. RowFacts'
  <2>1. Paying => (remote'[OnFile].atEnd <=> remote[OnFile].atEnd) /\ OnFile \in charged'
    BY <1>1, <1>2, <1>3 DEF RowFacts
  <2> QED BY <1>1, <2>1, Zenon DEF RowFacts, StopsAtOnce, G
<1>5. FlagFacts'
  <2>1. row.cancelFlag => OnFile \in Subs
    BY <1>1, <1>3 DEF RowFacts
  <2>2. \A q \in Procs : reqs[q].pc \in {"stop", "restore"} => reqs'[q] = reqs[q]
    OBVIOUS
  <2> QED BY <1>1, <1>2, <2>1, <2>2 DEF AgreeInv, Global, FlagFacts
<1>6. AccessFacts'
  <2> SUFFICES ASSUME Paying PROVE AccessFacts'
    BY <1>1 DEF AccessFacts
  <2>1. \A q \in Procs : Unpays(reqs[q], OnFile) => Unpays(reqs'[q], OnFile)
    BY DEF Unpays
  <2>2. \/ Live(OnFile) \/ Told(OnFile)
        \/ row.cancelFlag /\ StopsAtOnce(OnFile) /\ remote[OnFile].atEnd
        \/ \E q \in Procs : Unpays(reqs[q], OnFile)
    BY DEF AgreeInv, Global, AccessFacts
  <2> PICK f \in Subs : f = OnFile
    BY <1>3
  <2>3. \/ Live(f)' \/ Told(f)'
        \/ row'.cancelFlag /\ StopsAtOnce(f) /\ remote'[f].atEnd
        \/ \E q \in Procs : Unpays(reqs'[q], f)
    BY <1>2, <2>1, <2>2
  <2> QED BY <1>1, <2>3 DEF AccessFacts, StopsAtOnce, Unpays, Live, Billing, Told, News
<1>7. BillingFacts'
  <2> SUFFICES ASSUME NEW s \in Subs, Billing(s)'
               PROVE  Told(s)' \/ (Paying' /\ OnFile' = s) \/ \E q \in Procs : Serves(reqs'[q], s)
    BY DEF BillingFacts, Serves
  <2>1. \A q \in Procs : Serves(reqs[q], s) => Serves(reqs'[q], s)
    BY DEF Serves, Billing
  <2> QED BY <1>1, <1>2, <2>1 DEF AgreeInv, Global, BillingFacts
<1>8. ASSUME NEW q \in Procs PROVE RequestFacts(reqs[q])'
  <2>1. CASE reqs'[q] = Idle
    <3>1. RequestFacts(Idle)'
      BY DEF RequestFacts, Idle, Reads, Cancels
    <3> QED BY <2>1, <3>1, InPlace
  <2>2. CASE reqs'[q] = reqs[q]
    <3>1. PICK r \in Request : r = reqs[q]
      BY DEF CodeTypeOK
    <3>2. RequestFacts(r)
      BY <3>1 DEF AgreeInv
    <3>3. About(r) => r.sub \in Subs
      BY <3>1, RequestFields DEF About, Cancels
    <3>4. RequestFacts(r)'
      BY <1>1, <1>2, <3>1, <3>2, <3>3, Undisturbed
    <3> QED BY <2>2, <3>1, <3>4, InPlace
  <2> QED BY <2>1, <2>2
<1> QED BY <1>1, <1>4, <1>5, <1>6, <1>7, <1>8 DEF AgreeInv, Global

\* What the server was going to hear it still is, when request p does not hear it itself.
LEMMA StillTold ==
  ASSUME ~Crosses, NEW p \in Procs, \A q \in Procs \ {p} : reqs'[q] = reqs[q],
         UNCHANGED charged, NEW s \in Subs, Told(s),
         remote'[s].status = remote[s].status, News(s) => News(s)' \/ Told(s)',
         Reads(reqs[p]) /\ reqs[p].sub = s /\ Fresh(reqs[p]) => Told(s)'
  PROVE  Told(s)'
<1>1. CASE News(s)
  BY <1>1 DEF Told
<1>2. ASSUME NEW q \in Procs \ {p}, Reads(reqs[q]), reqs[q].sub = s, Fresh(reqs[q])
      PROVE  Told(s)'
  <2>1. row' = row \/ ~GoesByRow(reqs[q])
    BY <1>2, NotCrossed
  <2>2. Fresh(reqs[q])'
    BY <1>2, <2>1, StaysFresh
  <2> QED BY <1>2, <2>2 DEF Told, Reads
<1> QED BY <1>1, <1>2 DEF Told

\* A step of request p, by what it makes of p and of what it writes.
LEMMA OneStep ==
  ASSUME CodeTypeOK, CodeTypeOK', AgreeInv, ~Crosses, NEW p \in Procs, NEW x, x # reqs[p],
         Goto(p, x), UNCHANGED <<charged, now>>, Global', RequestFacts(x)',
         \A q \in Procs \ {p} :
           About(reqs[q]) => (Told(reqs[q].sub) => Told(reqs[q].sub)')
  PROVE  AgreeInv'
<1>1. reqs'[p] = x /\ \A q \in Procs \ {p} : reqs'[q] = reqs[q]
  BY Moved
<1>2. RequestFacts(reqs[p])'
  BY <1>1, InPlace
<1>3. ASSUME NEW q \in Procs \ {p} PROVE RequestFacts(reqs[q])'
  BY <1>1, <1>3, OthersAgree
<1> QED BY <1>2, <1>3 DEF AgreeInv

\* The same, when nobody forgets anything.
LEMMA OneStepTold ==
  ASSUME CodeTypeOK, CodeTypeOK', AgreeInv, ~Crosses, NEW p \in Procs, NEW x, x # reqs[p],
         Goto(p, x), UNCHANGED <<charged, now>>, Global', RequestFacts(x)', ToldOn
  PROVE  AgreeInv'
<1>1. ASSUME NEW q \in Procs \ {p}, About(reqs[q]), Told(reqs[q].sub)
      PROVE  Told(reqs[q].sub)'
  <2>1. PICK r \in Request : r = reqs[q] /\ reqs'[q] = r
    BY Moved DEF CodeTypeOK
  <2>2. r.sub \in Subs
    BY <1>1, <2>1, RequestFields DEF About, Cancels
  <2>3. Told(r.sub)'
    BY <1>1, <2>1, <2>2 DEF ToldOn
  <2> QED BY <2>1, <2>3 DEF Told, News
<1> QED BY <1>1, OneStep

-----------------------------------------------------------------------------
(* The steps of a request, in which no call fails, that cross no other.         *)

\* What is on file is a subscription, while it is stored as paying.
LEMMA FileTyped ==
  ASSUME CodeTypeOK, AgreeInv
  PROVE  /\ row \in Row /\ GatewayTypeOK /\ GatewayFacts /\ RowFacts
         /\ Paying => OnFile \in Subs /\ OnFile \in charged /\ G(OnFile) = row.provider
BY DEF CodeTypeOK, AgreeInv, Global, GatewayTypeOK, RowFacts, Row, OnFile

\* A request that holds no answer yet is one more for what it has read.
LEMMA ReadingTells ==
  ASSUME NEW p \in Procs, NEW x, reqs'[p] = x, Reads(x), Fresh(x)'
  PROVE  Told(x.sub)'
<1>1. Fresh(reqs[p])'
  BY DEF Fresh, Billing, Live, OtherLive
<1> QED BY <1>1 DEF Told, Reads

\* A gateway is read, perhaps because of an event about that very subscription.
LEMMA FetchAgrees ==
  ASSUME CodeTypeOK, CodeTypeOK', NeverStripe, AgreeInv, ~Crosses,
         NEW p \in Procs, reqs[p].pc \in {"idle", "resync"},
         NEW s \in Subs, NEW t \in EventTypes \cup {"sync"}, t = "success" => s \in charged,
         Fetch(p, s, t), UNCHANGED <<remote, charged, now, row>>,
         events' \subseteq events, \A e \in events \ events' : e.sub = s
  PROVE  AgreeInv'
<1> DEFINE y == Fetched(s, remote[s], ReportedEnd(s), t)
<1>1. PICK x : x = y /\ Goto(p, x)
  BY DEF Fetch
<1>2. /\ GatewayTypeOK /\ GatewayFacts /\ RowFacts
      /\ remote[s].status \in StatusOf(G(s)) /\ G(s) \in {"razorpay", "paypal", "cashfree"}
      /\ G(s) = "cashfree" => StatusOf(G(s)) = CashfreeStatus
  <2>1. remote[s] \in Remote(G(s)) /\ G(s) \in Gateways /\ Exists(s) /\ G(s) # "stripe"
    BY RemoteTyped DEF CodeTypeOK, Fetch, NeverStripe
  <2>2. G(s) = "razorpay" \/ G(s) = "paypal" \/ G(s) = "cashfree"
    BY <2>1 DEF Gateways
  <2> QED BY <2>1, <2>2, FileTyped DEF Remote, Exists, StatusOf
<1>3. reqs'[p] = x /\ \A q \in Procs \ {p} : reqs'[q] = reqs[q]
  BY <1>1, Moved
<1>4. \A u \in Subs : /\ (Live(u)' <=> Live(u)) /\ (Billing(u)' <=> Billing(u))
                      /\ u # s => (News(u) => News(u)')
  BY DEF Live, Billing, News
<1>5. /\ x.sub = s /\ x.pc \in {"stored", "apply"} /\ (x.pc = "stored" <=> G(s) = "cashfree")
      /\ x.pc = "stored" => x.status = remote[s].status /\ x.type = t
      /\ x.pc = "apply" => x.state = StateOf(s, remote[s].status)
  BY <1>1 DEF Fetched
<1>6. x.pc = "apply" =>
        /\ x.state.paid <=> x.state.status \in PAYING
        /\ x.state.paid <=> remote[s].status \in {"active", "pending", "ACTIVE", "ACTIVE_FAILING"}
        /\ x.state.ended => ~x.state.paid
        /\ remote[s].status \in OverStatus => x.state.ended
  BY <1>2, <1>5, StatesSay
<1>7. x.pc = "apply" => /\ x.state.paid => s \in charged /\ Live(s)
                        /\ Billing(s) => x.state.paid
  <2>1. G(s) = "razorpay" => StatusOf(G(s)) = RazorpayStatus
    BY DEF StatusOf
  <2>2. G(s) = "paypal" => StatusOf(G(s)) = PaypalStatus
    BY DEF StatusOf
  <2> QED BY <1>2, <1>5, <1>6, <2>1, <2>2 DEF GatewayFacts, PaidAtGateway, Live, Billing, RazorpayStatus,
                                              PaypalStatus
<1> HIDE DEF y
<1>8. Fresh(x)' /\ Reads(x)
  BY <1>4, <1>5, <1>7 DEF Fresh, Reads
<1>9. Told(s)'
  BY <1>3, <1>5, <1>8, ReadingTells
<1>10. ToldOn
  <2> SUFFICES ASSUME NEW u \in Subs, Told(u) PROVE Told(u)'
    BY DEF ToldOn
  <2>1. ~Reads(reqs[p])
    BY DEF Reads
  <2>2. News(u) => News(u)' \/ Told(u)'
    BY <1>4, <1>9
  <2> QED BY <1>3, <2>1, <2>2, StillTold
<1>11. Global'
  BY <1>3, <1>10, FileTyped, StandStill DEF AgreeInv
<1>12. x.pc = "stored" => ReadFacts(x)'
  BY <1>2, <1>5 DEF ReadFacts, GatewayFacts, StopsAtOnce, Over
<1>13. x.pc = "apply" => ApplyFacts(x)'
  <2>1. remote[s].atEnd /\ StopsAtOnce(s) => remote[s].status \in OverStatus
    BY <1>2 DEF GatewayFacts, Over
  <2> QED BY <1>4, <1>5, <1>6, <1>7, <2>1 DEF ApplyFacts, StopsAtOnce
<1>14. RequestFacts(x)'
  BY <1>5, <1>9, <1>12, <1>13 DEF RequestFacts, Cancels
<1>15. x # reqs[p]
  BY <1>5
<1> QED BY <1>1, <1>10, <1>11, <1>14, <1>15, OneStepTold

\* A request moves on with what it has read, as true as it was.
LEMMA ReadOnAgrees ==
  ASSUME CodeTypeOK, CodeTypeOK', AgreeInv, ~Crosses, NEW p \in Procs, Reads(reqs[p]),
         NEW x, Goto(p, x), x # reqs[p], Reads(x), x.sub = reqs[p].sub,
         Fresh(reqs[p]) => Fresh(x), RequestFacts(x) \/ ~Told(x.sub),
         UNCHANGED <<gatewayVars, row>>
  PROVE  AgreeInv'
<1> USE DEF gatewayVars
<1>1. reqs'[p] = x /\ \A q \in Procs \ {p} : reqs'[q] = reqs[q]
  BY Moved
<1>2. \A u \in Subs : /\ (Live(u)' <=> Live(u)) /\ (Billing(u)' <=> Billing(u))
                      /\ (News(u)' <=> News(u)) /\ (OtherLive(u)' <=> OtherLive(u))
  BY DEF Live, Billing, News, OtherLive, Paying
<1>3. Fresh(reqs[p]) => Fresh(x)'
  BY DEF Fresh, Billing, Live, OtherLive, Paying
<1>4. ToldOn
  <2> SUFFICES ASSUME NEW u \in Subs, Told(u) PROVE Told(u)'
    BY DEF ToldOn
  <2>1. News(u) => News(u)'
    BY <1>2
  <2>2. Reads(reqs[p]) /\ reqs[p].sub = u /\ Fresh(reqs[p]) => Told(u)'
    <3> PICK s : s = x.sub
      OBVIOUS
    <3>1. Fresh(reqs[p]) => Told(x.sub)'
      BY <1>1, <1>3, ReadingTells
    <3> QED BY <3>1
  <2> QED BY <1>1, <2>1, <2>2, StillTold
<1>5. Global'
  <2>1. \A q \in Procs :
          \/ reqs'[q] = reqs[q]
          \/ /\ reqs[q].pc # "write"
             /\ reqs[q].pc \in {"stop", "restore"} => reqs'[q].pc \in {"stop", "restore"}
             /\ reqs[q].pc = "cancelDuplicate" => ~Billing(reqs[q].sub)
    BY <1>1 DEF Reads
  <2> QED BY <1>4, <2>1, FileTyped, StandStill DEF AgreeInv
<1>6. x.sub \in Subs
  BY RequestFields DEF Reads, CodeTypeOK
<1>7. Told(x.sub)
  BY DEF AgreeInv, RequestFacts
<1>8. RequestFacts(x)'
  <2>1. Told(x.sub)'
    BY <1>4, <1>6, <1>7 DEF ToldOn
  <2> QED BY <1>7, <2>1 DEF RequestFacts, Reads, Cancels, ReadFacts, ApplyFacts, StopsAtOnce,
                            Billing, OtherLive, Paying
<1> QED BY <1>4, <1>5, <1>8, OneStepTold

\* The row is read for Cashfree's "already paying on this one".
LEMMA StoredAgrees ==
  ASSUME CodeTypeOK, CodeTypeOK', AgreeInv, ~Crosses, NEW p \in Procs, StoredRead(p)
  PROVE  AgreeInv'
<1>0. PICK r \in Request : r = reqs[p] /\ r.pc = "stored"
  BY DEF CodeTypeOK, StoredRead, At
<1>1. /\ r = [pc |-> r.pc, sub |-> r.sub, type |-> r.type, status |-> r.status,
              periodEnd |-> r.periodEnd]
      /\ r.sub \in Subs /\ r.status \in CashfreeStatus
  BY <1>0, RequestFields
<1>2. ReadFacts(r) /\ RequestFacts(r) /\ GatewayFacts /\ RowFacts
      /\ UNCHANGED <<gatewayVars, row>>
  BY <1>0, FileTyped DEF AgreeInv, RequestFacts, StoredRead
<1> DEFINE known == row.subOf["cashfree"] = r.sub /\ Paying
           signed == r.type = "success"
<1>3. ASSUME NEW x, x = [r EXCEPT !.pc = "payments"], Goto(p, x), r.status = "ACTIVE"
      PROVE  AgreeInv'
  <2>1. x.pc = "payments" /\ x.sub = r.sub /\ x.type = r.type /\ x.status = r.status
    BY <1>1, <1>3
  <2>2. RequestFacts(x)
    BY <1>0, <1>2, <1>3, <2>1 DEF RequestFacts, ReadFacts, Reads, Cancels
  <2>3. Fresh(r) => Fresh(x)
    BY <1>0, <2>1 DEF Fresh
  <2> QED BY <1>0, <1>2, <1>3, <2>1, <2>2, <2>3, ReadOnAgrees DEF Reads
<1>4. ASSUME NEW x, x = CashfreeApply(r, signed, known), Goto(p, x),
             signed \/ known \/ r.status # "ACTIVE"
      PROVE  AgreeInv'
  <2>1. /\ x.pc = "apply" /\ x.sub = r.sub /\ (x.state.paid <=> x.state.status \in PAYING)
        /\ x.state.paid <=> (signed /\ r.status = "ACTIVE") \/ (known /\ r.status \in {"ACTIVE", "UNLISTED"})
        /\ x.state.ended => ~x.state.paid
        /\ r.status \in OverStatus => x.state.ended
    <3>1. signed \in BOOLEAN /\ known \in BOOLEAN /\ (r.type = "failed") \in BOOLEAN
      OBVIOUS
    <3> QED BY <1>1, <1>4, <3>1, StatesSay DEF CashfreeApply
  <2> HIDE DEF known
  <2>2. known => OtherLive(r.sub) \/ (r.sub = OnFile /\ r.sub \in charged)
    BY <1>2 DEF RowFacts, OtherLive, OnFile, ReadFacts, known
  <2>3. x.state.paid => OtherLive(r.sub) \/ r.sub \in charged
    BY <1>2, <2>1, <2>2 DEF ReadFacts
  <2>4. remote[r.sub].atEnd => x.state.ended /\ ~Billing(r.sub)
    BY <1>1, <1>2, <2>1 DEF ReadFacts, GatewayFacts, StopsAtOnce, Over, OverStatus, Billing
  <2>5. ApplyFacts(x)
    BY <1>2, <2>1, <2>3, <2>4 DEF ApplyFacts, ReadFacts
  <2>6. Fresh(r) => Fresh(x)
    BY <1>0, <1>1, <1>2, <1>4, <2>1, <2>3 DEF Fresh, ReadFacts, Live, Billing, CashfreeStatus
  <2>7. RequestFacts(x)
    BY <1>0, <1>2, <2>1, <2>5 DEF RequestFacts, Reads, Cancels
  <2> QED BY <1>0, <1>2, <1>4, <2>1, <2>6, <2>7, ReadOnAgrees DEF Reads
<1>5. \/ r.status = "ACTIVE" /\ Goto(p, [r EXCEPT !.pc = "payments"])
      \/ (signed \/ known \/ r.status # "ACTIVE") /\ Goto(p, CashfreeApply(r, signed, known))
  BY <1>0, Zenon DEF StoredRead
<1> HIDE DEF known, signed
<1> QED BY <1>3, <1>4, <1>5

\* Cashfree's list of payments answers for one that is charged.
LEMMA PaymentsAgree ==
  ASSUME CodeTypeOK, CodeTypeOK', AgreeInv, ~Crosses, ~Fault, NEW p \in Procs, PaymentsRead(p)
  PROVE  AgreeInv'
<1>0. PICK r \in Request : r = reqs[p] /\ r.pc = "payments"
  BY DEF CodeTypeOK, PaymentsRead, At
<1>1. r.sub \in Subs /\ r.status \in CashfreeStatus
  BY <1>0, RequestFields
<1>2. ReadFacts(r) /\ RequestFacts(r) /\ r.status = "ACTIVE" /\ UNCHANGED <<gatewayVars, row>>
  BY <1>0 DEF AgreeInv, RequestFacts, ReadFacts, PaymentsRead
<1>3. PICK x : x = CashfreeApply(r, r.sub \in charged, FALSE) /\ Goto(p, x)
  BY <1>0 DEF PaymentsRead
<1>4. /\ x.pc = "apply" /\ x.sub = r.sub /\ (x.state.paid <=> x.state.status \in PAYING)
      /\ x.state.paid <=> r.sub \in charged
      /\ x.state.ended => ~x.state.paid
  <2>1. (r.sub \in charged) \in BOOLEAN /\ FALSE \in BOOLEAN /\ (r.type = "failed") \in BOOLEAN
    OBVIOUS
  <2> QED BY <1>1, <1>2, <1>3, <2>1, StatesSay DEF CashfreeApply
<1>5. ~remote[r.sub].atEnd
  BY <1>2 DEF ReadFacts, OverStatus
<1>6. ApplyFacts(x)
  BY <1>4, <1>5 DEF ApplyFacts, Billing
<1>7. Fresh(r) => Fresh(x)
  BY <1>0, <1>2, <1>4 DEF Fresh, Live, Billing
<1>8. RequestFacts(x)
  BY <1>0, <1>2, <1>4, <1>6 DEF RequestFacts, Reads, Cancels
<1> QED BY <1>0, <1>2, <1>3, <1>4, <1>7, <1>8, ReadOnAgrees DEF Reads

\* A verdict: dropped, a duplicate to cancel, or columns to store for the one on file.
LEMMA VerdictAgrees ==
  ASSUME CodeTypeOK, CodeTypeOK', NeverStripe, AgreeInv, ~Crosses, NEW p \in Procs, RowRead(p)
  PROVE  AgreeInv'
<1>0. PICK r \in Request : r = reqs[p] /\ r.pc = "apply"
  BY DEF CodeTypeOK, RowRead, At
<1> DEFINE s == r.sub
<1>1. /\ s \in Subs /\ r.state \in GatewayState /\ r.periodEnd \in Dates /\ r.atEnd \in BOOLEAN
      /\ row \in Row /\ GatewayTypeOK /\ UNCHANGED <<gatewayVars, row>>
  BY <1>0, RequestFields DEF CodeTypeOK, RowRead
<1>2. G(s) \in Gateways /\ ApplyFacts(r) /\ Told(s) /\ GatewayFacts /\ RowFacts
  BY <1>0, <1>1, RemoteTyped, FileTyped DEF AgreeInv, RequestFacts, Reads
<1>3. PICK x :
        /\ Goto(p, x) /\ x # r
        /\ \/ x = Idle /\ TooLate(s, r.state)
           \/ x = Idle /\ Second(s) /\ ~TooLate(s, r.state) /\ ~r.state.paid
           \/ x = [pc |-> "cancelDuplicate", sub |-> s] /\ Second(s) /\ ~TooLate(s, r.state)
           \/ /\ x = [pc |-> "write", sub |-> s, patch |-> PatchOf(r)]
              /\ ~TooLate(s, r.state) /\ ~Second(s)
  <2>1. Idle # r /\ [pc |-> "cancelDuplicate", sub |-> s] # r
        /\ [pc |-> "write", sub |-> s, patch |-> PatchOf(r)] # r
    BY <1>0 DEF Idle
  <2>2. \/ TooLate(s, r.state) /\ Goto(p, Idle)
        \/ /\ Second(s) /\ ~TooLate(s, r.state)
           /\ Goto(p, IF r.state.paid \/ r.state.inFlight
                      THEN [pc |-> "cancelDuplicate", sub |-> s] ELSE Idle)
        \/ /\ ~TooLate(s, r.state) /\ ~Second(s)
           /\ Goto(p, [pc |-> "write", sub |-> s, patch |-> PatchOf(r)])
    BY <1>0 DEF RowRead
  <2> QED BY <2>1, <2>2
<1>4. reqs'[p] = x /\ \A q \in Procs \ {p} : reqs'[q] = reqs[q]
  BY <1>3, Moved
<1>5. OtherSame(s) /\ Paying => OnFile # s
  BY <1>1, <1>2 DEF OtherSame, RowFacts, OnFile, Row
<1>6. OtherLive(s) => OnFile # s
  BY <1>1, <1>2 DEF OtherLive, RowFacts, OnFile, Row
<1>7. Paying /\ OnFile # s => OtherSame(s) \/ OtherLive(s)
  BY <1>1, <1>2 DEF OtherSame, OtherLive, RowFacts, OnFile, Row
<1>8. Paying /\ OnFile = s <=> Paying /\ ~Second(s)
  <2>1. Second(s) <=> (OtherSame(s) /\ Paying) \/ OtherLive(s)
    BY <1>1 DEF Second, NeverStripe
  <2> QED BY <1>5, <1>6, <1>7, <2>1
<1>9. Paying /\ OnFile = s => ~TooLate(s, r.state)
  BY <1>5, <1>6 DEF TooLate
<1>10. Fresh(r) => /\ r.state.paid => OtherLive(s) \/ (s \in charged /\ Live(s))
                   /\ Billing(s) => r.state.paid
  BY <1>0 DEF Fresh
\* Who else is about s has read the very same, and nobody is cancelling it.
<1>11. ASSUME NEW q \in Procs \ {p}, About(reqs[q]), reqs[q].sub = s
       PROVE  reqs[q] = r
  BY <1>0, <1>3, <1>4, <1>11, NotCrossed DEF At
<1>12. \A u \in Subs : /\ (Live(u)' <=> Live(u)) /\ (Billing(u)' <=> Billing(u))
                       /\ (News(u)' <=> News(u))
  BY <1>1 DEF Live, Billing, News, gatewayVars
<1>13. ASSUME NEW u \in Subs, Told(u) PROVE Told(u)' \/ (u = s /\ Fresh(r))
  <2>1. CASE u = s /\ Fresh(r)
    BY <2>1
  <2>2. CASE ~(u = s /\ Fresh(r))
    <3>1. ~(Reads(reqs[p]) /\ reqs[p].sub = u /\ Fresh(reqs[p]))
      BY <1>0, <2>2
    <3> QED BY <1>1, <1>4, <1>12, <1>13, <3>1, StillTold DEF gatewayVars
  <2> QED BY <2>1, <2>2
<1>14. ASSUME NEW q \in Procs \ {p}, About(reqs[q]), Told(reqs[q].sub)
       PROVE  Told(reqs[q].sub)'
  <2>0. PICK v \in Request : v = reqs[q] /\ reqs'[q] = v
    BY <1>4 DEF CodeTypeOK
  <2>1. v.sub \in Subs
    BY <1>14, <2>0, RequestFields DEF About, Cancels
  <2>2. CASE v.sub = s /\ Fresh(r)
    <3>1. v = r
      BY <1>11, <1>14, <2>0, <2>2
    <3>2. Reads(reqs[q]) /\ Fresh(reqs[q])
      BY <1>0, <2>0, <2>2, <3>1 DEF Reads
    <3>3. Fresh(reqs[q])'
      BY <1>1, <2>0, <3>2, StaysFresh DEF gatewayVars
    <3>4. Told(v.sub)'
      BY <2>0, <3>2, <3>3 DEF Told, Reads
    <3> QED BY <2>0, <3>4 DEF Told, News
  <2>3. CASE ~(v.sub = s /\ Fresh(r))
    <3>1. Told(v.sub)'
      BY <1>13, <1>14, <2>0, <2>1, <2>3
    <3> QED BY <2>0, <3>1 DEF Told, News
  <2> QED BY <2>2, <2>3
\* What is stored, and how it stands with the row and the gateway.
<1> DEFINE running == PaidUntilStillRunning(s, r.state)
           keeps == running \/ r.state.paid
<1>15. running <=> /\ StopsAtOnce(s) /\ r.state.ended /\ row.cancelFlag
                   /\ row.periodEnd # None /\ row.periodEnd > now
  BY DEF PaidUntilStillRunning, StopsAtOnce
<1>16. /\ PatchOf(r).status = (IF running THEN "active" ELSE r.state.status)
       /\ PatchOf(r).periodEnd = (IF r.periodEnd # None THEN r.periodEnd ELSE row.periodEnd)
       /\ PatchOf(r).cancelFlag
            <=> ~(r.state.ended /\ ~running) /\ (r.state.paid \/ running) /\ row.cancelFlag
       /\ PatchOf(r).isPro <=> row.lifetime \/ r.state.paid \/ running
       /\ PatchOf(r).status \in PAYING <=> keeps
  BY <1>1, <1>2 DEF PatchOf, NeverStripe, ApplyFacts, PAYING
<1> HIDE DEF running
<1>17. ASSUME row.cancelFlag, OnFile = s PROVE remote[s].atEnd
  <2>1. ASSUME NEW q \in Procs, reqs[q].pc \in {"stop", "restore"} PROVE FALSE
    <3>1. RequestFacts(reqs[q]) /\ Cancels(reqs[q])
      BY <2>1 DEF AgreeInv, Cancels
    <3>2. About(reqs[q]) /\ reqs[q].sub = s /\ q # p
      BY <1>0, <1>17, <2>1, <3>1 DEF RequestFacts, CancelFacts, About, Cancels
    <3> QED BY <1>0, <1>11, <2>1, <3>2
  <2> QED BY <1>17, <2>1 DEF AgreeInv, Global, FlagFacts
<1>18. ASSUME ~Second(s), ~TooLate(s, r.state)
       PROVE  /\ row.cancelFlag => Paying /\ OnFile = s /\ remote[s].atEnd
              /\ row.cancelFlag /\ StopsAtOnce(s) => row.periodEnd # None
              /\ Paying /\ StopsAtOnce(s) /\ remote[s].atEnd => row.cancelFlag
              /\ r.state.paid => s \in charged
              /\ running => s \in charged
              /\ ~OtherLive(s)
  BY <1>2, <1>8, <1>15, <1>17, <1>18 DEF RowFacts, ApplyFacts, Second
<1>19. Paying' = Paying /\ OnFile' = OnFile
  BY <1>1 DEF Paying, OnFile
<1>20. GatewayFacts' /\ RowFacts'
  BY <1>1, <1>2, <1>19 DEF GatewayFacts, RowFacts, PaidAtGateway, StopsAtOnce, Over, gatewayVars
<1>21. FlagFacts'
  <2>1. \A q \in Procs : reqs[q].pc \in {"stop", "restore"} => reqs'[q] = reqs[q]
    BY <1>0, <1>4
  <2> QED BY <1>1, <1>19, <2>1 DEF AgreeInv, Global, FlagFacts, gatewayVars
<1>22. AccessFacts'
  <2> SUFFICES ASSUME Paying PROVE AccessFacts'
    BY <1>19 DEF AccessFacts
  <2>0. PICK f \in Subs : f = OnFile
    BY FileTyped
  <2>1. \/ Live(f) \/ Told(f)
        \/ row.cancelFlag /\ StopsAtOnce(f) /\ remote[f].atEnd
        \/ \E q \in Procs : Unpays(reqs[q], f)
    BY <2>0 DEF AgreeInv, Global, AccessFacts
  <2>2. \A q \in Procs : Unpays(reqs[q], f) => Unpays(reqs'[q], f)
    BY <1>0, <1>4 DEF Unpays
  <2>3. f = s /\ Fresh(r) => \/ Live(f)
                             \/ row.cancelFlag /\ StopsAtOnce(f) /\ remote[f].atEnd
                             \/ Unpays(reqs'[p], f)
    <3> SUFFICES ASSUME f = s, Fresh(r), ~r.state.paid
                 PROVE  (row.cancelFlag /\ StopsAtOnce(f) /\ remote[f].atEnd) \/ Unpays(reqs'[p], f)
      BY <1>6, <1>10, <2>0
    <3>1. ~Second(s) /\ ~TooLate(s, r.state)
      BY <1>8, <1>9, <2>0
    <3>2. x.pc = "write" /\ x.sub = s /\ x.patch = PatchOf(r)
      BY <1>3, <3>1
    <3> QED BY <1>4, <1>15, <1>16, <1>18, <3>1, <3>2 DEF Unpays
  <2>4. \/ Live(f)' \/ Told(f)'
        \/ row.cancelFlag /\ StopsAtOnce(f) /\ remote[f].atEnd
        \/ \E q \in Procs : Unpays(reqs'[q], f)
    BY <1>12, <1>13, <2>1, <2>2, <2>3
  <2> QED BY <1>1, <1>19, <2>0, <2>4
          DEF AccessFacts, StopsAtOnce, Unpays, Live, Billing, Told, News, gatewayVars
<1>23. BillingFacts'
  <2> SUFFICES ASSUME NEW u \in Subs, Billing(u)'
               PROVE  Told(u)' \/ (Paying' /\ OnFile' = u) \/ \E q \in Procs : Serves(reqs'[q], u)
    BY DEF BillingFacts, Serves
  <2>1. Billing(u)
    BY <1>12
  <2>2. \A q \in Procs : Serves(reqs[q], u) => Serves(reqs'[q], u)
    BY <1>0, <1>4 DEF Serves
  <2>3. u = s /\ Fresh(r) => Serves(reqs'[p], u)
    <3> SUFFICES ASSUME u = s, r.state.paid PROVE Serves(reqs'[p], u)
      BY <1>10, <2>1
    <3>1. \/ x = [pc |-> "cancelDuplicate", sub |-> s]
          \/ x = [pc |-> "write", sub |-> s, patch |-> PatchOf(r)]
      BY <1>3 DEF TooLate
    <3> QED BY <1>4, <1>16, <3>1 DEF Serves
  <2> QED BY <1>13, <1>19, <2>1, <2>2, <2>3 DEF AgreeInv, Global, BillingFacts
<1>24. Global'
  BY <1>20, <1>21, <1>22, <1>23 DEF Global
<1>25. RequestFacts(x)'
  <2>1. CASE x.pc # "write"
    BY <1>3, <2>1 DEF RequestFacts, Reads, Cancels, Idle
  <2>2. CASE x.pc = "write"
    <3>1. /\ x.sub = s /\ x.patch = PatchOf(r) /\ ~Second(s) /\ ~TooLate(s, r.state)
      BY <1>3, <2>2 DEF Idle
    <3>2. x.patch.status \in PAYING <=> keeps
      BY <1>16, <3>1
    <3>3. Told(s)' \/ Fresh(r)
      BY <1>1, <1>2, <1>13
    <3>4. Paying => OnFile = s
      BY <1>8, <3>1
    <3>5. x.patch.isPro <=> row.lifetime \/ keeps
      BY <1>16, <3>1
    <3>6. keeps => s \in charged /\ (Live(s) \/ Told(s)' \/ (x.patch.cancelFlag /\ StopsAtOnce(s)))
      BY <1>10, <1>15, <1>16, <1>18, <3>1, <3>3
    <3>7. x.patch.cancelFlag =>
            keeps /\ remote[s].atEnd /\ (StopsAtOnce(s) => x.patch.periodEnd # None)
      BY <1>16, <1>18, <3>1
    <3>8. Billing(s) /\ ~keeps => Told(s)'
      BY <1>10, <3>3
    <3>9. row.periodEnd # None /\ ~(row.periodEnd > now) => row.periodEnd <= now
      BY <1>1, GatewaysAssumption DEF Row, Dates, Times, GatewayTypeOK
    <3>10. remote[s].atEnd =>
             /\ keeps /\ StopsAtOnce(s) => x.patch.cancelFlag
             /\ Billing(s) => keeps
             /\ ~keeps /\ StopsAtOnce(s) /\ Paying => row.periodEnd <= now
      BY <1>2, <1>15, <1>16, <1>18, <3>1, <3>9 DEF ApplyFacts
    <3> HIDE DEF keeps
    <3>11. WriteFacts(x)'
      BY <1>1, <1>12, <1>19, <3>1, <3>2, <3>4, <3>5, <3>6, <3>7, <3>8, <3>10
         DEF WriteFacts, StopsAtOnce, gatewayVars
    <3> QED BY <2>2, <3>11 DEF RequestFacts, Reads, Cancels
  <2> QED BY <2>1, <2>2
<1> QED BY <1>0, <1>1, <1>3, <1>14, <1>24, <1>25, OneStep DEF gatewayVars

\* Nobody forgets anything while a request that holds no answer writes or calls a gateway.
LEMMA HearingOn ==
  ASSUME ~Crosses, \A q \in Procs : reqs'[q] = reqs[q] \/ ~Reads(reqs[q]),
         UNCHANGED charged, events \subseteq events', remote' = remote \/ reqs' # reqs
  PROVE  ToldOn
<1> SUFFICES ASSUME NEW s \in Subs, Told(s) PROVE Told(s)'
  BY DEF ToldOn
<1>1. CASE News(s)
  BY <1>1 DEF News, Told
<1>2. ASSUME NEW q \in Procs, Reads(reqs[q]), reqs[q].sub = s, Fresh(reqs[q]) PROVE Told(s)'
  <2>1. reqs'[q] = reqs[q]
    BY <1>2
  <2>2. row' = row \/ ~GoesByRow(reqs[q])
    BY <2>1, NotCrossed
  <2>3. remote'[reqs[q].sub] = remote[reqs[q].sub]
    BY <1>2, <2>1, NotCrossed DEF About, Reads
  <2>4. Fresh(reqs[q])'
    BY <1>2, <2>1, <2>2, <2>3, StaysFresh
  <2> QED BY <1>2, <2>1, <2>4 DEF Told, Reads
<1> QED BY <1>1, <1>2 DEF Told

\* checkout's write: nobody is paying, and the new subscription bills nothing yet.
LEMMA RememberAgrees ==
  ASSUME CodeTypeOK, CodeTypeOK', NeverStripe, AgreeInv, ~Crosses, NEW p \in Procs, CheckoutRemember(p)
  PROVE  AgreeInv'
<1>0. PICK r \in Request : r = reqs[p] /\ r.pc = "remember"
  BY DEF CodeTypeOK, CheckoutRemember, At
<1> DEFINE s == r.sub
<1>1. /\ s \in Subs /\ row \in Row /\ GatewayTypeOK /\ G(s) \in Gateways /\ G(s) # "stripe"
  BY <1>0, RequestFields, RemoteTyped DEF CodeTypeOK, NeverStripe
<1>2. ~row.isPro /\ ~Paying /\ ~row.lifetime /\ ~row.cancelFlag /\ GatewayFacts /\ RowFacts
  <2>1. ~row.isPro
    BY <1>0 DEF AgreeInv, RequestFacts
  <2> QED BY <2>1, FileTyped DEF RowFacts
<1>3. row' = [row EXCEPT !.subOf[G(s)] = s, !.provider = G(s)]
  BY <1>0, <1>1 DEF CheckoutRemember
<1>4. ASSUME NEW t \in Subs
      PROVE  /\ remote'[t].atEnd = remote[t].atEnd
             /\ Over(t)' = Over(t)
             /\ PaidAtGateway(t, remote'[t]) => PaidAtGateway(t, remote[t])
             /\ Billing(t)' => Billing(t)
  <2>1. \/ remote'[t] = remote[t]
        \/ /\ remote[t] = Absent /\ t = s
           /\ remote'[t] = [remote[t] EXCEPT !.status = InitialStatus[G(s)]]
    BY <1>0, <1>1 DEF CheckoutRemember, GatewayTypeOK
  <2>2. InitialStatus[G(s)] \in {"created", "APPROVAL_PENDING", "INITIALIZED"}
    BY <1>1 DEF InitialStatus, Gateways
  <2> QED BY <1>1, <2>1, <2>2 DEF Absent, Over, OverStatus, PaidAtGateway, Billing, CheckoutRemember,
                                  ACTIVE_SUBSCRIPTION_STATUSES
<1>5. UNCHANGED <<charged, events, now>> /\ ~Paying' /\ Goto(p, Idle) /\ Idle # reqs[p]
  BY <1>0, <1>1, <1>2, <1>3 DEF CheckoutRemember, Paying, Row, Idle
<1>6. reqs'[p] = Idle /\ \A q \in Procs \ {p} : reqs'[q] = reqs[q]
  BY <1>5, Moved
<1>7. ToldOn
  <2>1. ~Reads(reqs[p]) /\ reqs' # reqs
    BY <1>0, <1>5, <1>6 DEF Reads
  <2> QED BY <1>5, <1>6, <2>1, HearingOn
<1>8. GatewayFacts'
  BY <1>2, <1>4, <1>5 DEF GatewayFacts, StopsAtOnce
<1>9. RowFacts'
  BY <1>1, <1>2, <1>3, <1>5 DEF RowFacts, Row
<1>10. FlagFacts' /\ AccessFacts'
  BY <1>1, <1>2, <1>3, <1>5 DEF FlagFacts, AccessFacts, Row
<1>11. BillingFacts'
  <2>1. \A q \in Procs : \A u : Serves(reqs[q], u) => Serves(reqs'[q], u)
    BY <1>0, <1>6 DEF Serves
  <2> QED BY <1>2, <1>4, <1>7, <2>1 DEF AgreeInv, Global, BillingFacts, ToldOn, Serves
<1>12. Global'
  BY <1>8, <1>9, <1>10, <1>11 DEF Global
<1>13. RequestFacts(Idle)'
  BY DEF RequestFacts, Idle, Reads, Cancels
<1> QED BY <1>5, <1>7, <1>12, <1>13, OneStepTold

\* The verdict is stored.
LEMMA WriteAgrees ==
  ASSUME CodeTypeOK, CodeTypeOK', NeverStripe, AgreeInv, ~Crosses, NEW p \in Procs, RowWrite(p)
  PROVE  AgreeInv'
<1>0. PICK r \in Request : r = reqs[p] /\ r.pc = "write"
  BY DEF CodeTypeOK, RowWrite, At
<1>1. PICK s \in Subs :
        s = r.sub /\ r.patch \in Patch /\ row \in Row /\ GatewayTypeOK /\ G(s) \in Gateways
  BY <1>0, RequestFields, RemoteTyped DEF CodeTypeOK
<1> DEFINE keeps == r.patch.status \in PAYING
<1>2. WriteFacts(r) /\ GatewayFacts /\ RowFacts
  BY <1>0, FileTyped DEF AgreeInv, RequestFacts
<1>3. UNCHANGED gatewayVars /\ row' = Applied(s, r.patch) /\ Goto(p, Idle) /\ Idle # reqs[p]
  BY <1>0, <1>1 DEF RowWrite, Idle
<1>4. /\ row'.provider = G(s) /\ row'.subOf = [row.subOf EXCEPT ![G(s)] = s]
      /\ row'.status = r.patch.status /\ row'.periodEnd = r.patch.periodEnd
      /\ row'.cancelFlag = r.patch.cancelFlag /\ row'.isPro = r.patch.isPro
      /\ row'.lifetime = row.lifetime
  BY <1>1, <1>3 DEF Applied, Row
<1>5. OnFile' = s /\ row'.subOf[G(s)] = s /\ (Paying' <=> keeps)
  BY <1>1, <1>4 DEF OnFile, Paying, Row
<1>6. GatewayFacts'
  BY <1>2, <1>3 DEF gatewayVars, GatewayFacts, PaidAtGateway, StopsAtOnce, Over
<1>7. s # None /\ G(s) # None
  BY <1>1, GatewaysAssumption
<1>8. RowFacts'
  <2>1. \A g \in Gateways : row'.subOf[g] # None => G(row'.subOf[g]) = g
    BY <1>1, <1>2, <1>4 DEF RowFacts, Row
  <2> QED BY <1>1, <1>2, <1>3, <1>4, <1>5, <1>7, <2>1 DEF RowFacts, WriteFacts, StopsAtOnce, gatewayVars
<1>9. FlagFacts'
  BY <1>1, <1>2, <1>3, <1>4, <1>5 DEF FlagFacts, WriteFacts, gatewayVars
<1>10. reqs'[p] = Idle /\ \A q \in Procs \ {p} : reqs'[q] = reqs[q]
  BY <1>3, Moved
<1>11. ToldOn
  <2>1. ~Reads(reqs[p])
    BY <1>0 DEF Reads
  <2> QED BY <1>3, <1>10, <2>1, HearingOn DEF gatewayVars
<1>12. (Live(s)' <=> Live(s)) /\ (Told(s) => Told(s)')
  BY <1>3, <1>11 DEF Live, Billing, gatewayVars, ToldOn
<1>13. AccessFacts'
  <2> SUFFICES ASSUME keeps PROVE AccessFacts'
    BY <1>5 DEF AccessFacts
  <2>1. Live(s)' \/ Told(s)' \/ (row'.cancelFlag /\ StopsAtOnce(s) /\ remote'[s].atEnd)
    BY <1>1, <1>2, <1>3, <1>4, <1>12 DEF WriteFacts, gatewayVars
  <2> QED BY <1>5, <2>1 DEF AccessFacts, Live, Billing, Told, News, StopsAtOnce
<1>14. BillingFacts'
  <2> SUFFICES ASSUME NEW u \in Subs, Billing(u)'
               PROVE  Told(u)' \/ (Paying' /\ OnFile' = u) \/ \E q \in Procs : Serves(reqs'[q], u)
    BY DEF BillingFacts, Serves
  <2>1. Billing(u) /\ (Told(u) => Told(u)')
    BY <1>3, <1>11 DEF Billing, gatewayVars, ToldOn
  <2>2. Told(u) \/ (Paying /\ OnFile = u) \/ \E q \in Procs : Serves(reqs[q], u)
    BY <2>1 DEF AgreeInv, Global, BillingFacts
  <2>3. ASSUME NEW q \in Procs, Serves(reqs[q], u) PROVE Serves(reqs'[q], u) \/ (keeps /\ u = s)
    BY <1>0, <1>1, <1>10, <2>3 DEF Serves
  <2>4. Paying /\ OnFile = u => u = s
    BY <1>1, <1>2 DEF WriteFacts
  <2>5. u = s /\ ~keeps => Told(u)'
    BY <1>1, <1>2, <2>1 DEF WriteFacts
  <2> QED BY <1>5, <2>1, <2>2, <2>3, <2>4, <2>5
<1>15. Global'
  BY <1>6, <1>8, <1>9, <1>13, <1>14 DEF Global
<1>16. RequestFacts(Idle)'
  BY DEF RequestFacts, Idle, Reads, Cancels
<1> QED BY <1>3, <1>11, <1>15, <1>16, OneStepTold DEF gatewayVars

\* A duplicate is cancelled, or its gateway refuses because it does not bill.
LEMMA CancelDuplicateAgrees ==
  ASSUME CodeTypeOK, CodeTypeOK', NeverStripe, AgreeInv, ~Crosses, ~Fault, NEW p \in Procs,
         CancelDuplicate(p)
  PROVE  AgreeInv'
<1>0. PICK r \in Request : r = reqs[p] /\ r.pc = "cancelDuplicate"
  BY DEF CodeTypeOK, CancelDuplicate, At
<1>1. PICK s \in Subs : s = r.sub
  BY <1>0, RequestFields
<1>2. UNCHANGED <<charged, now, row>> /\ GatewayTypeOK /\ GatewayFacts /\ Goto(p, Idle)
      /\ Idle # reqs[p]
  BY <1>0, FileTyped DEF CancelDuplicate, Idle
<1>3. reqs'[p] = Idle /\ \A q \in Procs \ {p} : reqs'[q] = reqs[q]
  BY <1>2, Moved
<1>4. CASE Becomes(s, StoppedAt(s), {"status"})
  <2>1. Announced /\ ~Billing(s)'
    BY <1>2, <1>4, StoppedAnnounced
  <2> QED BY <1>0, <1>1, <1>2, <1>3, <2>1, AnnouncedAgrees
<1>5. CASE ~Cancellable(s) /\ UNCHANGED <<remote, events>>
  <2>1. ~Billing(s)
    BY <1>5 DEF Cancellable, Billing, Exists, Over, OverStatus
  <2>2. ToldOn
    <3>1. ~Reads(reqs[p])
      BY <1>0 DEF Reads
    <3> QED BY <1>2, <1>3, <1>5, <3>1, HearingOn
  <2>3. Global'
    BY <1>0, <1>1, <1>2, <1>3, <1>5, <2>1, <2>2, FileTyped, StandStill DEF AgreeInv
  <2>4. RequestFacts(Idle)'
    BY DEF RequestFacts, Idle, Reads, Cancels
  <2> QED BY <1>2, <2>2, <2>3, <2>4, OneStepTold
<1> QED BY <1>0, <1>1, <1>4, <1>5 DEF CancelDuplicate

\* Razorpay is told to end the subscription with its cycle, or it is over and is read again.
LEMMA CancelAtCycleEndAgrees ==
  ASSUME CodeTypeOK, CodeTypeOK', AgreeInv, ~Crosses, ~Fault, NEW p \in Procs, CancelAtCycleEnd(p)
  PROVE  AgreeInv'
<1>0. PICK r \in Request : r = reqs[p] /\ r.pc = "cancelAtCycleEnd"
  BY DEF CodeTypeOK, CancelAtCycleEnd, At
<1>1. PICK s \in Subs : s = r.sub
  BY <1>0, RequestFields
<1>2. UNCHANGED <<charged, events, now, row>> /\ GatewayTypeOK /\ GatewayFacts /\ RowFacts
  BY <1>0, FileTyped DEF CancelAtCycleEnd
<1>3. Paying /\ OnFile = s /\ ~StopsAtOnce(s) /\ s \in charged
  BY <1>0, <1>1, <1>2 DEF AgreeInv, RequestFacts, CancelFacts, RowFacts, Cancels
<1>4. PICK x :
        /\ Goto(p, x) /\ x # r
        /\ \/ remote' = [remote EXCEPT ![s].atEnd = TRUE] /\ x = [pc |-> "mark", sub |-> s]
           \/ remote' = remote /\ x = [pc |-> "resync", gateway |-> "razorpay"]
  BY <1>0, <1>1 DEF CancelAtCycleEnd
<1>5. reqs'[p] = x /\ \A q \in Procs \ {p} : reqs'[q] = reqs[q]
  BY <1>4, Moved
<1>6. ToldOn
  <2>1. ~Reads(reqs[p]) /\ reqs' # reqs
    BY <1>0, <1>4, <1>5 DEF Reads
  <2> QED BY <1>2, <1>5, <2>1, HearingOn
<1>7. CASE remote' = [remote EXCEPT ![s].atEnd = TRUE] /\ x = [pc |-> "mark", sub |-> s]
  <2>1. \A u \in Subs : /\ remote'[u].status = remote[u].status
                        /\ remote'[u].atEnd <=> remote[u].atEnd \/ u = s
    BY <1>2, <1>7, RemoteTyped DEF GatewayTypeOK, Remote
  <2>2. Paying' /\ OnFile' = s
    BY <1>2, <1>3 DEF Paying, OnFile
  <2>3. \A u \in Subs : /\ Over(u)' <=> Over(u)
                        /\ Billing(u)' <=> Billing(u)
                        /\ Live(u)' <=> Live(u)
                        /\ Told(u) => Told(u)'
    BY <1>2, <1>6, <2>1 DEF Over, Billing, Live, ToldOn
  <2>4. \A u \in Subs : PaidAtGateway(u, remote'[u]) <=> PaidAtGateway(u, remote[u])
    BY <2>1 DEF PaidAtGateway
  <2>5. GatewayFacts'
    BY <1>2, <1>3, <2>1, <2>3, <2>4 DEF GatewayFacts, StopsAtOnce
  <2>6. RowFacts'
    BY <1>2, <1>3, <2>2 DEF RowFacts, StopsAtOnce
  <2>7. \A q \in Procs : \A u : /\ Unpays(reqs[q], u) => Unpays(reqs'[q], u)
                                /\ Serves(reqs[q], u) => Serves(reqs'[q], u)
    BY <1>0, <1>5 DEF Unpays, Serves
  <2>8. FlagFacts'
    BY <2>1, <2>2 DEF FlagFacts
  <2>9. AccessFacts'
    <3>1. Live(s) \/ Told(s) \/ \E q \in Procs : Unpays(reqs[q], s)
      BY <1>3 DEF AgreeInv, Global, AccessFacts
    <3>2. Live(s)' \/ Told(s)' \/ \E q \in Procs : Unpays(reqs'[q], s)
      BY <2>3, <2>7, <3>1
    <3> QED BY <2>2, <3>2 DEF AccessFacts, Live, Billing, Told, News, Unpays
  <2>10. BillingFacts'
    BY <1>3, <2>2, <2>3, <2>7 DEF AgreeInv, Global, BillingFacts, Serves
  <2>11. RequestFacts(x)'
    BY <1>3, <1>7, <2>1, <2>2 DEF RequestFacts, CancelFacts, StopsAtOnce, Reads, Cancels
  <2>12. Global'
    BY <2>5, <2>6, <2>8, <2>9, <2>10 DEF Global
  <2> QED BY <1>0, <1>2, <1>4, <1>6, <2>11, <2>12, OneStepTold
<1>8. CASE remote' = remote /\ x = [pc |-> "resync", gateway |-> "razorpay"]
  <2>1. Global'
    BY <1>0, <1>2, <1>5, <1>6, <1>8, FileTyped, StandStill DEF AgreeInv
  <2>2. RequestFacts(x)'
    BY <1>8 DEF RequestFacts, Reads, Cancels
  <2> QED BY <1>0, <1>2, <1>4, <1>6, <2>1, <2>2, OneStepTold
<1> QED BY <1>4, <1>7, <1>8

\* The flag is written: after the call for Razorpay, before it for PayPal and Cashfree.
LEMMA FlagAgrees ==
  ASSUME CodeTypeOK, CodeTypeOK', AgreeInv, ~Crosses, NEW p \in Procs,
         MarkCancelled(p) \/ FlagCancel(p)
  PROVE  AgreeInv'
<1>0. PICK r \in Request : r = reqs[p] /\ r.pc \in {"mark", "flag"}
  BY DEF CodeTypeOK, MarkCancelled, FlagCancel, At
<1>1. PICK s \in Subs : s = r.sub
  BY <1>0, RequestFields
<1>2. UNCHANGED gatewayVars /\ row \in Row /\ GatewayFacts /\ RowFacts /\ GatewayTypeOK
  BY FileTyped DEF MarkCancelled, FlagCancel
<1>3. Paying /\ OnFile = s /\ CancelFacts(r)
  BY <1>0, <1>1 DEF AgreeInv, RequestFacts, CancelFacts, Cancels
<1>4. PICK x :
        /\ Goto(p, x) /\ x # r
        /\ (r.pc = "mark" /\ x = Idle) \/ (r.pc = "flag" /\ x.pc = "stop" /\ x.sub = s)
  BY <1>0, <1>1 DEF MarkCancelled, FlagCancel, Idle, At
<1>5. reqs'[p] = x /\ \A q \in Procs \ {p} : reqs'[q] = reqs[q]
  BY <1>4, Moved
<1>6. ToldOn
  <2>1. ~Reads(reqs[p])
    BY <1>0 DEF Reads
  <2> QED BY <1>2, <1>5, <2>1, HearingOn DEF gatewayVars
<1>7. /\ row'.provider = row.provider /\ row'.subOf = row.subOf /\ row'.status = row.status
      /\ row'.isPro = row.isPro /\ row'.lifetime = row.lifetime /\ row'.cancelFlag
      /\ r.pc = "flag" => row'.periodEnd # None
  <2>1. now # None
    BY <1>2, GatewaysAssumption DEF GatewayTypeOK
  <2> QED BY <1>0, <1>2, <2>1 DEF MarkCancelled, FlagCancel, Row, At
<1>8. Paying' /\ OnFile' = s
  BY <1>3, <1>7 DEF Paying, OnFile
<1>9. \A u \in Subs : (Live(u)' <=> Live(u)) /\ (Billing(u)' <=> Billing(u)) /\ (Told(u) => Told(u)')
  BY <1>2, <1>6 DEF Live, Billing, gatewayVars, ToldOn
<1>10. GatewayFacts'
  BY <1>2 DEF gatewayVars, GatewayFacts, PaidAtGateway, StopsAtOnce, Over
<1>11. RowFacts'
  BY <1>0, <1>1, <1>2, <1>3, <1>7, <1>8 DEF RowFacts, CancelFacts, StopsAtOnce, gatewayVars
<1>12. FlagFacts'
  BY <1>1, <1>2, <1>3, <1>4, <1>5, <1>8 DEF FlagFacts, CancelFacts, gatewayVars
<1>13. \A q \in Procs : \A u : /\ Unpays(reqs[q], u) => Unpays(reqs'[q], u)
                               /\ Serves(reqs[q], u) => Serves(reqs'[q], u)
  BY <1>0, <1>5 DEF Unpays, Serves
<1>14. AccessFacts'
  <2>1. \/ Live(s) \/ Told(s) \/ \E q \in Procs : Unpays(reqs[q], s)
        \/ StopsAtOnce(s) /\ remote[s].atEnd
    BY <1>3 DEF AgreeInv, Global, AccessFacts
  <2>2. Live(s)' \/ Told(s)' \/ \E q \in Procs : Unpays(reqs'[q], s)
    BY <1>1, <1>3, <1>9, <1>13, <2>1 DEF CancelFacts
  <2> QED BY <1>8, <2>2 DEF AccessFacts, Live, Billing, Told, News, Unpays
<1>15. BillingFacts'
  BY <1>3, <1>8, <1>9, <1>13 DEF AgreeInv, Global, BillingFacts, Serves
<1>16. Global'
  BY <1>10, <1>11, <1>12, <1>14, <1>15 DEF Global
<1>17. RequestFacts(x)'
  BY <1>1, <1>2, <1>3, <1>4, <1>7, <1>8
     DEF RequestFacts, CancelFacts, StopsAtOnce, gatewayVars, Reads, Cancels, Idle
<1> QED BY <1>0, <1>2, <1>4, <1>6, <1>16, <1>17, OneStepTold DEF gatewayVars

\* PayPal or Cashfree stops the subscription, or refuses and the flag is to be taken back.
LEMMA StopAgrees ==
  ASSUME CodeTypeOK, CodeTypeOK', NeverStripe, AgreeInv, ~Crosses, ~Fault, NEW p \in Procs,
         StopBilling(p)
  PROVE  AgreeInv'
<1>0. PICK r \in Request : r = reqs[p] /\ r.pc = "stop"
  BY DEF CodeTypeOK, StopBilling, At
<1>1. PICK s \in Subs : s = r.sub
  BY <1>0, RequestFields
<1>2. UNCHANGED <<charged, now, row>> /\ GatewayFacts /\ RowFacts /\ GatewayTypeOK
  BY <1>0, FileTyped DEF StopBilling
<1>3. Paying /\ OnFile = s /\ StopsAtOnce(s) /\ row.cancelFlag /\ CancelFacts(r) /\ s \in charged
  BY <1>0, <1>1, <1>2 DEF AgreeInv, RequestFacts, CancelFacts, RowFacts, Cancels
<1>4. PICK x :
        /\ Goto(p, x) /\ x # r
        /\ \/ Becomes(s, [StoppedAt(s) EXCEPT !.atEnd = TRUE], {"status"}) /\ x = Idle
           \/ UNCHANGED <<remote, events>> /\ x.pc = "restore" /\ x.sub = s
  BY <1>0, <1>1 DEF StopBilling, Idle
<1>5. reqs'[p] = x /\ \A q \in Procs \ {p} : reqs'[q] = reqs[q]
  BY <1>4, Moved
<1>6. ToldOn
  <2>1. ~Reads(reqs[p]) /\ reqs' # reqs /\ events \subseteq events'
    BY <1>0, <1>4, <1>5 DEF Reads, Becomes
  <2> QED BY <1>2, <1>5, <2>1, HearingOn
<1>7. CASE Becomes(s, [StoppedAt(s) EXCEPT !.atEnd = TRUE], {"status"}) /\ x = Idle
  <2>1. CancelledStatus[G(s)] \in {"canceled", "cancelled", "CANCELLED"}
    BY <1>2, RemoteTyped DEF CancelledStatus, Gateways
  <2>2. [StoppedAt(s) EXCEPT !.atEnd = TRUE].atEnd
        /\ [StoppedAt(s) EXCEPT !.atEnd = TRUE].status = CancelledStatus[G(s)]
    BY <1>2, RemoteTyped DEF StoppedAt, Remote
  <2>3. remote'[s].atEnd /\ remote'[s].status = CancelledStatus[G(s)]
        /\ \A u \in Subs \ {s} : remote'[u] = remote[u]
    BY <1>2, <1>7, <2>2 DEF Becomes, GatewayTypeOK
  <2>4. Over(s)' /\ ~Billing(s)' /\ ~PaidAtGateway(s, remote'[s])
    BY <2>1, <2>3 DEF Over, OverStatus, Billing, PaidAtGateway, ACTIVE_SUBSCRIPTION_STATUSES
  <2>5. \A u \in Subs \ {s} : (Over(u)' <=> Over(u)) /\ (Billing(u)' <=> Billing(u))
    BY <1>2, <2>3 DEF Over, Billing
  <2>6. Paying' /\ OnFile' = s
    BY <1>2, <1>3 DEF Paying, OnFile
  <2>7. \A e \in events' : e.type # "invoice_failed" /\ (e.type = "success" => e.sub \in charged')
    BY <1>2, <1>7 DEF Becomes, Notices, GatewayFacts
  <2>8. GatewayFacts'
    <3>1. \A u \in Subs : PaidAtGateway(u, remote'[u]) => u \in charged'
      BY <1>2, <2>3, <2>4 DEF GatewayFacts
    <3>2. \A u \in Subs : remote'[u].atEnd => u \in charged' /\ (StopsAtOnce(u) => Over(u)')
      BY <1>2, <1>3, <2>3, <2>4, <2>5 DEF GatewayFacts
    <3> QED BY <2>7, <3>1, <3>2 DEF GatewayFacts, PaidAtGateway, StopsAtOnce
  <2>9. RowFacts'
    BY <1>2, <1>3, <2>6 DEF RowFacts, StopsAtOnce
  <2>10. FlagFacts' /\ AccessFacts'
    BY <1>2, <1>3, <2>3, <2>6 DEF FlagFacts, AccessFacts, StopsAtOnce
  <2>11. BillingFacts'
    <3>1. \A q \in Procs : \A u : Serves(reqs[q], u) => Serves(reqs'[q], u)
      BY <1>0, <1>5 DEF Serves
    <3> QED BY <1>3, <1>6, <2>4, <2>5, <2>6, <3>1 DEF AgreeInv, Global, BillingFacts, Serves, ToldOn
  <2>12. RequestFacts(x)'
    BY <1>7 DEF RequestFacts, Idle, Reads, Cancels
  <2>13. Global'
    BY <2>8, <2>9, <2>10, <2>11 DEF Global
  <2> QED BY <1>0, <1>2, <1>4, <1>6, <2>12, <2>13, OneStepTold
<1>8. CASE UNCHANGED <<remote, events>> /\ x.pc = "restore" /\ x.sub = s
  <2>1. Global'
    BY <1>0, <1>2, <1>5, <1>6, <1>8, FileTyped, StandStill DEF AgreeInv
  <2>2. Paying' /\ OnFile' = s
    BY <1>2, <1>3 DEF Paying, OnFile
  <2>3. RequestFacts(x)'
    BY <1>0, <1>1, <1>2, <1>3, <1>8, <2>2
       DEF RequestFacts, CancelFacts, Reads, Cancels, StopsAtOnce
  <2> QED BY <1>0, <1>2, <1>4, <1>6, <2>1, <2>3, OneStepTold
<1> QED BY <1>4, <1>7, <1>8

\* The flag is taken back: the gateway refused, so the subscription is over and news is due.
LEMMA RestoreAgrees ==
  ASSUME CodeTypeOK, CodeTypeOK', AgreeInv, ~Crosses, NEW p \in Procs, RestoreFlag(p)
  PROVE  AgreeInv'
<1>0. PICK r \in Request : r = reqs[p] /\ r.pc = "restore"
  BY DEF CodeTypeOK, RestoreFlag, At
<1>1. PICK s \in Subs : s = r.sub
  BY <1>0, RequestFields
<1>2. UNCHANGED gatewayVars /\ row \in Row /\ GatewayFacts /\ RowFacts
  BY FileTyped DEF RestoreFlag
<1>3. Paying /\ OnFile = s /\ StopsAtOnce(s) /\ ~remote[s].atEnd
  BY <1>0, <1>1 DEF AgreeInv, RequestFacts, CancelFacts, Cancels
<1>4. PICK x : Goto(p, x) /\ x # r /\ x.pc \in {"resync", "idle"}
  BY <1>0 DEF RestoreFlag, Idle
<1>5. reqs'[p] = x /\ \A q \in Procs \ {p} : reqs'[q] = reqs[q]
  BY <1>4, Moved
<1>6. ToldOn
  <2>1. ~Reads(reqs[p])
    BY <1>0 DEF Reads
  <2> QED BY <1>2, <1>5, <2>1, HearingOn DEF gatewayVars
<1>7. /\ row'.provider = row.provider /\ row'.subOf = row.subOf /\ row'.status = row.status
      /\ row'.isPro = row.isPro /\ row'.lifetime = row.lifetime /\ ~row'.cancelFlag
  BY <1>2 DEF RestoreFlag, Row
<1>8. Paying' /\ OnFile' = s
  BY <1>3, <1>7 DEF Paying, OnFile
<1>9. \A u \in Subs : (Live(u)' <=> Live(u)) /\ (Billing(u)' <=> Billing(u)) /\ (Told(u) => Told(u)')
  BY <1>2, <1>6 DEF Live, Billing, gatewayVars, ToldOn
<1>10. GatewayFacts'
  BY <1>2 DEF gatewayVars, GatewayFacts, PaidAtGateway, StopsAtOnce, Over
<1>11. RowFacts'
  BY <1>2, <1>3, <1>7, <1>8 DEF RowFacts, StopsAtOnce, gatewayVars
<1>12. \A q \in Procs : \A u : /\ Unpays(reqs[q], u) => Unpays(reqs'[q], u)
                               /\ Serves(reqs[q], u) => Serves(reqs'[q], u)
  BY <1>0, <1>5 DEF Unpays, Serves
<1>13. FlagFacts'
  BY <1>7 DEF FlagFacts
<1>14. AccessFacts'
  <2>1. Live(s) \/ Told(s) \/ \E q \in Procs : Unpays(reqs[q], s)
    BY <1>3 DEF AgreeInv, Global, AccessFacts
  <2>2. Live(s)' \/ Told(s)' \/ \E q \in Procs : Unpays(reqs'[q], s)
    BY <1>1, <1>9, <1>12, <2>1
  <2> QED BY <1>8, <2>2 DEF AccessFacts, Live, Billing, Told, News, Unpays
<1>15. BillingFacts'
  BY <1>3, <1>8, <1>9, <1>12 DEF AgreeInv, Global, BillingFacts, Serves
<1>16. Global'
  BY <1>10, <1>11, <1>13, <1>14, <1>15 DEF Global
<1>17. RequestFacts(x)'
  BY <1>4 DEF RequestFacts, Reads, Cancels
<1> QED BY <1>0, <1>2, <1>4, <1>6, <1>16, <1>17, OneStepTold DEF gatewayVars

\* The Cancel button, on a paying subscription not cancelled yet.
LEMMA CancelStartAgrees ==
  ASSUME CodeTypeOK, CodeTypeOK', AgreeInv, ~Crosses, NEW p \in Procs, CancelStart(p)
  PROVE  AgreeInv'
<1>1. /\ reqs[p].pc = "idle" /\ Paying /\ ~row.cancelFlag
      /\ row.provider \in {"razorpay", "paypal", "cashfree"} /\ UNCHANGED <<gatewayVars, row>>
  BY DEF CancelStart, At
<1>2. PICK s \in Subs : s = OnFile /\ G(s) = row.provider
  BY <1>1, FileTyped
<1>3. PICK x :
        /\ Goto(p, x) /\ x.sub = s
        /\ \/ x.pc = "cancelAtCycleEnd" /\ row.provider = "razorpay"
           \/ x.pc = "flag" /\ row.provider # "razorpay"
  BY <1>2 DEF CancelStart, OnFile
<1>4. reqs'[p] = x /\ \A q \in Procs \ {p} : reqs'[q] = reqs[q]
  BY <1>3, Moved
<1>5. ToldOn
  <2>1. ~Reads(reqs[p])
    BY <1>1 DEF Reads
  <2> QED BY <1>1, <1>4, <2>1, HearingOn DEF gatewayVars
<1>6. Global'
  BY <1>1, <1>4, <1>5, FileTyped, StandStill DEF AgreeInv, gatewayVars
<1>7. StopsAtOnce(s) => ~remote[s].atEnd
  BY <1>1, <1>2, FileTyped DEF RowFacts
<1>8. Paying' /\ OnFile' = s
  BY <1>1, <1>2 DEF Paying, OnFile
<1>9. RequestFacts(x)'
  BY <1>1, <1>2, <1>3, <1>7, <1>8
     DEF RequestFacts, CancelFacts, StopsAtOnce, Reads, Cancels, gatewayVars
<1>10. x # reqs[p]
  BY <1>1, <1>3
<1> QED BY <1>1, <1>3, <1>5, <1>6, <1>9, <1>10, OneStepTold DEF gatewayVars

\* The expiry job ends a subscription its gateway has stopped; a lifetime purchase adds Pro.
LEMMA JobsAgree ==
  ASSUME CodeTypeOK, CodeTypeOK', AgreeInv, ~Crosses, NEW p \in Procs,
         ExpireCancelled(p) \/ GrantLifetime(p)
  PROVE  AgreeInv'
<1>1. /\ UNCHANGED <<gatewayVars, reqs>> /\ row \in Row /\ GatewayFacts /\ RowFacts /\ GatewayTypeOK
  BY FileTyped DEF ExpireCancelled, GrantLifetime
<1>2. GatewayFacts'
  BY <1>1 DEF gatewayVars, GatewayFacts, PaidAtGateway, StopsAtOnce, Over
<1>3. ToldOn
  BY <1>1, HearingOn DEF gatewayVars
<1>4. \A u \in Subs : (Live(u)' <=> Live(u)) /\ (Billing(u)' <=> Billing(u)) /\ (Told(u) => Told(u)')
  BY <1>1, <1>3 DEF Live, Billing, gatewayVars, ToldOn
<1>5. \A q \in Procs : RequestFacts(reqs[q])'
  <2> SUFFICES ASSUME NEW q \in Procs PROVE RequestFacts(reqs[q])'
    OBVIOUS
  <2>1. About(reqs[q]) => (Told(reqs[q].sub) => Told(reqs[q].sub)')
    <3> SUFFICES ASSUME About(reqs[q]), Told(reqs[q].sub) PROVE Told(reqs[q].sub)'
      OBVIOUS
    <3>1. PICK r \in Request : r = reqs[q] /\ reqs'[q] = r
      BY <1>1 DEF CodeTypeOK
    <3>2. r.sub \in Subs
      BY <3>1, RequestFields DEF About, Cancels
    <3>3. Told(r.sub)'
      BY <1>3, <3>1, <3>2 DEF ToldOn
    <3> QED BY <3>1, <3>3 DEF Told, News
  <2> QED BY <1>1, <2>1, OthersAgree DEF gatewayVars
<1>6. ASSUME GrantLifetime(p) PROVE Global'
  <2>1. /\ row'.provider = row.provider /\ row'.subOf = row.subOf /\ row'.status = row.status
        /\ row'.periodEnd = row.periodEnd /\ row'.cancelFlag = row.cancelFlag
        /\ row'.isPro /\ row'.lifetime
    BY <1>1, <1>6 DEF GrantLifetime, Row
  <2>2. Paying' = Paying /\ OnFile' = OnFile
    BY <2>1 DEF Paying, OnFile
  <2>3. RowFacts' /\ FlagFacts'
    BY <1>1, <2>1, <2>2 DEF RowFacts, FlagFacts, StopsAtOnce, gatewayVars, AgreeInv, Global
  <2>4. AccessFacts'
    <3> SUFFICES ASSUME Paying PROVE AccessFacts'
      BY <2>2 DEF AccessFacts
    <3>1. PICK f \in Subs : f = OnFile
      BY FileTyped
    <3>2. \/ Live(f)' \/ Told(f)' \/ \E q \in Procs : Unpays(reqs[q], f)
          \/ row.cancelFlag /\ StopsAtOnce(f) /\ remote[f].atEnd
      BY <1>4, <3>1 DEF AgreeInv, Global, AccessFacts
    <3> QED BY <1>1, <2>1, <2>2, <3>1, <3>2
            DEF AccessFacts, Unpays, Live, Billing, Told, News, StopsAtOnce, gatewayVars
  <2>5. BillingFacts'
    BY <1>1, <1>4, <2>2 DEF AgreeInv, Global, BillingFacts, Serves
  <2> QED BY <1>2, <2>3, <2>4, <2>5 DEF Global
<1>7. ASSUME ExpireCancelled(p) PROVE Global'
  <2>1. /\ row'.provider = row.provider /\ row'.subOf = row.subOf /\ row'.status = "canceled"
        /\ ~row'.cancelFlag /\ ~row'.isPro /\ ~row'.lifetime /\ row.cancelFlag
        /\ row.provider \in {"paypal", "cashfree"} /\ row' # row
    BY <1>1, <1>7 DEF ExpireCancelled, Row
  <2>2. ~Paying'
    BY <2>1 DEF Paying, PAYING
  <2>3. \A q \in Procs : reqs[q].pc \notin {"stop", "restore"}
    BY <1>1, <2>1, NotCrossed DEF GoesByRow, Cancels
  <2>4. Paying /\ remote[OnFile].atEnd /\ OnFile \in Subs /\ StopsAtOnce(OnFile)
    BY <1>1, <2>1, <2>3, FileTyped DEF RowFacts, FlagFacts, AgreeInv, Global, StopsAtOnce
  <2>5. ~Billing(OnFile)
    BY <1>1, <2>4 DEF GatewayFacts, Over, OverStatus, Billing
  <2>6. RowFacts' /\ FlagFacts' /\ AccessFacts'
    BY <1>1, <2>1, <2>2 DEF RowFacts, FlagFacts, AccessFacts
  <2>7. BillingFacts'
    BY <1>1, <1>4, <2>5 DEF AgreeInv, Global, BillingFacts, Serves
  <2> QED BY <1>2, <2>6, <2>7 DEF Global
<1> QED BY <1>5, <1>6, <1>7 DEF AgreeInv

\* Calls that fail and events that are lost are counted, and never taken back.
LEMMA FaultsStay ==
  ASSUME CodeTypeOK, CodeTypeOK', [Step]_codeVars, faults' = 0
  PROVE  faults = 0 /\ ~Fault
<1>1. faults' = faults \/ Fault
  BY DEF Step, codeVars, Gateway, Continue, CheckoutRemember, StoredRead, PaymentsRead, RowRead,
         RowWrite, CancelDuplicate, CancelAtCycleEnd, MarkCancelled, FlagCancel, StopBilling,
         RestoreFlag, SyncFails, Sync, Reconcile, CancelStart, ExpireCancelled, GrantLifetime,
         CheckoutStart, StripeReturn, Receive, Webhook, WebhookFromCopy, InvoicePaymentFailed,
         LoseEvent
<1>2. faults \in Nat
  BY DEF CodeTypeOK
<1> QED BY <1>1, <1>2 DEF Fault

\* Everything goes on agreeing, whatever step is taken that crosses no request.
LEMMA AgreeStep ==
  ASSUME NeverStripe, CodeTypeOK, CodeTypeOK', AgreeInv, ~Crosses, ~Fault, Step
  PROVE  AgreeInv'
<1>1. ASSUME NEW p \in Procs, Continue(p) PROVE AgreeInv'
  BY <1>1, RememberAgrees, StoredAgrees, PaymentsAgree, VerdictAgrees, WriteAgrees,
     CancelDuplicateAgrees, CancelAtCycleEndAgrees, FlagAgrees, StopAgrees, RestoreAgrees
     DEF Continue, SyncFails
<1>2. CASE Gateway
  <2>1. Announced /\ UNCHANGED <<row, reqs>>
    BY <1>2, GatewayAnnounced DEF AgreeInv, Global, Gateway
  <2> QED BY <2>1, AnnouncedAgrees
<1>3. ASSUME NEW p \in Procs, Sync(p) \/ Reconcile(p) PROVE AgreeInv'
  <2>1. PICK s : Fetch(p, s, "sync") /\ s \in Subs
    BY <1>3, RequestFields DEF Sync, Reconcile, Stale, Fetch, Row, At, CodeTypeOK
  <2> QED BY <1>3, <2>1, FetchAgrees DEF Sync, Reconcile, At, gatewayVars
<1>4. ASSUME NEW p \in Procs, CancelStart(p) \/ ExpireCancelled(p) \/ GrantLifetime(p)
      PROVE  AgreeInv'
  BY <1>4, CancelStartAgrees, JobsAgree
<1>5. ASSUME NEW p \in Procs, NEW s \in Subs, CheckoutStart(p, s) PROVE AgreeInv'
  <2>1. /\ reqs[p].pc = "idle" /\ ~row.isPro /\ UNCHANGED <<gatewayVars, row>>
    BY <1>5 DEF CheckoutStart, At
  <2>2. PICK x : x = [pc |-> "remember", sub |-> s] /\ Goto(p, x)
    BY <1>5 DEF CheckoutStart
  <2>3. reqs'[p] = x /\ \A q \in Procs \ {p} : reqs'[q] = reqs[q]
    BY <2>2, Moved
  <2>4. ToldOn
    <3>1. ~Reads(reqs[p])
      BY <2>1 DEF Reads
    <3> QED BY <2>1, <2>3, <3>1, HearingOn DEF gatewayVars
  <2>5. Global'
    BY <2>1, <2>3, <2>4, FileTyped, StandStill DEF AgreeInv, gatewayVars
  <2>6. RequestFacts(x)' /\ x # reqs[p]
    BY <2>1, <2>2 DEF RequestFacts, Reads, Cancels
  <2> QED BY <2>1, <2>2, <2>4, <2>5, <2>6, OneStepTold DEF gatewayVars
<1>6. ASSUME NEW p \in Procs, NEW e \in events, Receive(p, e) PROVE AgreeInv'
  <2>1. e.sub \in Subs /\ e.type \in EventTypes /\ (e.type = "success" => e.sub \in charged)
        /\ e.type # "invoice_failed"
    BY FileTyped DEF GatewayTypeOK, GatewayFacts
  <2>2. Webhook(p, e)
    BY <1>6, <2>1 DEF Receive, WebhookFromCopy, InvoicePaymentFailed
  <2> QED BY <2>1, <2>2, FetchAgrees DEF Webhook, At
<1>7. \A p \in Procs, s \in Subs : ~StripeReturn(p, s)
  BY DEF StripeReturn, NeverStripe
<1>8. \A e \in events : ~LoseEvent(e)
  BY DEF LoseEvent
<1> QED BY <1>1, <1>2, <1>3, <1>4, <1>5, <1>6, <1>7, <1>8 DEF Step

\* At first there is nothing to disagree about.
LEMMA AgreeAtFirst == Init => AgreeInv
<1> SUFFICES ASSUME Init PROVE AgreeInv
  OBVIOUS
<1>1. /\ \A p \in Procs : reqs[p].pc = "idle"
      /\ ~row.isPro /\ ~row.lifetime /\ ~row.cancelFlag /\ ~Paying
      /\ \A g \in Gateways : row.subOf[g] = None
      /\ charged = {} /\ events = {} /\ \A s \in Subs : remote[s] = Absent
  BY GatewaysAssumption DEF Init, GatewayInit, Idle, Paying, PAYING, StoredStatus
<1>2. GatewayFacts
  BY <1>1 DEF GatewayFacts, PaidAtGateway, Absent, ACTIVE_SUBSCRIPTION_STATUSES
<1>3. RowFacts /\ FlagFacts /\ AccessFacts /\ BillingFacts
  BY <1>1 DEF RowFacts, FlagFacts, AccessFacts, BillingFacts, Billing
<1>4. \A p \in Procs : RequestFacts(reqs[p])
  BY <1>1 DEF RequestFacts, Reads, Cancels
<1> QED BY <1>2, <1>3, <1>4 DEF AgreeInv, Global

\* The row, the gateways, the news still to come and every request in flight agree, for a
\* buyer who never uses Stripe, as long as no call has failed and no two requests have crossed.
THEOREM AllAgree ==
  ASSUME NeverStripe
  PROVE  Spec => [](Orderly => AgreeInv)
<1>1. Init => (Orderly => AgreeInv)
  BY AgreeAtFirst
<1>2. CodeTypeOK /\ CodeTypeOK' /\ (Orderly => AgreeInv) /\ [Next]_vars => (Orderly' => AgreeInv')
  <2> SUFFICES ASSUME CodeTypeOK, CodeTypeOK', Orderly => AgreeInv, [Next]_vars, Orderly'
               PROVE  AgreeInv'
    OBVIOUS
  <2>1. CASE Next
    <3>1. Step /\ ~crossed /\ ~Crosses /\ faults' = 0
      BY <2>1 DEF Next, Orderly
    <3>2. Orderly /\ ~Fault
      BY <3>1, FaultsStay DEF Orderly
    <3> QED BY <3>1, <3>2, AgreeStep
  <2>2. CASE UNCHANGED vars
    <3>1. ~Crosses /\ UNCHANGED codeVars /\ Orderly
      BY <2>2 DEF Crosses, vars, codeVars, Orderly
    <3>2. ToldOn
      BY <3>1, HearingOn DEF codeVars
    <3>3. Global'
      BY <3>1, <3>2, FileTyped, StandStill DEF AgreeInv, codeVars
    <3>4. \A q \in Procs : Told(reqs[q].sub) => Told(reqs[q].sub)'
      BY <3>1 DEF Told, News, Reads, Fresh, Billing, Live, OtherLive, Paying, codeVars
    <3>5. \A q \in Procs : RequestFacts(reqs[q])'
      BY <3>1, <3>4, OthersAgree DEF codeVars
    <3> QED BY <3>3, <3>5 DEF AgreeInv
  <2> QED BY <2>1, <2>2
<1> QED BY <1>1, <1>2, CodeTypes, PTL DEF Spec

\* When all is quiet, there is no news and nobody is about to do anything.
LEMMA QuietFacts ==
  ASSUME CodeTypeOK, AgreeInv, Quiet
  PROVE  /\ \A s \in Subs : ~Told(s)
         /\ \A p \in Procs : reqs[p].pc = "idle"
BY DEF Quiet, Told, News, Reads, Idle

\* Once every event is applied, Pro is on only for a live subscription or for the rest of a
\* paid period, however many requests were in flight, as long as none crossed.
THEOREM AccessFollowsSubscription ==
  ASSUME NeverStripe
  PROVE  Spec => []AccessNeedsSubscription
<1>1. CodeTypeOK /\ (Orderly => AgreeInv) => AccessNeedsSubscription
  <2> SUFFICES ASSUME CodeTypeOK, AgreeInv, Quiet, row.isPro, ~row.lifetime
               PROVE  \E s \in Subs : Live(s) \/ (row.cancelFlag /\ row.subOf[row.provider] = s /\ Promised(s))
    BY DEF AccessNeedsSubscription
  <2>1. Paying /\ OnFile \in Subs /\ OnFile \in charged
    BY FileTyped DEF RowFacts
  <2>2. Live(OnFile) \/ (row.cancelFlag /\ StopsAtOnce(OnFile) /\ remote[OnFile].atEnd)
    BY <2>1, QuietFacts DEF AgreeInv, Global, AccessFacts, Unpays
  <2> QED BY <2>1, <2>2 DEF Promised, StopsAtOnce, OnFile
<1> QED BY <1>1, AllAgree, CodeTypes, PTL

\* Once every event is applied, such a buyer who is billed has Pro.
THEOREM BilledHasAccess ==
  ASSUME NeverStripe
  PROVE  Spec => []BillingGivesAccess
<1>1. CodeTypeOK /\ (Orderly => AgreeInv) => BillingGivesAccess
  <2> SUFFICES ASSUME CodeTypeOK, AgreeInv, Quiet, NEW s \in Subs, Billing(s) PROVE row.isPro
    BY DEF BillingGivesAccess
  <2> QED BY QuietFacts, FileTyped DEF AgreeInv, Global, BillingFacts, Serves, RowFacts
<1> QED BY <1>1, AllAgree, CodeTypes, PTL

\* Once every event is applied, one subscription at most bills such a buyer, however many were
\* bought: the others have been cancelled as duplicates.
THEOREM NeverBilledTwice ==
  ASSUME NeverStripe
  PROVE  Spec => []BilledOnce
<1>1. CodeTypeOK /\ (Orderly => AgreeInv) => BilledOnce
  <2> SUFFICES ASSUME CodeTypeOK, AgreeInv, Quiet, NEW s \in Subs, NEW t \in Subs, Billing(s), Billing(t)
               PROVE  s = t
    BY DEF BilledOnce
  <2> QED BY QuietFacts DEF AgreeInv, Global, BillingFacts, Serves
<1> QED BY <1>1, AllAgree, CodeTypes, PTL

\* Once every event is applied, the row says "set to end" only of a subscription its gateway
\* will not renew.
THEOREM FlagIsTrue ==
  ASSUME NeverStripe
  PROVE  Spec => []CancelFlagIsTrue
<1>1. CodeTypeOK /\ (Orderly => AgreeInv) => CancelFlagIsTrue
  <2> SUFFICES ASSUME CodeTypeOK, AgreeInv, Quiet, row.isPro, row.cancelFlag
               PROVE  remote[row.subOf[row.provider]].atEnd
    BY DEF CancelFlagIsTrue
  <2> QED BY QuietFacts DEF AgreeInv, Global, FlagFacts, OnFile
<1> QED BY <1>1, AllAgree, CodeTypes, PTL

\* Only its own step moves a request on.
LEMMA MovesItself ==
  ASSUME CodeTypeOK, Step, NEW p \in Procs, reqs'[p] # reqs[p]
  PROVE  \/ Continue(p) \/ Sync(p) \/ Reconcile(p) \/ CancelStart(p)
         \/ \E s \in Subs : CheckoutStart(p, s) \/ StripeReturn(p, s)
         \/ \E e \in events : Receive(p, e)
<1>1. ASSUME NEW q \in Procs, NEW x, Goto(q, x) PROVE q = p
  BY <1>1, Moved
<1>2. ASSUME NEW q \in Procs, NEW s, NEW t, Fetch(q, s, t) PROVE q = p
  <2>1. PICK x : x = Fetched(s, remote[s], ReportedEnd(s), t) /\ Goto(q, x)
    BY <1>2 DEF Fetch
  <2> QED BY <1>1, <2>1
<1>3. ASSUME NEW q \in Procs, Continue(q) PROVE q = p
  <2>1. \E x : Goto(q, x)
    BY <1>3 DEF Continue, CheckoutRemember, StoredRead, PaymentsRead, RowRead,
         RowWrite, CancelDuplicate, CancelAtCycleEnd, MarkCancelled, FlagCancel, StopBilling,
         RestoreFlag, SyncFails
  <2> QED BY <1>1, <2>1
<1>4. ASSUME NEW q \in Procs, Sync(q) \/ Reconcile(q) \/ CancelStart(q) PROVE q = p
  <2>1. \E x : Goto(q, x)
    BY <1>4 DEF Sync, Reconcile, CancelStart, Fetch
  <2> QED BY <1>1, <2>1
<1>5. ASSUME NEW q \in Procs, NEW s \in Subs, CheckoutStart(q, s) \/ StripeReturn(q, s) PROVE q = p
  <2>1. \E x : Goto(q, x)
    BY <1>5 DEF CheckoutStart, StripeReturn, Fetch
  <2> QED BY <1>1, <2>1
<1>6. ASSUME NEW q \in Procs, NEW e \in events, Receive(q, e) PROVE q = p
  <2>1. (\E x : Goto(q, x)) \/ UNCHANGED reqs
    BY <1>6 DEF Receive, Webhook, WebhookFromCopy, InvoicePaymentFailed, Fetch
  <2> QED BY <1>1, <2>1
<1>7. ~Gateway /\ \A e \in events : ~LoseEvent(e)
  BY DEF Gateway, LoseEvent
<1>8. \A q \in Procs : ~ExpireCancelled(q) /\ ~GrantLifetime(q)
  BY DEF ExpireCancelled, GrantLifetime
<1> QED BY <1>3, <1>4, <1>5, <1>6, <1>7, <1>8 DEF Step

\* A duplicate is told only by a verdict.
LEMMA OnlyVerdictCancels ==
  ASSUME CodeTypeOK, Step, NEW p \in Procs, At(p, "apply"), reqs'[p].pc = "cancelDuplicate"
  PROVE  RowRead(p)
<1>1. reqs[p].pc = "apply" /\ reqs'[p] # reqs[p]
  BY DEF At
<1>2. /\ ~Sync(p) /\ ~Reconcile(p) /\ ~CancelStart(p)
      /\ \A s \in Subs : ~CheckoutStart(p, s) /\ ~StripeReturn(p, s)
      /\ \A e \in events : ~Receive(p, e)
  BY <1>1 DEF At, Sync, Reconcile, CancelStart, CheckoutStart,
              StripeReturn, Receive, Webhook, WebhookFromCopy, InvoicePaymentFailed
<1>3. Continue(p)
  BY <1>1, <1>2, MovesItself
<1> QED BY <1>1, <1>3 DEF Continue, At, CheckoutRemember, StoredRead, PaymentsRead, RowWrite,
           CancelDuplicate, CancelAtCycleEnd, MarkCancelled, FlagCancel, StopBilling, RestoreFlag,
           SyncFails

\* A subscription is cancelled as a duplicate only while another one is live, or paid up, or
\* news of it is on its way or in another request's hands, for such a buyer.
THEOREM DuplicateRuleIsSafe ==
  ASSUME NeverStripe
  PROVE  Spec => DuplicateLeavesOne
<1>1. CodeTypeOK /\ CodeTypeOK' /\ (Orderly => AgreeInv) /\ [Next]_vars =>
        [\A p \in Procs :
           Orderly' /\ At(p, "apply") /\ reqs'[p].pc = "cancelDuplicate" =>
             \E t \in Subs \ {reqs[p].sub} :
               \/ Live(t) \/ Promised(t)
               \/ \E e \in events : e.sub = t
               \/ \E q \in Procs :
                    reqs[q].pc \in {"stored", "payments", "apply", "write"} /\ reqs[q].sub = t]_vars
  <2> SUFFICES ASSUME CodeTypeOK, CodeTypeOK', Orderly => AgreeInv, Next, NEW p \in Procs, Orderly',
                      At(p, "apply"), reqs'[p].pc = "cancelDuplicate"
               PROVE  \E t \in Subs \ {reqs[p].sub} :
                        \/ Live(t) \/ Promised(t)
                        \/ \E e \in events : e.sub = t
                        \/ \E q \in Procs :
                             reqs[q].pc \in {"stored", "payments", "apply", "write"} /\ reqs[q].sub = t
    OBVIOUS
  <2> DEFINE s == reqs[p].sub
  <2>0. Step /\ Orderly /\ AgreeInv
    BY FaultsStay DEF Next, Orderly
  <2>1. /\ RowFacts /\ reqs[p].pc = "apply" /\ s \in Subs /\ row \in Row
        /\ GatewayTypeOK /\ G(s) \in Gateways /\ G(s) # "stripe"
    BY <2>0, FileTyped, RequestFields, RemoteTyped DEF At, CodeTypeOK, NeverStripe
  <2>2. Second(s)
    BY <2>0, OnlyVerdictCancels DEF RowRead, Goto, CodeTypeOK, Idle
  <2>3. Paying /\ OnFile # s
    BY <2>1, <2>2 DEF Second, OtherSame, OtherLive, RowFacts, OnFile, Row
  <2>4. OnFile \in Subs /\ OnFile \in charged
    BY <2>0, <2>3, FileTyped
  <2>5. \/ Live(OnFile) \/ Told(OnFile)
        \/ StopsAtOnce(OnFile) /\ remote[OnFile].atEnd
        \/ \E q \in Procs : Unpays(reqs[q], OnFile)
    BY <2>0, <2>3 DEF AgreeInv, Global, AccessFacts
  <2> QED BY <2>3, <2>4, <2>5 DEF Told, News, Reads, Unpays, Promised, StopsAtOnce
<1> QED BY <1>1, AllAgree, CodeTypes, PTL DEF Spec, DuplicateLeavesOne

\* Pro goes off in two places only.
LEMMA WhereProEnds ==
  ASSUME CodeTypeOK, Step, row.isPro, ~row'.isPro
  PROVE  \E p \in Procs : RowWrite(p) \/ ExpireCancelled(p)
<1>1. row \in Row /\ row' # row
  BY DEF CodeTypeOK
<1>2. \A s : [row EXCEPT !.subOf[G(s)] = s, !.provider = G(s)].isPro = row.isPro
  BY <1>1 DEF Row
<1>3. ~Gateway /\ ~\E e \in events : LoseEvent(e)
  BY <1>1 DEF Gateway, LoseEvent
<1>4. ASSUME NEW p \in Procs, Continue(p) PROVE RowWrite(p)
  <2>1. ~CheckoutRemember(p) /\ ~CancelDuplicate(p) /\ ~StoredRead(p) /\ ~PaymentsRead(p) /\ ~RowRead(p)
    BY <1>1, <1>2 DEF CheckoutRemember, CancelDuplicate, StoredRead, PaymentsRead, RowRead, Row
  <2>2. ~CancelAtCycleEnd(p) /\ ~MarkCancelled(p) /\ ~FlagCancel(p)
    BY <1>1 DEF CancelAtCycleEnd, MarkCancelled, FlagCancel, Row
  <2>3. ~StopBilling(p) /\ ~RestoreFlag(p) /\ ~SyncFails(p)
    BY <1>1 DEF StopBilling, RestoreFlag, SyncFails, Row
  <2> QED BY <1>4, <2>1, <2>2, <2>3 DEF Continue
<1>5. ASSUME NEW p \in Procs PROVE ~Sync(p) /\ ~Reconcile(p) /\ ~CancelStart(p) /\ ~GrantLifetime(p)
  BY <1>1 DEF Sync, Reconcile, CancelStart, GrantLifetime, Row
<1>6. ASSUME NEW p \in Procs, NEW s \in Subs PROVE ~CheckoutStart(p, s) /\ ~StripeReturn(p, s)
  BY <1>1 DEF CheckoutStart, StripeReturn, Row
<1>7. ASSUME NEW p \in Procs, NEW e \in events PROVE ~Receive(p, e)
  BY <1>1 DEF Receive, Webhook, WebhookFromCopy, InvoicePaymentFailed, Row
<1> QED BY <1>3, <1>4, <1>5, <1>6, <1>7 DEF Step

\* After the app's Cancel, Pro stays on until the end of the period paid for, for such a buyer.
THEOREM PaidPeriodIsKept ==
  ASSUME NeverStripe
  PROVE  Spec => CancelKeepsPaidPeriod
<1>1. CodeTypeOK /\ (Orderly => AgreeInv) /\ [Next]_vars =>
        [Orderly /\ row.isPro /\ ~row'.isPro =>
           \A s \in Subs : Promised(s) /\ row.subOf[G(s)] = s /\ row.provider = G(s) =>
             remote[s].periodEnd <= now \/ row.periodEnd <= now]_vars
  <2> SUFFICES ASSUME CodeTypeOK, AgreeInv, Next, row.isPro, ~row'.isPro,
                      NEW s \in Subs, Promised(s), row.subOf[G(s)] = s, row.provider = G(s)
               PROVE  row.periodEnd <= now
    OBVIOUS
  <2>1. PICK p \in Procs : RowWrite(p) \/ ExpireCancelled(p)
    BY WhereProEnds DEF Next
  <2>2. /\ RowFacts /\ RequestFacts(reqs[p]) /\ row \in Row /\ now \in Nat /\ OnFile = s
        /\ reqs[p] \in Request
    BY FileTyped, GatewaysAssumption DEF CodeTypeOK, GatewayTypeOK, OnFile, AgreeInv
  <2>3. CASE ExpireCancelled(p)
    BY <2>2, <2>3, GatewaysAssumption DEF ExpireCancelled, Row, Dates, Times
  <2>4. CASE RowWrite(p)
    <3> DEFINE w == reqs[p]
    <3>1. w.pc = "write" /\ WriteFacts(w) /\ w.patch \in Patch /\ w.sub \in Subs
      BY <2>2, <2>4, RequestFields DEF RowWrite, At, RequestFacts
    <3>2. ~w.patch.isPro
      BY <2>2, <2>4 DEF RowWrite, Applied, Row
    <3>3. Paying /\ w.patch.status \notin PAYING /\ w.sub = s
      BY <2>2, <3>1, <3>2 DEF WriteFacts, RowFacts
    <3>4. remote[s].atEnd /\ (StopsAtOnce(s) \/ Billing(s))
      BY DEF Promised, StopsAtOnce
    <3> QED BY <3>1, <3>3, <3>4 DEF WriteFacts
  <2> QED BY <2>1, <2>3, <2>4
<1> QED BY <1>1, AllAgree, CodeTypes, PTL DEF Spec, CancelKeepsPaidPeriod

-----------------------------------------------------------------------------
(* A lifetime purchase. *)

\* The purchase is never recorded between another request's reading of the row and its write.
GrantsBetweenWrites ==
  [][row'.lifetime # row.lifetime => \A q \in Procs : ~At(q, "write")]_vars

\* A lifetime buyer has Pro, and whoever is about to write the row knows of the purchase.
LifetimeInv ==
  /\ LifetimeKeepsPro
  /\ \A q \in Procs : reqs[q].pc = "write" /\ row.lifetime => reqs[q].patch.isPro

\* What one step does to the purchase, to Pro and to the verdicts about to be written.
LEMMA LifetimeChanges ==
  ASSUME CodeTypeOK, LifetimeInv, Next
  PROVE  /\ row'.lifetime => row'.isPro
         /\ \A q \in Procs : \/ reqs'[q] = reqs[q] \/ reqs'[q].pc # "write"
                             \/ row' = row /\ (row.lifetime => reqs'[q].patch.isPro)
<1>1. row \in Row /\ (row.lifetime => row.isPro)
  BY DEF CodeTypeOK, LifetimeInv, LifetimeKeepsPro
<1>2. ASSUME UNCHANGED row, NEW p \in Procs, NEW x, Goto(p, x),
             x.pc # "write" \/ (row.lifetime => x.patch.isPro)
      PROVE  /\ row'.lifetime => row'.isPro
             /\ \A q \in Procs : \/ reqs'[q] = reqs[q] \/ reqs'[q].pc # "write"
                                 \/ row' = row /\ (row.lifetime => reqs'[q].patch.isPro)
  BY <1>1, <1>2 DEF Goto, CodeTypeOK
<1>3. ASSUME NEW p \in Procs, NEW x, Goto(p, x), x.pc # "write", row'.lifetime => row'.isPro
      PROVE  /\ row'.lifetime => row'.isPro
             /\ \A q \in Procs : \/ reqs'[q] = reqs[q] \/ reqs'[q].pc # "write"
                                 \/ row' = row /\ (row.lifetime => reqs'[q].patch.isPro)
  BY <1>3 DEF Goto, CodeTypeOK
<1>4. Idle.pc # "write"
  BY DEF Idle
<1>5. CASE Gateway
  BY <1>1, <1>5 DEF Gateway
<1>6. ASSUME NEW p \in Procs, Continue(p)
      PROVE  /\ row'.lifetime => row'.isPro
             /\ \A q \in Procs : \/ reqs'[q] = reqs[q] \/ reqs'[q].pc # "write"
                                 \/ row' = row /\ (row.lifetime => reqs'[q].patch.isPro)
  <2>1. CASE CheckoutRemember(p)
    <3>1. row'.lifetime = row.lifetime /\ row'.isPro = row.isPro
      BY <1>1, <2>1 DEF CheckoutRemember, Row
    <3> QED BY <1>1, <1>3, <1>4, <2>1, <3>1 DEF CheckoutRemember
  <2>2. CASE StoredRead(p)
    <3>1. reqs[p] = [pc |-> reqs[p].pc, sub |-> reqs[p].sub, type |-> reqs[p].type,
                     status |-> reqs[p].status, periodEnd |-> reqs[p].periodEnd]
      BY <2>2, RequestFields DEF StoredRead, At, CodeTypeOK
    <3>2. PICK x : Goto(p, x) /\ x.pc \in {"payments", "apply"}
      BY <2>2, <3>1 DEF StoredRead, CashfreeApply
    <3> QED BY <1>2, <2>2, <3>2 DEF StoredRead
  <2>3. CASE PaymentsRead(p)
    <3>1. PICK x : Goto(p, x) /\ x.pc = "apply"
      BY <2>3 DEF PaymentsRead, CashfreeApply
    <3> QED BY <1>2, <2>3, <3>1 DEF PaymentsRead
  <2>4. CASE RowRead(p)
    <3>1. PICK x : Goto(p, x) /\ (x.pc = "write" => x.patch = PatchOf(reqs[p]))
      BY <2>4 DEF RowRead, Idle
    <3>2. row.lifetime => PatchOf(reqs[p]).isPro
      BY DEF PatchOf
    <3> QED BY <1>2, <2>4, <3>1, <3>2 DEF RowRead
  <2>5. CASE RowWrite(p)
    <3>1. row'.lifetime = row.lifetime /\ row'.isPro = reqs[p].patch.isPro
      BY <1>1, <2>5 DEF RowWrite, Applied, Row
    <3> QED BY <1>3, <1>4, <2>5, <3>1 DEF RowWrite, LifetimeInv, At
  <2>6. CASE CancelDuplicate(p)
    BY <1>2, <1>4, <2>6 DEF CancelDuplicate
  <2>7. CASE CancelAtCycleEnd(p)
    <3>1. PICK x : Goto(p, x) /\ x.pc \in {"mark", "resync", "idle"}
      BY <2>7 DEF CancelAtCycleEnd, Idle
    <3> QED BY <1>2, <2>7, <3>1 DEF CancelAtCycleEnd
  <2>8. CASE MarkCancelled(p) \/ FlagCancel(p) \/ RestoreFlag(p)
    <3>1. row'.lifetime = row.lifetime /\ row'.isPro = row.isPro
      BY <1>1, <2>8 DEF MarkCancelled, FlagCancel, RestoreFlag, Row
    <3>2. PICK x : Goto(p, x) /\ x.pc \in {"stop", "resync", "idle"}
      BY <2>8 DEF MarkCancelled, FlagCancel, RestoreFlag, Idle
    <3> QED BY <1>1, <1>3, <3>1, <3>2
  <2>9. CASE StopBilling(p)
    <3>1. PICK x : Goto(p, x) /\ x.pc \in {"restore", "idle"}
      BY <2>9 DEF StopBilling, Idle
    <3> QED BY <1>2, <2>9, <3>1 DEF StopBilling
  <2>10. CASE SyncFails(p)
    BY <1>2, <1>4, <2>10 DEF SyncFails
  <2> QED BY <1>6, <2>1, <2>2, <2>3, <2>4, <2>5, <2>6, <2>7, <2>8, <2>9, <2>10 DEF Continue
<1>7. ASSUME NEW s, NEW r, NEW d, NEW t PROVE Fetched(s, r, d, t).pc # "write"
  BY DEF Fetched
<1>8. ASSUME NEW p \in Procs, Sync(p) \/ Reconcile(p)
      PROVE  /\ row'.lifetime => row'.isPro
             /\ \A q \in Procs : \/ reqs'[q] = reqs[q] \/ reqs'[q].pc # "write"
                                 \/ row' = row /\ (row.lifetime => reqs'[q].patch.isPro)
  <2>1. PICK s : Fetch(p, s, "sync")
    BY <1>8 DEF Sync, Reconcile
  <2> QED BY <1>2, <1>7, <1>8, <2>1 DEF Sync, Reconcile, Fetch
<1>9. ASSUME NEW p \in Procs, CancelStart(p)
      PROVE  /\ row'.lifetime => row'.isPro
             /\ \A q \in Procs : \/ reqs'[q] = reqs[q] \/ reqs'[q].pc # "write"
                                 \/ row' = row /\ (row.lifetime => reqs'[q].patch.isPro)
  <2>1. PICK x : Goto(p, x) /\ x.pc \in {"cancelAtCycleEnd", "flag"}
    BY <1>9 DEF CancelStart
  <2> QED BY <1>2, <1>9, <2>1 DEF CancelStart
<1>10. ASSUME NEW p \in Procs, ExpireCancelled(p) \/ GrantLifetime(p)
       PROVE  UNCHANGED reqs /\ (row'.lifetime => row'.isPro)
  BY <1>1, <1>10 DEF ExpireCancelled, GrantLifetime, Row
<1>11. ASSUME NEW p \in Procs, NEW s \in Subs, CheckoutStart(p, s) \/ StripeReturn(p, s)
       PROVE  /\ row'.lifetime => row'.isPro
              /\ \A q \in Procs : \/ reqs'[q] = reqs[q] \/ reqs'[q].pc # "write"
                                  \/ row' = row /\ (row.lifetime => reqs'[q].patch.isPro)
  BY <1>2, <1>7, <1>11 DEF CheckoutStart, StripeReturn, Fetch
<1>12. ASSUME NEW p \in Procs, NEW e \in events, Receive(p, e)
       PROVE  /\ row'.lifetime => row'.isPro
              /\ \A q \in Procs : \/ reqs'[q] = reqs[q] \/ reqs'[q].pc # "write"
                                  \/ row' = row /\ (row.lifetime => reqs'[q].patch.isPro)
  <2>1. CASE InvoicePaymentFailed(p, e)
    BY <1>1, <2>1 DEF InvoicePaymentFailed, Row
  <2>2. CASE Webhook(p, e) \/ WebhookFromCopy(p, e)
    BY <1>2, <1>7, <2>2 DEF Webhook, WebhookFromCopy, Fetch
  <2> QED BY <1>12, <2>1, <2>2 DEF Receive
<1>13. ASSUME NEW e \in events, LoseEvent(e) PROVE UNCHANGED <<row, reqs>>
  BY <1>13 DEF LoseEvent
<1> QED BY <1>1, <1>5, <1>6, <1>8, <1>9, <1>10, <1>11, <1>12, <1>13 DEF Next, Step

\* LifetimeInv is inductive as long as the purchase does not land between a read and its write.
LEMMA LifetimeStep ==
  ASSUME CodeTypeOK, LifetimeInv, [Next]_vars,
         [row'.lifetime # row.lifetime => \A q \in Procs : ~At(q, "write")]_vars
  PROVE  LifetimeInv'
<1>1. CASE UNCHANGED vars
  BY <1>1 DEF vars, codeVars, LifetimeInv, LifetimeKeepsPro
<1>2. CASE Next /\ ~UNCHANGED vars
  <2>1. row'.lifetime = row.lifetime \/ \A q \in Procs : ~At(q, "write")
    BY <1>2
  <2>2. LifetimeKeepsPro'
    BY <1>2, LifetimeChanges DEF LifetimeKeepsPro
  <2>3. ASSUME NEW q \in Procs, reqs'[q].pc = "write", row'.lifetime PROVE reqs'[q].patch.isPro
    BY <1>2, <2>1, <2>3, LifetimeChanges DEF LifetimeInv, At
  <2> QED BY <2>2, <2>3 DEF LifetimeInv
<1> QED BY <1>1, <1>2

\* A lifetime buyer never loses Pro, with any gateways, failures and overlapping requests, unless
\* the purchase is recorded between another request's read of the row and its write.
THEOREM LifetimeLasts == Spec /\ GrantsBetweenWrites => []LifetimeKeepsPro
<1>1. Init => LifetimeInv
  BY DEF Init, LifetimeInv, LifetimeKeepsPro, Idle
<1>2. CodeTypeOK /\ LifetimeInv /\ [Next]_vars
        /\ [row'.lifetime # row.lifetime => \A q \in Procs : ~At(q, "write")]_vars => LifetimeInv'
  BY LifetimeStep
<1>3. LifetimeInv => LifetimeKeepsPro
  BY DEF LifetimeInv
<1> QED BY <1>1, <1>2, <1>3, CodeTypes, PTL DEF Spec, GrantsBetweenWrites
=============================================================================
