------------------------------- MODULE Billing -------------------------------
(* One buyer's billing columns and every request that reads or writes them:     *)
(* checkout, webhook, sync, reconciliation, in-app cancel and the expiry job.    *)
(* A request is a row of `reqs`; each await in the code that others can come     *)
(* between is the boundary of a step. Requests of different Procs interleave.    *)
EXTENDS PaymentGateways

CONSTANTS
  Procs,     \* requests that can be in flight at the same time
  Legacy     \* whether a one-time lifetime checkout may still complete

ASSUME LegacyAssumption == Legacy \in BOOLEAN

VARIABLES
  row,   \* the buyer's row of the User table
  reqs,  \* reqs[p]: what request p has read and is about to do
  faults,
  crossed  \* history: whether two requests have crossed each other (Crosses)

codeVars == <<remote, charged, events, now, row, reqs, faults>>
vars == <<codeVars, crossed>>
gatewayVars == <<remote, charged, events, now>>

Row ==
  [isPro : BOOLEAN, lifetime : BOOLEAN, provider : Gateways \cup {None},
   status : StoredStatus \cup {None}, subOf : [Gateways -> Subs \cup {None}],
   cancelFlag : BOOLEAN, periodEnd : Dates]

Patch ==
  [status : StoredStatus, periodEnd : Dates, cancelFlag : BOOLEAN, isPro : BOOLEAN]

Idle == [pc |-> "idle"]

Request ==
  {Idle}
    \cup [pc : {"remember"}, sub : Subs]
    \cup [pc : {"stored", "payments"}, sub : Subs, type : EventTypes \cup {"sync"},
          status : CashfreeStatus, periodEnd : Dates]
    \cup [pc : {"apply"}, sub : Subs, state : GatewayState, periodEnd : Dates, atEnd : BOOLEAN]
    \cup [pc : {"write"}, sub : Subs, patch : Patch]
    \cup [pc : {"cancelDuplicate"}, sub : Subs]
    \cup [pc : {"cancelAtCycleEnd", "mark"}, sub : Subs]
    \cup [pc : {"flag"}, sub : Subs, until : Dates, snapshot : Dates]
    \cup [pc : {"stop"}, sub : Subs, snapshot : Dates]
    \cup [pc : {"restore"}, sub : Subs, snapshot : Dates, resync : BOOLEAN]
    \cup [pc : {"resync"}, gateway : Gateways]

CodeTypeOK ==
  /\ GatewayTypeOK
  /\ row \in Row
  /\ reqs \in [Procs -> Request]
  /\ faults \in 0 .. MaxFaults

TypeOK == CodeTypeOK /\ crossed \in BOOLEAN

At(p, pc) == reqs[p].pc = pc
Goto(p, r) == reqs' = [reqs EXCEPT ![p] = r]
Fault == faults < MaxFaults /\ faults' = faults + 1

Paying == row.status \in PAYING

-----------------------------------------------------------------------------
(* Checkout. A new subscription is created at the gateway and its id is         *)
(* remembered on the row; nobody can see it there before the URL is returned,   *)
(* so the creation is part of the step that remembers it. PayPal's request id   *)
(* makes a repeated checkout return the subscription it made before; Stripe     *)
(* writes nothing until it is told of a payment.                                *)
CheckoutStart(p, s) ==
  /\ At(p, "idle") /\ ~row.isPro
  /\ \/ remote[s] = Absent /\ \A q \in Procs : reqs[q] # [pc |-> "remember", sub |-> s]
     \/ G(s) = "paypal" /\ remote[s].status = "APPROVAL_PENDING"
  /\ Goto(p, [pc |-> "remember", sub |-> s])
  /\ UNCHANGED <<gatewayVars, row, faults>>

CheckoutRemember(p) ==
  /\ At(p, "remember")
  /\ LET s == reqs[p].sub IN
       /\ remote' = IF remote[s] = Absent
                    THEN [remote EXCEPT ![s].status = InitialStatus[G(s)]] ELSE remote
       /\ row' = IF G(s) = "stripe" THEN row
                 ELSE [row EXCEPT !.subOf[G(s)] = s, !.provider = G(s)]
  /\ Goto(p, Idle)
  /\ UNCHANGED <<charged, events, now, faults>>

-----------------------------------------------------------------------------
(* Reading the gateway. Every path ends in the same apply: a webhook, the buyer *)
(* coming back (sync, or Stripe's success redirect), and the reconciliation.    *)
StateOf(s, status) ==
  CASE G(s) = "stripe" -> StripeState(status)
    [] G(s) = "razorpay" -> RazorpayState(status)
    [] OTHER -> PaypalState(status)

Fetched(s, r, end, type) ==
  IF G(s) = "cashfree"
  THEN [pc |-> "stored", sub |-> s, type |-> type, status |-> r.status, periodEnd |-> end]
  ELSE [pc |-> "apply", sub |-> s, state |-> StateOf(s, r.status), periodEnd |-> end,
        atEnd |-> r.atEnd]

Fetch(p, s, type) ==
  /\ s # None /\ Exists(s)
  /\ Goto(p, Fetched(s, remote[s], ReportedEnd(s), type))

\* A webhook whose read of the live subscription succeeds. (When it fails the ledger row is
\* deleted and the gateway sends the event again: nothing here changes.)
Webhook(p, e) ==
  /\ At(p, "idle") /\ e.type # "invoice_failed"
  /\ Fetch(p, e.sub, e.type)
  /\ events' = events \ {e}
  /\ UNCHANGED <<remote, charged, now, row, faults>>

\* Razorpay cannot be reached: the event's own copy stands.
WebhookFromCopy(p, e) ==
  /\ At(p, "idle") /\ G(e.sub) = "razorpay" /\ Fault
  /\ Goto(p, Fetched(e.sub, e.copy, e.copy.periodEnd, e.type))
  /\ events' = events \ {e}
  /\ UNCHANGED <<remote, charged, now, row>>

\* Stripe's invoice.payment_failed: the status alone, in one statement, without a read.
InvoicePaymentFailed(p, e) ==
  /\ At(p, "idle") /\ e.type = "invoice_failed"
  /\ row' = IF row.subOf["stripe"] = e.sub THEN [row EXCEPT !.status = "past_due"] ELSE row
  /\ events' = events \ {e}
  /\ UNCHANGED <<remote, charged, now, reqs, faults>>

LoseEvent(e) ==
  /\ Fault
  /\ events' = events \ {e}
  /\ UNCHANGED <<remote, charged, now, row, reqs>>

\* sync: the gateway is asked about the subscription on file.
Sync(p) ==
  /\ \/ /\ At(p, "idle") /\ row.provider \notin {None, "stripe"}
        /\ Fetch(p, row.subOf[row.provider], "sync")
     \/ /\ At(p, "resync") /\ Fetch(p, row.subOf[reqs[p].gateway], "sync")
  /\ UNCHANGED <<gatewayVars, row, faults>>

\* reconcileSession: the buyer returns from Stripe with the id of a session that was paid.
StripeReturn(p, s) ==
  /\ At(p, "idle") /\ G(s) = "stripe" /\ s \in charged
  /\ Fetch(p, s, "sync")
  /\ UNCHANGED <<gatewayVars, row, faults>>

\* The gateway cannot be read: the request gives up and nothing is applied.
SyncFails(p) ==
  /\ At(p, "resync") /\ Fault /\ Goto(p, Idle)
  /\ UNCHANGED <<gatewayVars, row>>

\* Seeded fault: only a failed charge is looked into.
StalePastDue ==
  row.isPro /\ row.provider # None /\ row.status = "past_due" /\ row.periodEnd # None

Stale ==
  /\ row.isPro /\ ~row.lifetime /\ row.provider # None /\ ~row.cancelFlag
  /\ row.status \in {"active", "past_due", "trialing"}
  /\ row.periodEnd # None /\ row.periodEnd < now

\* reconcileStaleSubscriptions, from the six-hourly job.
Reconcile(p) ==
  /\ At(p, "idle") /\ Stale
  /\ Fetch(p, row.subOf[row.provider], "sync")
  /\ UNCHANGED <<gatewayVars, row, faults>>

-----------------------------------------------------------------------------
(* Cashfree: an ACTIVE mandate is not a payment. The row is read for "already   *)
(* paying on this one"; without that, or a signed success, the payment list.    *)
CashfreeApply(r, evidence, known) ==
  [pc |-> "apply", sub |-> r.sub,
   state |-> CashfreeState(r.status, evidence, known, r.type = "failed"),
   periodEnd |-> r.periodEnd, atEnd |-> FALSE]

StoredRead(p) ==
  /\ At(p, "stored")
  /\ LET r == reqs[p]
         known == row.subOf["cashfree"] = r.sub /\ Paying
         signed == r.type = "success"
     IN Goto(p, IF r.status = "ACTIVE" /\ ~signed /\ ~known
                THEN [r EXCEPT !.pc = "payments"]
                ELSE CashfreeApply(r, signed, known))
  /\ UNCHANGED <<gatewayVars, row, faults>>

PaymentsRead(p) ==
  /\ At(p, "payments")
  /\ \/ Goto(p, CashfreeApply(reqs[p], reqs[p].sub \in charged, FALSE)) /\ UNCHANGED faults
     \/ Goto(p, CashfreeApply(reqs[p], FALSE, FALSE)) /\ Fault
  /\ UNCHANGED <<gatewayVars, row>>

-----------------------------------------------------------------------------
(* applyGatewayState, and Stripe's applySubscription, which differs in three    *)
(* places: a duplicate on Stripe needs Stripe to be the provider, the period    *)
(* end and the cancel flag come from the subscription alone, and a cancelled    *)
(* subscription is never honoured further.                                      *)
OtherSame(s) == row.subOf[G(s)] \notin {None, s}
OtherLive(s) == row.provider \notin {None, G(s)} /\ Paying

\* Seeded faults: a duplicate at another gateway only; of one not paid.
SecondElsewhere(s) == OtherLive(s)
SecondUnpaid(s) == OtherSame(s) \/ OtherLive(s)

Second(s) ==
  \/ OtherSame(s) /\ Paying /\ (G(s) = "stripe" => row.provider = "stripe")
  \/ OtherLive(s)

\* Seeded fault: every ended event is too late.
TooLateAlways(s, state) == state.ended

TooLate(s, state) == state.ended /\ ~state.paid /\ (OtherSame(s) \/ OtherLive(s))

\* Seeded fault: a cancelled subscription is never honoured further.
PaidUntilNeverRunning(s, state) == FALSE

PaidUntilStillRunning(s, state) ==
  /\ G(s) \in {"paypal", "cashfree"} /\ state.ended /\ row.cancelFlag
  /\ row.periodEnd # None /\ row.periodEnd > now

\* Seeded faults: the cancel flag outlives the subscription; lifetime is forgotten.
PatchOfKeepingFlag(r) ==
  [status |-> r.state.status, periodEnd |-> r.periodEnd, cancelFlag |-> row.cancelFlag,
   isPro |-> row.lifetime \/ r.state.paid]
PatchOfForgettingLifetime(r) ==
  [status |-> r.state.status, periodEnd |-> r.periodEnd, cancelFlag |-> FALSE,
   isPro |-> r.state.paid]

PatchOf(r) ==
  LET running == PaidUntilStillRunning(r.sub, r.state)
      paid == r.state.paid \/ running
      ended == r.state.ended /\ ~running
      onStripe == G(r.sub) = "stripe"
  IN [status |-> IF running THEN "active" ELSE r.state.status,
      periodEnd |-> IF onStripe \/ r.periodEnd # None THEN r.periodEnd ELSE row.periodEnd,
      cancelFlag |-> IF onStripe THEN ~ended /\ r.atEnd ELSE ~ended /\ paid /\ row.cancelFlag,
      isPro |-> row.lifetime \/ paid]

\* The row is read and the verdict reached.
RowRead(p) ==
  /\ At(p, "apply")
  /\ LET r == reqs[p] IN
       Goto(p, CASE TooLate(r.sub, r.state) -> Idle
                 [] ~TooLate(r.sub, r.state) /\ Second(r.sub) ->
                      IF r.state.paid \/ r.state.inFlight
                      THEN [pc |-> "cancelDuplicate", sub |-> r.sub] ELSE Idle
                 [] OTHER -> [pc |-> "write", sub |-> r.sub, patch |-> PatchOf(r)])
  /\ UNCHANGED <<gatewayVars, row, faults>>

Applied(s, patch) ==
  [row EXCEPT !.subOf[G(s)] = s, !.provider = G(s), !.status = patch.status,
              !.periodEnd = patch.periodEnd, !.cancelFlag = patch.cancelFlag,
              !.isPro = patch.isPro]

RowWrite(p) ==
  /\ At(p, "write")
  /\ row' = Applied(reqs[p].sub, reqs[p].patch)
  /\ Goto(p, Idle)
  /\ UNCHANGED <<gatewayVars, faults>>

\* The gateway's answer to "cancel this now". It refuses one that is over, and PayPal one
\* the buyer has not approved; cancelDuplicate swallows the refusal.
Cancellable(s) == Exists(s) /\ ~Over(s) /\ remote[s].status # "APPROVAL_PENDING"
StoppedAt(s) == [remote[s] EXCEPT !.status = CancelledStatus[G(s)]]

CancelDuplicate(p) ==
  /\ At(p, "cancelDuplicate")
  /\ LET s == reqs[p].sub IN
       \/ Cancellable(s) /\ Becomes(s, StoppedAt(s), {"status"}) /\ UNCHANGED faults
       \/ ~Cancellable(s) /\ UNCHANGED <<remote, events, faults>>
       \/ Fault /\ UNCHANGED <<remote, events>>
  /\ Goto(p, Idle)
  /\ UNCHANGED <<charged, now, row>>

-----------------------------------------------------------------------------
(* The in-app Cancel button. Razorpay: the gateway is told to end the           *)
(* subscription with its cycle, then the flag is written. PayPal and Cashfree   *)
(* stop at once, so the flag and the date come first and are put back when the  *)
(* gateway refuses or cannot be reached.                                        *)
CancelStart(p) ==
  /\ At(p, "idle") /\ row.provider \in {"razorpay", "paypal", "cashfree"}
  /\ row.subOf[row.provider] # None /\ Paying /\ ~row.cancelFlag
  /\ LET s == row.subOf[row.provider]
         FlagUntil(d) == [pc |-> "flag", sub |-> s, snapshot |-> row.periodEnd,
                          until |-> IF d = None THEN row.periodEnd ELSE d]
     IN \/ /\ row.provider = "razorpay"
           /\ Goto(p, [pc |-> "cancelAtCycleEnd", sub |-> s]) /\ UNCHANGED faults
        \/ /\ row.provider # "razorpay"
           /\ \/ Goto(p, FlagUntil(ReportedEnd(s))) /\ UNCHANGED faults
              \/ Goto(p, FlagUntil(None)) /\ Fault
  /\ UNCHANGED <<gatewayVars, row>>

CancelAtCycleEnd(p) ==
  /\ At(p, "cancelAtCycleEnd")
  /\ LET s == reqs[p].sub
         told == [remote EXCEPT ![s].atEnd = TRUE]
     IN \/ ~Over(s) /\ remote' = told /\ Goto(p, [pc |-> "mark", sub |-> s]) /\ UNCHANGED faults
        \/ /\ Over(s) /\ UNCHANGED <<remote, faults>>
           /\ Goto(p, [pc |-> "resync", gateway |-> "razorpay"])
        \/ /\ Fault /\ Goto(p, Idle)
           /\ \/ ~Over(s) /\ remote' = told
              \/ UNCHANGED remote
  /\ UNCHANGED <<charged, events, now, row>>

MarkCancelled(p) ==
  /\ At(p, "mark")
  /\ row' = [row EXCEPT !.cancelFlag = TRUE]
  /\ Goto(p, Idle)
  /\ UNCHANGED <<gatewayVars, faults>>

FlagCancel(p) ==
  /\ At(p, "flag")
  /\ row' = [row EXCEPT !.cancelFlag = TRUE,
                        !.periodEnd = IF reqs[p].until = None THEN now ELSE reqs[p].until]
  /\ Goto(p, [pc |-> "stop", sub |-> reqs[p].sub, snapshot |-> reqs[p].snapshot])
  /\ UNCHANGED <<gatewayVars, faults>>

StopBilling(p) ==
  /\ At(p, "stop")
  /\ LET s == reqs[p].sub
         stopped == Becomes(s, [StoppedAt(s) EXCEPT !.atEnd = TRUE], {"status"})
         PutBack(resync) == [pc |-> "restore", sub |-> s, snapshot |-> reqs[p].snapshot,
                             resync |-> resync]
     IN \/ Cancellable(s) /\ stopped /\ Goto(p, Idle) /\ UNCHANGED faults
        \/ ~Cancellable(s) /\ Goto(p, PutBack(TRUE)) /\ UNCHANGED <<remote, events, faults>>
        \/ /\ Fault /\ Goto(p, PutBack(FALSE))
           /\ \/ Cancellable(s) /\ stopped
              \/ UNCHANGED <<remote, events>>
  /\ UNCHANGED <<charged, now, row>>

RestoreFlag(p) ==
  /\ At(p, "restore")
  /\ row' = [row EXCEPT !.cancelFlag = FALSE, !.periodEnd = reqs[p].snapshot]
  /\ Goto(p, IF reqs[p].resync THEN [pc |-> "resync", gateway |-> G(reqs[p].sub)] ELSE Idle)
  /\ UNCHANGED <<gatewayVars, faults>>

-----------------------------------------------------------------------------
\* expireCancelledSubscriptions: the condition is part of the update itself.
ExpireCancelled(p) ==
  /\ At(p, "idle")
  /\ row.isPro /\ ~row.lifetime /\ row.cancelFlag /\ row.provider \in {"paypal", "cashfree"}
  /\ row.periodEnd # None /\ row.periodEnd < now
  /\ row' = [row EXCEPT !.isPro = FALSE, !.status = "canceled", !.cancelFlag = FALSE]
  /\ UNCHANGED <<gatewayVars, reqs, faults>>

\* A `payment`-mode Checkout Session from before subscriptions completes late.
GrantLifetime(p) ==
  /\ At(p, "idle") /\ Legacy /\ ~row.lifetime
  /\ row' = [row EXCEPT !.isPro = TRUE, !.lifetime = TRUE]
  /\ UNCHANGED <<gatewayVars, reqs, faults>>

-----------------------------------------------------------------------------
Init ==
  /\ GatewayInit
  /\ row = [isPro |-> FALSE, lifetime |-> FALSE, provider |-> None, status |-> None,
            subOf |-> [g \in Gateways |-> None], cancelFlag |-> FALSE, periodEnd |-> None]
  /\ reqs = [p \in Procs |-> Idle]
  /\ faults = 0
  /\ crossed = FALSE

\* A step of a request that is already in flight.
Continue(p) ==
  \/ CheckoutRemember(p) \/ StoredRead(p) \/ PaymentsRead(p) \/ RowRead(p) \/ RowWrite(p)
  \/ CancelDuplicate(p) \/ CancelAtCycleEnd(p) \/ MarkCancelled(p) \/ FlagCancel(p)
  \/ StopBilling(p) \/ RestoreFlag(p) \/ SyncFails(p)

Receive(p, e) == Webhook(p, e) \/ WebhookFromCopy(p, e) \/ InvoicePaymentFailed(p, e)

Gateway == GatewayNext /\ UNCHANGED <<row, reqs, faults>>

Step ==
  \/ Gateway
  \/ \E p \in Procs :
       \/ Continue(p) \/ Sync(p) \/ Reconcile(p) \/ CancelStart(p)
       \/ ExpireCancelled(p) \/ GrantLifetime(p)
       \/ \E s \in Subs : CheckoutStart(p, s) \/ StripeReturn(p, s)
       \/ \E e \in events : Receive(p, e)
  \/ \E e \in events : LoseEvent(e)

(* Nothing in the code keeps one buyer's requests apart. History only, so that   *)
(* a property can name the overlaps it does not survive: a request is caught     *)
(* between its reading and its writing when another one writes the row it goes   *)
(* by, changes at the gateway the subscription it is about, or reaches its       *)
(* verdict on that subscription by a different answer of the gateway.            *)
Cancels(r) == r.pc \in {"cancelAtCycleEnd", "mark", "flag", "stop", "restore"}
About(r) == r.pc \in {"stored", "payments", "apply", "write"} \/ Cancels(r)
GoesByRow(r) ==
  r.pc \in {"remember", "write"} \/ Cancels(r) \/ (r.pc = "apply" /\ G(r.sub) = "cashfree")

Crosses ==
  \E q \in Procs :
    /\ reqs'[q] = reqs[q]
    /\ \/ GoesByRow(reqs[q]) /\ row' # row
       \/ /\ About(reqs[q])
          /\ \/ reqs' # reqs /\ remote'[reqs[q].sub] # remote[reqs[q].sub]
             \/ \E p \in Procs :
                  /\ At(p, "apply") /\ reqs'[p] # reqs[p]
                  /\ reqs[p].sub = reqs[q].sub /\ reqs[p] # reqs[q]

Next == Step /\ crossed' = (crossed \/ Crosses)

Spec == Init /\ [][Next]_vars

\* A handler that was started runs on; the gateways deliver what is not lost; the job runs
\* every six hours. Strong, because another request may take the slot each time it is free, and
\* the number of slots is the model's bound, not the server's.
Fairness ==
  /\ \A p \in Procs : WF_codeVars(Continue(p) \/ (At(p, "resync") /\ Sync(p)))
  /\ SF_codeVars(\E p \in Procs, e \in events : Receive(p, e))
  /\ SF_codeVars(\E p \in Procs : Reconcile(p))
  /\ SF_codeVars(\E p \in Procs : ExpireCancelled(p))
  /\ WF_codeVars(Tick /\ UNCHANGED <<row, reqs, faults>>)

FairSpec == Spec /\ Fairness

-----------------------------------------------------------------------------
(* Properties. *)

\* No call has failed, no event has been lost and no two requests have crossed.
Orderly == faults = 0 /\ ~crossed

\* Every event is applied and no request is in flight.
Quiet == events = {} /\ \A p \in Procs : reqs[p] = Idle

\* The buyer stopped s with the app's Cancel (or Stripe's portal) and was promised Pro to its end.
Promised(s) ==
  /\ remote[s].atEnd /\ s \in charged
  /\ G(s) \in {"paypal", "cashfree"} \/ Billing(s)

\* Nobody has access before paying (subscriptionState.js, applyGatewayState): Pro means a
\* gateway has taken money at least once, or the lifetime upgrade was bought.
NoAccessBeforePaying == row.isPro => row.lifetime \/ charged # {}

(* Why NoAccessBeforePaying holds: every piece of state that can turn Pro on    *)
(* goes back to a charge. It needs one exclusion. Stripe's invoice events store *)
(* "past_due" for a subscription nobody has paid, and what PayPal and Cashfree  *)
(* answer is read in the light of the row: so a buyer who uses Stripe and one   *)
(* of these is left out. Stripe and Razorpay are believed on their own word.    *)
OwnWord == \A s \in Subs : G(s) \in {"stripe", "razorpay"}
NeverStripe == \A s \in Subs : G(s) # "stripe"

SomePaid == charged # {}
PayingFor == SomePaid \/ ~NeverStripe

PaidAtGateway(s, r) ==
  \/ G(s) = "stripe" /\ r.status \in ACTIVE_SUBSCRIPTION_STATUSES
  \/ G(s) = "razorpay" /\ r.status \in {"active", "pending"}
  \/ G(s) = "paypal" /\ r.status \in {"ACTIVE", "ACTIVE_FAILING"}

RequestBacked(r) ==
  /\ r.pc \in {"stored", "payments"} =>
       G(r.sub) = "cashfree" /\ (r.type = "success" => SomePaid)
  /\ r.pc = "apply" => (r.state.paid \/ r.state.status \in PAYING => SomePaid)
  /\ r.pc = "write" =>
       /\ r.patch.isPro => row.lifetime \/ SomePaid
       /\ r.patch.status \in PAYING => SomePaid
       /\ r.patch.cancelFlag => PayingFor
  /\ r.pc \in {"cancelAtCycleEnd", "mark", "flag", "stop"} => PayingFor

RowBacked ==
  /\ NoAccessBeforePaying
  /\ Paying => PayingFor
  /\ row.cancelFlag => PayingFor
GatewaysBacked == \A s \in Subs : PaidAtGateway(s, remote[s]) => SomePaid
EventBacked(e) ==
  /\ e.type = "success" => SomePaid
  /\ e.type = "invoice_failed" => G(e.sub) = "stripe"
  /\ G(e.sub) = "razorpay" /\ PaidAtGateway(e.sub, e.copy) => SomePaid

\* Every source of access is backed by a charge: the row, what the gateways say, what their
\* events say and what each request has read. Inductive, and implies NoAccessBeforePaying,
\* for a buyer of Stripe and Razorpay, or of gateways other than Stripe.
PaidForInv ==
  /\ RowBacked
  /\ GatewaysBacked
  /\ \A e \in events : EventBacked(e)
  /\ \A p \in Procs : RequestBacked(reqs[p])

\* Once every event is applied, Pro is on only for a subscription that is live, or for the
\* rest of a period the buyer paid for before cancelling: whatever order the events of two
\* subscriptions come in and however many requests are in flight, as long as none cross.
AccessNeedsSubscription ==
  Orderly /\ Quiet /\ row.isPro /\ ~row.lifetime =>
    \E s \in Subs : Live(s) \/ (row.cancelFlag /\ row.subOf[row.provider] = s /\ Promised(s))

\* Once every event is applied, a buyer who is being billed has Pro (with the same exceptions).
BillingGivesAccess ==
  Orderly /\ Quiet /\ (\E s \in Subs : Billing(s)) => row.isPro

\* Once every event is applied, at most one subscription bills the buyer: the second of a
\* double-click that both got paid, or of two gateways, has been cancelled (with the same
\* exceptions).
BilledOnce ==
  Orderly /\ Quiet => \A s, t \in Subs : Billing(s) /\ Billing(t) => s = t

\* A subscriber's row says "set to end" only of a subscription its gateway will not renew,
\* once every event is applied (with the same exceptions).
CancelFlagIsTrue ==
  Orderly /\ Quiet /\ row.isPro /\ row.cancelFlag => remote[row.subOf[row.provider]].atEnd

\* A lifetime buyer never loses Pro.
LifetimeKeepsPro == row.lifetime => row.isPro

\* A subscription is cancelled as a duplicate only while another one is live, or was until
\* news of its end that is on its way or in another request's hands: the buyer is never left
\* with nothing, unless two requests cross.
DuplicateLeavesOne ==
  [][\A p \in Procs :
       Orderly' /\ At(p, "apply") /\ reqs'[p].pc = "cancelDuplicate" =>
         \E t \in Subs \ {reqs[p].sub} :
           \/ Live(t) \/ Promised(t)
           \/ \E e \in events : e.sub = t
           \/ \E q \in Procs :
                reqs[q].pc \in {"stored", "payments", "apply", "write"} /\ reqs[q].sub = t]_vars

\* After the app's Cancel, Pro stays on until the end of the period already paid for, which is
\* the date on the row, unless a call failed or two requests crossed before. (The one renewal
\* this leaves out is charged between the app's reading of that date and its cancel call.)
CancelKeepsPaidPeriod ==
  [][Orderly /\ row.isPro /\ ~row'.isPro =>
       \A s \in Subs : Promised(s) /\ row.subOf[G(s)] = s /\ row.provider = G(s) =>
         remote[s].periodEnd <= now \/ row.periodEnd <= now]_vars

\* When nothing bills the buyer any more, Pro ends: by the event, or by the six-hourly job
\* when the event was lost.
AccessEnds ==
  <>[](\A s \in Subs : ~Live(s)) => <>[](~row.isPro \/ row.lifetime)

\* A buyer who goes on being billed gets Pro and keeps it, as long as no event is lost and
\* the gateways answer.
PayingIsServed ==
  [](faults = 0) /\ <>[](\E s \in Subs : Billing(s)) => <>[]row.isPro
=============================================================================
