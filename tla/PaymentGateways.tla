--------------------------- MODULE PaymentGateways ---------------------------
(* The world outside the server: one buyer's subscriptions as Stripe, Razorpay, *)
(* PayPal and Cashfree hold them, the money they have taken, the events they    *)
(* have sent and the server has not yet received, and the clock. All of it is   *)
(* external: it is modelled from how src/src/services reads and calls it.       *)
EXTENDS GatewayStatus, Naturals

CONSTANTS
  Subs,      \* subscription ids the buyer may end up with
  GatewayOf, \* the gateway each of them is made at
  None,      \* null
  MaxTime,   \* bound on the clock; one unit is one billing period
  LastCharge,\* bound: charges are taken while now < LastCharge
  MaxFaults  \* bound on gateway calls that fail and events that are lost

ASSUME GatewaysAssumption ==
  /\ GatewayOf \in [Subs -> Gateways]
  /\ MaxTime \in Nat /\ LastCharge \in 0 .. MaxTime
  /\ MaxFaults \in Nat
  /\ None \notin Subs \cup Gateways \cup StoredStatus \cup Nat

VARIABLES
  remote,  \* remote[s]: the subscription as its gateway holds it
  charged, \* subscriptions the gateway has taken money for at least once
  events,  \* events sent by a gateway and not yet received
  now

Times == 0 .. MaxTime + 1
Dates == Times \cup {None}

G(s) == GatewayOf[s]

\* "none": not created. atEnd: set to end with the paid period.
Remote(g) ==
  [status : StatusOf(g) \cup {"none"} \cup (IF g = "stripe" THEN {"open"} ELSE {}),
   periodEnd : Dates, atEnd : BOOLEAN]

Absent == [status |-> "none", periodEnd |-> None, atEnd |-> FALSE]

Exists(s) == remote[s].status \notin {"none", "open"}

OverStatus ==
  {"canceled", "cancelled", "completed", "expired", "CANCELLED", "EXPIRED",
   "COMPLETED", "FAILED"}
Over(s) == remote[s].status \in OverStatus

\* Billing now: a charge was taken and the gateway will go on charging.
Billing(s) ==
  /\ s \in charged
  /\ remote[s].status \in {"active", "past_due", "pending", "ACTIVE", "ACTIVE_FAILING"}

\* Paid for and, as far as its status tells, not over.
Live(s) == Billing(s) \/ (s \in charged /\ remote[s].status = "UNLISTED")

\* PayPal and Cashfree report no next date once a subscription no longer bills.
ReportedEnd(s) ==
  IF G(s) \in {"paypal", "cashfree"} /\ (Over(s) \/ remote[s].status \in {"SUSPENDED", "HALTED"})
  THEN None
  ELSE remote[s].periodEnd

\* Only Razorpay's event carries a copy the server falls back on, when a read fails.
Notices(s, r, types) ==
  LET copied == G(s) = "razorpay" /\ MaxFaults > 0
  IN {[sub |-> s, type |-> t, copy |-> IF copied THEN r ELSE Absent] : t \in types}

EventTypes == {"status", "success", "failed", "invoice_failed"}

\* Subscription s becomes r at its gateway, which sends events of these types.
Becomes(s, r, types) ==
  /\ remote' = [remote EXCEPT ![s] = r]
  /\ events' = events \cup Notices(s, r, types)

-----------------------------------------------------------------------------
InitialStatus ==
  [stripe |-> "open", razorpay |-> "created", paypal |-> "APPROVAL_PENDING",
   cashfree |-> "INITIALIZED"]
PaidStatus ==
  [stripe |-> "active", razorpay |-> "active", paypal |-> "ACTIVE", cashfree |-> "ACTIVE"]
CancelledStatus ==
  [stripe |-> "canceled", razorpay |-> "cancelled", paypal |-> "CANCELLED",
   cashfree |-> "CANCELLED"]
PaymentNotice(s) == IF G(s) = "cashfree" THEN {"success"} ELSE {"status"}

Moves(s, from, to, types) ==
  /\ remote[s].status = from
  /\ Becomes(s, [remote[s] EXCEPT !.status = to], types)
  /\ UNCHANGED <<charged, now>>

\* The buyer approves the subscription and no money has moved yet.
Authorise(s) ==
  \/ G(s) = "stripe" /\ Moves(s, "open", "incomplete", {"status"})
  \/ G(s) = "razorpay" /\ Moves(s, "created", "authenticated", {"status"})
  \/ G(s) = "cashfree" /\ Moves(s, "INITIALIZED", "ACTIVE", {"status"})

\* A charge succeeds: the first one, a renewal, or a retry. A renewal falls due when the
\* period is over.
PaymentSucceeds(s) ==
  /\ now < LastCharge
  /\ \/ /\ s \notin charged
        /\ remote[s].status \in {"open", "incomplete", "created", "authenticated", "APPROVAL_PENDING"}
             \cup (IF G(s) = "cashfree" THEN {"ACTIVE"} ELSE {})
     \/ /\ s \in charged /\ ~remote[s].atEnd
        /\ remote[s].periodEnd <= now
        /\ remote[s].status \in {"active", "past_due", "pending", "halted", "ACTIVE",
                                 "ACTIVE_FAILING", "SUSPENDED"}
  /\ Becomes(s, [remote[s] EXCEPT !.status = PaidStatus[G(s)], !.periodEnd = now + 1],
             PaymentNotice(s))
  /\ charged' = charged \cup {s}
  /\ UNCHANGED now

\* A charge fails; the gateway will try again.
PaymentFails(s) ==
  \/ G(s) = "stripe" /\ Moves(s, "incomplete", "incomplete", {"invoice_failed"})
  \/ /\ s \in charged /\ ~remote[s].atEnd /\ remote[s].periodEnd <= now
     /\ \/ G(s) = "stripe" /\ Moves(s, "active", "past_due", {"status", "invoice_failed"})
        \/ G(s) = "razorpay" /\ Moves(s, "active", "pending", {"status"})
        \/ G(s) = "paypal" /\ Moves(s, "ACTIVE", "ACTIVE_FAILING", {"status"})
        \/ G(s) = "cashfree" /\ Moves(s, "ACTIVE", "ACTIVE", {"failed"})

\* The gateway stops retrying.
GivesUp(s) ==
  \/ G(s) = "stripe" /\ Moves(s, "past_due", "unpaid", {"status"})
  \/ G(s) = "razorpay" /\ Moves(s, "pending", "halted", {"status"})
  \/ G(s) = "paypal" /\ Moves(s, "ACTIVE_FAILING", "SUSPENDED", {"status"})
  \/ /\ G(s) = "cashfree" /\ s \in charged /\ remote[s].periodEnd <= now
     /\ Moves(s, "ACTIVE", "HALTED", {"status"})

\* A Cashfree subscription reads as a status the code does not name.
Relabelled(s) ==
  G(s) = "cashfree" /\ s \in charged /\ Moves(s, "ACTIVE", "UNLISTED", {"status"})

\* Ended at the gateway at once (its dashboard, the bank, the buyer's account there).
EndedThere(s) ==
  /\ Exists(s) /\ ~Over(s)
  /\ Moves(s, remote[s].status, CancelledStatus[G(s)], {"status"})

\* Stripe's billing portal: the buyer sets the subscription to end, or takes that back.
PortalToggles(s) ==
  /\ G(s) = "stripe" /\ remote[s].status \in {"active", "past_due"}
  /\ Becomes(s, [remote[s] EXCEPT !.atEnd = ~@], {"status"})
  /\ UNCHANGED <<charged, now>>

\* Stripe and Razorpay end a subscription set to end when its period is over.
CycleEnds(s) ==
  /\ G(s) \in {"stripe", "razorpay"} /\ remote[s].atEnd /\ ~Over(s)
  /\ remote[s].periodEnd # None /\ remote[s].periodEnd <= now
  /\ Moves(s, remote[s].status, CancelledStatus[G(s)], {"status"})

Tick ==
  /\ now < MaxTime
  /\ now' = now + 1
  /\ UNCHANGED <<remote, charged, events>>

GatewayInit ==
  /\ remote = [s \in Subs |-> Absent]
  /\ charged = {}
  /\ events = {}
  /\ now = 0

GatewayNext ==
  \/ \E s \in Subs :
       \/ Authorise(s) \/ PaymentSucceeds(s) \/ PaymentFails(s) \/ GivesUp(s)
       \/ Relabelled(s) \/ EndedThere(s) \/ PortalToggles(s) \/ CycleEnds(s)
  \/ Tick

GatewayTypeOK ==
  /\ remote \in [Subs -> UNION {Remote(g) : g \in Gateways}]
  /\ \A s \in Subs : remote[s] \in Remote(G(s))
  /\ charged \subseteq Subs
  /\ events \subseteq [sub : Subs, type : EventTypes,
                       copy : UNION {Remote(g) : g \in Gateways}]
  /\ \A e \in events : e.copy \in Remote(G(e.sub))
  /\ now \in 0 .. MaxTime
=============================================================================
