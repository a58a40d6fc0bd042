---------------------------- MODULE GatewayStatus ----------------------------
(* How each payment gateway's own vocabulary is reduced to the one `state` of  *)
(* subscriptionState.js: what to store, whether the buyer has paid, may still  *)
(* pay, or is done. Pure operators: no variables.                              *)

Gateways == {"stripe", "razorpay", "paypal", "cashfree"}

\* The stored `subscriptionStatus` values that mean "paying".
PAYING == {"active", "past_due"}

\* Stripe statuses in which a subscriber still has Pro.
ACTIVE_SUBSCRIPTION_STATUSES == {"active", "trialing", "past_due"}

\* `subscriptionStatus` as stored: "none" stands for null.
StoredStatus ==
  {"none", "incomplete", "active", "trialing", "past_due", "unpaid", "canceled",
   "paused", "created", "authenticated", "unlisted"}

State(status, paid, inFlight, ended) ==
  [status |-> status, paid |-> paid, inFlight |-> inFlight, ended |-> ended]

GatewayState ==
  [status : StoredStatus, paid : BOOLEAN, inFlight : BOOLEAN, ended : BOOLEAN]

-----------------------------------------------------------------------------
(* Subscription statuses as each gateway names them. "open" is a Stripe       *)
(* Checkout Session nobody has completed: there is no subscription to read     *)
(* yet. "ACTIVE_FAILING" is a PayPal subscription that is ACTIVE with          *)
(* failed_payments_count > 0. "UNLISTED" is a status the code does not name.   *)
StripeStatus == {"incomplete", "active", "past_due", "unpaid", "canceled"}
RazorpayStatus ==
  {"created", "authenticated", "active", "pending", "halted", "cancelled",
   "completed", "expired"}
PaypalStatus ==
  {"APPROVAL_PENDING", "APPROVED", "ACTIVE", "ACTIVE_FAILING", "SUSPENDED",
   "CANCELLED", "EXPIRED", "UNLISTED"}
CashfreeStatus ==
  {"INITIALIZED", "BANK_APPROVAL_PENDING", "ACTIVE", "PAUSED", "HALTED", "FAILED",
   "CANCELLED", "COMPLETED", "UNLISTED"}

\* What a read of a subscription at gateway g can return.
StatusOf(g) ==
  CASE g = "stripe" -> StripeStatus
    [] g = "razorpay" -> RazorpayStatus
    [] g = "paypal" -> PaypalStatus
    [] OTHER -> CashfreeStatus

-----------------------------------------------------------------------------
StripeState(st) ==
  State(st, st \in ACTIVE_SUBSCRIPTION_STATUSES, FALSE, st = "canceled")

RazorpayEnded == {"cancelled", "completed", "expired"}

RazorpayState(st) ==
  State(CASE st = "pending" -> "past_due"
          [] st = "halted" -> "unpaid"
          [] st \in RazorpayEnded -> "canceled"
          [] OTHER -> st,
        st \in {"active", "pending"}, st = "authenticated", st \in RazorpayEnded)

\* Seeded fault: the buyer's approval is taken for a payment.
PaypalStateApproved(st) ==
  State("active", st \in {"APPROVAL_PENDING", "ACTIVE"}, FALSE, st = "CANCELLED")

PaypalState(st) ==
  CASE st = "ACTIVE" -> State("active", TRUE, FALSE, FALSE)
    [] st = "ACTIVE_FAILING" -> State("past_due", TRUE, FALSE, FALSE)
    [] st = "SUSPENDED" -> State("unpaid", FALSE, FALSE, TRUE)
    [] st \in {"CANCELLED", "EXPIRED"} -> State("canceled", FALSE, FALSE, TRUE)
    [] st \in {"APPROVAL_PENDING", "APPROVED"} -> State("incomplete", FALSE, TRUE, FALSE)
    [] OTHER -> State("unlisted", FALSE, FALSE, FALSE)

\* Seeded fault: a signed success is not taken for a payment.
CashfreeStateNoEvidence(st, paidEvidence, alreadyPaying, paymentFailed) ==
  State("incomplete", alreadyPaying /\ st = "ACTIVE", TRUE, st = "CANCELLED")

\* paidEvidence: a signed payment-success event, or a successful payment on the list.
\* alreadyPaying: the row already stores this very subscription as paying.
CashfreeState(st, paidEvidence, alreadyPaying, paymentFailed) ==
  CASE st = "ACTIVE" ->
         IF paidEvidence \/ alreadyPaying
         THEN State(IF paymentFailed THEN "past_due" ELSE "active", TRUE, FALSE, FALSE)
         ELSE State("incomplete", FALSE, TRUE, FALSE)
    [] st = "PAUSED" -> State("paused", FALSE, FALSE, FALSE)
    [] st \in {"HALTED", "FAILED"} -> State("unpaid", FALSE, FALSE, TRUE)
    [] st \in {"CANCELLED", "COMPLETED"} -> State("canceled", FALSE, FALSE, TRUE)
    [] st \in {"INITIALIZED", "BANK_APPROVAL_PENDING"} ->
         State("incomplete", FALSE, TRUE, FALSE)
    [] OTHER -> State(IF alreadyPaying THEN "active" ELSE "unlisted",
                      alreadyPaying, FALSE, FALSE)
=============================================================================
