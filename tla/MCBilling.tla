------------------------------- MODULE MCBilling ------------------------------
(* Billing on small instances: a few subscriptions of one buyer, at gateways the *)
(* configuration names.                                                          *)
EXTENDS Billing, FiniteSets, TLC

CONSTANTS s1, s2, s3, p1, p2

Interchangeable == Permutations(Subs) \cup Permutations(Procs)

TwoCashfree == s1 :> "cashfree" @@ s2 :> "cashfree"
StripePaypalRazorpay == s1 :> "stripe" @@ s2 :> "paypal" @@ s3 :> "razorpay"
OneCashfree == s1 :> "cashfree"

\* Bound: what follows once two requests have crossed is not explored.
Uncrossed == ~crossed

\* Bound: three events at most are under way.
FewEvents == Cardinality(events) <= 3

\* Bound: a buyer tries PayPal and one of the two others.
Tried(s) == remote[s] # Absent \/ \E p \in Procs : reqs[p] = [pc |-> "remember", sub |-> s]
OneBesidesPaypal == ~(Tried(s1) /\ Tried(s3))
=============================================================================
