--------------------------- MODULE MCWebhookLedger ---------------------------
(* The webhook ledger on two events and two handlers.                           *)
EXTENDS WebhookLedger, TLC

CONSTANTS e1, e2, h1, h2

Interchangeable == Permutations(Events) \cup Permutations(Handlers)
=============================================================================
