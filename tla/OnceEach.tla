------------------------------- MODULE OnceEach -------------------------------
(* What the webhook ledger promises: of everything that happens at a gateway,   *)
(* each event is worked on by one attempt at a time, and takes effect at most   *)
(* once. Attempts may be abandoned, and then others may begin.                  *)
EXTENDS Naturals

CONSTANT Events

VARIABLES
  busy,   \* events being worked on
  times   \* times[e]: how often e has taken effect

Init == busy = {} /\ times = [e \in Events |-> 0]

Begin(e) ==
  /\ e \notin busy /\ times[e] = 0
  /\ busy' = busy \cup {e}
  /\ UNCHANGED times

Finish(e) ==
  /\ e \in busy
  /\ busy' = busy \ {e}
  /\ times' = [times EXCEPT ![e] = @ + 1]

Abandon(these) ==
  /\ busy' = busy \ these
  /\ UNCHANGED times

Next ==
  \/ \E e \in Events : Begin(e) \/ Finish(e)
  \/ \E these \in SUBSET busy : Abandon(these)

Spec == Init /\ [][Next]_<<busy, times>>
=============================================================================
