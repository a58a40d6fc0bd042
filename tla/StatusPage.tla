------------------------------ MODULE StatusPage ------------------------------
(* One status page: its link, which makes the workspace an active client, its   *)
(* milestones with their approvals, and its weekly email. What binds them is    *)
(* the link: without it nobody approves and nothing is mailed.                  *)
EXTENDS SignOff, WeeklyDigest

ASSUME StatusPageAssumption ==
  /\ IsFiniteSet(Clients) /\ Page \in Clients
  /\ ClientLimit \in [Plans -> Nat]
  /\ None \notin Milestones \cup Words \cup Days /\ None \notin Milestone
  /\ MaxCalls \in Nat /\ MaxDay \in Nat /\ Gap \in Nat

vars == <<clientVars, calls, signOffVars, digestVars>>

TypeOK == ClientsTypeOK /\ SignOffTypeOK /\ DigestTypeOK

Init == ClientsInit /\ SignOffInit /\ DigestInit

Next ==
  \/ ClientsNext /\ UNCHANGED <<signOffVars, digestVars>>
  \/ SignOffNext /\ UNCHANGED <<clientVars, digestVars>>
  \/ DigestNext /\ UNCHANGED <<clientVars, signOffVars>>

Spec == Init /\ [][Next]_vars
=============================================================================
