----------------------------- MODULE MCStatusPage -----------------------------
(* One status page on a small instance.                                         *)
EXTENDS StatusPage, TLC

Limits == [p \in Plans |-> IF p = "free" THEN 1 ELSE 2]
Interchangeable ==
  Permutations(Users) \cup Permutations(Milestones) \cup Permutations(Words)
    \cup Permutations(Slots) \cup Permutations(Emails) \cup Permutations(Instances)
=============================================================================
