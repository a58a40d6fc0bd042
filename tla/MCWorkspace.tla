----------------------------- MODULE MCWorkspace -----------------------------
(* One workspace of three people on plans of two and three seats.               *)
EXTENDS Workspace, TLC

CONSTANTS ann, bob, cid, r1, r2

TwoPlans == [p \in {"free", "studio"} |-> IF p = "free" THEN 2 ELSE 3]
Others == Permutations(Users \ {Creator}) \cup Permutations(Slots)
=============================================================================
