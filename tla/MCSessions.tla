------------------------------ MODULE MCSessions ------------------------------
(* One account, two sign-ins, two requests at a time.                           *)
EXTENDS Sessions, TLC

CONSTANTS u1, s1, s2, c1, k1, r1, r2

Interchangeable == Permutations(Ids) \cup Permutations(Slots)
=============================================================================
