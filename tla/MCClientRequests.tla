--------------------------- MODULE MCClientRequests ---------------------------
(* Client requests and their board on a small instance.                         *)
EXTENDS ClientRequests, TLC

Interchangeable ==
  Permutations(TaskIds) \cup Permutations(RequestIds) \cup Permutations(Editors) \cup Permutations(Deciders)
=============================================================================
