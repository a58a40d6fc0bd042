------------------------------- MODULE MCContent ------------------------------
(* Content on a small instance: a studio with a teammate, one of whose pages is   *)
(* from before workspaces and who subscribed once, and somebody new whose checkout *)
(* is paid and not yet applied.                                                    *)
EXTENDS Content, TLC

CONSTANTS u1, u2, u3, w1, w2, w3, p1, p2, p3, p4, p5, b1, b2, t1, t2, f1, f2

Row(ws, by, parent) == [ws |-> ws, by |-> by, parent |-> parent, archived |-> FALSE]

SmallStart ==
  [ owner |-> [w \in Workspaces |-> IF w = w1 THEN u1 ELSE None],
    role  |-> [w \in Workspaces |-> [u \in Users |->
                IF w # w1 THEN "none" ELSE IF u = u1 THEN "owner" ELSE IF u = u2 THEN "editor" ELSE "none"]],
    page  |-> [p \in Pages |->
                IF p = p1 THEN Row(w1, u2, None) ELSE IF p = p2 THEN Row(w1, u1, None)
                ELSE IF p = p3 THEN Row(None, u2, None) ELSE None],
    block |-> [b \in Blocks |-> IF b = b1 THEN [page |-> p1, parent |-> None] ELSE None],
    task  |-> [t \in TaskIds |-> IF t = t1 THEN [ws |-> w1, by |-> u2] ELSE None],
    file  |-> [f \in Files |-> IF f = f1 THEN [by |-> u2, task |-> t1] ELSE None],
    bill  |-> [u \in Users |->
                IF u = u1 THEN [at |-> "none", id |-> FALSE, says |-> "nothing"]
                ELSE IF u = u2 THEN [at |-> "ended", id |-> TRUE, says |-> "canceled"]
                ELSE [at |-> "active", id |-> TRUE, says |-> "nothing"]] ]

Interchangeable == Permutations(Slots) \cup Permutations(Templates) \cup Permutations({w2, w3})
=============================================================================
