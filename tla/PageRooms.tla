------------------------------ MODULE PageRooms ------------------------------
(* The co-editing rooms of the socket server: one socket for each user, the     *)
(* rooms it is in, and the one page it is said to be on (socket.data.pageId).   *)
CONSTANTS
  Users,
  Here,        \* a page of the workspace
  Elsewhere,   \* a page of the user's own, which nobody can take away
  None

Pages == {Here, Elsewhere}

VARIABLES
  rooms,   \* rooms[u]: the page rooms u's socket is in
  page     \* page[u]: the page u's socket is on, or None

roomVars == <<rooms, page>>

RoomsTypeOK ==
  /\ rooms \in [Users -> SUBSET Pages]
  /\ page \in [Users -> Pages \cup {None}]

RoomsInit ==
  /\ rooms = [u \in Users |-> {}]
  /\ page = [u \in Users |-> None]

\* handlePageJoin once access is established: one page at a time.
Enter(u, p) ==
  /\ rooms' = [rooms EXCEPT ![u] = (@ \ {page[u]}) \cup {p}]
  /\ page' = [page EXCEPT ![u] = p]

\* page:leave, from a socket that is in the room.
LeavePage(u, p) ==
  /\ p \in rooms[u]
  /\ rooms' = [rooms EXCEPT ![u] = @ \ {p}]
  /\ page' = [page EXCEPT ![u] = IF @ = p THEN None ELSE @]

\* recheckUserAccess after a refused check of p: whatever page the socket is on by now, it is on none.
Evict(u, p) ==
  /\ rooms' = [rooms EXCEPT ![u] = @ \ {p}]
  /\ page' = [page EXCEPT ![u] = None]
=============================================================================
