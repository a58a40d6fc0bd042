------------------------------- MODULE Sessions -------------------------------
(* Sign-in, sessions, rotating refresh tokens, and what ends them. A token is   *)
(* signed, so only issued ones are presented; any of them may be, at any time   *)
(* and by anyone, and an expired one is one no longer presented. The access and *)
(* the refresh token handed out together are one token here. A request that     *)
(* awaits between reading the database and writing it is two steps or more.     *)
EXTENDS Naturals

CONSTANTS
  Users, Ids,      \* accounts, and ids for Session rows
  Codes,           \* native exchange codes
  Sockets,         \* socket connections
  Slots,           \* requests the server can be working on at the same time
  None,
  MaxCalls,        \* bounds: requests, crashes
  MaxCrashes

Ops == {"register", "login", "google", "native", "exchange", "refresh", "logout", "endAll", "reset"}

VARIABLES
  account,   \* account[u]: the User row, or None before there is one
  session,   \* session[s]: the Session row, or None
  closed,    \* closed[s]: grace windows up to this generation are over
  issued,    \* tokens handed out
  links,     \* password reset links sent
  code,      \* code[c]: the user a NativeExchangeCode row is for
  socket,    \* socket[k]: a connection and the session it was opened with
  reqs,      \* reqs[r]: a request and what it has read
  calls, crashes,
  \* History:
  endings,     \* endings[u]: how often all that was signed in of u was to end
  since,       \* since[s]: the endings there had been when the sign-in of s read the account
  unfinished,  \* users whose version was raised and whose sessions are not yet revoked
  cut,         \* sessions revoked because an old token was presented
  late         \* sockets that opened after their session had been revoked

rowVars == <<account, session, closed, endings, since, unfinished, cut>>
outVars == <<issued, links, code>>
socketVars == <<socket, late>>
countVars == <<calls, crashes>>
vars == <<rowVars, outVars, socketVars, countVars, reqs>>

Account == [ver : Nat, password : BOOLEAN, verified : BOOLEAN, google : BOOLEAN]
Session == [user : Users, gen : Nat, revoked : BOOLEAN, expired : BOOLEAN]
Token == [sid : Ids, ver : Nat, gen : Nat]
Link == [user : Users, ver : Nat]
Connection == [sid : Ids, open : BOOLEAN]

ASSUME SessionsAssumption ==
  /\ None \notin Users \cup Ids \cup Codes \cup Ops
  /\ None \notin Account /\ None \notin Session /\ None \notin Connection
  /\ MaxCalls \in Nat /\ MaxCrashes \in Nat

Idle == [pc |-> "idle", op |-> None, user |-> None, sid |-> None, ver |-> 0, era |-> 0,
         gen |-> 0, saw |-> None]
Steps == {"create", "link", "issue", "code", "lookup", "rotate", "reread", "cut",
          "answer", "drop", "write", "revokeAll", "dropAll"}
Request ==
  [pc : Steps, op : Ops, user : Users, sid : Ids \cup {None}, ver : Nat, era : Nat,
   gen : Nat, saw : Account \cup {None}]

TypeOK ==
  /\ account \in [Users -> Account \cup {None}]
  /\ session \in [Ids -> Session \cup {None}]
  /\ closed \in [Ids -> Nat]
  /\ issued \subseteq Token /\ links \subseteq Link
  /\ code \in [Codes -> Users \cup {None}]
  /\ socket \in [Sockets -> Connection \cup {None}]
  /\ reqs \in [Slots -> Request \cup {Idle}]
  /\ calls \in 0 .. MaxCalls /\ crashes \in 0 .. MaxCrashes
  /\ endings \in [Users -> Nat] /\ since \in [Ids -> Nat]
  /\ unfinished \subseteq Users /\ cut \subseteq Ids /\ late \subseteq Sockets

-----------------------------------------------------------------------------
User(s) == session[s].user
Live(s) == session[s] # None /\ ~session[s].revoked /\ ~session[s].expired

\* assertAccessPayload: what lets a request or a handshake through.
Accepted(t) == Live(t.sid) /\ account[User(t.sid)].ver = t.ver

Goto(r, q) == reqs' = [reqs EXCEPT ![r] = q]
Done(r) == Goto(r, Idle)
At(r, pc) == reqs[r].pc = pc

\* A request comes in, and is at q after its first reads.
Counted == calls < MaxCalls /\ calls' = calls + 1
Arrive(r) == reqs[r] = Idle /\ Counted
Begin(r, q) ==
  /\ Arrive(r) /\ Goto(r, q)
  /\ UNCHANGED <<rowVars, outVars, socketVars, crashes>>

Req(op, pc, u) == [pc |-> pc, op |-> op, user |-> u, sid |-> None, ver |-> 0, era |-> 0,
                   gen |-> 0, saw |-> None]
\* What a sign-in remembers of the account it read.
With(q, ver, u) == [q EXCEPT !.pc = "issue", !.ver = ver, !.era = endings[u]]
Writes == UNCHANGED <<socketVars, countVars>>

-----------------------------------------------------------------------------
(* Sign-in: with a password, with Google, with a code from a native Google      *)
(* sign-in. Each reads the account first and makes a session later, with tokens *)
(* of the version it read.                                                      *)
RegisterStart(r, u) ==
  /\ account[u] = None
  /\ Begin(r, Req("register", "create", u))

\* The address is unique: the second of two registrations fails.
RegisterCreate(r) ==
  LET u == reqs[r].user IN
  /\ At(r, "create")
  /\ IF account[u] = None
     THEN /\ account' = [account EXCEPT ![u] =
                           [ver |-> 0, password |-> TRUE, verified |-> FALSE, google |-> FALSE]]
          /\ Goto(r, [reqs[r] EXCEPT !.pc = "issue"])
     ELSE Done(r) /\ UNCHANGED account
  /\ UNCHANGED <<session, closed, endings, since, unfinished, cut, outVars>> /\ Writes

\* The right password; with a wrong one nothing changes.
LoginStart(r, u) ==
  /\ account[u] # None /\ account[u].password
  /\ Begin(r, With(Req("login", "issue", u), account[u].ver, u))

GoogleStart(r, op, u) ==
  LET a == account[u] IN
  IF a # None /\ a.google /\ a.verified
  THEN Begin(r, With(Req(op, "issue", u), a.ver, u))
  ELSE Begin(r, [Req(op, "link", u) EXCEPT !.saw = a])

\* What ends all sessions of u writes its row first, and revokes the sessions later.
Raise(u, row) ==
  /\ account' = [account EXCEPT ![u] = row]
  /\ endings' = [endings EXCEPT ![u] = @ + 1]
  /\ unfinished' = unfinished \cup {u}

\* Seeded fault: the version is left as it was.
LinkedKeepingVersion(a, proven) ==
  [a EXCEPT !.google = TRUE, !.verified = TRUE, !.password = @ /\ proven]

\* What linking makes of the row: the password of an unproven account goes.
Linked(a, proven) ==
  [a EXCEPT !.google = TRUE, !.verified = TRUE,
            !.password = @ /\ proven, !.ver = IF proven THEN @ ELSE @ + 1]

GoogleWrite(r) ==
  LET q == reqs[r]
      u == q.user
      proven == q.saw # None /\ (q.saw.verified \/ q.saw.google)
      row == IF q.saw = None
             THEN [ver |-> 0, password |-> FALSE, verified |-> TRUE, google |-> TRUE]
             ELSE Linked(account[u], proven)
  IN
  /\ At(r, "link")
  /\ IF q.saw = None /\ account[u] # None
     THEN Done(r) /\ UNCHANGED <<account, endings, unfinished>>
     ELSE IF q.saw = None \/ proven
     THEN /\ account' = [account EXCEPT ![u] = row]
          /\ Goto(r, With(q, row.ver, u))
          /\ UNCHANGED <<endings, unfinished>>
     ELSE /\ Raise(u, row)
          /\ Goto(r, [q EXCEPT !.pc = "revokeAll", !.ver = row.ver, !.era = endings[u] + 1])
  /\ UNCHANGED <<session, closed, since, cut, outVars>> /\ Writes

\* A new session, and issueTokens for it. A native sign-in gets a code and not these tokens.
Issue(r) ==
  LET q == reqs[r] IN
  /\ At(r, "issue")
  /\ \E s \in Ids :
       /\ session[s] = None
       /\ session' = [session EXCEPT ![s] =
                        [user |-> q.user, gen |-> 0, revoked |-> FALSE, expired |-> FALSE]]
       /\ since' = [since EXCEPT ![s] = q.era]
       /\ Goto(r, IF q.op = "native" THEN [q EXCEPT !.pc = "code"]
                  ELSE [q EXCEPT !.pc = "answer", !.sid = s, !.gen = 0])
  /\ UNCHANGED <<account, closed, endings, unfinished, cut, outVars>> /\ Writes

\* The answer takes the tokens to the client, or is lost on its way.
Hand(r) ==
  LET q == reqs[r] IN
  /\ At(r, "answer")
  /\ issued' \in {issued, issued \cup {[sid |-> q.sid, ver |-> q.ver, gen |-> q.gen]}}
  /\ Done(r)
  /\ UNCHANGED <<rowVars, links, code>> /\ Writes

CodeCreate(r) ==
  /\ At(r, "code")
  /\ \E c \in Codes : code[c] = None /\ code' = [code EXCEPT ![c] = reqs[r].user]
  /\ Done(r)
  /\ UNCHANGED <<rowVars, issued, links>> /\ Writes

\* exchangeNativeCode deletes the row first; a late or unproven caller has burnt the code.
ExchangeStart(r, c) ==
  /\ code[c] # None
  /\ Arrive(r)
  /\ code' = [code EXCEPT ![c] = None]
  /\ Goto(r, Req("exchange", "lookup", code[c])) \/ Done(r)
  /\ UNCHANGED <<rowVars, issued, links, socketVars, crashes>>

ExchangeLookup(r) ==
  /\ At(r, "lookup")
  /\ Goto(r, With(reqs[r], account[reqs[r].user].ver, reqs[r].user))
  /\ UNCHANGED <<rowVars, outVars>> /\ Writes

-----------------------------------------------------------------------------
(* Refreshing. *)

\* Seeded fault: no grace.
InGraceNever(s, gen) == FALSE

\* reuseOrGrace: the token before the current one, while its window is open.
InGrace(s, gen) == Live(s) /\ gen + 1 = session[s].gen /\ gen + 1 > closed[s]

\* The current generation again, for the version the row's user has now.
Answer(r, q) ==
  Goto(r, [q EXCEPT !.pc = "answer", !.ver = account[User(q.sid)].ver, !.gen = session[q.sid].gen])

RefreshStart(r, t) ==
  LET s == t.sid
      q == [Req("refresh", "rotate", User(s)) EXCEPT !.sid = s, !.ver = t.ver, !.gen = t.gen]
  IN
  /\ Accepted(t)
  /\ Arrive(r)
  /\ \/ t.gen = session[s].gen /\ Goto(r, q)
     \/ t.gen # session[s].gen /\ InGrace(s, t.gen) /\ Answer(r, q)
     \/ t.gen # session[s].gen /\ ~InGrace(s, t.gen) /\ Goto(r, [q EXCEPT !.pc = "cut"])
  /\ UNCHANGED <<rowVars, outVars, socketVars, crashes>>

\* Seeded fault: the swap does not compare the generation.
RotateAnyGeneration(r) ==
  LET q == reqs[r] IN
  /\ At(r, "rotate")
  /\ IF Live(q.sid)
     THEN /\ session' = [session EXCEPT ![q.sid].gen = @ + 1]
          /\ Goto(r, [q EXCEPT !.pc = "answer", !.gen = @ + 1])
     ELSE Goto(r, [q EXCEPT !.pc = "reread"]) /\ UNCHANGED session
  /\ UNCHANGED <<account, closed, endings, since, unfinished, cut, outVars>> /\ Writes

\* The compare-and-swap: of two requests with one generation, one rotates the session.
Rotate(r) ==
  LET q == reqs[r] IN
  /\ At(r, "rotate")
  /\ IF session[q.sid].gen = q.gen /\ ~session[q.sid].revoked
     THEN /\ session' = [session EXCEPT ![q.sid].gen = @ + 1]
          /\ Goto(r, [q EXCEPT !.pc = "answer", !.gen = @ + 1])
     ELSE Goto(r, [q EXCEPT !.pc = "reread"]) /\ UNCHANGED session
  /\ UNCHANGED <<account, closed, endings, since, unfinished, cut, outVars>> /\ Writes

\* The loser reads the session and its user again, and does not compare the version.
Reread(r) ==
  LET q == reqs[r] IN
  /\ At(r, "reread")
  /\ IF InGrace(q.sid, q.gen) THEN Answer(r, q) ELSE Goto(r, [q EXCEPT !.pc = "cut"])
  /\ UNCHANGED <<rowVars, outVars>> /\ Writes

Revoked(S) ==
  [s \in Ids |-> IF s \in S /\ session[s] # None THEN [session[s] EXCEPT !.revoked = TRUE]
                 ELSE session[s]]

Cut(r) ==
  LET s == reqs[r].sid IN
  /\ At(r, "cut")
  /\ session' = Revoked({s})
  /\ cut' = IF session[s].revoked THEN cut ELSE cut \cup {s}
  /\ Done(r)
  /\ UNCHANGED <<account, closed, endings, since, unfinished, outVars>> /\ Writes

-----------------------------------------------------------------------------
(* What ends sessions: logout ends one; logout everywhere, a new password and   *)
(* the removal of one raise the version, then revoke, then close the sockets.   *)
Logout(r, t) ==
  /\ Arrive(r)
  /\ session' = Revoked({t.sid})
  /\ Goto(r, [Req("logout", "drop", User(t.sid)) EXCEPT !.sid = t.sid])
  /\ UNCHANGED <<account, closed, endings, since, unfinished, cut, outVars, socketVars, crashes>>

\* revokeAll, of anyone: no route calls it so far.
EndAll(r, u) ==
  /\ account[u] # None
  /\ Arrive(r)
  /\ Raise(u, [account[u] EXCEPT !.ver = @ + 1])
  /\ Goto(r, Req("endAll", "revokeAll", u))
  /\ UNCHANGED <<session, closed, since, cut, outVars, socketVars, crashes>>

\* forgotPassword: the link is good for this version of the account.
Forgot(u) ==
  /\ account[u] # None /\ Counted
  /\ links' = links \cup {[user |-> u, ver |-> account[u].ver]}
  /\ UNCHANGED <<rowVars, issued, code, socketVars, crashes, reqs>>

ResetStart(r, l) ==
  /\ account[l.user].ver = l.ver
  /\ Begin(r, Req("reset", "write", l.user))

\* By the row's id alone: the version checked before may be another by now.
ResetWrite(r) ==
  LET u == reqs[r].user IN
  /\ At(r, "write")
  /\ Raise(u, [account[u] EXCEPT !.ver = @ + 1, !.password = TRUE, !.verified = TRUE])
  /\ Goto(r, [reqs[r] EXCEPT !.pc = "revokeAll"])
  /\ UNCHANGED <<session, closed, since, cut, outVars>> /\ Writes

RevokeAll(r) ==
  LET u == reqs[r].user IN
  /\ At(r, "revokeAll")
  /\ session' = Revoked({s \in Ids : session[s] # None /\ User(s) = u})
  /\ unfinished' = unfinished \ {u}
  /\ Goto(r, [reqs[r] EXCEPT !.pc = "dropAll"])
  /\ UNCHANGED <<account, closed, endings, since, cut, outVars>> /\ Writes

\* By the link sent, or by accepting an invite sent to the address.
VerifyEmail(u) ==
  /\ account[u] # None /\ ~account[u].verified /\ Counted
  /\ account' = [account EXCEPT ![u].verified = TRUE]
  /\ UNCHANGED <<session, closed, endings, since, unfinished, cut, outVars, socketVars, crashes, reqs>>

-----------------------------------------------------------------------------
(* Sockets: authenticated once, at the handshake.                               *)
Open(k) == socket[k] # None /\ socket[k].open

HandshakeStart(k, t) ==
  /\ socket[k] = None /\ Accepted(t) /\ Counted
  /\ socket' = [socket EXCEPT ![k] = [sid |-> t.sid, open |-> FALSE]]
  /\ UNCHANGED <<rowVars, outVars, late, crashes, reqs>>

HandshakeOpen(k) ==
  /\ socket[k] # None /\ ~socket[k].open
  /\ socket' = [socket EXCEPT ![k].open = TRUE]
  /\ late' = IF session[socket[k].sid].revoked THEN late \cup {k} ELSE late
  /\ UNCHANGED <<rowVars, outVars, countVars, reqs>>

Close(K) ==
  /\ socket' = [k \in Sockets |-> IF k \in K THEN None ELSE socket[k]]
  /\ late' = late \ K

SocketCloses(k) ==
  /\ socket[k] # None
  /\ Close({k})
  /\ UNCHANGED <<rowVars, outVars, countVars, reqs>>

\* Seeded fault: a logout leaves its sockets.
DropNobody(r) ==
  /\ At(r, "drop")
  /\ Done(r)
  /\ UNCHANGED <<rowVars, outVars, socketVars, countVars>>

\* disconnectSession, and disconnectUser, reach the connections that are open.
Drop(r) ==
  /\ At(r, "drop")
  /\ Close({k \in Sockets : Open(k) /\ socket[k].sid = reqs[r].sid})
  /\ Done(r)
  /\ UNCHANGED <<rowVars, outVars, countVars>>

DropAll(r) ==
  LET q == reqs[r] IN
  /\ At(r, "dropAll")
  /\ Close({k \in Sockets : Open(k) /\ User(socket[k].sid) = q.user})
  /\ IF q.op \in {"google", "native"} THEN Goto(r, [q EXCEPT !.pc = "issue"]) ELSE Done(r)
  /\ UNCHANGED <<rowVars, outVars, countVars>>

-----------------------------------------------------------------------------
(* Time, and a restart of the server.                                           *)
WindowCloses(s) ==
  /\ session[s] # None /\ closed[s] < session[s].gen
  /\ closed' = [closed EXCEPT ![s] = @ + 1]
  /\ UNCHANGED <<account, session, endings, since, unfinished, cut, outVars, socketVars, countVars, reqs>>

Expires(s) ==
  /\ Live(s)
  /\ session' = [session EXCEPT ![s].expired = TRUE]
  /\ UNCHANGED <<account, closed, endings, since, unfinished, cut, outVars, socketVars, countVars, reqs>>

Crash ==
  /\ crashes < MaxCrashes /\ crashes' = crashes + 1
  /\ reqs' = [r \in Slots |-> Idle]
  /\ Close(Sockets)
  /\ UNCHANGED <<rowVars, outVars, calls>>

-----------------------------------------------------------------------------
\* An account may be there before, with a password and no session.
Init ==
  /\ account \in [Users -> {None, [ver |-> 0, password |-> TRUE, verified |-> FALSE, google |-> FALSE]}]
  /\ session = [s \in Ids |-> None]
  /\ closed = [s \in Ids |-> 0]
  /\ issued = {} /\ links = {}
  /\ code = [c \in Codes |-> None]
  /\ socket = [k \in Sockets |-> None]
  /\ reqs = [r \in Slots |-> Idle]
  /\ calls = 0 /\ crashes = 0
  /\ endings = [u \in Users |-> 0] /\ since = [s \in Ids |-> 0]
  /\ unfinished = {} /\ cut = {} /\ late = {}

Arrives(r) ==
  \/ \E u \in Users :
       \/ RegisterStart(r, u) \/ LoginStart(r, u) \/ EndAll(r, u)
       \/ \E op \in {"google", "native"} : GoogleStart(r, op, u)
  \/ \E c \in Codes : ExchangeStart(r, c)
  \/ \E t \in issued : RefreshStart(r, t) \/ Logout(r, t)
  \/ \E l \in links : ResetStart(r, l)

Continues(r) ==
  \/ RegisterCreate(r) \/ GoogleWrite(r) \/ Issue(r) \/ CodeCreate(r) \/ ExchangeLookup(r)
  \/ Hand(r) \/ Rotate(r) \/ Reread(r) \/ Cut(r) \/ ResetWrite(r) \/ RevokeAll(r) \/ Drop(r) \/ DropAll(r)

Next ==
  \/ \E r \in Slots : Arrives(r) \/ Continues(r)
  \/ \E u \in Users : Forgot(u) \/ VerifyEmail(u)
  \/ \E k \in Sockets :
       HandshakeOpen(k) \/ SocketCloses(k) \/ \E t \in issued : HandshakeStart(k, t)
  \/ \E s \in Ids : WindowCloses(s) \/ Expires(s)
  \/ Crash

Spec == Init /\ [][Next]_vars

-----------------------------------------------------------------------------
(* Properties. *)

\* A password reset, a removed password and logout everywhere end what was signed in before, however
\* sign-ins and refreshes overlap with them: no token of an older sign-in is accepted, unless the
\* sessions are still to be revoked.
EndedSessionsAreRefused ==
  \A t \in issued :
    Accepted(t) => since[t.sid] = endings[User(t.sid)] \/ User(t.sid) \in unfinished

\* Two tabs with one cookie do not sign each other out: a live session is cut only for a token two
\* rotations old, or one that was replaced and whose grace window is over.
OnlyReplayCuts ==
  \A r \in Slots :
    LET q == reqs[r] IN
    At(r, "cut") /\ Live(q.sid) =>
      q.gen + 1 < session[q.sid].gen \/ (q.gen < session[q.sid].gen /\ q.gen < closed[q.sid])

\* A lost answer strands nobody. However refreshes overlap and answers are lost, no token is ahead of
\* its session; and while the window after a rotation is open, a token that is out gets an answer: it
\* passes for its version, and is of the current generation or of the one the window lets in. This is
\* claimed of sessions signed in since the last ending.
RetryIsAnswered ==
  \A s \in Ids :
    /\ \A t \in issued : t.sid = s => t.gen <= session[s].gen
    /\ Live(s) /\ since[s] = endings[User(s)] /\ closed[s] < session[s].gen =>
         \E t \in issued :
           t.sid = s /\ Accepted(t) /\ (t.gen = session[s].gen \/ InGrace(s, t.gen))

\* An open socket belongs to a session nobody has ended, or is about to be closed; the exceptions
\* are a handshake that met the end of its session, and a session cut for an old token.
SocketsAreSignedIn ==
  \A k \in Sockets :
    LET s == socket[k].sid IN
    Open(k) /\ session[s].revoked =>
      \/ k \in late \/ s \in cut
      \/ \E r \in Slots : \/ At(r, "drop") /\ reqs[r].sid = s
                          \/ At(r, "dropAll") /\ reqs[r].user = User(s)
=============================================================================
