---------------------------- MODULE SessionsProofs ----------------------------
(* Proofs about Sessions, for any number of accounts, sessions and requests.    *)
EXTENDS Sessions, TLAPS

(* The inductive invariant: what rows, tokens and requests say of each other.   *)

Exists(u) == account[u] # None

\* The version counts the endings.
VersionsCount == \A u \in Users : endings[u] = IF Exists(u) THEN account[u].ver ELSE 0

\* Signed in since the last ending, or revoked, or about to be.
Clean(s) ==
  since[s] = endings[User(s)] \/ session[s].revoked \/ User(s) \in unfinished

SessionOK(s) ==
  session[s] # None => Exists(User(s)) /\ since[s] <= endings[User(s)]

\* A token with the current version is for a clean session.
TokenOK(t) ==
  /\ session[t.sid] # None
  /\ since[t.sid] <= t.ver /\ t.ver <= endings[User(t.sid)] /\ t.gen <= session[t.sid].gen
  /\ t.ver = endings[User(t.sid)] => Clean(t.sid)

\* What a request under way has read.
ReqOK(q) ==
  /\ q.pc \in {"issue", "code", "lookup", "write", "revokeAll", "dropAll"} => Exists(q.user)
  /\ q.pc = "link" /\ q.saw # None => Exists(q.user)
  /\ q.op # "refresh" => q.era = q.ver /\ q.ver <= endings[q.user]
  /\ q.pc \in {"create", "lookup"} => q.ver = 0
  /\ q.pc \in {"rotate", "reread", "cut"} => q.op = "refresh" /\ Clean(q.sid)
  /\ q.pc \in {"rotate", "reread", "cut", "answer"} =>
       /\ q.sid \in Ids /\ session[q.sid] # None
       /\ since[q.sid] <= q.ver /\ q.ver <= endings[User(q.sid)]
  /\ q.pc = "answer" => q.gen <= session[q.sid].gen /\ (q.ver = endings[User(q.sid)] => Clean(q.sid))
  /\ q.op = "refresh" => q.pc \in {"rotate", "reread", "cut", "answer"}
  /\ q.pc = "rotate" => q.gen <= session[q.sid].gen
  /\ q.pc = "reread" => q.gen < session[q.sid].gen \/ session[q.sid].revoked
  /\ q.pc = "cut" /\ Live(q.sid) =>
       q.gen + 1 < session[q.sid].gen \/ (q.gen < session[q.sid].gen /\ q.gen < closed[q.sid])

SessionsInv ==
  /\ TypeOK /\ VersionsCount
  /\ \A s \in Ids : SessionOK(s)
  /\ \A t \in issued : TokenOK(t)
  /\ \A r \in Slots : reqs[r] # Idle => ReqOK(reqs[r])
  /\ \A c \in Codes : code[c] # None => Exists(code[c])
  /\ \A l \in links : Exists(l.user)
  /\ \A k \in Sockets : socket[k] # None => session[socket[k].sid] # None

-----------------------------------------------------------------------------
(* What every step does to the rows: they go forward.                           *)
Grow ==
  /\ \A u \in Users : (Exists(u) => account'[u] # None) /\ endings[u] <= endings'[u]
  /\ \A s \in Ids :
       session[s] # None =>
         /\ session'[s] # None /\ session'[s].user = session[s].user
         /\ session[s].gen <= session'[s].gen /\ closed[s] <= closed'[s]
         /\ session[s].revoked => session'[s].revoked
         /\ session[s].expired => session'[s].expired
         /\ since'[s] = since[s]
         /\ Clean(s) => Clean(s)'

LEMMA FieldsOfSession ==
  ASSUME TypeOK, NEW s \in Ids, session[s] # None
  PROVE  /\ session[s] \in Session /\ User(s) \in Users /\ session[s].gen \in Nat
         /\ session[s].revoked \in BOOLEAN /\ session[s].expired \in BOOLEAN
BY DEF TypeOK, Session, User

\* What holds of a token or a request goes on holding.
LEMMA Carried ==
  ASSUME SessionsInv, Grow, TypeOK'
  PROVE  /\ \A t \in Token : TokenOK(t) => TokenOK(t)'
         /\ \A q \in Request : ReqOK(q) => ReqOK(q)'
<1>1. \A u \in Users : endings[u] \in Nat /\ endings'[u] \in Nat
  BY DEF SessionsInv, TypeOK
<1>2. \A s \in Ids : closed[s] \in Nat /\ closed'[s] \in Nat
  BY DEF SessionsInv, TypeOK
<1>3. \A s \in Ids : session[s] # None => User(s) \in Users /\ session[s].gen \in Nat
  BY FieldsOfSession DEF SessionsInv
<1>4. \A s \in Ids : session'[s] # None => session'[s].gen \in Nat
  BY DEF TypeOK, Session
<1>5. ASSUME NEW t \in Token, TokenOK(t) PROVE TokenOK(t)'
  <2>1. t.sid \in Ids /\ t.ver \in Nat /\ t.gen \in Nat
    BY DEF Token
  <2>2. /\ session[t.sid] # None /\ session'[t.sid] # None /\ User(t.sid)' = User(t.sid)
        /\ since'[t.sid] = since[t.sid]
    BY <1>5, <2>1 DEF TokenOK, Grow, User
  <2> QED
    BY <1>1, <1>3, <1>4, <1>5, <2>1, <2>2 DEF TokenOK, Grow
<1>6. ASSUME NEW q \in Request, ReqOK(q) PROVE ReqOK(q)'
  <2>1. q.user \in Users /\ q.ver \in Nat /\ q.gen \in Nat
    BY DEF Request
  <2>2. ASSUME q.pc \in {"rotate", "reread", "cut", "answer"}
        PROVE  /\ q.sid \in Ids /\ session[q.sid] # None /\ session'[q.sid] # None
               /\ User(q.sid)' = User(q.sid) /\ User(q.sid) \in Users /\ since'[q.sid] = since[q.sid]
               /\ session[q.sid].gen \in Nat /\ session'[q.sid].gen \in Nat
    BY <1>3, <1>4, <1>6, <2>2 DEF ReqOK, Grow, User
  <2>3. /\ q.pc \in {"issue", "code", "lookup", "write", "revokeAll", "dropAll"} => Exists(q.user)'
        /\ q.pc = "link" /\ q.saw # None => Exists(q.user)'
        /\ q.op # "refresh" => q.era = q.ver /\ q.ver <= endings'[q.user]
    BY <1>1, <1>6, <2>1 DEF ReqOK, Grow, Exists
  <2>4. /\ q.pc \in {"rotate", "reread", "cut"} => q.op = "refresh" /\ Clean(q.sid)'
        /\ q.pc \in {"rotate", "reread", "cut", "answer"} =>
             /\ q.sid \in Ids /\ session'[q.sid] # None
             /\ since'[q.sid] <= q.ver /\ q.ver <= endings'[User(q.sid)']
    BY <1>1, <1>6, <2>1, <2>2 DEF ReqOK, Grow
  <2>7. q.pc = "answer" =>
          q.gen <= session'[q.sid].gen /\ (q.ver = endings'[User(q.sid)'] => Clean(q.sid)')
    BY <1>1, <1>6, <2>1, <2>2 DEF ReqOK, Grow
  <2>5. /\ q.pc = "rotate" => q.gen <= session'[q.sid].gen
        /\ q.pc = "reread" => q.gen < session'[q.sid].gen \/ session'[q.sid].revoked
    BY <1>6, <2>1, <2>2 DEF ReqOK, Grow
  <2>6. q.pc = "cut" /\ Live(q.sid)' =>
          \/ q.gen + 1 < session'[q.sid].gen
          \/ q.gen < session'[q.sid].gen /\ q.gen < closed'[q.sid]
    BY <1>2, <1>6, <2>1, <2>2 DEF ReqOK, Grow, Live
  <2> QED
    BY <1>6, <2>3, <2>4, <2>5, <2>6, <2>7 DEF ReqOK
<1> QED
  BY <1>5, <1>6

\* So a step has to answer for what it changes only.
LEMMA Kept ==
  ASSUME SessionsInv, Grow, TypeOK', VersionsCount',
         \A s \in Ids : SessionOK(s)',
         \A t \in issued' : t \in issued \/ TokenOK(t)',
         \A r \in Slots : reqs'[r] = reqs[r] \/ reqs'[r] = Idle \/ ReqOK(reqs[r])',
         \A c \in Codes : code'[c] = code[c] \/ code'[c] = None \/ Exists(code'[c]),
         \A l \in links' : l \in links \/ Exists(l.user),
         \A k \in Sockets :
           socket'[k] # None => socket'[k].sid \in Ids /\ session[socket'[k].sid] # None
  PROVE  SessionsInv'
<1>1. \A t \in issued' : TokenOK(t)'
  BY Carried DEF SessionsInv, TypeOK
<1>2. \A r \in Slots : reqs'[r] # Idle => ReqOK(reqs[r])'
  <2> SUFFICES ASSUME NEW r \in Slots, reqs'[r] # Idle, reqs'[r] = reqs[r] PROVE ReqOK(reqs[r])'
    OBVIOUS
  <2> DEFINE q == reqs[r]
  <2>1. q \in Request /\ ReqOK(q)
    BY DEF SessionsInv, TypeOK
  <2> HIDE DEF q
  <2>2. \A p \in Request : p = reqs'[r] /\ ReqOK(p)' => ReqOK(reqs[r])'
    BY DEF ReqOK
  <2>3. q = reqs'[r]
    BY DEF q
  <2>4. PICK p \in Request : p = q
    BY <2>1
  <2>5. ReqOK(p)'
    BY <2>1, <2>4, Carried
  <2> QED
    BY <2>2, <2>3, <2>4, <2>5
<1>3. \A c \in Codes : code'[c] # None => Exists(code[c])'
  BY DEF SessionsInv, TypeOK, Grow, Exists
<1>4. \A l \in links' : Exists(l.user)'
  <2> TAKE l \in links'
  <2>1. l \in Link
    BY DEF TypeOK
  <2>2. l.user \in Users /\ Exists(l.user)
    BY <2>1 DEF SessionsInv, Link
  <2> QED
    BY <2>2 DEF Grow, Exists
<1>5. \A k \in Sockets : socket'[k] # None => session'[socket'[k].sid] # None
  BY DEF Grow
<1> QED
  BY <1>1, <1>2, <1>3, <1>4, <1>5 DEF SessionsInv

-----------------------------------------------------------------------------
LEMMA RowsStill ==
  ASSUME SessionsInv, UNCHANGED rowVars
  PROVE  Grow /\ VersionsCount' /\ \A s \in Ids : SessionOK(s)'
BY DEF SessionsInv, TypeOK, Session, rowVars, Grow, VersionsCount, SessionOK, Clean, User, Exists

LEMMA ReqTyped ==
  ASSUME NEW op \in Ops, NEW pc \in Steps, NEW u \in Users
  PROVE  /\ Req(op, pc, u) \in Request
         /\ LET q == Req(op, pc, u) IN
            q.pc = pc /\ q.op = op /\ q.user = u /\ q.ver = 0 /\ q.era = 0
BY DEF Req, Request

LEMMA Underway ==
  ASSUME SessionsInv, NEW r \in Slots, reqs[r].pc # "idle"
  PROVE  reqs[r] \in Request /\ ReqOK(reqs[r])
BY DEF SessionsInv, TypeOK, Idle

\* Moving a request to one that is right is right.
LEMMA Moved ==
  ASSUME SessionsInv, NEW r \in Slots, NEW q \in Request \cup {Idle}, Goto(r, q)
  PROVE  /\ reqs' \in [Slots -> Request \cup {Idle}]
         /\ reqs'[r] = q /\ \A x \in Slots : x # r => reqs'[x] = reqs[x]
         /\ ReqOK(q)' => ReqOK(reqs[r])'
<1>1. reqs \in [Slots -> Request \cup {Idle}]
  BY DEF SessionsInv, TypeOK
<1>2. reqs' = [reqs EXCEPT ![r] = q]
  BY DEF Goto
<1>3. reqs'[r] = q
  BY <1>1, <1>2
<1>4. ReqOK(q)' => ReqOK(reqs[r])'
  BY <1>3 DEF ReqOK
<1> QED
  BY <1>1, <1>2, <1>3, <1>4

\* A request that comes in, or moves on, and touches no row.
LEMMA Beginning ==
  ASSUME SessionsInv, NEW r \in Slots, NEW q \in Request, ReqOK(q), Begin(r, q)
  PROVE  SessionsInv'
<1>1. /\ Grow /\ VersionsCount' /\ \A s \in Ids : SessionOK(s)'
  BY RowsStill DEF Begin
<1>2. Goto(r, q)
  BY DEF Begin
<1>3. TypeOK'
  <2>1. calls' \in 0 .. MaxCalls
    BY SessionsAssumption DEF Begin, Arrive, Counted, SessionsInv, TypeOK
  <2> QED
    BY <1>2, <2>1, Moved DEF Begin, SessionsInv, TypeOK, rowVars, outVars, socketVars
<1>4. ReqOK(q)'
  BY <1>1, <1>3, Carried
<1>5. \A x \in Slots : reqs'[x] = reqs[x] \/ reqs'[x] = Idle \/ ReqOK(reqs[x])'
  BY <1>2, <1>4, Moved
<1>6. issued' = issued /\ code' = code /\ links' = links /\ socket' = socket
  BY DEF Begin, outVars, socketVars
<1>7. \A k \in Sockets :
        socket'[k] # None => socket'[k].sid \in Ids /\ session[socket'[k].sid] # None
  BY <1>6 DEF SessionsInv, TypeOK, Connection
<1> QED
  BY <1>1, <1>3, <1>5, <1>6, <1>7, Kept

\* The version an account has is the number of its endings.
LEMMA VersionNow ==
  ASSUME SessionsInv, NEW u \in Users, Exists(u)
  PROVE  /\ account[u] \in Account /\ account[u].ver \in Nat /\ account[u].ver = endings[u]
         /\ \A q \in Request : With(q, account[u].ver, u) \in Request
BY DEF SessionsInv, TypeOK, VersionsCount, Exists, Account, With, Request, Steps

LEMMA SignInsBegin ==
  ASSUME SessionsInv, NEW r \in Slots, NEW u \in Users,
         \/ RegisterStart(r, u) \/ LoginStart(r, u)
         \/ \E op \in {"google", "native"} : GoogleStart(r, op, u)
  PROVE  SessionsInv'
<1>1. CASE RegisterStart(r, u)
  <2>1. Req("register", "create", u) \in Request /\ ReqOK(Req("register", "create", u))
    BY ReqTyped DEF ReqOK, Ops, Steps, SessionsInv, TypeOK
  <2> QED
    BY <1>1, <2>1, Beginning DEF RegisterStart
<1>2. ASSUME NEW op \in {"login", "google", "native"}, Exists(u)
      PROVE  /\ With(Req(op, "issue", u), account[u].ver, u) \in Request
             /\ ReqOK(With(Req(op, "issue", u), account[u].ver, u))
  <2>1. Req(op, "issue", u) \in Request
    BY ReqTyped DEF Ops, Steps
  <2>2. /\ account[u].ver = endings[u] /\ endings[u] \in Nat
        /\ With(Req(op, "issue", u), account[u].ver, u) \in Request
    BY <1>2, <2>1, VersionNow
  <2>3. LET q == With(Req(op, "issue", u), account[u].ver, u) IN
        q.pc = "issue" /\ q.op = op /\ q.user = u /\ q.ver = account[u].ver /\ q.era = endings[u]
    BY DEF With, Req
  <2> QED
    BY <1>2, <2>2, <2>3 DEF ReqOK
<1>3. CASE LoginStart(r, u)
  BY <1>2, <1>3, Beginning DEF LoginStart, Exists
<1>4. ASSUME NEW op \in {"google", "native"}, GoogleStart(r, op, u) PROVE SessionsInv'
  <2>1. CASE account[u] # None /\ account[u].google /\ account[u].verified
    <3>1. Begin(r, With(Req(op, "issue", u), account[u].ver, u))
      BY <1>4, <2>1 DEF GoogleStart
    <3> QED
      BY <1>2, <2>1, <3>1, Beginning DEF Exists
  <2>2. CASE ~(account[u] # None /\ account[u].google /\ account[u].verified)
    <3> DEFINE q == [Req(op, "link", u) EXCEPT !.saw = account[u]]
    <3>1. Begin(r, q)
      BY <1>4, <2>2 DEF GoogleStart
    <3>2. q.pc = "link" /\ q.op = op /\ q.user = u /\ q.ver = 0 /\ q.era = 0 /\ q.saw = account[u]
      BY DEF Req
    <3>3. q \in Request
      BY DEF Req, Request, Ops, Steps, SessionsInv, TypeOK
    <3>4. ReqOK(q)
      BY <3>2 DEF ReqOK, Exists, SessionsInv, TypeOK
    <3> QED
      BY <3>1, <3>3, <3>4, Beginning
  <2> QED
    BY <2>1, <2>2
<1> QED
  BY <1>1, <1>3, <1>4

-----------------------------------------------------------------------------
(* Steps of requests under way that leave the rows alone.                       *)

\* The rows as they are, and the rest as it may be.
RowsAlone ==
  /\ UNCHANGED <<rowVars, links, crashes>> /\ calls' \in 0 .. MaxCalls
  /\ \A t \in issued' : t \in issued \/ (t \in Token /\ TokenOK(t))
  /\ code' \in [Codes -> Users \cup {None}]
  /\ \A c \in Codes : code'[c] = code[c] \/ code'[c] = None \/ Exists(code'[c])
  /\ socket' \in [Sockets -> Connection \cup {None}] /\ late' \subseteq Sockets
  /\ \A k \in Sockets : socket'[k] = None \/ socket'[k] = socket[k]

LEMMA OnlyAround ==
  ASSUME SessionsInv, RowsAlone, NEW r \in Slots, NEW q \in Request \cup {Idle},
         Goto(r, q), q = Idle \/ ReqOK(q)
  PROVE  SessionsInv'
<1>1. /\ Grow /\ VersionsCount' /\ \A s \in Ids : SessionOK(s)'
  BY RowsStill DEF RowsAlone
<1>2. TypeOK'
  BY Moved DEF RowsAlone, SessionsInv, TypeOK, rowVars
<1>3. \A t \in issued' : t \in issued \/ TokenOK(t)'
  BY <1>1, <1>2, Carried DEF RowsAlone
<1>4. q = Idle \/ ReqOK(q)'
  BY <1>1, <1>2, Carried
<1>5. \A x \in Slots : reqs'[x] = reqs[x] \/ reqs'[x] = Idle \/ ReqOK(reqs[x])'
  BY <1>4, Moved
<1>6. \A k \in Sockets :
        socket'[k] # None => socket'[k].sid \in Ids /\ session[socket'[k].sid] # None
  BY DEF RowsAlone, SessionsInv, TypeOK, Connection
<1>7. links' = links
  BY DEF RowsAlone
<1> QED
  BY <1>1, <1>2, <1>3, <1>5, <1>6, <1>7, Kept DEF RowsAlone

LEMMA Onward ==
  ASSUME NEW q \in Request, NEW pc \in Steps
  PROVE  LET p == [q EXCEPT !.pc = pc] IN
         /\ p \in Request /\ p.pc = pc /\ p.op = q.op /\ p.user = q.user /\ p.sid = q.sid
         /\ p.ver = q.ver /\ p.era = q.era /\ p.gen = q.gen
BY DEF Request

LEMMA Unmoved ==
  ASSUME SessionsInv
  PROVE  /\ Idle \in Request \cup {Idle}
         /\ calls \in 0 .. MaxCalls /\ code \in [Codes -> Users \cup {None}]
         /\ socket \in [Sockets -> Connection \cup {None}] /\ late \subseteq Sockets
         /\ Counted => calls' \in 0 .. MaxCalls
BY SessionsAssumption DEF SessionsInv, TypeOK, Counted

LEMMA CodesStep ==
  ASSUME SessionsInv, NEW r \in Slots,
         CodeCreate(r) \/ (\E c \in Codes : ExchangeStart(r, c)) \/ ExchangeLookup(r)
  PROVE  SessionsInv'
<1>1. CASE CodeCreate(r)
  <2>1. reqs[r].user \in Users /\ Exists(reqs[r].user)
    BY <1>1, Underway DEF CodeCreate, At, ReqOK, Request
  <2>2. PICK c \in Codes : code' = [code EXCEPT ![c] = reqs[r].user]
    BY <1>1 DEF CodeCreate
  <2>3. /\ code' \in [Codes -> Users \cup {None}]
        /\ \A d \in Codes : code'[d] = code[d] \/ Exists(code'[d])
    BY <2>1, <2>2, Unmoved
  <2>4. RowsAlone
    BY <1>1, <2>3, Unmoved DEF RowsAlone, CodeCreate, Writes, rowVars, socketVars, countVars
  <2> QED
    BY <1>1, <2>4, Unmoved, OnlyAround DEF CodeCreate, Done
<1>2. ASSUME NEW c \in Codes, ExchangeStart(r, c) PROVE SessionsInv'
  <2>1. /\ code' \in [Codes -> Users \cup {None}] /\ calls' \in 0 .. MaxCalls
        /\ \A d \in Codes : code'[d] = code[d] \/ code'[d] = None
    BY <1>2, Unmoved DEF ExchangeStart, Arrive
  <2>2. PICK u \in Users : u = code[c] /\ Exists(u)
    BY <1>2 DEF ExchangeStart, SessionsInv, TypeOK
  <2>3. PICK q \in Request : q = Req("exchange", "lookup", u)
    BY ReqTyped DEF Ops, Steps
  <2>4. ReqOK(q)
    BY <2>2, <2>3, ReqTyped DEF ReqOK, Ops, Steps, SessionsInv, TypeOK
  <2>5. Goto(r, q) \/ Goto(r, Idle)
    BY <1>2, <2>2, <2>3 DEF ExchangeStart, Done
  <2>6. RowsAlone
    BY <1>2, <2>1, Unmoved DEF RowsAlone, ExchangeStart, socketVars, rowVars
  <2> QED
    BY <2>4, <2>5, <2>6, Unmoved, OnlyAround
<1>3. CASE ExchangeLookup(r)
  <2>1. /\ At(r, "lookup") /\ UNCHANGED <<rowVars, outVars>> /\ Writes
        /\ Goto(r, With(reqs[r], account[reqs[r].user].ver, reqs[r].user))
    BY <1>3 DEF ExchangeLookup
  <2>2. reqs[r] \in Request /\ ReqOK(reqs[r])
    BY <2>1, Underway DEF At
  <2>3. PICK u \in Users : u = reqs[r].user /\ Exists(u)
    BY <2>1, <2>2 DEF At, ReqOK, Request
  <2>4. PICK q \in Request : q = With(reqs[r], account[u].ver, u)
    BY <2>2, <2>3, VersionNow
  <2>5. q.pc = "issue" /\ q.op = reqs[r].op /\ q.user = u /\ q.ver = endings[u] /\ q.era = endings[u]
    BY <2>2, <2>3, <2>4, VersionNow DEF With, Request
  <2>6. ReqOK(q)
    BY <2>1, <2>2, <2>3, <2>5 DEF ReqOK, At, SessionsInv, TypeOK
  <2>7. RowsAlone
    BY <2>1, Unmoved DEF RowsAlone, Writes, rowVars, outVars, socketVars, countVars
  <2> QED
    BY <2>1, <2>3, <2>4, <2>6, <2>7, OnlyAround
<1> QED
  BY <1>1, <1>2, <1>3

LEMMA DropsStep ==
  ASSUME SessionsInv, NEW r \in Slots, Drop(r) \/ DropAll(r)
  PROVE  SessionsInv'
<1>1. ASSUME NEW K, Close(K)
      PROVE  /\ socket' \in [Sockets -> Connection \cup {None}] /\ late' \subseteq Sockets
             /\ \A k \in Sockets : socket'[k] = None \/ socket'[k] = socket[k]
  BY <1>1, Unmoved DEF Close
<1>2. PICK K : Close(K)
  BY DEF Drop, DropAll
<1>3. UNCHANGED <<rowVars, outVars, countVars>>
  BY DEF Drop, DropAll
<1>4. RowsAlone
  BY <1>1, <1>2, <1>3, Unmoved DEF RowsAlone, rowVars, outVars, countVars
<1>5. CASE Goto(r, Idle)
  BY <1>5, <1>4, Unmoved, OnlyAround
<1>6. CASE DropAll(r) /\ reqs[r].op \in {"google", "native"} /\ Goto(r, [reqs[r] EXCEPT !.pc = "issue"])
  <2>1. reqs[r] \in Request /\ ReqOK(reqs[r]) /\ reqs[r].pc = "dropAll"
    BY <1>6, Underway DEF DropAll, At
  <2>2. PICK q \in Request : q = [reqs[r] EXCEPT !.pc = "issue"]
    BY <2>1, Onward DEF Steps
  <2>3. q.pc = "issue" /\ q.op = reqs[r].op /\ q.user = reqs[r].user /\ q.ver = reqs[r].ver
        /\ q.era = reqs[r].era
    BY <2>1, <2>2, Onward DEF Steps
  <2>4. ReqOK(q)
    BY <1>6, <2>1, <2>3 DEF ReqOK
  <2> QED
    BY <1>4, <1>6, <2>2, <2>4, OnlyAround
<1> QED
  BY <1>5, <1>6 DEF Drop, DropAll, Done

\* What a grace answer will hand out is right: it is the current version of a clean session.
LEMMA AnswerOK ==
  ASSUME SessionsInv, NEW r \in Slots, NEW q \in Request, q.op = "refresh",
         q.sid \in Ids, session[q.sid] # None, Clean(q.sid), Answer(r, q)
  PROVE  \E p \in Request : Goto(r, p) /\ ReqOK(p) /\ p.pc = "answer"
<1>1. PICK s \in Ids : s = q.sid
  OBVIOUS
<1>2. /\ User(s) \in Users /\ session[s].gen \in Nat /\ Exists(User(s))
      /\ since[s] <= endings[User(s)]
  BY <1>1, FieldsOfSession DEF SessionsInv, SessionOK
<1>3. account[User(s)].ver \in Nat /\ account[User(s)].ver = endings[User(s)]
  BY <1>2, VersionNow
<1>4. PICK p \in Request : p = [q EXCEPT !.pc = "answer", !.ver = account[User(s)].ver, !.gen = session[s].gen]
  BY <1>2, <1>3 DEF Request, Steps
<1>5. /\ p.pc = "answer" /\ p.op = "refresh" /\ p.sid = s
      /\ p.ver = endings[User(s)] /\ p.gen = session[s].gen
  BY <1>1, <1>3, <1>4 DEF Request
<1>6. ReqOK(p)
  BY <1>1, <1>2, <1>3, <1>5 DEF ReqOK
<1> QED
  BY <1>1, <1>4, <1>5, <1>6 DEF Answer

\* A token that is accepted is for a clean session.
LEMMA AcceptedClean ==
  ASSUME SessionsInv, NEW t \in issued, Accepted(t)
  PROVE  /\ t \in Token /\ t.sid \in Ids /\ session[t.sid] # None /\ Clean(t.sid)
         /\ since[t.sid] <= t.ver
         /\ User(t.sid) \in Users /\ session[t.sid].gen \in Nat
         /\ t.gen <= session[t.sid].gen /\ t.ver = endings[User(t.sid)]
<1>1. t \in Token /\ t.sid \in Ids
  BY DEF SessionsInv, TypeOK, Token
<1>2. session[t.sid] # None /\ TokenOK(t) /\ account[User(t.sid)].ver = t.ver
  BY DEF SessionsInv, Accepted, Live
<1>3. User(t.sid) \in Users /\ session[t.sid].gen \in Nat /\ Exists(User(t.sid))
  BY <1>1, <1>2, FieldsOfSession DEF SessionsInv, SessionOK
<1>4. account[User(t.sid)].ver = endings[User(t.sid)]
  BY <1>3, VersionNow
<1> QED
  BY <1>1, <1>2, <1>3, <1>4 DEF TokenOK

LEMMA RefreshStarts ==
  ASSUME SessionsInv, NEW r \in Slots, NEW t \in issued, RefreshStart(r, t)
  PROVE  SessionsInv'
<1> DEFINE s == t.sid
<1>1. /\ t \in Token /\ s \in Ids /\ session[s] # None /\ Clean(s) /\ since[s] <= t.ver
      /\ User(s) \in Users /\ session[s].gen \in Nat
      /\ t.gen <= session[s].gen /\ t.ver = endings[User(s)]
  BY AcceptedClean DEF RefreshStart
<1>2. t.ver \in Nat /\ t.gen \in Nat
  BY <1>1 DEF Token
<1>3. RowsAlone
  <2>1. UNCHANGED <<rowVars, outVars, socketVars, crashes>> /\ Counted
    BY DEF RefreshStart, Arrive
  <2> QED
    BY <2>1, Unmoved DEF RowsAlone, socketVars, outVars
<1> DEFINE q0 == [Req("refresh", "rotate", User(s)) EXCEPT !.sid = s, !.ver = t.ver, !.gen = t.gen]
<1>5. /\ q0 \in Request /\ q0.pc = "rotate" /\ q0.op = "refresh" /\ q0.user = User(s)
      /\ q0.sid = s /\ q0.ver = t.ver /\ q0.gen = t.gen
  BY <1>1, <1>2 DEF Req, Request, Ops, Steps
<1>4. CASE Answer(r, q0)
  BY <1>1, <1>3, <1>4, <1>5, AnswerOK, OnlyAround
<1>6. CASE t.gen = session[s].gen /\ Goto(r, q0)
  <2>1. ReqOK(q0)
    BY <1>1, <1>2, <1>5 DEF ReqOK
  <2> QED
    BY <1>3, <1>5, <1>6, <2>1, OnlyAround
<1>7. CASE t.gen # session[s].gen /\ ~InGrace(s, t.gen) /\ Goto(r, [q0 EXCEPT !.pc = "cut"])
  <2>1. PICK q \in Request : q = [q0 EXCEPT !.pc = "cut"]
    BY <1>5, Onward DEF Steps
  <2>2. /\ q.pc = "cut" /\ q.op = "refresh" /\ q.user = User(s)
        /\ q.sid = s /\ q.ver = t.ver /\ q.gen = t.gen
    BY <1>5, <2>1, Onward DEF Steps
  <2>3. Live(s) => \/ t.gen + 1 < session[s].gen
                   \/ t.gen < session[s].gen /\ t.gen < closed[s]
    <3>1. t.gen < session[s].gen /\ closed[s] \in Nat
      BY <1>1, <1>2, <1>7 DEF SessionsInv, TypeOK
    <3> QED
      BY <1>1, <1>2, <1>7, <3>1 DEF InGrace
  <2>4. ReqOK(q)
    BY <1>1, <1>2, <2>2, <2>3 DEF ReqOK
  <2> QED
    BY <1>3, <1>7, <2>1, <2>4, OnlyAround
<1> QED
  BY <1>4, <1>6, <1>7 DEF RefreshStart

LEMMA RereadStep ==
  ASSUME SessionsInv, NEW r \in Slots, Reread(r)
  PROVE  SessionsInv'
<1>1. reqs[r] \in Request /\ ReqOK(reqs[r]) /\ reqs[r].pc = "reread"
  BY Underway DEF Reread, At
<1>2. PICK s \in Ids : s = reqs[r].sid
  BY <1>1 DEF ReqOK
<1>3. session[s] # None /\ Clean(s) /\ session[s].gen \in Nat /\ closed[s] \in Nat
  BY <1>1, <1>2, FieldsOfSession DEF ReqOK, SessionsInv, TypeOK
<1>4. RowsAlone
  BY Unmoved DEF RowsAlone, Reread, Writes, outVars, socketVars, countVars
<1>5. CASE Answer(r, reqs[r])
  BY <1>1, <1>2, <1>3, <1>4, <1>5, AnswerOK, OnlyAround DEF ReqOK
<1>6. CASE ~InGrace(s, reqs[r].gen) /\ Goto(r, [reqs[r] EXCEPT !.pc = "cut"])
  <2>1. PICK q \in Request : q = [reqs[r] EXCEPT !.pc = "cut"]
    BY <1>1, Onward DEF Steps
  <2>2. q.pc = "cut" /\ q.op = "refresh" /\ q.sid = s /\ q.ver = reqs[r].ver /\ q.gen = reqs[r].gen
    BY <1>1, <1>2, <2>1, Onward DEF Steps, ReqOK
  <2>3. q.gen \in Nat /\ (q.gen < session[s].gen \/ session[s].revoked)
    BY <1>1, <1>2, <2>2 DEF ReqOK, Request
  <2>4. Live(s) => \/ q.gen + 1 < session[s].gen
                   \/ q.gen < session[s].gen /\ q.gen < closed[s]
    BY <1>3, <1>6, <2>2, <2>3 DEF InGrace, Live
  <2>5. ReqOK(q)
    BY <1>1, <1>2, <2>2, <2>4 DEF ReqOK
  <2> QED
    BY <1>4, <1>6, <2>1, <2>5, OnlyAround
<1> QED
  BY <1>2, <1>5, <1>6 DEF Reread

\* What an answer hands out was right when it was made up, and is.
LEMMA HandStep ==
  ASSUME SessionsInv, NEW r \in Slots, Hand(r)
  PROVE  SessionsInv'
<1>1. reqs[r] \in Request /\ ReqOK(reqs[r]) /\ reqs[r].pc = "answer"
  BY Underway DEF Hand, At
<1>2. reqs[r].sid \in Ids
  BY <1>1 DEF ReqOK
<1>3. PICK n \in Token : /\ n.sid = reqs[r].sid /\ n.ver = reqs[r].ver /\ n.gen = reqs[r].gen
                         /\ issued' \in {issued, issued \cup {n}}
  <2>1. [sid |-> reqs[r].sid, ver |-> reqs[r].ver, gen |-> reqs[r].gen] \in Token
    BY <1>1, <1>2 DEF Token, Request
  <2> QED
    BY <2>1 DEF Hand
<1>4. TokenOK(n)
  BY <1>1, <1>3 DEF ReqOK, TokenOK
<1>5. \A t \in issued' : t \in issued \/ (t \in Token /\ TokenOK(t))
  <2>1. \A t \in Token : t = n => TokenOK(t)
    BY <1>4 DEF TokenOK
  <2> QED
    BY <1>3, <2>1
<1>6. RowsAlone
  BY <1>5, Unmoved DEF RowsAlone, Hand, Writes, socketVars, countVars
<1> QED
  BY <1>6, Unmoved, OnlyAround DEF Hand, Done

LEMMA ResetStarts ==
  ASSUME SessionsInv, NEW r \in Slots, NEW l \in links, ResetStart(r, l)
  PROVE  SessionsInv'
<1>1. l.user \in Users /\ Exists(l.user)
  BY DEF SessionsInv, TypeOK, Link
<1>2. PICK q \in Request : q = Req("reset", "write", l.user)
  BY <1>1, ReqTyped DEF Ops, Steps
<1>3. q.pc = "write" /\ q.op = "reset" /\ q.user = l.user /\ q.ver = 0 /\ q.era = 0
  BY <1>1, <1>2, ReqTyped DEF Ops, Steps
<1>4. ReqOK(q)
  BY <1>1, <1>3 DEF ReqOK, SessionsInv, TypeOK
<1> QED
  BY <1>2, <1>4, Beginning DEF ResetStart

-----------------------------------------------------------------------------
(* Steps of no request.                                                         *)

\* The connections after a step are of sessions there are.
SocketsRight ==
  /\ socket' \in [Sockets -> Connection \cup {None}] /\ late' \subseteq Sockets
  /\ \A k \in Sockets :
       socket'[k] # None => socket'[k].sid \in Ids /\ session[socket'[k].sid] # None

LEMMA NoRequest ==
  ASSUME SessionsInv,
         \/ \E u \in Users : Forgot(u)
         \/ \E k \in Sockets : HandshakeOpen(k) \/ SocketCloses(k)
                               \/ \E t \in issued : HandshakeStart(k, t)
         \/ Crash
  PROVE  SessionsInv'
<1>1. UNCHANGED <<rowVars, issued, code>>
  BY DEF Forgot, HandshakeOpen, SocketCloses, HandshakeStart, Crash, outVars
<1>2. /\ Grow /\ VersionsCount' /\ \A s \in Ids : SessionOK(s)'
  BY <1>1, RowsStill
<1>3. \A x \in Slots : reqs'[x] = reqs[x] \/ reqs'[x] = Idle
  BY DEF Forgot, HandshakeOpen, SocketCloses, HandshakeStart, Crash
<1>4. reqs' \in [Slots -> Request \cup {Idle}] /\ calls' \in 0 .. MaxCalls /\ crashes' \in 0 .. MaxCrashes
  <2>1. /\ calls' = calls \/ Counted
        /\ crashes' = crashes \/ (crashes < MaxCrashes /\ crashes' = crashes + 1)
        /\ reqs' = reqs \/ reqs' = [r \in Slots |-> Idle]
    BY DEF Forgot, HandshakeOpen, SocketCloses, HandshakeStart, Crash, countVars
  <2>2. crashes' \in 0 .. MaxCrashes
    BY <2>1, SessionsAssumption DEF SessionsInv, TypeOK
  <2>3. reqs' \in [Slots -> Request \cup {Idle}]
    BY <2>1 DEF SessionsInv, TypeOK
  <2> QED
    BY <2>1, <2>2, <2>3, Unmoved
<1>5. links' \subseteq Link /\ \A l \in links' : l \in links \/ Exists(l.user)
  <2>1. ASSUME NEW u \in Users, Forgot(u) PROVE links' \subseteq Link /\ \A l \in links' : l \in links \/ Exists(l.user)
    <3>1. Exists(u) /\ links' = links \cup {[user |-> u, ver |-> account[u].ver]}
      BY <2>1 DEF Forgot, Exists
    <3>2. account[u].ver \in Nat
      BY <3>1, VersionNow
    <3> QED
      BY <3>1, <3>2 DEF SessionsInv, TypeOK, Link
  <2>2. CASE links' = links
    BY <2>2 DEF SessionsInv, TypeOK
  <2> QED
    BY <2>1, <2>2 DEF HandshakeOpen, SocketCloses, HandshakeStart, Crash, outVars
<1>6. SocketsRight
  <2>1. \A k \in Sockets : socket[k] # None => socket[k] \in Connection /\ session[socket[k].sid] # None
    BY DEF SessionsInv, TypeOK
  <2>2. ASSUME NEW K, Close(K) PROVE SocketsRight
    BY <2>1, <2>2, Unmoved DEF SocketsRight, Close, Connection
  <2>3. CASE UNCHANGED socketVars
    BY <2>1, <2>3, Unmoved DEF SocketsRight, socketVars, Connection
  <2>4. ASSUME NEW k \in Sockets, NEW t \in issued, HandshakeStart(k, t) PROVE SocketsRight
    <3>1. t.sid \in Ids /\ session[t.sid] # None
      BY <2>4, AcceptedClean DEF HandshakeStart
    <3> QED
      BY <2>1, <2>4, <3>1, Unmoved DEF SocketsRight, HandshakeStart, Connection
  <2>5. ASSUME NEW k \in Sockets, HandshakeOpen(k) PROVE SocketsRight
    BY <2>1, <2>5, Unmoved DEF SocketsRight, HandshakeOpen, Connection
  <2> QED
    BY <2>2, <2>3, <2>4, <2>5 DEF Forgot, SocketCloses, Crash
<1>7. TypeOK'
  BY <1>1, <1>4, <1>5, <1>6 DEF SocketsRight, SessionsInv, TypeOK, rowVars
<1> QED
  BY <1>1, <1>2, <1>3, <1>5, <1>6, <1>7, Kept DEF SocketsRight

-----------------------------------------------------------------------------
(* Steps that write a User row.                                                 *)

\* The row of u becomes `row`, with the version as it is, or raised with an ending.
RowWritten(u, row) ==
  /\ account' = [account EXCEPT ![u] = row]
  /\ UNCHANGED <<session, closed, since, cut, outVars, socketVars>>
  /\ crashes' = crashes /\ calls' \in 0 .. MaxCalls
  /\ \/ row.ver = endings[u] /\ endings' = endings /\ unfinished' = unfinished
     \/ /\ row.ver = endings[u] + 1
        /\ endings' = [endings EXCEPT ![u] = @ + 1] /\ unfinished' = unfinished \cup {u}

LEMMA WrittenGrows ==
  ASSUME SessionsInv, NEW u \in Users, NEW row \in Account, RowWritten(u, row)
  PROVE  /\ Grow /\ VersionsCount' /\ \A s \in Ids : SessionOK(s)'
         /\ Exists(u)' /\ endings'[u] = row.ver
         /\ reqs' \in [Slots -> Request \cup {Idle}] => TypeOK'
<1>1. row # None /\ row.ver \in Nat
  BY SessionsAssumption DEF Account
<1>2. /\ account' \in [Users -> Account \cup {None}] /\ endings' \in [Users -> Nat]
      /\ unfinished' \subseteq Users /\ unfinished \subseteq unfinished'
  BY DEF RowWritten, SessionsInv, TypeOK
<1>3. /\ account'[u] = row /\ \A v \in Users : v # u => account'[v] = account[v]
      /\ endings'[u] = row.ver /\ endings[u] <= endings'[u]
      /\ \A v \in Users : v # u => endings'[v] = endings[v]
      /\ endings'[u] # endings[u] => u \in unfinished'
  BY <1>1 DEF RowWritten, SessionsInv, TypeOK
<1>4. session' = session /\ closed' = closed /\ since' = since
  BY DEF RowWritten
<1>5. \A v \in Users : endings[v] \in Nat
  BY DEF SessionsInv, TypeOK
<1>6. \A v \in Users : (Exists(v) => account'[v] # None) /\ endings[v] <= endings'[v]
  BY <1>1, <1>3, <1>5 DEF Exists
<1>7. ASSUME NEW s \in Ids, session[s] # None, Clean(s) PROVE Clean(s)'
  <2>1. User(s) \in Users /\ User(s)' = User(s)
    BY <1>4, <1>7, FieldsOfSession DEF SessionsInv, User
  <2> QED
    BY <1>2, <1>3, <1>4, <1>7, <2>1 DEF Clean
<1>8. Grow
  <2>1. \A s \in Ids : session[s] # None => session[s].gen \in Nat /\ closed[s] \in Nat
    BY FieldsOfSession DEF SessionsInv, TypeOK
  <2> QED
    BY <1>4, <1>6, <1>7, <2>1 DEF Grow
<1>9. VersionsCount'
  BY <1>1, <1>3 DEF VersionsCount, SessionsInv, Exists
<1>10. \A s \in Ids : SessionOK(s)'
  <2> SUFFICES ASSUME NEW s \in Ids, session[s] # None PROVE SessionOK(s)'
    BY <1>4 DEF SessionOK
  <2>1. User(s) \in Users /\ User(s)' = User(s) /\ Exists(User(s)) /\ since[s] <= endings[User(s)]
    BY <1>4, FieldsOfSession DEF SessionsInv, User, SessionOK
  <2>2. since[s] \in Nat
    BY DEF SessionsInv, TypeOK
  <2>3. endings'[User(s)] \in Nat
    BY <1>2, <2>1
  <2> QED
    BY <1>4, <1>5, <1>6, <2>1, <2>2, <2>3 DEF SessionOK, Exists
<1>11. reqs' \in [Slots -> Request \cup {Idle}] => TypeOK'
  BY <1>2 DEF RowWritten, SessionsInv, TypeOK, outVars, socketVars
<1> QED
  BY <1>1, <1>3, <1>8, <1>9, <1>10, <1>11 DEF Exists

\* With what the request has become.
LEMMA WrittenOK ==
  ASSUME SessionsInv, NEW u \in Users, NEW row \in Account, RowWritten(u, row),
         NEW r \in Slots, NEW q \in Request \cup {Idle}, Goto(r, q), q = Idle \/ ReqOK(q)'
  PROVE  SessionsInv'
<1>1. /\ Grow /\ VersionsCount' /\ \A s \in Ids : SessionOK(s)'
  BY WrittenGrows
<1>2. TypeOK'
  BY WrittenGrows, Moved
<1>3. \A x \in Slots : reqs'[x] = reqs[x] \/ reqs'[x] = Idle \/ ReqOK(reqs[x])'
  BY Moved
<1>4. issued' = issued /\ code' = code /\ links' = links /\ socket' = socket
  BY DEF RowWritten, outVars, socketVars
<1>5. \A k \in Sockets :
        socket'[k] # None => socket'[k].sid \in Ids /\ session[socket'[k].sid] # None
  BY <1>4 DEF SessionsInv, TypeOK, Connection
<1> QED
  BY <1>1, <1>2, <1>3, <1>4, <1>5, Kept

\* What the writes of a User row make of it.
LEMMA Fields == ASSUME NEW a \in Account
  PROVE a.ver \in Nat /\ a.password \in BOOLEAN /\ a.verified \in BOOLEAN /\ a.google \in BOOLEAN
BY DEF Account

LEMMA Linking ==
  ASSUME NEW a \in Account, NEW p \in BOOLEAN
  PROVE  /\ Linked(a, p) \in Account
         /\ Linked(a, p).ver = IF p THEN a.ver ELSE a.ver + 1
<1>1. PICK w \in BOOLEAN : w = (a.password /\ p)
  OBVIOUS
<1>2. PICK v \in Nat : v = IF p THEN a.ver ELSE a.ver + 1
  BY Fields
<1>3. Linked(a, p) = [a EXCEPT !.google = TRUE, !.verified = TRUE, !.password = w, !.ver = v]
  BY <1>1, <1>2 DEF Linked
<1> QED
  BY <1>2, <1>3 DEF Account

LEMMA Raised ==
  ASSUME NEW a \in Account
  PROVE  /\ [a EXCEPT !.ver = @ + 1] \in Account
         /\ [a EXCEPT !.ver = @ + 1].ver = a.ver + 1
         /\ [a EXCEPT !.ver = @ + 1, !.password = TRUE, !.verified = TRUE] \in Account
         /\ [a EXCEPT !.ver = @ + 1, !.password = TRUE, !.verified = TRUE].ver = a.ver + 1
<1>1. PICK v \in Nat : v = a.ver + 1
  BY Fields
<1>2. /\ [a EXCEPT !.ver = v] \in Account /\ [a EXCEPT !.ver = v].ver = v
      /\ [a EXCEPT !.ver = v, !.password = TRUE, !.verified = TRUE] \in Account
      /\ [a EXCEPT !.ver = v, !.password = TRUE, !.verified = TRUE].ver = v
  BY DEF Account
<1> QED
  BY <1>1, <1>2

\* The version of a row that is there, or 0, is the number of endings.
LEMMA VersionThere ==
  ASSUME SessionsInv, NEW u \in Users
  PROVE  /\ endings[u] \in Nat
         /\ Exists(u) => account[u] \in Account /\ account[u].ver = endings[u]
         /\ ~Exists(u) => endings[u] = 0
BY VersionNow DEF SessionsInv, TypeOK, VersionsCount

LEMMA RegisterCreateStep ==
  ASSUME SessionsInv, NEW r \in Slots, RegisterCreate(r)
  PROVE  SessionsInv'
<1>1. reqs[r] \in Request /\ ReqOK(reqs[r]) /\ reqs[r].pc = "create"
  BY Underway DEF RegisterCreate, At
<1>2. PICK u \in Users : u = reqs[r].user
  BY <1>1 DEF Request
<1>3. CASE account[u] = None
  <2> DEFINE row == [ver |-> 0, password |-> TRUE, verified |-> FALSE, google |-> FALSE]
  <2>1. row \in Account /\ row.ver = endings[u]
    BY <1>3, VersionThere DEF Account, Exists
  <2>2. RowWritten(u, row)
    BY <1>2, <1>3, <2>1, Unmoved DEF RegisterCreate, RowWritten, Writes, socketVars, countVars
  <2>3. PICK q \in Request : q = [reqs[r] EXCEPT !.pc = "issue"]
    BY <1>1, Onward DEF Steps
  <2>4. q.pc = "issue" /\ q.op = reqs[r].op /\ q.user = u /\ q.ver = reqs[r].ver /\ q.era = reqs[r].era
    BY <1>1, <1>2, <2>3, Onward DEF Steps
  <2>5. q.op # "refresh" /\ q.ver = 0 /\ q.era = 0
    BY <1>1, <2>4 DEF ReqOK
  <2>6. Exists(u)' /\ endings'[u] = 0
    BY <2>1, <2>2, WrittenGrows
  <2>7. ReqOK(q)'
    BY <2>4, <2>5, <2>6 DEF ReqOK, Exists
  <2>8. Goto(r, q)
    BY <1>2, <1>3, <2>3 DEF RegisterCreate
  <2> QED
    BY <2>1, <2>2, <2>7, <2>8, WrittenOK
<1>4. CASE account[u] # None
  <2>1. RowsAlone
    BY <1>2, <1>4, Unmoved
    DEF RegisterCreate, RowsAlone, rowVars, outVars, Writes, socketVars, countVars
  <2> QED
    BY <1>2, <1>4, <2>1, Unmoved, OnlyAround DEF RegisterCreate, Done
<1> QED
  BY <1>3, <1>4

LEMMA GoogleWriteStep ==
  ASSUME SessionsInv, NEW r \in Slots, GoogleWrite(r)
  PROVE  SessionsInv'
<1> DEFINE p == reqs[r]
           proven == p.saw # None /\ (p.saw.verified \/ p.saw.google)
<1>1. p \in Request /\ ReqOK(p) /\ p.pc = "link"
  BY Underway DEF GoogleWrite, At
<1>2. PICK u \in Users : u = p.user
  BY <1>1 DEF Request
<1>3. p.op # "refresh" /\ endings[u] \in Nat
  BY <1>1, VersionThere DEF ReqOK
<1>4. CASE p.saw = None /\ account[u] # None
  <2>1. RowsAlone
    BY <1>2, <1>4, Unmoved
    DEF GoogleWrite, RowsAlone, rowVars, outVars, Writes, socketVars, countVars
  <2> QED
    BY <1>2, <1>4, <2>1, Unmoved, OnlyAround DEF GoogleWrite, Done
<1>5. CASE ~(p.saw = None /\ account[u] # None)
  <2>1. PICK row : row = IF p.saw = None
                         THEN [ver |-> 0, password |-> FALSE, verified |-> TRUE, google |-> TRUE]
                         ELSE Linked(account[u], proven)
    OBVIOUS
  <2>2. /\ row \in Account
        /\ row.ver = IF p.saw = None \/ proven THEN endings[u] ELSE endings[u] + 1
    <3>1. CASE p.saw = None
      BY <1>5, <2>1, <3>1, VersionThere DEF Account, Exists
    <3>2. CASE p.saw # None
      <4>1. account[u] \in Account /\ account[u].ver = endings[u]
        BY <1>1, <1>2, <3>2, VersionThere DEF ReqOK
      <4>2. proven \in BOOLEAN
        BY DEF Account
      <4>3. row = Linked(account[u], proven)
        BY <2>1, <3>2
      <4> HIDE DEF proven
      <4> QED
        BY <3>2, <4>1, <4>2, <4>3, Linking
    <3> QED
      BY <3>1, <3>2
  <2>3. RowWritten(u, row)
    BY <1>2, <1>5, <2>1, <2>2, Unmoved
    DEF GoogleWrite, RowWritten, Raise, Writes, socketVars, countVars
  <2>4. Exists(u)' /\ endings'[u] = row.ver
    BY <2>2, <2>3, WrittenGrows
  <2>5. PICK q \in Request : /\ Goto(r, q) /\ q.pc \in {"issue", "revokeAll"}
                             /\ q.op = p.op /\ q.user = u /\ q.ver = row.ver /\ q.era = row.ver
    <3>1. row.ver \in Nat
      BY <2>2 DEF Account
    <3>2. CASE p.saw = None \/ proven
      <4>1. Goto(r, With(p, row.ver, u)) /\ row.ver = endings[u]
        BY <1>2, <1>5, <2>1, <2>2, <3>2 DEF GoogleWrite
      <4>2. PICK q \in Request : q = With(p, row.ver, u)
        BY <1>1, <1>3, <3>1, <1>2, <4>1 DEF With, Request, Steps
      <4>3. q.pc = "issue" /\ q.op = p.op /\ q.user = p.user /\ q.ver = row.ver /\ q.era = endings[u]
        BY <1>1, <4>2 DEF With, Request
      <4> QED
        BY <1>2, <4>1, <4>2, <4>3
    <3>3. CASE ~(p.saw = None \/ proven)
      <4>1. /\ Goto(r, [p EXCEPT !.pc = "revokeAll", !.ver = row.ver, !.era = endings[u] + 1])
            /\ row.ver = endings[u] + 1
        BY <1>2, <1>5, <2>1, <2>2, <3>3 DEF GoogleWrite
      <4>2. PICK q \in Request :
              q = [p EXCEPT !.pc = "revokeAll", !.ver = row.ver, !.era = row.ver]
        BY <1>1, <3>1 DEF Request, Steps
      <4>3. /\ q.pc = "revokeAll" /\ q.op = p.op /\ q.user = p.user
            /\ q.ver = row.ver /\ q.era = row.ver
        BY <1>1, <4>2 DEF Request
      <4> QED
        BY <1>2, <4>1, <4>2, <4>3
    <3> QED
      BY <3>2, <3>3
  <2>6. ReqOK(q)'
    <3>1. row.ver \in Nat
      BY <2>2 DEF Account
    <3> QED
      BY <1>3, <2>4, <2>5, <3>1 DEF ReqOK, Exists
  <2> QED
    BY <2>2, <2>3, <2>5, <2>6, WrittenOK
<1> QED
  BY <1>4, <1>5

LEMMA EndAllStep ==
  ASSUME SessionsInv, NEW r \in Slots, NEW u \in Users, EndAll(r, u)
  PROVE  SessionsInv'
<1>1. account[u] \in Account /\ account[u].ver = endings[u] /\ endings[u] \in Nat
  BY VersionThere DEF EndAll, Exists
<1>2. PICK row \in Account : row = [account[u] EXCEPT !.ver = @ + 1]
  BY <1>1, Raised
<1>3. row.ver = endings[u] + 1
  BY <1>1, <1>2, Raised
<1>4. RowWritten(u, row)
  BY <1>2, <1>3, Unmoved DEF EndAll, Arrive, RowWritten, Raise, socketVars
<1>5. Exists(u)' /\ endings'[u] \in Nat
  BY <1>4, WrittenGrows DEF Account
<1>6. PICK q \in Request : q = Req("endAll", "revokeAll", u)
  BY ReqTyped DEF Ops, Steps
<1>7. q.pc = "revokeAll" /\ q.op = "endAll" /\ q.user = u /\ q.ver = 0 /\ q.era = 0
  BY <1>6, ReqTyped DEF Ops, Steps
<1>8. ReqOK(q)'
  BY <1>5, <1>7 DEF ReqOK, Exists
<1> QED
  BY <1>4, <1>6, <1>8, WrittenOK DEF EndAll

LEMMA ResetWriteStep ==
  ASSUME SessionsInv, NEW r \in Slots, ResetWrite(r)
  PROVE  SessionsInv'
<1>1. reqs[r] \in Request /\ ReqOK(reqs[r]) /\ reqs[r].pc = "write"
  BY Underway DEF ResetWrite, At
<1>2. PICK u \in Users : u = reqs[r].user
  BY <1>1 DEF Request
<1>3. account[u] \in Account /\ account[u].ver = endings[u] /\ endings[u] \in Nat
  BY <1>1, <1>2, VersionThere DEF ReqOK
<1>4. PICK row \in Account :
        row = [account[u] EXCEPT !.ver = @ + 1, !.password = TRUE, !.verified = TRUE]
  BY <1>3, Raised
<1>5. row.ver = endings[u] + 1
  BY <1>3, <1>4, Raised
<1>6. RowWritten(u, row)
  BY <1>2, <1>4, <1>5, Unmoved DEF ResetWrite, RowWritten, Raise, Writes, socketVars, countVars
<1>7. Exists(u)' /\ endings'[u] = endings[u] + 1
  BY <1>5, <1>6, WrittenGrows
<1>8. PICK q \in Request : q = [reqs[r] EXCEPT !.pc = "revokeAll"]
  BY <1>1, Onward DEF Steps
<1>9. /\ q.pc = "revokeAll" /\ q.op = reqs[r].op /\ q.user = u
      /\ q.ver = reqs[r].ver /\ q.era = reqs[r].era
  BY <1>1, <1>2, <1>8, Onward DEF Steps
<1>10. q.op # "refresh" /\ q.era = q.ver /\ q.ver \in Nat /\ q.ver <= endings[u]
  BY <1>1, <1>2, <1>9 DEF ReqOK, Request
<1>11. ReqOK(q)'
  BY <1>3, <1>7, <1>9, <1>10 DEF ReqOK, Exists
<1> QED
  BY <1>2, <1>6, <1>8, <1>11, WrittenOK DEF ResetWrite

LEMMA VerifyEmailStep ==
  ASSUME SessionsInv, NEW u \in Users, VerifyEmail(u)
  PROVE  SessionsInv'
<1>1. account[u] \in Account /\ account[u].ver = endings[u]
  BY VersionThere DEF VerifyEmail, Exists
<1>2. PICK row \in Account : row = [account[u] EXCEPT !.verified = TRUE]
  BY <1>1 DEF Account
<1>3. row.ver = endings[u]
  BY <1>1, <1>2 DEF Account
<1>4. account' = [account EXCEPT ![u] = row]
  BY <1>2 DEF VerifyEmail
<1>5. RowWritten(u, row)
  BY <1>3, <1>4, Unmoved DEF VerifyEmail, RowWritten
<1>6. reqs' = reqs /\ issued' = issued /\ code' = code /\ links' = links /\ socket' = socket
  BY DEF VerifyEmail, outVars, socketVars
<1>7. /\ Grow /\ VersionsCount' /\ TypeOK' /\ \A s \in Ids : SessionOK(s)'
  BY <1>5, <1>6, WrittenGrows DEF SessionsInv, TypeOK
<1>8. \A k \in Sockets :
        socket'[k] # None => socket'[k].sid \in Ids /\ session[socket'[k].sid] # None
  BY <1>6 DEF SessionsInv, TypeOK, Connection
<1> QED
  BY <1>6, <1>7, <1>8, Kept

-----------------------------------------------------------------------------
(* Steps that write Session rows.                                               *)

\* Writing a row that is there: its generation and its marks go up.
LEMMA RowsMove ==
  ASSUME SessionsInv, UNCHANGED <<account, endings, since>>,
         session' \in [Ids -> Session \cup {None}], closed' \in [Ids -> Nat],
         \A s \in Ids :
           /\ closed[s] <= closed'[s]
           /\ session[s] = None => session'[s] = None
           /\ session[s] # None =>
                /\ session'[s] # None /\ session'[s].user = session[s].user
                /\ session[s].gen <= session'[s].gen
                /\ session[s].revoked => session'[s].revoked
                /\ session[s].expired => session'[s].expired
                /\ User(s) \in unfinished => User(s) \in unfinished' \/ session'[s].revoked
  PROVE  /\ Grow /\ VersionsCount' /\ \A s \in Ids : SessionOK(s)'
<1>1. VersionsCount' /\ \A s \in Ids : SessionOK(s)'
  BY DEF SessionsInv, VersionsCount, SessionOK, Exists, User
<1>2. \A u \in Users : endings[u] \in Nat
  BY DEF SessionsInv, TypeOK
<1>3. ASSUME NEW s \in Ids, session[s] # None, Clean(s) PROVE Clean(s)'
  BY <1>3 DEF Clean, User
<1> QED
  BY <1>1, <1>2, <1>3 DEF Grow, Exists

LEMMA RevokedMove ==
  ASSUME SessionsInv, NEW S, session' = Revoked(S), UNCHANGED <<account, closed, endings, since>>,
         \/ unfinished' = unfinished
         \/ \E u \in Users : /\ unfinished' = unfinished \ {u}
                             /\ S = {s \in Ids : session[s] # None /\ User(s) = u}
  PROVE  /\ Grow /\ VersionsCount' /\ \A s \in Ids : SessionOK(s)'
         /\ session' \in [Ids -> Session \cup {None}] /\ closed' \in [Ids -> Nat]
         /\ unfinished' \subseteq Users
<1>1. \A s \in Ids : session[s] # None => session[s] \in Session
  BY DEF SessionsInv, TypeOK
<1>2. \A s \in Ids : session[s] # None =>
        /\ [session[s] EXCEPT !.revoked = TRUE] \in Session
        /\ [session[s] EXCEPT !.revoked = TRUE].user = session[s].user
        /\ [session[s] EXCEPT !.revoked = TRUE].gen = session[s].gen
        /\ [session[s] EXCEPT !.revoked = TRUE].revoked
        /\ [session[s] EXCEPT !.revoked = TRUE].expired = session[s].expired
        /\ session[s].gen \in Nat
  BY <1>1 DEF Session
<1>3. \A s \in Ids : session'[s] = IF s \in S /\ session[s] # None
                                   THEN [session[s] EXCEPT !.revoked = TRUE] ELSE session[s]
  BY DEF Revoked
<1>4. session' \in [Ids -> Session \cup {None}] /\ closed' \in [Ids -> Nat] /\ unfinished' \subseteq Users
  BY <1>1, <1>2 DEF Revoked, SessionsInv, TypeOK
<1>5. \A s \in Ids : closed[s] <= closed'[s]
  BY DEF SessionsInv, TypeOK
<1>6. ASSUME NEW s \in Ids, session[s] # None
      PROVE  /\ session'[s] # None /\ session'[s].user = session[s].user
             /\ session[s].gen <= session'[s].gen
             /\ session[s].revoked => session'[s].revoked
             /\ session[s].expired => session'[s].expired
             /\ s \in S => session'[s].revoked
  <2>1. session[s].gen \in Nat
    BY <1>2, <1>6
  <2>2. CASE s \in S
    <3>1. session'[s] = [session[s] EXCEPT !.revoked = TRUE]
      BY <1>3, <1>6, <2>2
    <3>2. session'[s] \in Session /\ session'[s].user = session[s].user
          /\ session'[s].gen = session[s].gen /\ session'[s].revoked
          /\ session'[s].expired = session[s].expired
      BY <1>2, <1>6, <3>1
    <3> QED
      BY <2>1, <3>2, SessionsAssumption
  <2>3. CASE s \notin S
    <3>1. session'[s] = session[s]
      BY <1>3, <2>3
    <3> QED
      BY <1>6, <2>1, <2>3, <3>1
  <2> QED
    BY <2>2, <2>3
<1>7. \A s \in Ids : session[s] # None /\ User(s) \in unfinished =>
                       User(s) \in unfinished' \/ session'[s].revoked
  BY <1>6
<1>8. \A s \in Ids : session[s] = None => session'[s] = None
  BY <1>3
<1> QED
  BY <1>4, <1>5, <1>6, <1>7, <1>8, RowsMove

\* With what the request has become.
LEMMA RevokedOK ==
  ASSUME SessionsInv, NEW S, session' = Revoked(S), UNCHANGED <<account, closed, endings, since>>,
         \/ unfinished' = unfinished
         \/ \E u \in Users : /\ unfinished' = unfinished \ {u}
                             /\ S = {s \in Ids : session[s] # None /\ User(s) = u},
         cut' \subseteq Ids, UNCHANGED <<outVars, socketVars, crashes>>, calls' \in 0 .. MaxCalls,
         NEW r \in Slots, NEW q \in Request \cup {Idle}, Goto(r, q), q = Idle \/ ReqOK(q)
  PROVE  SessionsInv'
<1>1. /\ Grow /\ VersionsCount' /\ \A s \in Ids : SessionOK(s)'
      /\ session' \in [Ids -> Session \cup {None}] /\ closed' \in [Ids -> Nat]
      /\ unfinished' \subseteq Users
  BY RevokedMove
<1>2. TypeOK'
  BY <1>1, Moved DEF SessionsInv, TypeOK, outVars, socketVars
<1>3. q = Idle \/ ReqOK(q)'
  BY <1>1, <1>2, Carried
<1>4. \A x \in Slots : reqs'[x] = reqs[x] \/ reqs'[x] = Idle \/ ReqOK(reqs[x])'
  BY <1>3, Moved
<1>5. issued' = issued /\ code' = code /\ links' = links /\ socket' = socket
  BY DEF outVars, socketVars
<1>6. \A k \in Sockets :
        socket'[k] # None => socket'[k].sid \in Ids /\ session[socket'[k].sid] # None
  BY <1>5 DEF SessionsInv, TypeOK, Connection
<1> QED
  BY <1>1, <1>2, <1>4, <1>5, <1>6, Kept

LEMMA CutStep ==
  ASSUME SessionsInv, NEW r \in Slots, Cut(r)
  PROVE  SessionsInv'
<1>1. reqs[r].sid \in Ids
  BY Underway DEF Cut, At, ReqOK
<1>2. cut' \subseteq Ids /\ calls' \in 0 .. MaxCalls /\ UNCHANGED <<outVars, socketVars, crashes>>
  BY <1>1, Unmoved DEF Cut, Writes, countVars, SessionsInv, TypeOK
<1> QED
  BY <1>2, Unmoved, RevokedOK DEF Cut, Done

LEMMA LogoutStep ==
  ASSUME SessionsInv, NEW r \in Slots, NEW t \in issued, Logout(r, t)
  PROVE  SessionsInv'
<1>1. t.sid \in Ids /\ session[t.sid] # None /\ User(t.sid) \in Users
  BY FieldsOfSession DEF SessionsInv, TypeOK, Token, TokenOK
<1>2. PICK q \in Request : /\ q = [Req("logout", "drop", User(t.sid)) EXCEPT !.sid = t.sid]
                           /\ q.pc = "drop" /\ q.op = "logout" /\ q.user = User(t.sid)
                           /\ q.ver = 0 /\ q.era = 0
  <2>1. PICK p \in Request : /\ p = Req("logout", "drop", User(t.sid))
                             /\ p.pc = "drop" /\ p.op = "logout" /\ p.user = User(t.sid)
                             /\ p.ver = 0 /\ p.era = 0
    BY <1>1, ReqTyped DEF Ops, Steps
  <2>2. [p EXCEPT !.sid = t.sid] \in Request
    BY <1>1 DEF Request
  <2>3. LET q == [p EXCEPT !.sid = t.sid] IN
        /\ q.pc = "drop" /\ q.op = "logout" /\ q.user = User(t.sid) /\ q.ver = 0 /\ q.era = 0
    BY <2>1 DEF Request
  <2> QED
    BY <2>1, <2>2, <2>3
<1>3. ReqOK(q)
  BY <1>1, <1>2 DEF ReqOK, SessionsInv, TypeOK
<1>4. cut' \subseteq Ids /\ calls' \in 0 .. MaxCalls /\ UNCHANGED <<outVars, socketVars, crashes>>
  BY Unmoved DEF Logout, Arrive, SessionsInv, TypeOK
<1> QED
  BY <1>2, <1>3, <1>4, RevokedOK DEF Logout

LEMMA RevokeAllStep ==
  ASSUME SessionsInv, NEW r \in Slots, RevokeAll(r)
  PROVE  SessionsInv'
<1>1. reqs[r] \in Request /\ ReqOK(reqs[r]) /\ reqs[r].pc = "revokeAll"
  BY Underway DEF RevokeAll, At
<1>2. PICK u \in Users : u = reqs[r].user
  BY <1>1 DEF Request
<1>3. PICK q \in Request : q = [reqs[r] EXCEPT !.pc = "dropAll"]
  BY <1>1, Onward DEF Steps
<1>4. q.pc = "dropAll" /\ q.op = reqs[r].op /\ q.user = reqs[r].user /\ q.ver = reqs[r].ver
      /\ q.era = reqs[r].era
  BY <1>1, <1>3, Onward DEF Steps
<1>5. ReqOK(q)
  BY <1>1, <1>4 DEF ReqOK
<1>6. cut' \subseteq Ids /\ calls' \in 0 .. MaxCalls /\ UNCHANGED <<outVars, socketVars, crashes>>
  BY Unmoved DEF RevokeAll, Writes, countVars, SessionsInv, TypeOK
<1> QED
  BY <1>2, <1>3, <1>5, <1>6, RevokedOK DEF RevokeAll

LEMMA RotateStep ==
  ASSUME SessionsInv, NEW r \in Slots, Rotate(r)
  PROVE  SessionsInv'
<1>1. reqs[r] \in Request /\ ReqOK(reqs[r]) /\ reqs[r].pc = "rotate"
  BY Underway DEF Rotate, At
<1>2. PICK s \in Ids : s = reqs[r].sid /\ session[s] # None /\ Clean(s)
  BY <1>1 DEF ReqOK
<1>3. PICK g \in Nat, v \in Nat : g = reqs[r].gen /\ v = reqs[r].ver
  BY <1>1 DEF Request
<1>4. /\ session[s] \in Session /\ User(s) \in Users /\ session[s].gen \in Nat
      /\ since[s] <= v /\ v <= endings[User(s)] /\ g <= session[s].gen /\ endings[User(s)] \in Nat
  BY <1>1, <1>2, <1>3, FieldsOfSession DEF ReqOK, SessionsInv, TypeOK
<1>5. CASE session[s].gen = g /\ ~session[s].revoked
  <2>1. PICK row \in Session :
          /\ row.user = session[s].user /\ row.gen = g + 1 /\ row.revoked = session[s].revoked
          /\ row.expired = session[s].expired /\ session' = [session EXCEPT ![s] = row]
    <3>1. session' = [session EXCEPT ![s].gen = session[s].gen + 1]
      BY <1>2, <1>3, <1>5 DEF Rotate
    <3>2. PICK n \in Nat : n = g + 1 /\ n = session[s].gen + 1
      BY <1>5
    <3>3. PICK row : row = [session[s] EXCEPT !.gen = n]
      OBVIOUS
    <3>4. /\ row \in Session /\ row.user = session[s].user /\ row.gen = n
          /\ row.revoked = session[s].revoked /\ row.expired = session[s].expired
      BY <1>4, <3>3 DEF Session
    <3>5. session' = [session EXCEPT ![s] = row]
      BY <3>1, <3>2, <3>3
    <3> QED
      BY <3>2, <3>4, <3>5
  <2>2. UNCHANGED <<account, closed, endings, since, unfinished, cut, outVars, socketVars, countVars>>
    BY DEF Rotate, Writes
  <2>3. session' \in [Ids -> Session \cup {None}] /\ closed' \in [Ids -> Nat]
    BY <2>1, <2>2 DEF SessionsInv, TypeOK
  <2>4. /\ session'[s] = row /\ \A x \in Ids : x # s => session'[x] = session[x]
        /\ row # None
    BY <2>1, SessionsAssumption DEF SessionsInv, TypeOK
  <2>5. ASSUME NEW x \in Ids
        PROVE  /\ closed[x] <= closed'[x] /\ (session[x] = None => session'[x] = None)
               /\ session[x] # None =>
                    /\ session'[x] # None /\ session'[x].user = session[x].user
                    /\ session[x].gen <= session'[x].gen
                    /\ session[x].revoked => session'[x].revoked
                    /\ session[x].expired => session'[x].expired
    <3>1. closed[x] <= closed'[x]
      BY <2>2 DEF SessionsInv, TypeOK
    <3>2. CASE x = s
      BY <1>2, <1>4, <1>5, <2>1, <2>4, <3>1, <3>2
    <3>3. CASE x # s
      BY <2>4, <3>1, <3>3, FieldsOfSession DEF SessionsInv
    <3> QED
      BY <3>2, <3>3
  <2>6. /\ Grow /\ VersionsCount' /\ \A x \in Ids : SessionOK(x)'
    BY <2>2, <2>3, <2>5, RowsMove
  <2>7. PICK q \in Request : /\ Goto(r, q) /\ q.pc = "answer" /\ q.op = "refresh" /\ q.sid = s
                             /\ q.ver = v /\ q.gen = g + 1
    <3>1. Goto(r, [reqs[r] EXCEPT !.pc = "answer", !.gen = g + 1])
      BY <1>2, <1>3, <1>5 DEF Rotate
    <3>2. PICK h \in Nat : h = g + 1
      OBVIOUS
    <3>3. PICK q \in Request : q = [reqs[r] EXCEPT !.pc = "answer", !.gen = h]
      BY <1>1 DEF Request, Steps
    <3>4. /\ q.pc = "answer" /\ q.op = reqs[r].op /\ q.sid = reqs[r].sid
          /\ q.ver = reqs[r].ver /\ q.gen = h
      BY <1>1, <3>3 DEF Request
    <3> QED
      BY <1>1, <1>2, <1>3, <3>1, <3>2, <3>3, <3>4 DEF ReqOK
  <2>8. ReqOK(q)'
    <3>1. Clean(s)' /\ User(s)' = User(s) /\ endings' = endings /\ since' = since
      BY <1>2, <2>1, <2>2, <2>4, <2>6 DEF Grow, User
    <3>2. since[s] <= v
      BY <1>1, <1>2, <1>3 DEF ReqOK
    <3> QED
      BY <1>4, <2>1, <2>4, <2>7, <3>1, <3>2 DEF ReqOK
  <2>9. \A x \in Slots : reqs'[x] = reqs[x] \/ reqs'[x] = Idle \/ ReqOK(reqs[x])'
    BY <2>7, <2>8, Moved
  <2>10. TypeOK'
    <3>1. reqs' \in [Slots -> Request \cup {Idle}]
      BY <2>7, Moved
    <3> QED
      BY <2>2, <2>3, <3>1 DEF SessionsInv, TypeOK, outVars, socketVars, countVars
  <2>11. issued' = issued /\ code' = code /\ links' = links
    BY <2>2 DEF outVars
  <2>13. \A k \in Sockets :
           socket'[k] # None => socket'[k].sid \in Ids /\ session[socket'[k].sid] # None
    BY <2>2 DEF SessionsInv, TypeOK, Connection, socketVars
  <2> QED
    BY <2>6, <2>9, <2>10, <2>11, <2>13, Kept
<1>6. CASE ~(session[s].gen = g /\ ~session[s].revoked)
  <2>1. /\ UNCHANGED <<session, account, closed, endings, since, unfinished, cut, outVars>>
        /\ Goto(r, [reqs[r] EXCEPT !.pc = "reread"]) /\ Writes
    BY <1>2, <1>3, <1>6 DEF Rotate
  <2>2. PICK q \in Request : q = [reqs[r] EXCEPT !.pc = "reread"]
    BY <1>1, Onward DEF Steps
  <2>3. q.pc = "reread" /\ q.op = "refresh" /\ q.sid = s /\ q.ver = v /\ q.gen = g
    BY <1>1, <1>2, <1>3, <2>2, Onward DEF Steps, ReqOK
  <2>4. ReqOK(q)
    BY <1>2, <1>4, <1>6, <2>3 DEF ReqOK
  <2>5. RowsAlone
    BY <2>1, Unmoved DEF RowsAlone, rowVars, outVars, Writes, socketVars, countVars
  <2> QED
    BY <2>1, <2>2, <2>4, <2>5, OnlyAround
<1> QED
  BY <1>5, <1>6

LEMMA IssueStep ==
  ASSUME SessionsInv, NEW r \in Slots, Issue(r)
  PROVE  SessionsInv'
<1>1. reqs[r] \in Request /\ ReqOK(reqs[r]) /\ reqs[r].pc = "issue"
  BY Underway DEF Issue, At
<1>2. PICK u \in Users, v \in Nat : u = reqs[r].user /\ v = reqs[r].ver
  BY <1>1 DEF Request
<1>3. /\ Exists(u) /\ reqs[r].op # "refresh" /\ reqs[r].era = v /\ v <= endings[u]
      /\ endings[u] \in Nat
  BY <1>1, <1>2 DEF ReqOK, SessionsInv, TypeOK
<1>4. PICK s \in Ids :
        /\ session[s] = None
        /\ session' = [session EXCEPT ![s] =
                         [user |-> u, gen |-> 0, revoked |-> FALSE, expired |-> FALSE]]
        /\ since' = [since EXCEPT ![s] = v]
        /\ \/ Goto(r, [reqs[r] EXCEPT !.pc = "code"])
           \/ Goto(r, [reqs[r] EXCEPT !.pc = "answer", !.sid = s, !.gen = 0])
  BY <1>2, <1>3 DEF Issue
<1>5. UNCHANGED <<account, closed, endings, unfinished, cut, outVars, socketVars, countVars>>
  BY DEF Issue, Writes
<1>6. PICK row \in Session :
        /\ row.user = u /\ row.gen = 0 /\ ~row.revoked /\ ~row.expired
        /\ session' = [session EXCEPT ![s] = row]
  <2>1. PICK row : row = [user |-> u, gen |-> 0, revoked |-> FALSE, expired |-> FALSE]
    OBVIOUS
  <2>2. row \in Session
    BY <2>1 DEF Session
  <2> QED
    BY <1>4, <2>1, <2>2
<1>7. /\ session'[s] = row /\ since'[s] = v /\ row # None
      /\ \A x \in Ids : x # s => session'[x] = session[x] /\ since'[x] = since[x]
      /\ session' \in [Ids -> Session \cup {None}] /\ since' \in [Ids -> Nat]
  <2>1. since \in [Ids -> Nat] /\ session \in [Ids -> Session \cup {None}]
    BY DEF SessionsInv, TypeOK
  <2>2. since' = [since EXCEPT ![s] = v]
    BY <1>4
  <2>3. since'[s] = v /\ since' \in [Ids -> Nat] /\ \A x \in Ids : x # s => since'[x] = since[x]
    BY <2>1, <2>2
  <2>4. /\ session'[s] = row /\ session' \in [Ids -> Session \cup {None}]
        /\ \A x \in Ids : x # s => session'[x] = session[x]
    BY <1>6, <2>1
  <2>5. row # None
    BY SessionsAssumption
  <2> QED
    BY <2>3, <2>4, <2>5
<1>8. Grow
  <2>1. ASSUME NEW x \in Ids, session[x] # None
        PROVE  /\ session'[x] = session[x] /\ since'[x] = since[x] /\ session[x].gen \in Nat
               /\ Clean(x) => Clean(x)'
    <3>1. session'[x] = session[x] /\ since'[x] = since[x]
      BY <1>4, <1>7, <2>1
    <3> QED
      BY <1>5, <2>1, <3>1, FieldsOfSession DEF SessionsInv, Clean, User
  <2>2. \A x \in Users : endings[x] \in Nat
    BY DEF SessionsInv, TypeOK
  <2>3. \A x \in Ids : closed[x] \in Nat
    BY DEF SessionsInv, TypeOK
  <2> QED
    BY <1>5, <2>1, <2>2, <2>3 DEF Grow, Exists
<1>9. VersionsCount' /\ \A x \in Ids : SessionOK(x)'
  <2>1. SessionOK(s)'
    BY <1>3, <1>5, <1>6, <1>7 DEF SessionOK, Exists, User
  <2>2. \A x \in Ids : x # s => SessionOK(x)'
    BY <1>5, <1>7 DEF SessionsInv, SessionOK, Exists, User
  <2> QED
    BY <1>5, <2>1, <2>2 DEF SessionsInv, VersionsCount, Exists
<1>10. PICK q \in Request : /\ Goto(r, q) /\ q.pc \in {"code", "answer"} /\ q.op = reqs[r].op
                            /\ q.user = u /\ q.ver = v /\ q.era = v
                            /\ q.pc = "answer" => q.sid = s /\ q.gen = 0
  <2>1. CASE Goto(r, [reqs[r] EXCEPT !.pc = "code"])
    <3>1. PICK p \in Request : p = [reqs[r] EXCEPT !.pc = "code"]
      BY <1>1, Onward DEF Steps
    <3>2. p.pc = "code" /\ p.op = reqs[r].op /\ p.user = u /\ p.ver = v /\ p.era = v
      BY <1>1, <1>2, <1>3, <3>1, Onward DEF Steps
    <3> QED
      BY <2>1, <3>1, <3>2
  <2>2. CASE Goto(r, [reqs[r] EXCEPT !.pc = "answer", !.sid = s, !.gen = 0])
    <3>1. PICK p \in Request : p = [reqs[r] EXCEPT !.pc = "answer", !.sid = s, !.gen = 0]
      BY <1>1 DEF Request, Steps
    <3>2. /\ p.pc = "answer" /\ p.op = reqs[r].op /\ p.user = u /\ p.ver = v /\ p.era = v
          /\ p.sid = s /\ p.gen = 0
      BY <1>1, <1>2, <1>3, <3>1 DEF Request
    <3> QED
      BY <2>2, <3>1, <3>2
  <2> QED
    BY <1>4, <2>1, <2>2
<1>11. ReqOK(q)'
  <2>1. endings' = endings /\ User(s)' = u /\ Exists(u)' /\ session'[s].gen = 0
    BY <1>3, <1>5, <1>6, <1>7 DEF User, Exists
  <2> QED
    BY <1>3, <1>6, <1>7, <1>10, <2>1 DEF ReqOK, Clean
<1>12. TypeOK'
  <2>1. reqs' \in [Slots -> Request \cup {Idle}]
    BY <1>10, Moved
  <2> QED
    BY <1>5, <1>7, <2>1 DEF SessionsInv, TypeOK, outVars, socketVars, countVars
<1>13. issued' = issued /\ code' = code /\ links' = links
  BY <1>5 DEF outVars
<1>14. \A x \in Slots : reqs'[x] = reqs[x] \/ reqs'[x] = Idle \/ ReqOK(reqs[x])'
  BY <1>10, <1>11, Moved
<1>15. \A k \in Sockets :
         socket'[k] # None => socket'[k].sid \in Ids /\ session[socket'[k].sid] # None
  BY <1>5 DEF SessionsInv, TypeOK, Connection, socketVars
<1> QED
  BY <1>8, <1>9, <1>12, <1>13, <1>14, <1>15, Kept

LEMMA TimeStep ==
  ASSUME SessionsInv, NEW s \in Ids, WindowCloses(s) \/ Expires(s)
  PROVE  SessionsInv'
<1>1. session[s] # None /\ session[s] \in Session /\ session[s].gen \in Nat
  BY FieldsOfSession DEF WindowCloses, Expires, Live, SessionsInv
<1>2. UNCHANGED <<account, endings, since, unfinished, cut, outVars, socketVars, countVars, reqs>>
  BY DEF WindowCloses, Expires
<1>3. PICK row \in Session :
        /\ row.user = session[s].user /\ row.gen = session[s].gen
        /\ row.revoked = session[s].revoked /\ (session[s].expired => row.expired)
        /\ session' = [session EXCEPT ![s] = row]
  <2>1. CASE WindowCloses(s)
    BY <1>1, <2>1 DEF WindowCloses, SessionsInv, TypeOK
  <2>2. CASE Expires(s)
    <3>1. PICK row : row = [session[s] EXCEPT !.expired = TRUE]
      OBVIOUS
    <3>2. /\ row \in Session /\ row.user = session[s].user /\ row.gen = session[s].gen
          /\ row.revoked = session[s].revoked /\ row.expired
      BY <1>1, <3>1 DEF Session
    <3> QED
      BY <2>2, <3>1, <3>2 DEF Expires
  <2> QED
    BY <2>1, <2>2
<1>4. closed' \in [Ids -> Nat] /\ \A x \in Ids : closed[x] <= closed'[x]
  BY DEF WindowCloses, Expires, SessionsInv, TypeOK
<1>5. /\ session'[s] = row /\ row # None
      /\ \A x \in Ids : x # s => session'[x] = session[x]
      /\ session' \in [Ids -> Session \cup {None}]
  BY <1>3, SessionsAssumption DEF SessionsInv, TypeOK
<1>6. ASSUME NEW x \in Ids
      PROVE  /\ session[x] = None => session'[x] = None
             /\ session[x] # None =>
                  /\ session'[x] # None /\ session'[x].user = session[x].user
                  /\ session[x].gen <= session'[x].gen
                  /\ session[x].revoked => session'[x].revoked
                  /\ session[x].expired => session'[x].expired
  <2>1. CASE x = s
    BY <1>1, <1>3, <1>5, <2>1
  <2>2. CASE x # s
    BY <1>5, <2>2, FieldsOfSession DEF SessionsInv
  <2> QED
    BY <2>1, <2>2
<1>7. /\ Grow /\ VersionsCount' /\ \A x \in Ids : SessionOK(x)'
  BY <1>2, <1>4, <1>5, <1>6, RowsMove
<1>8. TypeOK'
  BY <1>2, <1>4, <1>5 DEF SessionsInv, TypeOK, outVars, socketVars, countVars
<1>9. issued' = issued /\ code' = code /\ links' = links /\ socket' = socket /\ reqs' = reqs
  BY <1>2 DEF outVars, socketVars
<1>10. \A k \in Sockets :
         socket'[k] # None => socket'[k].sid \in Ids /\ session[socket'[k].sid] # None
  BY <1>9 DEF SessionsInv, TypeOK, Connection
<1> QED
  BY <1>7, <1>8, <1>9, <1>10, Kept

-----------------------------------------------------------------------------
LEMMA InitInv == Init => SessionsInv
<1> SUFFICES ASSUME Init PROVE SessionsInv
  OBVIOUS
<1> DEFINE first == [ver |-> 0, password |-> TRUE, verified |-> FALSE, google |-> FALSE]
<1>1. first \in Account /\ first.ver = 0
  BY DEF Account
<1> HIDE DEF first
<1>2. account \in [Users -> {None, first}]
  BY DEF Init, first
<1>3. TypeOK
  <2>1. account \in [Users -> Account \cup {None}]
    BY <1>1, <1>2
  <2>2. calls \in 0 .. MaxCalls /\ crashes \in 0 .. MaxCrashes
    BY SessionsAssumption DEF Init
  <2> QED
    BY <2>1, <2>2 DEF Init, TypeOK
<1>4. VersionsCount
  BY <1>1, <1>2 DEF Init, VersionsCount, Exists
<1> QED
  BY <1>3, <1>4 DEF Init, SessionsInv, SessionOK

LEMMA NextInv == SessionsInv /\ [Next]_vars => SessionsInv'
<1> SUFFICES ASSUME SessionsInv, [Next]_vars PROVE SessionsInv'
  OBVIOUS
<1>1. ASSUME NEW r \in Slots, Arrives(r) PROVE SessionsInv'
  BY <1>1, SignInsBegin, EndAllStep, CodesStep, RefreshStarts, LogoutStep, ResetStarts DEF Arrives
<1>2. ASSUME NEW r \in Slots, Continues(r) PROVE SessionsInv'
  BY <1>2, RegisterCreateStep, GoogleWriteStep, IssueStep, HandStep, CodesStep, RotateStep, RereadStep,
     CutStep, ResetWriteStep, RevokeAllStep, DropsStep DEF Continues
<1>3. ASSUME NEW u \in Users, Forgot(u) \/ VerifyEmail(u) PROVE SessionsInv'
  BY <1>3, NoRequest, VerifyEmailStep
<1>4. ASSUME NEW k \in Sockets,
             HandshakeOpen(k) \/ SocketCloses(k) \/ \E t \in issued : HandshakeStart(k, t)
      PROVE  SessionsInv'
  BY <1>4, NoRequest
<1>5. ASSUME NEW s \in Ids, WindowCloses(s) \/ Expires(s) PROVE SessionsInv'
  BY <1>5, TimeStep
<1>6. CASE Crash
  BY <1>6, NoRequest
<1>7. CASE UNCHANGED vars
  <2>1. Grow /\ VersionsCount' /\ TypeOK' /\ \A s \in Ids : SessionOK(s)'
    BY <1>7, RowsStill DEF vars, rowVars, outVars, socketVars, countVars, SessionsInv, TypeOK
  <2>2. reqs' = reqs /\ issued' = issued /\ code' = code /\ links' = links /\ socket' = socket
    BY <1>7 DEF vars, outVars, socketVars
  <2>3. \A k \in Sockets :
          socket'[k] # None => socket'[k].sid \in Ids /\ session[socket'[k].sid] # None
    BY <2>2 DEF SessionsInv, TypeOK, Connection
  <2> QED
    BY <2>1, <2>2, <2>3, Kept
<1> QED
  BY <1>1, <1>2, <1>3, <1>4, <1>5, <1>6, <1>7 DEF Next

\* The invariant holds in every state.
THEOREM Invariant == Spec => []SessionsInv
BY InitInv, NextInv, PTL DEF Spec

\* Rows, tokens and requests are what they are declared to be.
THEOREM TypeCorrect == Spec => []TypeOK
<1>1. SessionsInv => TypeOK
  BY DEF SessionsInv
<1> QED
  BY <1>1, Invariant, PTL

\* However many requests overlap, no token of a sign-in older than the last password reset, removed
\* password or logout everywhere is accepted once the sessions have been revoked.
THEOREM EndedRefused == Spec => []EndedSessionsAreRefused
<1>1. SessionsInv => EndedSessionsAreRefused
  <2> SUFFICES ASSUME SessionsInv, NEW t \in issued, Accepted(t)
               PROVE  since[t.sid] = endings[User(t.sid)] \/ User(t.sid) \in unfinished
    BY DEF EndedSessionsAreRefused
  <2> QED
    BY AcceptedClean DEF Clean, Accepted, Live
<1> QED
  BY <1>1, Invariant, PTL

\* Overlapping refreshes of one session never cut it: only an old token can.
THEOREM OnlyReplay == Spec => []OnlyReplayCuts
<1>1. SessionsInv => OnlyReplayCuts
  <2> SUFFICES ASSUME SessionsInv, NEW r \in Slots, At(r, "cut"), Live(reqs[r].sid)
               PROVE  \/ reqs[r].gen + 1 < session[reqs[r].sid].gen
                      \/ /\ reqs[r].gen < session[reqs[r].sid].gen
                         /\ reqs[r].gen < closed[reqs[r].sid]
    BY DEF OnlyReplayCuts
  <2> QED
    BY Underway DEF At, ReqOK
<1> QED
  BY <1>1, Invariant, PTL

-----------------------------------------------------------------------------
(* Tokens that are out, and sockets that are open.                              *)

LEMMA RevokedIs ==
  ASSUME SessionsInv, NEW S, session' = Revoked(S), NEW s \in Ids, session[s] # None
  PROVE  /\ session'[s] # None /\ session'[s].user = User(s) /\ session'[s].gen = session[s].gen
         /\ session'[s].revoked => session[s].revoked \/ s \in S
<1>1. session[s] \in Session
  BY FieldsOfSession DEF SessionsInv
<1>2. PICK row : row = [session[s] EXCEPT !.revoked = TRUE]
  OBVIOUS
<1>3. row \in Session /\ row.user = User(s) /\ row.gen = session[s].gen
  BY <1>1, <1>2 DEF Session, User
<1>4. session'[s] = IF s \in S THEN row ELSE session[s]
  BY <1>2 DEF Revoked
<1>5. row # None
  BY <1>3, SessionsAssumption
<1> QED
  BY <1>3, <1>4, <1>5 DEF User

\* A session runs at most one generation ahead of its tokens: a rotation is asked for with a token of
\* the generation it replaces.
Out(s, g) == \E t \in issued : t.sid = s /\ t.gen = g
OutNext(s, g) == \E t \in issued' : t.sid = s /\ t.gen = g
RetryInv ==
  /\ \A s \in Ids : session[s] # None =>
       session[s].gen = 0 \/ Out(s, session[s].gen) \/ Out(s, session[s].gen - 1)
  /\ \A r \in Slots : At(r, "rotate") => Out(reqs[r].sid, reqs[r].gen)

\* What a step does to tokens and generations.
Advance ==
  /\ issued \subseteq issued'
  /\ \A s \in Ids : session'[s] # None =>
       \/ session[s] # None /\ session'[s].gen = session[s].gen
       \/ session'[s].gen = 0
       \/ session'[s].gen = session[s].gen + 1 /\ session[s].gen \in Nat /\ Out(s, session[s].gen)
  /\ \A r \in Slots : reqs'[r].pc = "rotate" => reqs'[r] = reqs[r] \/ Out(reqs'[r].sid, reqs'[r].gen)

LEMMA RetryAdvances == ASSUME RetryInv, Advance PROVE RetryInv'
<1>1. \A s, g : Out(s, g) => OutNext(s, g)
  BY DEF Advance, Out, OutNext
<1>2. ASSUME NEW s \in Ids, session'[s] # None
      PROVE  session'[s].gen = 0 \/ OutNext(s, session'[s].gen) \/ OutNext(s, session'[s].gen - 1)
  <2>1. CASE session[s] # None /\ session'[s].gen = session[s].gen
    BY <1>1, <2>1 DEF RetryInv
  <2>2. CASE session'[s].gen = session[s].gen + 1 /\ session[s].gen \in Nat /\ Out(s, session[s].gen)
    <3>1. PICK g \in Nat : g = session[s].gen
      BY <2>2
    <3>2. session'[s].gen - 1 = g
      BY <2>2, <3>1
    <3>3. OutNext(s, g)
      BY <1>1, <2>2, <3>1
    <3> QED
      BY <3>2, <3>3
  <2> QED
    BY <1>2, <2>1, <2>2 DEF Advance
<1>3. ASSUME NEW r \in Slots, reqs'[r].pc = "rotate" PROVE OutNext(reqs'[r].sid, reqs'[r].gen)
  BY <1>1, <1>3 DEF RetryInv, Advance, At
<1> QED
  BY <1>2, <1>3 DEF RetryInv, Out, OutNext, At

\* Steps that make no request rotate, and leave the generations.
LEMMA AdvanceCalm ==
  ASSUME issued \subseteq issued', \A r \in Slots : reqs'[r].pc = "rotate" => reqs'[r] = reqs[r],
         \A s \in Ids : session'[s] # None => session[s] # None /\ session'[s].gen = session[s].gen
  PROVE  Advance
BY DEF Advance

LEMMA SlotCalm ==
  ASSUME SessionsInv, NEW r \in Slots, NEW q, Goto(r, q), q.pc # "rotate"
  PROVE  \A x \in Slots : reqs'[x].pc = "rotate" => reqs'[x] = reqs[x]
BY DEF Goto, SessionsInv, TypeOK

LEMMA IdleAnswers == Idle.pc = "idle"
BY DEF Idle

LEMMA RequestMoves ==
  ASSUME SessionsInv, NEW r \in Slots, NEW pc \in Steps \ {"rotate"}, reqs[r].pc # "idle",
         Goto(r, [reqs[r] EXCEPT !.pc = pc])
  PROVE  \A x \in Slots : reqs'[x].pc = "rotate" => reqs'[x] = reqs[x]
<1>1. reqs[r] \in Request
  BY Underway
<1>2. PICK q : q = [reqs[r] EXCEPT !.pc = pc]
  OBVIOUS
<1>3. q.pc = pc
  BY <1>1, <1>2, Onward
<1> QED
  BY <1>2, <1>3, SlotCalm

LEMMA RefreshAdvances ==
  ASSUME SessionsInv, NEW r \in Slots, NEW t \in issued, RefreshStart(r, t)
  PROVE  Advance
<1> DEFINE q0 == [Req("refresh", "rotate", User(t.sid)) EXCEPT !.sid = t.sid, !.ver = t.ver, !.gen = t.gen]
<1>1. q0.sid = t.sid /\ q0.gen = t.gen /\ Out(t.sid, t.gen)
  BY DEF Req, Out
<1>2. PICK q : Goto(r, q) /\ (q = q0 \/ q.pc # "rotate")
  <2>1. PICK a, b : a = [q0 EXCEPT !.pc = "cut"] /\ b = [q0 EXCEPT !.pc = "answer", !.ver = account[User(q0.sid)].ver, !.gen = session[q0.sid].gen]
    OBVIOUS
  <2>2. a.pc = "cut" /\ b.pc = "answer"
    BY <2>1 DEF Req
  <2>3. Goto(r, q0) \/ Goto(r, a) \/ Goto(r, b)
    BY <2>1 DEF RefreshStart, Answer
  <2> QED
    BY <2>2, <2>3
<1> HIDE DEF q0
<1>3. UNCHANGED <<session, issued>>
  BY DEF RefreshStart, rowVars, outVars
<1>4. \A x \in Slots : reqs'[x] = IF x = r THEN q ELSE reqs[x]
  BY <1>2 DEF Goto, SessionsInv, TypeOK
<1> QED
  BY <1>1, <1>2, <1>3, <1>4 DEF Advance

LEMMA RotateAdvances ==
  ASSUME SessionsInv, RetryInv, NEW r \in Slots, Rotate(r)
  PROVE  Advance
<1>1. PICK s \in Ids : /\ s = reqs[r].sid /\ session[s] # None /\ Out(s, reqs[r].gen)
                       /\ reqs[r] \in Request /\ At(r, "rotate") /\ session[s] \in Session
  BY Underway, FieldsOfSession DEF Rotate, At, ReqOK, RetryInv, SessionsInv
<1>2. PICK g \in Nat : g = reqs[r].gen
  BY <1>1 DEF Request
<1>3. issued' = issued
  BY DEF Rotate, outVars
<1>4. \A x \in Slots : reqs'[x].pc = "rotate" => reqs'[x] = reqs[x]
  <2>1. PICK a, b : a = [reqs[r] EXCEPT !.pc = "answer", !.gen = @ + 1] /\ b = [reqs[r] EXCEPT !.pc = "reread"]
    OBVIOUS
  <2>2. a.pc = "answer" /\ b.pc = "reread"
    BY <1>1, <2>1 DEF Request
  <2>3. Goto(r, a) \/ Goto(r, b)
    BY <2>1 DEF Rotate
  <2> QED
    BY <2>2, <2>3, SlotCalm
<1>5. CASE session' = session
  BY <1>3, <1>4, <1>5, AdvanceCalm
<1>6. CASE session' # session
  <2>1. session[s].gen = g /\ session' = [session EXCEPT ![s].gen = @ + 1]
    BY <1>1, <1>2, <1>6 DEF Rotate
  <2>2. PICK row : row = [session[s] EXCEPT !.gen = @ + 1]
    OBVIOUS
  <2>3. row.gen = g + 1
    BY <1>1, <2>1, <2>2 DEF Session
  <2>4. session' = [session EXCEPT ![s] = row] /\ session \in [Ids -> Session \cup {None}]
    BY <2>1, <2>2 DEF SessionsInv, TypeOK
  <2>5. session'[s] = row /\ \A x \in Ids : x # s => session'[x] = session[x]
    BY <2>4
  <2> QED
    BY <1>1, <1>2, <1>3, <1>4, <2>1, <2>3, <2>5 DEF Advance
<1> QED
  BY <1>5, <1>6

LEMMA IssueAdvances ==
  ASSUME SessionsInv, NEW r \in Slots, Issue(r)
  PROVE  Advance
<1>1. reqs[r] \in Request /\ issued' = issued
  BY Underway DEF Issue, At, outVars
<1>2. PICK row : row = [user |-> reqs[r].user, gen |-> 0, revoked |-> FALSE, expired |-> FALSE]
  OBVIOUS
<1>3. row.gen = 0
  BY <1>2
<1>6. PICK s \in Ids :
        /\ session[s] = None /\ session' = [session EXCEPT ![s] = row]
        /\ \/ Goto(r, [reqs[r] EXCEPT !.pc = "code"])
           \/ Goto(r, [reqs[r] EXCEPT !.pc = "answer", !.sid = s, !.gen = 0])
  BY <1>2 DEF Issue
<1>4. session'[s] = row /\ \A x \in Ids : x # s => session'[x] = session[x]
  BY <1>6 DEF SessionsInv, TypeOK
<1>5. \A x \in Slots : reqs'[x].pc = "rotate" => reqs'[x] = reqs[x]
  <2>1. PICK a, b : a = [reqs[r] EXCEPT !.pc = "code"] /\ b = [reqs[r] EXCEPT !.pc = "answer", !.sid = s, !.gen = 0]
    OBVIOUS
  <2>2. a.pc = "code" /\ b.pc = "answer"
    BY <1>1, <2>1 DEF Request
  <2> QED
    BY <1>6, <2>1, <2>2, SlotCalm
<1> QED
  BY <1>1, <1>3, <1>4, <1>5, <1>6 DEF Advance

LEMMA RevokingAdvances ==
  ASSUME SessionsInv, NEW S, session' = Revoked(S), issued' = issued,
         \A r \in Slots : reqs'[r].pc = "rotate" => reqs'[r] = reqs[r]
  PROVE  Advance
<1>1. \A s \in Ids : session[s] = None => session'[s] = None
  BY DEF Revoked
<1> QED
  BY <1>1, RevokedIs, AdvanceCalm

LEMMA ArrivalsAdvance ==
  ASSUME SessionsInv, NEW r \in Slots, Arrives(r)
  PROVE  Advance
<1>1. ASSUME NEW op, NEW pc, NEW u, pc # "rotate"
      PROVE  /\ Req(op, pc, u).pc = pc /\ [Req(op, pc, u) EXCEPT !.saw = account[u]].pc = pc
             /\ With(Req(op, pc, u), account[u].ver, u).pc = "issue"
  BY DEF Req, With
<1>2. ASSUME NEW q, Goto(r, q), q.pc # "rotate", UNCHANGED <<session, issued>> PROVE Advance
  BY <1>2, SlotCalm, AdvanceCalm
<1>3. ASSUME NEW q, Begin(r, q), q.pc # "rotate" PROVE Advance
  BY <1>2, <1>3 DEF Begin, rowVars, outVars
<1>4. ASSUME NEW u \in Users, RegisterStart(r, u) \/ LoginStart(r, u) PROVE Advance
  BY <1>1, <1>3, <1>4 DEF RegisterStart, LoginStart
<1>5. ASSUME NEW u \in Users, NEW op, GoogleStart(r, op, u) PROVE Advance
  <2>1. PICK p, q : /\ p = With(Req(op, "issue", u), account[u].ver, u)
                    /\ q = [Req(op, "link", u) EXCEPT !.saw = account[u]]
    OBVIOUS
  <2>2. p.pc # "rotate" /\ q.pc # "rotate"
    BY <2>1 DEF Req, With
  <2>3. Begin(r, p) \/ Begin(r, q)
    BY <1>5, <2>1 DEF GoogleStart
  <2> QED
    BY <1>3, <2>2, <2>3
<1>6. ASSUME NEW u \in Users, EndAll(r, u) PROVE Advance
  BY <1>1, <1>2, <1>6 DEF EndAll, outVars
<1>7. ASSUME NEW c \in Codes, ExchangeStart(r, c) PROVE Advance
  BY <1>1, <1>2, <1>7, IdleAnswers DEF ExchangeStart, Done, rowVars
<1>8. ASSUME NEW l \in links, ResetStart(r, l) PROVE Advance
  BY <1>1, <1>3, <1>8 DEF ResetStart
<1>9. ASSUME NEW t \in issued, Logout(r, t) PROVE Advance
  <2>1. PICK q : q = [Req("logout", "drop", User(t.sid)) EXCEPT !.sid = t.sid]
    OBVIOUS
  <2>2. q.pc = "drop"
    BY <2>1 DEF Req
  <2> QED
    BY <1>9, <2>1, <2>2, SlotCalm, RevokingAdvances DEF Logout, outVars
<1> QED
  BY <1>4, <1>5, <1>6, <1>7, <1>8, <1>9, RefreshAdvances DEF Arrives

LEMMA ContinuesAdvance ==
  ASSUME SessionsInv, RetryInv, NEW r \in Slots, Continues(r)
  PROVE  Advance
<1> DEFINE q == reqs[r]
<1>1. q \in Request /\ q.pc # "idle"
  BY Underway DEF Continues, RegisterCreate, GoogleWrite, Issue, CodeCreate, ExchangeLookup, Hand, Rotate,
     Reread, Cut, ResetWrite, RevokeAll, Drop, DropAll, At
<1>2. ASSUME NEW p, Goto(r, p), p.pc # "rotate", session' = session, issued \subseteq issued' PROVE Advance
  BY <1>2, SlotCalm, AdvanceCalm
<1>3. ASSUME NEW pc \in Steps PROVE [q EXCEPT !.pc = pc].pc = pc
  BY <1>1, Onward
<1>4. CASE RegisterCreate(r) \/ CodeCreate(r) \/ Hand(r) \/ Drop(r) \/ DropAll(r) \/ ResetWrite(r)
  <2>1. session' = session /\ issued \subseteq issued'
    BY <1>4 DEF RegisterCreate, CodeCreate, Hand, Drop, DropAll, ResetWrite, rowVars, outVars
  <2>2. \/ Goto(r, Idle) \/ Goto(r, [q EXCEPT !.pc = "issue"]) \/ Goto(r, [q EXCEPT !.pc = "revokeAll"])
    BY <1>4 DEF RegisterCreate, CodeCreate, Hand, Drop, DropAll, ResetWrite, Done
  <2> QED
    BY <1>2, <1>3, <2>1, <2>2, IdleAnswers DEF Steps
<1>5. CASE ExchangeLookup(r) \/ GoogleWrite(r)
  <2>1. UNCHANGED <<session, issued>>
    BY <1>5 DEF ExchangeLookup, GoogleWrite, rowVars, outVars
  <2>2. \A v, u : With(q, v, u).pc = "issue"
    BY <1>1 DEF With, Request
  <2>3. \A v, e : [q EXCEPT !.pc = "revokeAll", !.ver = v, !.era = e].pc = "revokeAll"
    BY <1>1 DEF Request
  <2>4. \/ Goto(r, Idle) \/ \E v, u : Goto(r, With(q, v, u))
        \/ \E v, e : Goto(r, [q EXCEPT !.pc = "revokeAll", !.ver = v, !.era = e])
    BY <1>5 DEF ExchangeLookup, GoogleWrite, Done
  <2> QED
    BY <1>2, <2>1, <2>2, <2>3, <2>4, IdleAnswers
<1>6. CASE Reread(r)
  <2>1. PICK b : b = [q EXCEPT !.pc = "answer", !.ver = account[User(q.sid)].ver, !.gen = session[q.sid].gen]
    OBVIOUS
  <2>2. b.pc = "answer"
    BY <1>1, <2>1 DEF Request
  <2>3. Goto(r, b) \/ Goto(r, [q EXCEPT !.pc = "cut"])
    BY <1>6, <2>1 DEF Reread, Answer
  <2>4. UNCHANGED <<session, issued>>
    BY <1>6 DEF Reread, rowVars, outVars
  <2> QED
    BY <1>2, <1>3, <2>2, <2>3, <2>4 DEF Steps
<1>7. CASE Cut(r) \/ RevokeAll(r)
  <2>1. (\E S : session' = Revoked(S)) /\ issued' = issued
    BY <1>7 DEF Cut, RevokeAll, outVars
  <2>2. Goto(r, Idle) \/ Goto(r, [q EXCEPT !.pc = "dropAll"])
    BY <1>7 DEF Cut, RevokeAll, Done
  <2>3. \A x \in Slots : reqs'[x].pc = "rotate" => reqs'[x] = reqs[x]
    BY <1>3, <2>2, IdleAnswers, SlotCalm DEF Steps
  <2> QED
    BY <2>1, <2>3, RevokingAdvances
<1> QED
  BY <1>4, <1>5, <1>6, <1>7, IssueAdvances, RotateAdvances DEF Continues

LEMMA AdvanceStep ==
  ASSUME SessionsInv, RetryInv, [Next]_vars
  PROVE  Advance
<1>1. ASSUME UNCHANGED <<session, issued>>, reqs' = reqs \/ \A r \in Slots : reqs'[r] = Idle PROVE Advance
  BY <1>1, IdleAnswers, AdvanceCalm
<1>2. ASSUME NEW s \in Ids, WindowCloses(s) \/ Expires(s) PROVE Advance
  <2>1. CASE WindowCloses(s)
    BY <1>1, <2>1 DEF WindowCloses, outVars
  <2>2. CASE Expires(s)
    <3>1. session[s] # None /\ session[s] \in Session /\ session \in [Ids -> Session \cup {None}]
      BY <2>2, FieldsOfSession DEF Expires, Live, SessionsInv, TypeOK
    <3>2. PICK row : row = [session[s] EXCEPT !.expired = TRUE]
      OBVIOUS
    <3>3. row.gen = session[s].gen
      BY <3>1, <3>2 DEF Session
    <3>4. session' = [session EXCEPT ![s] = row] /\ issued' = issued /\ reqs' = reqs
      BY <2>2, <3>2 DEF Expires, outVars
    <3>5. session'[s] = row /\ \A x \in Ids : x # s => session'[x] = session[x]
      BY <3>1, <3>4
    <3> QED
      BY <3>1, <3>3, <3>4, <3>5, AdvanceCalm
  <2> QED
    BY <1>2, <2>1, <2>2
<1>3. ASSUME NEW k \in Sockets, HandshakeOpen(k) \/ SocketCloses(k) \/ \E t \in issued : HandshakeStart(k, t)
      PROVE  Advance
  BY <1>1, <1>3 DEF HandshakeOpen, SocketCloses, HandshakeStart, rowVars, outVars
<1>4. CASE Crash
  BY <1>1, <1>4 DEF Crash, rowVars, outVars
<1>5. ASSUME NEW u \in Users, Forgot(u) \/ VerifyEmail(u) PROVE Advance
  BY <1>1, <1>5 DEF Forgot, VerifyEmail, rowVars, outVars
<1>6. CASE UNCHANGED vars
  BY <1>1, <1>6 DEF vars, rowVars, outVars
<1> QED
  BY <1>2, <1>3, <1>4, <1>5, <1>6, ArrivalsAdvance, ContinuesAdvance DEF Next

\* The tokens of a session signed in since the last ending all have the version of the account.
LEMMA RetryServed == SessionsInv /\ RetryInv => RetryIsAnswered
<1> SUFFICES ASSUME SessionsInv, RetryInv, NEW s \in Ids
             PROVE  /\ \A t \in issued : t.sid = s => t.gen <= session[s].gen
                    /\ Live(s) /\ since[s] = endings[User(s)] /\ closed[s] < session[s].gen =>
                         \E t \in issued :
                           t.sid = s /\ Accepted(t) /\ (t.gen = session[s].gen \/ InGrace(s, t.gen))
  BY DEF RetryIsAnswered
<1>1. \A t \in issued : t.sid = s => t.gen <= session[s].gen
  BY DEF SessionsInv, TokenOK
<1>2. ASSUME Live(s), since[s] = endings[User(s)], closed[s] < session[s].gen
      PROVE  \E t \in issued :
               t.sid = s /\ Accepted(t) /\ (t.gen = session[s].gen \/ InGrace(s, t.gen))
  <2>1. /\ session[s] # None /\ User(s) \in Users /\ session[s].gen \in Nat /\ closed[s] \in Nat
        /\ Exists(User(s)) /\ endings[User(s)] \in Nat
    BY <1>2, FieldsOfSession DEF Live, SessionsInv, SessionOK, TypeOK
  <2>2. account[User(s)].ver = endings[User(s)]
    BY <2>1, VersionNow
  <2>3. PICK t \in issued : t.sid = s /\ (t.gen = session[s].gen \/ t.gen = session[s].gen - 1)
    BY <1>2, <2>1 DEF RetryInv, Out
  <2>4. t.ver \in Nat /\ endings[User(s)] <= t.ver /\ t.ver <= endings[User(s)]
    BY <1>2, <2>3 DEF SessionsInv, TokenOK, TypeOK, Token
  <2>5. Accepted(t)
    BY <1>2, <2>1, <2>2, <2>3, <2>4 DEF Accepted
  <2>6. t.gen = session[s].gen \/ InGrace(s, t.gen)
    BY <1>2, <2>1, <2>3 DEF InGrace
  <2> QED
    BY <2>3, <2>5, <2>6
<1> QED
  BY <1>1, <1>2

\* However refreshes overlap, answers are lost and the server stops, a session signed in since the last
\* ending runs at most one generation ahead of the tokens that are out: within the grace window its
\* holder is answered (rotate and reuseOrGrace, session.service.js).
THEOREM RetryAnswered == Spec => []RetryIsAnswered
<1>1. Init => RetryInv
  BY IdleAnswers DEF Init, RetryInv, At
<1>2. SessionsInv /\ RetryInv /\ [Next]_vars => RetryInv'
  BY AdvanceStep, RetryAdvances
<1> QED
  BY <1>1, <1>2, RetryServed, Invariant, PTL DEF Spec

\* The sockets of s are about to be closed.
Going(s) ==
  \E r \in Slots : (At(r, "drop") /\ reqs[r].sid = s) \/ (At(r, "dropAll") /\ reqs[r].user = User(s))

\* A step that touches no socket answers for the sessions it revokes.
LEMMA SocketsCalm ==
  ASSUME SessionsInv, SocketsAreSignedIn, UNCHANGED socketVars, cut \subseteq cut',
         \A s \in Ids : session[s] # None =>
           /\ session'[s].user = User(s)
           /\ session'[s].revoked => session[s].revoked \/ s \in cut' \/ Going(s)',
         \A x \in Slots : At(x, "drop") \/ At(x, "dropAll") => reqs'[x] = reqs[x]
  PROVE  SocketsAreSignedIn'
<1> SUFFICES ASSUME NEW k \in Sockets, NEW s, s = socket'[k].sid, Open(k)', session'[s].revoked
             PROVE  k \in late' \/ s \in cut' \/ Going(s)'
  BY DEF SocketsAreSignedIn, Going
<1>1. socket' = socket /\ late' = late
  BY DEF socketVars
<1>2. s \in Ids /\ session[s] # None /\ Open(k) /\ s = socket[k].sid
  BY <1>1 DEF Open, SessionsInv, TypeOK, Connection
<1>3. CASE session[s].revoked
  <2>1. k \in late \/ s \in cut \/ Going(s)
    BY <1>2, <1>3 DEF SocketsAreSignedIn, Going
  <2>2. Going(s) => Going(s)'
    BY <1>2 DEF Going, At, User
  <2> QED
    BY <1>1, <2>1, <2>2
<1> QED
  BY <1>1, <1>2, <1>3

\* In particular one that leaves the sessions as they are.
LEMMA SocketsStill ==
  ASSUME SessionsInv, SocketsAreSignedIn, UNCHANGED <<socketVars, session, cut>>,
         \A x \in Slots : At(x, "drop") \/ At(x, "dropAll") => reqs'[x] = reqs[x]
  PROVE  SocketsAreSignedIn'
<1>1. UNCHANGED socketVars /\ cut \subseteq cut'
  OBVIOUS
<1>2. \A s \in Ids : session[s] # None => session'[s].user = User(s) /\ (session'[s].revoked => session[s].revoked)
  BY DEF User
<1> QED
  BY <1>1, <1>2, SocketsCalm

\* What a request does to its slot alone leaves the draining ones be.
LEMMA OthersDrain ==
  ASSUME SessionsInv, NEW r \in Slots, NEW q, Goto(r, q), ~At(r, "drop"), ~At(r, "dropAll")
  PROVE  \A x \in Slots : At(x, "drop") \/ At(x, "dropAll") => reqs'[x] = reqs[x]
<1>1. reqs' = [reqs EXCEPT ![r] = q] /\ reqs \in [Slots -> Request \cup {Idle}]
  BY DEF Goto, SessionsInv, TypeOK
<1> QED
  BY <1>1

LEMMA SocketsRevoked ==
  ASSUME SessionsInv, SocketsAreSignedIn, UNCHANGED socketVars, cut \subseteq cut',
         NEW S, session' = Revoked(S),
         \A s \in Ids : s \in S /\ session[s] # None /\ ~session[s].revoked => s \in cut' \/ Going(s)',
         \A x \in Slots : At(x, "drop") \/ At(x, "dropAll") => reqs'[x] = reqs[x]
  PROVE  SocketsAreSignedIn'
<1>1. \A s \in Ids : session[s] # None =>
        /\ session'[s].user = User(s)
        /\ session'[s].revoked => session[s].revoked \/ s \in cut' \/ Going(s)'
  BY RevokedIs
<1> QED
  BY <1>1, SocketsCalm

LEMMA ArrivalsKeepSockets ==
  ASSUME SessionsInv, SocketsAreSignedIn, NEW r \in Slots, Arrives(r)
  PROVE  SocketsAreSignedIn'
<1>1. reqs[r] = Idle /\ \E q : Goto(r, q)
  BY DEF Arrives, RegisterStart, LoginStart, EndAll, GoogleStart, ExchangeStart, RefreshStart, Logout,
         ResetStart, Begin, Arrive, Answer, Done
<1>2. \A x \in Slots : At(x, "drop") \/ At(x, "dropAll") => reqs'[x] = reqs[x]
  BY <1>1, OthersDrain DEF At, Idle
<1>3. ASSUME NEW t \in issued, Logout(r, t) PROVE SocketsAreSignedIn'
  <2> DEFINE q == [Req("logout", "drop", User(t.sid)) EXCEPT !.sid = t.sid]
  <2>1. q.pc = "drop" /\ q.sid = t.sid
    BY DEF Req
  <2>2. reqs' = [reqs EXCEPT ![r] = q] /\ reqs \in [Slots -> Request \cup {Idle}]
    BY <1>3 DEF Logout, Goto, SessionsInv, TypeOK
  <2>3. reqs'[r] = q
    BY <2>2
  <2>4. At(r, "drop")' /\ reqs'[r].sid = t.sid
    BY <2>1, <2>3 DEF At
  <2>5. \A s \in {t.sid} : Going(s)'
    BY <2>4 DEF Going
  <2>6. session' = Revoked({t.sid}) /\ UNCHANGED socketVars /\ cut \subseteq cut'
    BY <1>3 DEF Logout
  <2> QED
    BY <1>2, <2>5, <2>6, SocketsRevoked
<1>4. CASE ~\E t \in issued : Logout(r, t)
  <2>1. UNCHANGED <<socketVars, session, cut>>
    BY <1>4 DEF Arrives, RegisterStart, LoginStart, EndAll, GoogleStart, ExchangeStart, RefreshStart,
         ResetStart, Begin, rowVars
  <2> QED
    BY <1>2, <2>1, SocketsStill
<1> QED
  BY <1>3, <1>4

LEMMA IssueKeepsSockets ==
  ASSUME SessionsInv, SocketsAreSignedIn, NEW r \in Slots, Issue(r)
  PROVE  SocketsAreSignedIn'
<1>1. \E q : Goto(r, q)
  BY DEF Issue, Done
<1>2. \A x \in Slots : At(x, "drop") \/ At(x, "dropAll") => reqs'[x] = reqs[x]
  BY <1>1, OthersDrain DEF Issue, At
<1>3. \A s \in Ids : session[s] # None => session'[s] = session[s]
  BY DEF Issue, SessionsInv, TypeOK
<1>4. UNCHANGED socketVars /\ cut \subseteq cut'
  BY DEF Issue, Writes
<1> QED
  BY <1>2, <1>3, <1>4, SocketsCalm DEF User

\* A change of one session that leaves its user and its revocation.
LEMMA RowKeepsSockets ==
  ASSUME SessionsInv, SocketsAreSignedIn, UNCHANGED <<socketVars, cut>>,
         NEW s \in Ids, NEW row, session' = [session EXCEPT ![s] = row],
         row.user = User(s), row.revoked = session[s].revoked,
         \A x \in Slots : At(x, "drop") \/ At(x, "dropAll") => reqs'[x] = reqs[x]
  PROVE  SocketsAreSignedIn'
<1>1. session \in [Ids -> Session \cup {None}]
  BY DEF SessionsInv, TypeOK
<1>2. \A x \in Ids : session[x] # None =>
        session'[x].user = User(x) /\ (session'[x].revoked => session[x].revoked)
  BY <1>1 DEF User
<1>3. UNCHANGED socketVars /\ cut \subseteq cut'
  OBVIOUS
<1> QED
  BY <1>2, <1>3, SocketsCalm

LEMMA RotateKeepsSockets ==
  ASSUME SessionsInv, SocketsAreSignedIn, NEW r \in Slots, Rotate(r)
  PROVE  SocketsAreSignedIn'
<1>1. \E q : Goto(r, q)
  BY DEF Rotate, Done
<1>2. \A x \in Slots : At(x, "drop") \/ At(x, "dropAll") => reqs'[x] = reqs[x]
  BY <1>1, OthersDrain DEF Rotate, At
<1>3. UNCHANGED <<socketVars, cut>>
  BY DEF Rotate, Writes
<1>4. CASE session' = session
  BY <1>2, <1>3, <1>4, SocketsStill
<1>5. CASE session' # session
  <2>1. PICK s : s = reqs[r].sid
    OBVIOUS
  <2>2. s \in Ids /\ session[s] # None
    BY <2>1, Underway DEF Rotate, At, ReqOK
  <2>3. session[s] \in Session
    BY <2>2, FieldsOfSession DEF SessionsInv
  <2>4. PICK row : row = [session[s] EXCEPT !.gen = @ + 1]
    OBVIOUS
  <2>5. row.user = User(s) /\ row.revoked = session[s].revoked
    BY <2>3, <2>4 DEF Session, User
  <2>6. session' = [session EXCEPT ![s] = row]
    BY <1>5, <2>1, <2>4 DEF Rotate
  <2> QED
    BY <1>2, <1>3, <2>2, <2>5, <2>6, RowKeepsSockets
<1> QED
  BY <1>4, <1>5

LEMMA CutKeepsSockets ==
  ASSUME SessionsInv, SocketsAreSignedIn, NEW r \in Slots, Cut(r)
  PROVE  SocketsAreSignedIn'
<1>1. \E q : Goto(r, q)
  BY DEF Cut, Done
<1>2. \A x \in Slots : At(x, "drop") \/ At(x, "dropAll") => reqs'[x] = reqs[x]
  BY <1>1, OthersDrain DEF Cut, At
<1>3. UNCHANGED socketVars /\ session' = Revoked({reqs[r].sid})
  BY DEF Cut, Writes
<1>4. cut \subseteq cut' /\ (~session[reqs[r].sid].revoked => reqs[r].sid \in cut')
  BY DEF Cut
<1> QED
  BY <1>2, <1>3, <1>4, SocketsRevoked

LEMMA RevokeAllKeepsSockets ==
  ASSUME SessionsInv, SocketsAreSignedIn, NEW r \in Slots, RevokeAll(r)
  PROVE  SocketsAreSignedIn'
<1> DEFINE q == [reqs[r] EXCEPT !.pc = "dropAll"]
           S == {s \in Ids : session[s] # None /\ User(s) = reqs[r].user}
<1>1. reqs[r] \in Request
  BY Underway DEF RevokeAll, At
<1>2. q.pc = "dropAll" /\ q.user = reqs[r].user
  BY <1>1 DEF Request
<1>3. reqs' = [reqs EXCEPT ![r] = q] /\ reqs \in [Slots -> Request \cup {Idle}]
  BY DEF RevokeAll, Goto, SessionsInv, TypeOK
<1>4. reqs'[r] = q
  BY <1>3
<1>5. \A x \in Slots : At(x, "drop") \/ At(x, "dropAll") => reqs'[x] = reqs[x]
  BY <1>3 DEF RevokeAll, At
<1>6. UNCHANGED socketVars /\ session' = Revoked(S) /\ cut \subseteq cut'
  BY DEF RevokeAll, Writes
<1>7. ASSUME NEW s \in Ids, s \in S, session[s] # None PROVE Going(s)'
  <2>1. session'[s].user = User(s)
    BY <1>6, <1>7, RevokedIs
  <2>2. At(r, "dropAll")' /\ reqs'[r].user = User(s)'
    BY <1>2, <1>4, <1>7, <2>1 DEF At, User
  <2> QED
    BY <2>2 DEF Going
<1> QED
  BY <1>5, <1>6, <1>7, SocketsRevoked

\* Closing sockets, and ending one's turn, once they are all closed.
LEMMA ClosingKeepsSockets ==
  ASSUME SessionsInv, SocketsAreSignedIn, UNCHANGED <<session, cut>>, NEW K, Close(K),
         \A k \in Sockets, r \in Slots :
           \/ reqs'[r] = reqs[r] \/ k \in K \/ ~Open(k)
           \/ /\ ~(At(r, "drop") /\ reqs[r].sid = socket[k].sid)
              /\ ~(At(r, "dropAll") /\ reqs[r].user = User(socket[k].sid))
  PROVE  SocketsAreSignedIn'
<1> SUFFICES ASSUME NEW k \in Sockets, NEW s, s = socket'[k].sid, Open(k)', session'[s].revoked
             PROVE  k \in late' \/ s \in cut' \/ Going(s)'
  BY DEF SocketsAreSignedIn, Going
<1>1. k \notin K /\ socket'[k] = socket[k] /\ late' = late \ K
  BY DEF Close, Open
<1>2. Open(k) /\ s = socket[k].sid /\ session[s].revoked
  BY <1>1 DEF Open
<1>3. k \in late \/ s \in cut \/ Going(s)
  BY <1>2 DEF SocketsAreSignedIn, Going
<1>4. Going(s) => Going(s)'
  BY <1>1, <1>2 DEF Going, At, User
<1> QED
  BY <1>1, <1>3, <1>4

LEMMA DropsKeepSockets ==
  ASSUME SessionsInv, SocketsAreSignedIn, NEW r \in Slots, Drop(r) \/ DropAll(r)
  PROVE  SocketsAreSignedIn'
<1>1. reqs \in [Slots -> Request \cup {Idle}]
  BY DEF SessionsInv, TypeOK
<1>2. UNCHANGED <<session, cut>> /\ \E q : Goto(r, q)
  BY DEF Drop, DropAll, Done, rowVars
<1>3. \A x \in Slots : x # r => reqs'[x] = reqs[x]
  BY <1>1, <1>2 DEF Goto
<1>4. CASE Drop(r)
  <2>1. PICK K : Close(K) /\ K = {k \in Sockets : Open(k) /\ socket[k].sid = reqs[r].sid}
    BY <1>4 DEF Drop
  <2>2. At(r, "drop") /\ ~At(r, "dropAll")
    BY <1>4 DEF Drop, At
  <2> QED
    BY <1>2, <1>3, <2>1, <2>2, ClosingKeepsSockets
<1>5. CASE DropAll(r)
  <2>1. PICK K : Close(K) /\ K = {k \in Sockets : Open(k) /\ User(socket[k].sid) = reqs[r].user}
    BY <1>5 DEF DropAll
  <2>2. At(r, "dropAll") /\ ~At(r, "drop")
    BY <1>5 DEF DropAll, At
  <2> QED
    BY <1>2, <1>3, <2>1, <2>2, ClosingKeepsSockets
<1> QED
  BY <1>4, <1>5

LEMMA RequestsKeepSockets ==
  ASSUME SessionsInv, SocketsAreSignedIn, NEW r \in Slots, Continues(r)
  PROVE  SocketsAreSignedIn'
<1>1. CASE \/ RegisterCreate(r) \/ GoogleWrite(r) \/ CodeCreate(r) \/ ExchangeLookup(r)
           \/ Hand(r) \/ Reread(r) \/ ResetWrite(r)
  <2>1. UNCHANGED <<socketVars, session, cut>>
    BY <1>1 DEF RegisterCreate, GoogleWrite, CodeCreate, ExchangeLookup, Hand, Reread, ResetWrite, Writes,
         rowVars
  <2>2. \E q : Goto(r, q)
    BY <1>1 DEF RegisterCreate, GoogleWrite, CodeCreate, ExchangeLookup, Hand, Reread, ResetWrite, Answer,
         Done
  <2>3. ~At(r, "drop") /\ ~At(r, "dropAll")
    BY <1>1 DEF RegisterCreate, GoogleWrite, CodeCreate, ExchangeLookup, Hand, Reread, ResetWrite, At
  <2> QED
    BY <2>1, <2>2, <2>3, OthersDrain, SocketsStill
<1> QED
  BY <1>1, IssueKeepsSockets, RotateKeepsSockets, CutKeepsSockets, RevokeAllKeepsSockets,
     DropsKeepSockets DEF Continues

LEMMA HandshakesKeepSockets ==
  ASSUME SessionsInv, SocketsAreSignedIn, NEW k \in Sockets,
         HandshakeOpen(k) \/ \E t \in issued : HandshakeStart(k, t)
  PROVE  SocketsAreSignedIn'
<1>1. UNCHANGED <<session, cut, reqs>> /\ socket \in [Sockets -> Connection \cup {None}]
  BY DEF HandshakeOpen, HandshakeStart, rowVars, SessionsInv, TypeOK
<1>2. ASSUME NEW s PROVE Going(s) <=> Going(s)'
  BY <1>1 DEF Going, At, User
<1> SUFFICES ASSUME NEW j \in Sockets, NEW s, s = socket'[j].sid, Open(j)', session'[s].revoked
             PROVE  j \in late' \/ s \in cut' \/ Going(s)'
  BY DEF SocketsAreSignedIn, Going
<1>3. CASE j # k
  <2>1. socket'[j] = socket[j] /\ late \subseteq late'
    BY <1>1, <1>3 DEF HandshakeOpen, HandshakeStart
  <2>2. j \in late \/ s \in cut \/ Going(s)
    BY <1>1, <2>1 DEF SocketsAreSignedIn, Going, Open
  <2> QED
    BY <1>1, <1>2, <2>1, <2>2
<1>4. CASE j = k
  <2>1. CASE HandshakeOpen(k)
    <3>1. socket[k] \in Connection
      BY <1>1, <2>1 DEF HandshakeOpen
    <3>2. PICK row : row = [socket[k] EXCEPT !.open = TRUE]
      OBVIOUS
    <3>3. row.sid = socket[k].sid
      BY <3>1, <3>2 DEF Connection
    <3>4. socket'[k] = row
      BY <1>1, <2>1, <3>2 DEF HandshakeOpen
    <3>5. session[socket[k].sid].revoked
      BY <1>1, <1>4, <3>3, <3>4
    <3> QED
      BY <1>4, <2>1, <3>5 DEF HandshakeOpen
  <2>2. ASSUME NEW t \in issued, HandshakeStart(k, t) PROVE FALSE
    <3>1. PICK row : row = [sid |-> t.sid, open |-> FALSE]
      OBVIOUS
    <3>2. ~row.open /\ socket'[k] = row
      BY <1>1, <2>2, <3>1 DEF HandshakeStart
    <3> QED
      BY <1>4, <3>2 DEF Open
  <2> QED
    BY <2>1, <2>2
<1> QED
  BY <1>3, <1>4

LEMMA SocketsStep ==
  ASSUME SessionsInv, SocketsAreSignedIn, [Next]_vars
  PROVE  SocketsAreSignedIn'
<1>1. ASSUME NEW s \in Ids, Expires(s) PROVE SocketsAreSignedIn'
  <2>1. session[s] # None /\ session[s] \in Session
    BY <1>1, FieldsOfSession DEF Expires, Live, SessionsInv
  <2>2. PICK row : row = [session[s] EXCEPT !.expired = TRUE]
    OBVIOUS
  <2>3. row.user = User(s) /\ row.revoked = session[s].revoked
    BY <2>1, <2>2 DEF Session, User
  <2>4. session' = [session EXCEPT ![s] = row] /\ UNCHANGED <<socketVars, cut, reqs>>
    BY <1>1, <2>2 DEF Expires
  <2> QED
    BY <2>3, <2>4, RowKeepsSockets
<1>2. CASE \/ \E u \in Users : Forgot(u) \/ VerifyEmail(u)
           \/ \E s \in Ids : WindowCloses(s)
           \/ UNCHANGED vars
  <2>1. UNCHANGED <<socketVars, session, cut, reqs>>
    BY <1>2 DEF Forgot, VerifyEmail, WindowCloses, vars, rowVars
  <2> QED
    BY <2>1, SocketsStill
<1>3. ASSUME NEW k \in Sockets, SocketCloses(k) PROVE SocketsAreSignedIn'
  <2>1. Close({k}) /\ UNCHANGED <<session, cut, reqs>>
    BY <1>3 DEF SocketCloses, rowVars
  <2> QED
    BY <2>1, ClosingKeepsSockets
<1>4. CASE Crash
  <2>1. Close(Sockets) /\ UNCHANGED <<session, cut>>
    BY <1>4 DEF Crash, rowVars
  <2> QED
    BY <2>1, ClosingKeepsSockets
<1> QED
  BY <1>1, <1>2, <1>3, <1>4, ArrivalsKeepSockets, RequestsKeepSockets, HandshakesKeepSockets DEF Next

\* Whatever ends a session closes its sockets, however handshakes, logouts and a restart overlap with
\* it, but for a handshake that met the end and for a session cut (disconnectSession, disconnectUser).
THEOREM SocketsSignedIn == Spec => []SocketsAreSignedIn
<1>1. Init => SocketsAreSignedIn
  BY DEF Init, SocketsAreSignedIn, Open
<1>2. SessionsInv /\ SocketsAreSignedIn /\ [Next]_vars => SocketsAreSignedIn'
  BY SocketsStep
<1> QED
  BY <1>1, <1>2, Invariant, PTL DEF Spec
=============================================================================
