---------------------------- MODULE StatusPageProofs ----------------------------
(* What holds of a status page for any people, plans, milestones, instances and   *)
(* bounds. Links, milestones and the weekly email have an invariant each; none of *)
(* them changes the variables of another.                                         *)
EXTENDS StatusPage, FiniteSetTheorems, TLAPS

-----------------------------------------------------------------------------
(* Links. *)

LimitRemembered == \A u \in Users : ClientLimit[plan[u]] <= most[u]

ClientsInv == ClientsTypeOK /\ LimitRemembered /\ ClientsWithinPlan

LEMMA CountedIsFinite ==
  ASSUME NEW u \in Users
  PROVE  /\ IsFiniteSet(Counted(u)) /\ Cardinality(Counted(u)) \in Nat
         /\ \A w \in Clients : IsFiniteSet(LiveOthers(u, w)) /\ Cardinality(LiveOthers(u, w)) \in Nat
<1>1. IsFiniteSet(Clients) BY StatusPageAssumption
<1>2. IsFiniteSet(Counted(u))
  <2>1. Counted(u) \subseteq Clients BY DEF Counted
  <2> QED BY <1>1, <2>1, FS_Subset
<1>3. ASSUME NEW w \in Clients PROVE IsFiniteSet(LiveOthers(u, w))
  <2>1. LiveOthers(u, w) \subseteq Clients BY DEF LiveOthers
  <2> QED BY <1>1, <2>1, FS_Subset
<1> QED BY <1>2, <1>3, FS_CardinalityType

\* Fewer counted links, and limits remembered no lower, break nothing.
LEMMA FewerCounted ==
  ASSUME ClientsInv, ClientsTypeOK',
         \A u \in Users : Counted(u)' \subseteq Counted(u) /\ most[u] <= most'[u]
  PROVE  ClientsWithinPlan'
<1> SUFFICES ASSUME NEW u \in Users PROVE Cardinality(Counted(u)') <= most'[u]
  BY DEF ClientsWithinPlan
<1> DEFINE old == Counted(u)
           new == Counted(u)'
<1>1. IsFiniteSet(old) /\ Cardinality(old) \in Nat BY CountedIsFinite
<1>2. new \subseteq old OBVIOUS
<1> HIDE DEF old, new
<1>3. IsFiniteSet(new) BY <1>1, <1>2, FS_Subset
<1>4. Cardinality(new) <= Cardinality(old) BY <1>1, <1>2, FS_Subset
<1>5. Cardinality(new) \in Nat BY <1>3, FS_CardinalityType
<1>6. Cardinality(old) <= most[u] BY DEF old, ClientsInv, ClientsWithinPlan
<1>7. most[u] \in Nat /\ most'[u] \in Nat BY DEF ClientsInv, ClientsTypeOK
<1>8. Cardinality(new) <= most'[u] BY <1>1, <1>4, <1>5, <1>6, <1>7
<1> QED BY <1>8 DEF new

LEMMA ClientsStart == ClientsInit => ClientsInv
<1> SUFFICES ASSUME ClientsInit PROVE ClientsInv OBVIOUS
<1>1. ClientsTypeOK BY StatusPageAssumption DEF ClientsInit, ClientsTypeOK, Idle
<1>2. LimitRemembered BY StatusPageAssumption DEF ClientsInit, LimitRemembered
<1>3. ClientsWithinPlan
  <2>1. ASSUME NEW u \in Users PROVE Cardinality(Counted(u)) <= most[u]
    <3>1. Counted(u) = {} BY DEF Counted, ClientsInit
    <3>2. most[u] \in Nat BY <1>1 DEF ClientsTypeOK
    <3> QED BY <3>1, <3>2, FS_EmptySet
  <2> QED BY <2>1 DEF ClientsWithinPlan
<1> QED BY <1>1, <1>2, <1>3 DEF ClientsInv

LEMMA EnableKeeps ==
  ASSUME ClientsInv, NEW r \in Slots, EnableShare(r)
  PROVE  ClientsInv'
<1>1. PICK q : q = share[r] OBVIOUS
<1>2. q \in Share BY <1>1 DEF ClientsInv, ClientsTypeOK, EnableShare, Idle
<1> DEFINE w == q.client
           b == q.by
<1>3. w \in Clients /\ b \in Users BY <1>2 DEF Share
<1>4. ClientsTypeOK'
  <2>1. share' \in [Slots -> Share \cup {Idle}] BY DEF ClientsInv, ClientsTypeOK, EnableShare
  <2>2. live' \in [Clients -> BOOLEAN] BY DEF ClientsInv, ClientsTypeOK, EnableShare
  <2>3. taken' \subseteq Clients BY <1>1, <1>3 DEF ClientsInv, ClientsTypeOK, EnableShare
  <2>4. UNCHANGED <<plan, owner, calls, most>> BY DEF EnableShare
  <2> QED BY <2>1, <2>2, <2>3, <2>4 DEF ClientsInv, ClientsTypeOK
<1>5. LimitRemembered' BY DEF ClientsInv, LimitRemembered, EnableShare
<1>6. ClientsWithinPlan'
  <2>1. CASE UNCHANGED <<live, taken>>
    <3>1. UNCHANGED <<live, taken, owner, most>> BY <2>1 DEF EnableShare
    <3> QED BY <3>1 DEF ClientsInv, ClientsWithinPlan, Counted
  <2>2. CASE /\ ~live[w] /\ HasRoom(b, w) /\ live' = [live EXCEPT ![w] = TRUE]
             /\ taken' = IF owner[w] = b THEN taken \ {w} ELSE taken \cup {w}
    <3> SUFFICES ASSUME NEW u \in Users PROVE Cardinality(Counted(u)') <= most'[u]
      BY DEF ClientsWithinPlan
    <3>1. UNCHANGED <<owner, most>> BY DEF EnableShare
    <3>2. most[u] \in Nat BY DEF ClientsInv, ClientsTypeOK
    <3>3. live \in [Clients -> BOOLEAN] BY DEF ClientsInv, ClientsTypeOK
    <3>4. CASE owner[w] = b /\ u = b
      <4>1. Counted(u)' \subseteq LiveOthers(b, w) \cup {w}
        BY <2>2, <3>1, <3>3, <3>4 DEF Counted, LiveOthers
      <4> DEFINE others == LiveOthers(b, w)
                 new == Counted(u)'
      <4>2. IsFiniteSet(others) /\ Cardinality(others) \in Nat BY <1>3, CountedIsFinite
      <4>3. Cardinality(others) < ClientLimit[plan[b]] BY <2>2 DEF HasRoom
      <4>4. ClientLimit[plan[b]] <= most[u] BY <1>3, <3>4 DEF ClientsInv, LimitRemembered
      <4>5. ClientLimit[plan[b]] \in Nat BY <1>3, StatusPageAssumption DEF ClientsInv, ClientsTypeOK
      <4> HIDE DEF others, new
      <4>6. /\ IsFiniteSet(others \cup {w})
            /\ Cardinality(others \cup {w}) <= Cardinality(others) + 1
        BY <4>2, FS_AddElement
      <4>7. new \subseteq others \cup {w} BY <4>1 DEF new, others
      <4>8. IsFiniteSet(new) /\ Cardinality(new) <= Cardinality(others \cup {w})
        BY <4>6, <4>7, FS_Subset
      <4>9. Cardinality(new) \in Nat /\ Cardinality(others \cup {w}) \in Nat
        BY <4>6, <4>8, FS_CardinalityType
      <4>10. Cardinality(new) <= most[u] BY <3>2, <4>2, <4>3, <4>4, <4>5, <4>6, <4>8, <4>9
      <4> QED BY <3>1, <4>10 DEF new
    <3>5. CASE ~(owner[w] = b /\ u = b)
      <4>1. Counted(u)' \subseteq Counted(u) BY <2>2, <3>1, <3>3, <3>5 DEF Counted
      <4> DEFINE old == Counted(u)
                 new == Counted(u)'
      <4>2. IsFiniteSet(old) /\ Cardinality(old) \in Nat BY CountedIsFinite
      <4>3. Cardinality(old) <= most[u] BY DEF ClientsInv, ClientsWithinPlan
      <4>4. new \subseteq old BY <4>1
      <4> HIDE DEF old, new
      <4>5. IsFiniteSet(new) /\ Cardinality(new) <= Cardinality(old) BY <4>2, <4>4, FS_Subset
      <4>6. Cardinality(new) \in Nat BY <4>5, FS_CardinalityType
      <4>7. Cardinality(new) <= most[u] BY <3>2, <4>2, <4>3, <4>5, <4>6
      <4> QED BY <3>1, <4>7 DEF new
    <3> QED BY <3>4, <3>5
  <2> QED BY <1>1, <2>1, <2>2 DEF EnableShare
<1> QED BY <1>4, <1>5, <1>6 DEF ClientsInv

LEMMA ClientsStep ==
  ASSUME ClientsInv, ClientsNext
  PROVE  ClientsInv'
<1> USE DEF ClientsInv, ClientsTypeOK
<1>1. ASSUME NEW r \in Slots, NEW w \in Clients, NEW pc \in {"on", "off"}, ShareStart(r, w, pc)
      PROVE  ClientsInv'
  <2>1. [pc |-> pc, client |-> w, by |-> owner[w]] \in Share BY DEF Share
  <2>2. ClientsTypeOK' BY <1>1, <2>1, StatusPageAssumption DEF ShareStart, Call
  <2>3. UNCHANGED <<plan, owner, live, most, taken>> BY <1>1 DEF ShareStart
  <2> QED BY <2>2, <2>3 DEF LimitRemembered, ClientsWithinPlan, Counted
<1>2. ASSUME NEW r \in Slots, EnableShare(r) PROVE ClientsInv'
  BY <1>2, EnableKeeps
<1>3. ASSUME NEW r \in Slots, DisableShare(r) PROVE ClientsInv'
  <2>1. ClientsTypeOK' BY <1>3 DEF DisableShare
  <2>2. UNCHANGED <<plan, owner, most, taken>> BY <1>3 DEF DisableShare
  <2>3. \A u \in Users : Counted(u)' \subseteq Counted(u) BY <1>3 DEF DisableShare, Counted
  <2>4. \A u \in Users : most[u] <= most'[u] BY <2>2
  <2>5. ClientsWithinPlan' BY <2>1, <2>3, <2>4, FewerCounted
  <2> QED BY <2>1, <2>2, <2>5 DEF LimitRemembered
<1>4. ASSUME NEW w \in Clients, NEW v \in Users, Transfer(w, v) PROVE ClientsInv'
  <2>1. ClientsTypeOK' BY <1>4, StatusPageAssumption DEF Transfer, Call
  <2>2. UNCHANGED <<plan, most>> BY <1>4 DEF Transfer
  <2>3. \A u \in Users : Counted(u)' \subseteq Counted(u) BY <1>4 DEF Transfer, Counted
  <2>4. \A u \in Users : most[u] <= most'[u] BY <2>2
  <2>5. ClientsWithinPlan' BY <2>1, <2>3, <2>4, FewerCounted
  <2> QED BY <2>1, <2>2, <2>5 DEF LimitRemembered
<1>5. ASSUME NEW v \in Users, NEW p \in Plans, ChangePlan(v, p) PROVE ClientsInv'
  <2>1. ClientLimit[p] \in Nat BY StatusPageAssumption
  <2>2. ClientsTypeOK' BY <1>5, <2>1, StatusPageAssumption DEF ChangePlan, Call
  <2>3. \A u \in Users : most[u] <= most'[u] BY <1>5, <2>1 DEF ChangePlan
  <2>4. \A u \in Users : Counted(u)' \subseteq Counted(u) BY <1>5 DEF ChangePlan, Counted
  <2>5. ClientsWithinPlan' BY <2>2, <2>3, <2>4, FewerCounted
  <2>6. LimitRemembered'
    <3> SUFFICES ASSUME NEW u \in Users PROVE ClientLimit[plan'[u]] <= most'[u]
      BY DEF LimitRemembered
    <3>1. ClientLimit[plan[u]] \in Nat /\ ClientLimit[plan[u]] <= most[u]
      BY StatusPageAssumption DEF LimitRemembered
    <3>2. CASE u = v BY <1>5, <2>1, <3>2 DEF ChangePlan
    <3>3. CASE u # v
      <4>1. plan'[u] = plan[u] BY <1>5, <3>3 DEF ChangePlan
      <4> QED BY <2>2, <2>3, <3>1, <4>1
    <3> QED BY <3>2, <3>3
  <2> QED BY <2>2, <2>5, <2>6
<1> QED BY <1>1, <1>2, <1>3, <1>4, <1>5 DEF ClientsNext

-----------------------------------------------------------------------------
(* Milestones and approvals. *)

\* An approval, stored or not yet, is for a version the milestone has or had, and for the words of
\* that version unless they were put back.
Sound(a) ==
  /\ a.id \in named
  /\ Present(a.id) =>
       /\ a.version <= milestone[a.id].version
       /\ Stands(a) /\ a.id \notin putBack => milestone[a.id].words = a.words

PresentIsNamed == \A m \in Milestones : Present(m) => m \in named
StoredIsSound == \A a \in approvals : Sound(a)
PendingIsSound == \A r \in Slots : edit[r].pc = "approve" => Sound(edit[r].approval)

\* With no milestone to change, an edit of the first one has words for it.
FirstHasWords ==
  \A r \in Slots : edit[r].pc = "first" /\ edit[r].id = None => edit[r].words \in Words

SignOffInv ==
  SignOffTypeOK /\ PresentIsNamed /\ StoredIsSound /\ PendingIsSound /\ FirstHasWords

\* What every step does to the rows: versions go up, and the words of a version stay.
Onward ==
  /\ named \subseteq named'
  /\ \A m \in named : milestone'[m] # None =>
       /\ milestone[m] # None
       /\ milestone[m].version <= milestone'[m].version
       /\ milestone'[m].version = milestone[m].version /\ m \notin putBack' =>
            m \notin putBack /\ milestone'[m].words = milestone[m].words

LEMMA SoundStays ==
  ASSUME SignOffTypeOK, SignOffTypeOK', Onward, NEW a \in Approval, Sound(a)
  PROVE  Sound(a)'
<1> DEFINE m == a.id
<1>1. m \in named /\ m \in named' /\ m \in Milestones BY DEF Sound, Onward, SignOffTypeOK
<1> SUFFICES ASSUME milestone'[m] # None
             PROVE  /\ a.version <= milestone'[m].version
                    /\ milestone'[m].version = a.version /\ m \notin putBack'
                         => milestone'[m].words = a.words
  BY <1>1 DEF Sound, Present, Stands
<1>2. /\ milestone[m] # None
      /\ milestone[m].version <= milestone'[m].version
      /\ milestone'[m].version = milestone[m].version /\ m \notin putBack' =>
           m \notin putBack /\ milestone'[m].words = milestone[m].words
  BY <1>1 DEF Onward
<1>3. milestone[m] \in Milestone /\ milestone'[m] \in Milestone BY <1>1, <1>2 DEF SignOffTypeOK
<1>4. a.version \in Nat /\ milestone[m].version \in Nat /\ milestone'[m].version \in Nat
  BY <1>3 DEF Approval, Milestone
<1>5. /\ a.version <= milestone[m].version
      /\ milestone[m].version = a.version /\ m \notin putBack => milestone[m].words = a.words
  BY <1>2 DEF Sound, Present, Stands
<1>6. a.version <= milestone'[m].version BY <1>2, <1>4, <1>5
<1>7. ASSUME milestone'[m].version = a.version, m \notin putBack'
      PROVE  milestone'[m].words = a.words
  <2>1. milestone'[m].version = milestone[m].version BY <1>2, <1>4, <1>5, <1>7
  <2> QED BY <1>2, <1>5, <1>7, <2>1
<1> QED BY <1>6, <1>7

\* A step that stores no approval but sound ones, and begins none, keeps the invariant.
LEMMA SignOffKept ==
  ASSUME SignOffInv, SignOffTypeOK', Onward, PresentIsNamed',
         \A a \in approvals' : a \in approvals \/ Sound(a),
         \A r \in Slots : edit'[r].pc = "approve" =>
           (edit[r] = edit'[r]) \/ Sound(edit'[r].approval),
         FirstHasWords'
  PROVE  SignOffInv'
<1>1. StoredIsSound'
  <2> SUFFICES ASSUME NEW a \in approvals' PROVE Sound(a)' BY DEF StoredIsSound
  <2>1. Sound(a) BY DEF SignOffInv, StoredIsSound
  <2>2. a \in Approval BY DEF SignOffTypeOK
  <2> QED BY <2>1, <2>2, SoundStays DEF SignOffInv
<1>2. PendingIsSound'
  <2> SUFFICES ASSUME NEW r \in Slots, edit'[r].pc = "approve" PROVE Sound(edit[r].approval)'
    BY DEF PendingIsSound
  <2>1. PICK e : e = edit'[r] OBVIOUS
  <2>2. e \in Edit /\ e.pc = "approve" BY <2>1 DEF SignOffTypeOK, Idle
  <2>3. e.approval \in Approval BY <2>2 DEF Edit
  <2>4. Sound(e.approval) BY <2>1, <2>2 DEF SignOffInv, PendingIsSound
  <2>5. Sound(e.approval)' BY <2>3, <2>4, SoundStays DEF SignOffInv
  <2>6. Sound(edit[r].approval)' <=> Sound(e.approval)' BY <2>1 DEF Sound, Present, Stands
  <2> QED BY <2>5, <2>6
<1> QED BY <1>1, <1>2 DEF SignOffInv

LEMMA NothingMoves ==
  ASSUME UNCHANGED <<milestone, named, putBack>>, SignOffInv
  PROVE  Onward /\ PresentIsNamed'
<1>1. \A m \in named : milestone[m] # None => milestone[m].version \in Nat
  BY DEF SignOffInv, SignOffTypeOK, Milestone
<1> QED BY <1>1 DEF Onward, SignOffInv, PresentIsNamed, Present

LEMMA SetWriteKeeps ==
  ASSUME SignOffInv, NEW r \in Slots, NEW n \in Milestones \cup {None}, SetWrite(r, n)
  PROVE  SignOffInv'
<1>1. PICK e : e = edit[r] OBVIOUS
<1>2. e \in Edit /\ e.pc = "list" BY <1>1 DEF SignOffInv, SignOffTypeOK, SetWrite, Idle
<1>3. /\ e.kept \in [Milestones -> Words \cup {None}] /\ e.new \in Words \cup {None}
      /\ e.read \in [Milestones -> Milestone \cup {None}]
  BY <1>2 DEF Edit, Kept
<1> DEFINE rows == Listed(e, n)
           keeps == {m \in Milestones : e.kept[m] # None}
<1>4. /\ \A m \in keeps : milestone[m] # None
      /\ IF e.new = None THEN n = None ELSE n \in Milestones \ named
      /\ milestone' = rows
      /\ approvals' = ApprovalsOf(rows)
      /\ named' = named \cup ({n} \ {None})
      /\ putBack' = {m \in putBack \cap keeps : rows[m].version = milestone[m].version} \cup
                    {m \in keeps : e.kept[m] = e.read[m].words /\ e.kept[m] # milestone[m].words}
      /\ edit' = [edit EXCEPT ![r] = Idle]
  BY <1>1 DEF SetWrite, EditGoes, Present
<1>5. ASSUME NEW m \in keeps
      PROVE  /\ m \in Milestones /\ milestone[m] \in Milestone /\ milestone[m].version \in Nat
             /\ rows[m].words = e.kept[m]
             /\ rows[m].version = IF e.kept[m] # e.read[m].words THEN milestone[m].version + 1
                                  ELSE milestone[m].version
             /\ rows[m] \in Milestone
  <2>1. m \in Milestones /\ e.kept[m] \in Words BY <1>3
  <2>2. milestone[m] \in Milestone BY <1>4, <2>1 DEF SignOffInv, SignOffTypeOK
  <2>3. milestone[m].version \in Nat BY <2>2 DEF Milestone
  <2>4. rows[m] = [words |-> e.kept[m], version |-> Version(e.read[m], e.kept[m], milestone[m])]
    BY <2>1 DEF Listed
  <2>5. Version(e.read[m], e.kept[m], milestone[m]) \in Nat BY <2>3 DEF Version
  <2>6. rows[m] \in Milestone BY <2>1, <2>4, <2>5 DEF Milestone
  <2> QED BY <2>1, <2>2, <2>3, <2>4, <2>6 DEF Version
<1>6. ASSUME NEW m \in Milestones, m \notin keeps
      PROVE  rows[m] = IF m = n THEN [words |-> e.new, version |-> 0] ELSE None
  BY <1>6 DEF Listed
<1>7. ASSUME NEW m \in Milestones, m = n PROVE m \notin named /\ e.new \in Words /\ m \in named'
  BY <1>3, <1>4, <1>7, StatusPageAssumption
<1>8. SignOffTypeOK'
  <2>1. ASSUME NEW m \in Milestones PROVE rows[m] \in Milestone \cup {None}
    <3>1. CASE m \in keeps BY <1>5, <3>1
    <3>2. CASE m \notin keeps
      <4>1. CASE m = n
        <5>1. e.new \in Words BY <1>7, <4>1
        <5> QED BY <1>6, <3>2, <4>1, <5>1 DEF Milestone
      <4>2. CASE m # n BY <1>6, <3>2, <4>2
      <4> QED BY <4>1, <4>2
    <3> QED BY <3>1, <3>2
  <2>2. rows \in [Milestones -> Milestone \cup {None}]
    <3>1. rows = [m \in Milestones |-> rows[m]] BY DEF Listed
    <3> HIDE DEF rows
    <3> QED BY <2>1, <3>1
  <2>3. approvals' \subseteq Approval BY <1>4 DEF ApprovalsOf, SignOffInv, SignOffTypeOK
  <2>4. edit' \in [Slots -> Edit \cup {Idle}] BY <1>4 DEF SignOffInv, SignOffTypeOK
  <2>5. named' \subseteq Milestones BY <1>4 DEF SignOffInv, SignOffTypeOK
  <2>6. putBack' \subseteq Milestones
    <3> HIDE DEF rows
    <3> QED BY <1>4
  <2> QED BY <1>4, <2>2, <2>3, <2>4, <2>5, <2>6 DEF SignOffTypeOK
<1>9. Onward
  <2>1. named \subseteq named' BY <1>4
  <2>2. ASSUME NEW m \in named, milestone'[m] # None
        PROVE  /\ milestone[m] # None
               /\ milestone[m].version <= milestone'[m].version
               /\ milestone'[m].version = milestone[m].version /\ m \notin putBack' =>
                    m \notin putBack /\ milestone'[m].words = milestone[m].words
    <3>1. m \in Milestones BY DEF SignOffInv, SignOffTypeOK
    <3>2. m # n BY <1>7, <3>1
    <3>3. m \in keeps BY <1>4, <1>6, <2>2, <3>1, <3>2
    <3>4. milestone'[m] = rows[m] BY <1>4
    <3>5. milestone[m] # None BY <1>4, <3>3
    <3>6. milestone[m].version <= rows[m].version BY <1>5, <3>3
    <3>7. ASSUME rows[m].version = milestone[m].version, m \notin putBack'
          PROVE  m \notin putBack /\ rows[m].words = milestone[m].words
      <4>1. m \notin putBack
        <5> HIDE DEF rows
        <5> QED BY <1>4, <3>3, <3>7
      <4>2. e.kept[m] = e.read[m].words BY <1>5, <3>3, <3>7
      <4>3. e.kept[m] = milestone[m].words
        <5> HIDE DEF rows
        <5> QED BY <1>4, <3>3, <3>7, <4>2
      <4> QED BY <1>5, <3>3, <4>1, <4>3
    <3> HIDE DEF rows
    <3> QED BY <3>4, <3>5, <3>6, <3>7
  <2> QED BY <2>1, <2>2 DEF Onward
<1>10. PresentIsNamed'
  <2> SUFFICES ASSUME NEW m \in Milestones, rows[m] # None PROVE m \in named'
    BY <1>4 DEF PresentIsNamed, Present
  <2>1. CASE m \in keeps
    <3>1. milestone[m] # None BY <1>4, <2>1
    <3>2. m \in named BY <3>1 DEF SignOffInv, PresentIsNamed, Present
    <3> QED BY <1>4, <3>2
  <2>2. CASE m \notin keeps BY <1>6, <1>7, <2>2
  <2> QED BY <2>1, <2>2
<1>11. \A a \in approvals' : a \in approvals BY <1>4 DEF ApprovalsOf
<1>12. \A q \in Slots : edit'[q].pc = "approve" => edit[q] = edit'[q]
  BY <1>4 DEF SignOffInv, SignOffTypeOK, Idle
<1>13. FirstHasWords'
  BY <1>4 DEF SignOffInv, SignOffTypeOK, FirstHasWords, Idle
<1> QED BY <1>8, <1>9, <1>10, <1>11, <1>12, <1>13, SignOffKept

LEMMA SignOffStart == SignOffInit => SignOffInv
<1> SUFFICES ASSUME SignOffInit PROVE SignOffInv OBVIOUS
<1>1. SignOffTypeOK BY DEF SignOffInit, SignOffTypeOK
<1>2. PresentIsNamed /\ StoredIsSound BY DEF SignOffInit, PresentIsNamed, Present, StoredIsSound
<1>3. PendingIsSound /\ FirstHasWords
  BY DEF SignOffInit, PendingIsSound, FirstHasWords, Idle
<1> QED BY <1>1, <1>2, <1>3 DEF SignOffInv

\* A step that ends the edit of one request, or begins one that is no approval.
LEMMA OneEdit ==
  ASSUME SignOffInv, NEW r \in Slots, NEW e, e = Idle \/ e.pc # "approve", EditGoes(r, e)
  PROVE  \A q \in Slots : edit'[q].pc = "approve" => edit[q] = edit'[q]
<1> SUFFICES ASSUME NEW q \in Slots, edit'[q].pc = "approve" PROVE edit[q] = edit'[q]
  OBVIOUS
<1>1. edit' = [edit EXCEPT ![r] = e] /\ edit \in [Slots -> Edit \cup {Idle}]
  BY DEF EditGoes, SignOffInv, SignOffTypeOK
<1>2. q # r BY <1>1 DEF Idle
<1> QED BY <1>1, <1>2

LEMMA RowChanges ==
  ASSUME SignOffInv, NEW r \in Slots,
         FirstChange(r) \/ FirstRemove(r) \/ \E n \in Milestones : FirstCreate(r, n)
  PROVE  SignOffInv'
<1>1. PICK e : e = edit[r] OBVIOUS
<1>2. e \in Edit /\ e.pc = "first"
  BY <1>1 DEF SignOffInv, SignOffTypeOK, FirstChange, FirstRemove, FirstCreate, Idle
<1>3. e.id \in Milestones \cup {None} /\ e.words \in Words \cup {None} BY <1>2 DEF Edit
<1>4. EditGoes(r, Idle) BY DEF FirstChange, FirstRemove, FirstCreate
<1>5. \A q \in Slots : edit'[q].pc = "approve" => edit[q] = edit'[q] BY <1>4, OneEdit
<1>6. /\ edit' \in [Slots -> Edit \cup {Idle}]
      /\ FirstHasWords'
  BY <1>4 DEF EditGoes, SignOffInv, SignOffTypeOK, FirstHasWords, Idle
<1>7. ASSUME NEW m \in Milestones, milestone[m] # None
      PROVE  milestone[m] \in Milestone /\ milestone[m].version \in Nat
  <2>1. milestone[m] \in Milestone BY <1>7 DEF SignOffInv, SignOffTypeOK
  <2> QED BY <2>1 DEF Milestone
<1>8. named \subseteq Milestones BY DEF SignOffInv, SignOffTypeOK
<1>9. CASE FirstChange(r)
  <2> DEFINE i == e.id
             row == [words |-> e.words, version |-> milestone[i].version + 1]
  <2>1. /\ i \in Milestones /\ milestone[i] # None /\ e.words \in Words
        /\ milestone' = [milestone EXCEPT ![i] = row]
        /\ putBack' = putBack \ {i} /\ UNCHANGED <<approvals, named>>
    BY <1>1, <1>3, <1>9 DEF FirstChange, Present
  <2>2. row \in Milestone BY <1>7, <2>1 DEF Milestone
  <2>3. milestone' \in [Milestones -> Milestone \cup {None}]
    <3> HIDE DEF row, i
    <3> QED BY <2>1, <2>2 DEF SignOffInv, SignOffTypeOK
  <2>4. SignOffTypeOK' BY <1>6, <2>1, <2>3 DEF SignOffInv, SignOffTypeOK
  <2>5. Onward
    <3>1. ASSUME NEW m \in named, milestone'[m] # None
          PROVE  /\ milestone[m] # None
                 /\ milestone[m].version <= milestone'[m].version
                 /\ milestone'[m].version = milestone[m].version /\ m \notin putBack' =>
                      m \notin putBack /\ milestone'[m].words = milestone[m].words
      <4>1. CASE m = i
        <5>1. milestone'[m] = row BY <2>1, <4>1 DEF SignOffInv, SignOffTypeOK
        <5>2. milestone[m].version \in Nat BY <1>7, <2>1, <4>1
        <5>3. milestone'[m].version = milestone[m].version + 1 BY <4>1, <5>1
        <5> QED BY <2>1, <4>1, <5>2, <5>3
      <4>2. CASE m # i
        <5>1. milestone'[m] = milestone[m] BY <1>8, <2>1, <4>2 DEF SignOffInv, SignOffTypeOK
        <5>2. milestone[m].version \in Nat BY <1>7, <1>8, <3>1, <5>1
        <5> QED BY <2>1, <3>1, <4>2, <5>1, <5>2
      <4> QED BY <4>1, <4>2
    <3> QED BY <2>1, <3>1 DEF Onward
  <2>6. PresentIsNamed'
    BY <2>1 DEF SignOffInv, SignOffTypeOK, PresentIsNamed, Present
  <2> QED BY <1>5, <1>6, <2>1, <2>4, <2>5, <2>6, SignOffKept
<1>10. CASE FirstRemove(r)
  <2> DEFINE i == e.id
  <2>1. /\ i \in Milestones /\ milestone' = [milestone EXCEPT ![i] = None]
        /\ approvals' \subseteq approvals /\ putBack' = putBack \ {i} /\ UNCHANGED named
    BY <1>1, <1>3, <1>10 DEF FirstRemove, ApprovalsOf
  <2>2. SignOffTypeOK' BY <1>6, <2>1 DEF SignOffInv, SignOffTypeOK
  <2>3. \A m \in Milestones : milestone'[m] # None => m # i /\ milestone'[m] = milestone[m]
    BY <2>1 DEF SignOffInv, SignOffTypeOK
  <2>4. Onward BY <1>7, <1>8, <2>1, <2>3 DEF Onward
  <2>5. PresentIsNamed' BY <2>1, <2>3 DEF SignOffInv, PresentIsNamed, Present
  <2> QED BY <1>5, <1>6, <2>1, <2>2, <2>4, <2>5, SignOffKept
<1>11. ASSUME NEW n \in Milestones, FirstCreate(r, n) PROVE SignOffInv'
  <2>1. /\ n \notin named /\ named' = named \cup {n} /\ UNCHANGED <<approvals, putBack>>
        /\ milestone' = [milestone EXCEPT ![n] = [words |-> e.words, version |-> 0]]
    BY <1>1, <1>11 DEF FirstCreate
  <2>2. e.words \in Words
    <3>1. edit[r].id = None BY <1>11 DEF FirstCreate
    <3> QED BY <1>1, <1>2, <3>1 DEF SignOffInv, FirstHasWords
  <2>3. [words |-> e.words, version |-> 0] \in Milestone BY <2>2 DEF Milestone
  <2>4. milestone' \in [Milestones -> Milestone \cup {None}]
    BY <2>1, <2>3 DEF SignOffInv, SignOffTypeOK
  <2>5. SignOffTypeOK' BY <1>6, <2>1, <2>4 DEF SignOffInv, SignOffTypeOK
  <2>6. \A m \in named : milestone'[m] = milestone[m] BY <2>1 DEF SignOffInv, SignOffTypeOK
  <2>7. Onward BY <1>7, <1>8, <2>1, <2>6 DEF Onward
  <2>8. PresentIsNamed'
    <3>1. \A m \in Milestones : m # n => milestone'[m] = milestone[m]
      BY <2>1 DEF SignOffInv, SignOffTypeOK
    <3> QED BY <2>1, <3>1 DEF SignOffInv, PresentIsNamed, Present
  <2> QED BY <1>5, <1>6, <2>1, <2>5, <2>7, <2>8, SignOffKept
<1> QED BY <1>9, <1>10, <1>11

\* A step that leaves the rows alone and gives request r the edit e.
LEMMA RowsStay ==
  ASSUME SignOffInv, NEW r \in Slots, NEW e \in Edit \cup {Idle}, EditGoes(r, e),
         UNCHANGED <<milestone, named, putBack>>,
         approvals' \subseteq Approval, \A a \in approvals' : a \in approvals \/ Sound(a),
         e.pc = "approve" => Sound(e.approval),
         e.pc = "first" /\ e.id = None => e.words \in Words
  PROVE  SignOffInv'
<1>1. edit' = [edit EXCEPT ![r] = e] /\ edit \in [Slots -> Edit \cup {Idle}]
  BY DEF EditGoes, SignOffInv, SignOffTypeOK
<1>2. SignOffTypeOK' BY <1>1 DEF SignOffInv, SignOffTypeOK
<1>3. \A q \in Slots : edit'[q].pc = "approve" => (edit[q] = edit'[q]) \/ Sound(edit'[q].approval)
  <2> SUFFICES ASSUME NEW q \in Slots, edit'[q].pc = "approve", edit[q] # edit'[q]
               PROVE  Sound(edit'[q].approval)
    OBVIOUS
  <2>1. q = r BY <1>1
  <2>2. edit'[q] = e BY <1>1, <2>1
  <2> QED BY <2>2
<1>4. FirstHasWords' BY <1>1 DEF SignOffInv, FirstHasWords
<1>5. Onward /\ PresentIsNamed' BY NothingMoves
<1> QED BY <1>2, <1>3, <1>4, <1>5, SignOffKept

LEMMA SignOffStep ==
  ASSUME SignOffInv, SignOffNext
  PROVE  SignOffInv'
<1>1. ASSUME NEW r \in Slots, NEW kept \in Kept, NEW new \in Words \cup {None}, SetStart(r, kept, new)
      PROVE  SignOffInv'
  <2> DEFINE e == [pc |-> "list", kept |-> kept, new |-> new, read |-> milestone]
  <2>1. e \in Edit BY DEF Edit, SignOffInv, SignOffTypeOK
  <2>2. approvals' = approvals /\ approvals \subseteq Approval
    BY <1>1 DEF SetStart, SignOffInv, SignOffTypeOK
  <2>3. EditGoes(r, e) /\ UNCHANGED <<milestone, named, putBack>> BY <1>1 DEF SetStart
  <2> QED BY <2>1, <2>2, <2>3, RowsStay
<1>2. ASSUME NEW r \in Slots, NEW n \in Milestones \cup {None}, SetWrite(r, n)
      PROVE  SignOffInv'
  BY <1>2, SetWriteKeeps
<1>3. ASSUME NEW r \in Slots, NEW words \in Words \cup {None}, FirstStart(r, words)
      PROVE  SignOffInv'
  <2>1. PICK i \in Milestones \cup {None} :
          /\ i = None => words # None
          /\ EditGoes(r, [pc |-> "first", id |-> i, words |-> words])
    BY <1>3, StatusPageAssumption DEF FirstStart
  <2> DEFINE e == [pc |-> "first", id |-> i, words |-> words]
  <2>2. e \in Edit BY DEF Edit
  <2>3. approvals' = approvals /\ approvals \subseteq Approval
    BY <1>3 DEF FirstStart, SignOffInv, SignOffTypeOK
  <2>4. UNCHANGED <<milestone, named, putBack>> BY <1>3 DEF FirstStart
  <2>5. EditGoes(r, e) /\ (e.id = None => e.words \in Words) BY <2>1
  <2> QED BY <2>2, <2>3, <2>4, <2>5, RowsStay
<1>4. ASSUME NEW r \in Slots, FirstChange(r) \/ FirstRemove(r) \/ \E n \in Milestones : FirstCreate(r, n)
      PROVE  SignOffInv'
  BY <1>4, RowChanges
<1>5. ASSUME NEW r \in Slots, NEW m \in Milestones, ApproveStart(r, m)
      PROVE  SignOffInv'
  <2> DEFINE a == [id |-> m, words |-> milestone[m].words, version |-> milestone[m].version]
             e == [pc |-> "approve", approval |-> a]
  <2>1. milestone[m] \in Milestone BY <1>5 DEF ApproveStart, Present, SignOffInv, SignOffTypeOK
  <2>2. a \in Approval BY <2>1 DEF Milestone, Approval
  <2>3. e \in Edit
    <3> HIDE DEF a
    <3> QED BY <2>2 DEF Edit
  <2>4. Sound(a)
    <3>1. m \in named BY <1>5 DEF ApproveStart, SignOffInv, PresentIsNamed
    <3>2. a.version <= milestone[m].version BY <2>1 DEF Milestone
    <3> QED BY <3>1, <3>2 DEF Sound
  <2>5. approvals' = approvals /\ approvals \subseteq Approval
    BY <1>5 DEF ApproveStart, SignOffInv, SignOffTypeOK
  <2>6. EditGoes(r, e) /\ UNCHANGED <<milestone, named, putBack>> BY <1>5 DEF ApproveStart
  <2>7. e.pc = "approve" /\ Sound(e.approval) BY <2>4
  <2> HIDE DEF e
  <2> QED BY <2>3, <2>5, <2>6, <2>7, RowsStay
<1>6. ASSUME NEW r \in Slots, ApproveStore(r) PROVE SignOffInv'
  <2>1. PICK e : e = edit[r] OBVIOUS
  <2>2. e \in Edit /\ e.pc = "approve"
    BY <1>6, <2>1 DEF ApproveStore, SignOffInv, SignOffTypeOK, Idle
  <2>3. e.approval \in Approval /\ Sound(e.approval)
    BY <2>1, <2>2 DEF Edit, SignOffInv, PendingIsSound
  <2>4. approvals' = approvals \cup {e.approval} BY <1>6, <2>1 DEF ApproveStore
  <2>5. approvals' \subseteq Approval BY <2>3, <2>4 DEF SignOffInv, SignOffTypeOK
  <2>6. \A a \in approvals' : a \in approvals \/ Sound(a) BY <2>3, <2>4
  <2>7. EditGoes(r, Idle) /\ UNCHANGED <<milestone, named, putBack>> BY <1>6 DEF ApproveStore
  <2> QED BY <2>5, <2>6, <2>7, RowsStay DEF Idle
<1>7. ASSUME NEW r \in Slots, EditEnds(r) PROVE SignOffInv'
  <2>1. approvals' = approvals /\ approvals \subseteq Approval
    BY <1>7 DEF EditEnds, SignOffInv, SignOffTypeOK
  <2>2. EditGoes(r, Idle) /\ UNCHANGED <<milestone, named, putBack>> BY <1>7 DEF EditEnds
  <2> QED BY <2>1, <2>2, RowsStay DEF Idle
<1>8. ASSUME NEW a \in approvals, RemoveFeedback(a) PROVE SignOffInv'
  <2>1. approvals' \subseteq approvals /\ UNCHANGED <<milestone, edit, named, putBack>>
    BY <1>8 DEF RemoveFeedback
  <2>2. SignOffTypeOK' /\ FirstHasWords'
    BY <2>1 DEF SignOffInv, SignOffTypeOK, FirstHasWords
  <2>3. Onward /\ PresentIsNamed' BY <2>1, NothingMoves
  <2> QED BY <2>1, <2>2, <2>3, SignOffKept
<1> QED BY <1>1, <1>2, <1>3, <1>4, <1>5, <1>6, <1>7, <1>8 DEF SignOffNext, EditStep

-----------------------------------------------------------------------------
(* The weekly email. *)

Claimed(i) == run[i].pc \in {"list", "send"}
Apart(d, e) == d + Gap < e \/ e + Gap < d
Mailed(d) == \E s \in Emails : mails[s][d] > 0
\* Days whose claim has mailed somebody, or is about to.
Used(d) == Mailed(d) \/ \E i \in Instances : Claimed(i) /\ run[i].now = d

UsedIsPast == \A d \in Days : Used(d) => lastSent # None /\ d <= lastSent
UsedApart == \A d \in Days, e \in Days : Used(d) /\ Used(e) /\ d # e => Apart(d, e)
OneRunAClaim ==
  \A i \in Instances, j \in Instances :
    Claimed(i) /\ Claimed(j) /\ run[i].now = run[j].now => i = j
ToMail ==
  \A i \in Instances, s \in Emails :
    /\ run[i].pc = "list" => mails[s][run[i].now] = 0
    /\ run[i].pc = "send" /\ s \in run[i].to => mails[s][run[i].now] = 0
MailedOnce == \A s \in Emails, d \in Days : mails[s][d] <= 1

DigestInv == DigestTypeOK /\ UsedIsPast /\ UsedApart /\ OneRunAClaim /\ ToMail /\ MailedOnce

LEMMA DigestImplies == DigestInv => OneMailAWeek
<1> SUFFICES ASSUME DigestInv, NEW s \in Emails, NEW d \in Days
             PROVE  /\ mails[s][d] <= 1
                    /\ mails[s][d] > 0 => \A e \in Days : e # d /\ mails[s][e] > 0
                                            => d + Gap < e \/ e + Gap < d
  BY DEF OneMailAWeek
<1> QED BY DEF DigestInv, MailedOnce, UsedApart, Used, Mailed, Apart

LEMMA DigestStart == DigestInit => DigestInv
<1> SUFFICES ASSUME DigestInit PROVE DigestInv OBVIOUS
<1>1. 0 \in Days BY StatusPageAssumption DEF Days
<1>2. DigestTypeOK BY <1>1 DEF DigestInit, DigestTypeOK
<1>3. \A d \in Days : ~Used(d) BY DEF DigestInit, Used, Mailed, Claimed, Idle
<1>4. OneRunAClaim /\ ToMail BY DEF DigestInit, OneRunAClaim, ToMail, Claimed, Idle
<1>5. MailedOnce BY DEF DigestInit, MailedOnce
<1> QED BY <1>2, <1>3, <1>4, <1>5 DEF DigestInv, UsedIsPast, UsedApart

\* A run that stops, or one that has not claimed, uses no day.
LEMMA RunSteps ==
  ASSUME DigestInv, NEW i \in Instances, NEW q \in Run \cup {Idle}, q.pc \in {"idle", "claim"},
         RunGoes(i, q), UNCHANGED <<weekly, lastSent, subscriber, day, mails>>
  PROVE  DigestInv'
<1>1. run' = [run EXCEPT ![i] = q] /\ run \in [Instances -> Run \cup {Idle}]
  BY DEF RunGoes, DigestInv, DigestTypeOK
<1>2. DigestTypeOK' BY <1>1 DEF DigestInv, DigestTypeOK
<1>3. \A j \in Instances : run'[j].pc \in {"list", "send"} => run'[j] = run[j] BY <1>1
<1>4. \A d \in Days : Used(d)' => Used(d) BY <1>3 DEF Used, Mailed, Claimed
<1>5. UsedIsPast' /\ UsedApart' BY <1>4 DEF DigestInv, UsedIsPast, UsedApart, Apart
<1>6. OneRunAClaim' BY <1>3 DEF DigestInv, OneRunAClaim, Claimed
<1>7. ToMail' BY <1>3 DEF DigestInv, ToMail
<1>8. MailedOnce' BY DEF DigestInv, MailedOnce
<1> QED BY <1>2, <1>5, <1>6, <1>7, <1>8 DEF DigestInv

LEMMA ClaimKeeps ==
  ASSUME DigestInv, NEW i \in Instances, Claim(i)
  PROVE  DigestInv'
<1>1. PICK n : n = run[i].now OBVIOUS
<1>2. run[i] \in Run /\ run[i].pc = "claim" BY DEF Claim, DigestInv, DigestTypeOK, Idle
<1>3. n \in Days BY <1>1, <1>2 DEF Run
<1> DEFINE q == [run[i] EXCEPT !.pc = "list"]
<1>4. q \in Run /\ q.pc = "list" /\ q.now = n BY <1>1, <1>2 DEF Run
<1>5. /\ run' = [run EXCEPT ![i] = q] /\ run \in [Instances -> Run \cup {Idle}]
      /\ lastSent' = n /\ UNCHANGED <<weekly, subscriber, day, mails>>
  BY <1>1 DEF Claim, RunGoes, DigestInv, DigestTypeOK
<1> HIDE DEF q
<1>6. DigestTypeOK' BY <1>3, <1>4, <1>5 DEF DigestInv, DigestTypeOK
\* The day is later, by more than the gap, than any that is used.
<1>7. ASSUME NEW d \in Days, Used(d) PROVE d + Gap < n /\ d < n
  <2>1. lastSent # None /\ d <= lastSent BY <1>7 DEF DigestInv, UsedIsPast
  <2>2. lastSent \in Days BY <2>1 DEF DigestInv, DigestTypeOK
  <2>3. lastSent + Gap < n BY <1>1, <2>1 DEF Claim
  <2>4. d \in Nat /\ n \in Nat /\ lastSent \in Nat /\ Gap \in Nat
    BY <1>3, <2>2, StatusPageAssumption DEF Days
  <2> QED BY <2>1, <2>3, <2>4
<1>8. \A d \in Days : Used(d)' => Used(d) \/ d = n
  BY <1>4, <1>5 DEF Used, Mailed, Claimed
<1>9. ~Used(n) BY <1>3, <1>7 DEF Days
<1>10. n # None /\ \A d \in Days : d <= d
  <2>1. n # None BY <1>3, StatusPageAssumption
  <2> QED BY <2>1 DEF Days
<1>11. UsedIsPast'
  <2> SUFFICES ASSUME NEW d \in Days, Used(d)' PROVE lastSent' # None /\ d <= lastSent'
    BY DEF UsedIsPast
  <2>1. d \in Nat /\ n \in Nat BY <1>3 DEF Days
  <2>2. d < n \/ d = n BY <1>7, <1>8
  <2> QED BY <1>5, <1>10, <2>1, <2>2
<1>12. UsedApart'
  <2> SUFFICES ASSUME NEW d \in Days, NEW e \in Days, Used(d)', Used(e)', d # e PROVE Apart(d, e)
    BY DEF UsedApart, Apart
  <2>1. CASE Used(d) /\ Used(e) BY <2>1 DEF DigestInv, UsedApart
  <2>2. CASE ~Used(d)
    <3>1. d = n /\ Used(e) BY <1>8, <2>2
    <3> QED BY <1>7, <3>1 DEF Apart
  <2>3. CASE ~Used(e)
    <3>1. e = n /\ Used(d) BY <1>8, <2>3
    <3> QED BY <1>7, <3>1 DEF Apart
  <2> QED BY <2>1, <2>2, <2>3
<1>13. \A j \in Instances : j # i => run'[j] = run[j] BY <1>5
<1>14. \A j \in Instances : Claimed(j) => run[j].now # n BY <1>3, <1>9 DEF Used
<1>15. run'[i].now = n BY <1>4, <1>5
<1>16. OneRunAClaim'
  <2> SUFFICES ASSUME NEW j \in Instances, NEW k \in Instances, Claimed(j)', Claimed(k)',
                      run'[j].now = run'[k].now, j # k
               PROVE  FALSE
    BY DEF OneRunAClaim
  <2>1. CASE j = i BY <1>13, <1>14, <1>15, <2>1 DEF Claimed
  <2>2. CASE k = i BY <1>13, <1>14, <1>15, <2>2 DEF Claimed
  <2>3. CASE j # i /\ k # i BY <1>13, <2>3 DEF DigestInv, OneRunAClaim, Claimed
  <2> QED BY <2>1, <2>2, <2>3
<1>17. ToMail'
  <2>1. \A s \in Emails : mails[s][n] = 0
    <3> SUFFICES ASSUME NEW s \in Emails PROVE mails[s][n] = 0 OBVIOUS
    <3>1. mails[s][n] \in Nat BY <1>3 DEF DigestInv, DigestTypeOK
    <3>2. ~(mails[s][n] > 0) BY <1>9 DEF Used, Mailed
    <3> QED BY <3>1, <3>2
  <2> SUFFICES ASSUME NEW j \in Instances, NEW s \in Emails
               PROVE  /\ run'[j].pc = "list" => mails[s][run'[j].now] = 0
                      /\ run'[j].pc = "send" /\ s \in run'[j].to => mails[s][run'[j].now] = 0
    BY <1>5 DEF ToMail
  <2>2. CASE j = i BY <1>15, <2>1, <2>2
  <2>3. CASE j # i BY <1>13, <2>3 DEF DigestInv, ToMail
  <2> QED BY <2>2, <2>3
<1>18. MailedOnce' BY <1>5 DEF DigestInv, MailedOnce
<1> QED BY <1>6, <1>11, <1>12, <1>16, <1>17, <1>18 DEF DigestInv

LEMMA ListKeeps ==
  ASSUME DigestInv, NEW i \in Instances, List(i)
  PROVE  DigestInv'
<1> DEFINE q == [pc |-> "send", now |-> run[i].now, to |-> {s \in Emails : subscriber[s] = "on"}]
<1>1. run[i] \in Run /\ run[i].pc = "list" BY DEF List, DigestInv, DigestTypeOK, Idle
<1>2. q \in Run /\ q.pc = "send" /\ q.now = run[i].now BY <1>1 DEF Run
<1>3. /\ run' = [run EXCEPT ![i] = q] /\ run \in [Instances -> Run \cup {Idle}]
      /\ UNCHANGED <<weekly, lastSent, subscriber, day, mails>>
  BY DEF List, RunGoes, DigestInv, DigestTypeOK
<1> HIDE DEF q
<1>4. DigestTypeOK' BY <1>2, <1>3 DEF DigestInv, DigestTypeOK
<1>5. \A j \in Instances : run'[j].now = run[j].now /\ (Claimed(j)' <=> Claimed(j))
  BY <1>1, <1>2, <1>3 DEF Claimed
<1>6. \A d \in Days : Used(d)' => Used(d) BY <1>3, <1>5 DEF Used, Mailed
<1>7. UsedIsPast' /\ UsedApart' BY <1>3, <1>6 DEF DigestInv, UsedIsPast, UsedApart, Apart
<1>8. OneRunAClaim' BY <1>5 DEF DigestInv, OneRunAClaim
<1>9. ToMail' BY <1>1, <1>2, <1>3 DEF DigestInv, ToMail
<1>10. MailedOnce' BY <1>3 DEF DigestInv, MailedOnce
<1> QED BY <1>4, <1>7, <1>8, <1>9, <1>10 DEF DigestInv

LEMMA SendKeeps ==
  ASSUME DigestInv, NEW i \in Instances, NEW s \in Emails, Send(i, s)
  PROVE  DigestInv'
<1>1. PICK n : n = run[i].now OBVIOUS
<1>2. run[i] \in Run /\ run[i].pc = "send" /\ s \in run[i].to
  BY DEF Send, DigestInv, DigestTypeOK, Idle
<1>3. n \in Days BY <1>1, <1>2 DEF Run
<1> DEFINE q == [run[i] EXCEPT !.to = @ \ {s}]
<1>4. q \in Run /\ q.pc = "send" /\ q.now = n /\ q.to = run[i].to \ {s} BY <1>1, <1>2 DEF Run
<1>5. /\ run' = [run EXCEPT ![i] = q] /\ run \in [Instances -> Run \cup {Idle}]
      /\ mails' = [mails EXCEPT ![s][n] = @ + 1] /\ mails \in [Emails -> [Days -> Nat]]
      /\ UNCHANGED <<weekly, lastSent, subscriber, day>>
  BY <1>1 DEF Send, RunGoes, DigestInv, DigestTypeOK
<1> HIDE DEF q
<1>6. mails[s][n] = 0 BY <1>1, <1>2 DEF DigestInv, ToMail
<1>7. mails'[s][n] = 1 BY <1>3, <1>5, <1>6
<1>8. \A x \in Emails, d \in Days : x # s \/ d # n => mails'[x][d] = mails[x][d] BY <1>5
<1>9. DigestTypeOK'
  <2>1. mails[s] \in [Days -> Nat] /\ mails[s][n] + 1 \in Nat BY <1>3, <1>5, <1>6
  <2>2. [mails[s] EXCEPT ![n] = @ + 1] \in [Days -> Nat] BY <2>1
  <2>3. mails' \in [Emails -> [Days -> Nat]] BY <1>5, <2>2
  <2>4. run' \in [Instances -> Run \cup {Idle}] BY <1>4, <1>5
  <2> QED BY <1>5, <2>3, <2>4 DEF DigestInv, DigestTypeOK
<1>10. \A j \in Instances : run'[j].now = run[j].now /\ (Claimed(j)' <=> Claimed(j))
  BY <1>1, <1>2, <1>4, <1>5 DEF Claimed
<1>11. Used(n) BY <1>1, <1>2 DEF Used, Claimed
<1>12. \A d \in Days : Used(d)' => Used(d)
  <2> SUFFICES ASSUME NEW d \in Days, Used(d)', d # n PROVE Used(d) BY <1>11
  <2>1. CASE \E x \in Emails : mails'[x][d] > 0 BY <1>8, <2>1 DEF Used, Mailed
  <2>2. CASE \E j \in Instances : Claimed(j)' /\ run'[j].now = d BY <1>10, <2>2 DEF Used
  <2> QED BY <2>1, <2>2 DEF Used, Mailed
<1>13. UsedIsPast' /\ UsedApart' BY <1>5, <1>12 DEF DigestInv, UsedIsPast, UsedApart, Apart
<1>14. OneRunAClaim' BY <1>10 DEF DigestInv, OneRunAClaim
<1>15. ToMail'
  <2> SUFFICES ASSUME NEW j \in Instances, NEW x \in Emails
               PROVE  /\ run'[j].pc = "list" => mails'[x][run'[j].now] = 0
                      /\ run'[j].pc = "send" /\ x \in run'[j].to => mails'[x][run'[j].now] = 0
    BY DEF ToMail
  <2>1. CASE j = i
    <3>1. run'[j].pc = "send" /\ run'[j].now = n /\ run'[j].to = run[i].to \ {s}
      BY <1>4, <1>5, <2>1
    <3>2. x \in run'[j].to => x # s /\ mails[x][n] = 0
      BY <1>1, <1>2, <3>1 DEF DigestInv, ToMail
    <3> QED BY <1>3, <1>8, <3>1, <3>2
  <2>2. CASE j # i
    <3>1. run'[j] = run[j] BY <1>5, <2>2
    <3>2. ASSUME run[j].pc \in {"list", "send"} PROVE run[j].now \in Days /\ run[j].now # n
      <4>1. run[j] \in Run BY <3>2 DEF DigestInv, DigestTypeOK, Idle
      <4>2. Claimed(j) /\ Claimed(i) BY <1>2, <3>2 DEF Claimed
      <4> QED BY <1>1, <2>2, <4>1, <4>2 DEF Run, DigestInv, OneRunAClaim
    <3>3. run[j].pc \in {"list", "send"} => mails'[x][run[j].now] = mails[x][run[j].now]
      BY <1>8, <3>2
    <3> QED BY <3>1, <3>3 DEF DigestInv, ToMail
  <2> QED BY <2>1, <2>2
<1>16. MailedOnce'
  <2> SUFFICES ASSUME NEW x \in Emails, NEW d \in Days PROVE mails'[x][d] <= 1 BY DEF MailedOnce
  <2>1. CASE x = s /\ d = n BY <1>7, <2>1
  <2>2. CASE x # s \/ d # n BY <1>8, <2>2 DEF DigestInv, MailedOnce
  <2> QED BY <2>1, <2>2
<1> QED BY <1>9, <1>13, <1>14, <1>15, <1>16 DEF DigestInv

LEMMA NoRunMoves ==
  ASSUME DigestInv, DigestTypeOK', UNCHANGED <<lastSent, run, mails>>
  PROVE  DigestInv'
<1>1. \A d \in Days : Used(d)' <=> Used(d) BY DEF Used, Mailed, Claimed
<1>2. UsedIsPast' /\ UsedApart' BY <1>1 DEF DigestInv, UsedIsPast, UsedApart, Apart
<1>3. OneRunAClaim' /\ ToMail' /\ MailedOnce'
  BY DEF DigestInv, OneRunAClaim, Claimed, ToMail, MailedOnce
<1> QED BY <1>2, <1>3 DEF DigestInv

LEMMA DigestStep ==
  ASSUME DigestInv, DigestNext
  PROVE  DigestInv'
<1>1. ASSUME NEW on \in BOOLEAN, SetWeekly(on) PROVE DigestInv'
  <2>1. DigestTypeOK' BY <1>1 DEF SetWeekly, DigestInv, DigestTypeOK
  <2> QED BY <1>1, <2>1, NoRunMoves DEF SetWeekly
<1>2. ASSUME NEW s \in Emails, AddSubscriber(s) \/ Unsubscribe(s) \/ RemoveSubscriber(s)
      PROVE  DigestInv'
  <2>1. PICK to \in {"none", "on", "off"}, from \in SUBSET {"none", "on", "off"} : Become(s, from, to)
    BY <1>2 DEF AddSubscriber, Unsubscribe, RemoveSubscriber
  <2>2. DigestTypeOK' BY <2>1 DEF Become, DigestInv, DigestTypeOK
  <2> QED BY <2>1, <2>2, NoRunMoves DEF Become
<1>3. ASSUME NEW i \in Instances, RunStart(i) PROVE DigestInv'
  <2> DEFINE q == [pc |-> "claim", now |-> day]
  <2>1. q \in Run BY DEF Run, DigestInv, DigestTypeOK
  <2>2. RunGoes(i, q) /\ UNCHANGED <<weekly, lastSent, subscriber, day, mails>>
    BY <1>3 DEF RunStart
  <2> QED BY <2>1, <2>2, RunSteps
<1>4. ASSUME NEW i \in Instances, RunEnds(i) PROVE DigestInv'
  BY <1>4, RunSteps DEF RunEnds, Idle
<1>5. ASSUME NEW i \in Instances, Claim(i) PROVE DigestInv'
  BY <1>5, ClaimKeeps
<1>6. ASSUME NEW i \in Instances, List(i) PROVE DigestInv'
  BY <1>6, ListKeeps
<1>7. ASSUME NEW i \in Instances, NEW s \in Emails, Send(i, s) PROVE DigestInv'
  BY <1>7, SendKeeps
<1>8. CASE NextDay
  <2>1. day' \in Days BY <1>8, StatusPageAssumption DEF NextDay, DigestInv, DigestTypeOK, Days
  <2>2. DigestTypeOK' BY <1>8, <2>1 DEF NextDay, DigestInv, DigestTypeOK
  <2> QED BY <1>8, <2>2, NoRunMoves DEF NextDay
<1> QED BY <1>1, <1>2, <1>3, <1>4, <1>5, <1>6, <1>7, <1>8 DEF DigestNext, RunStep

-----------------------------------------------------------------------------
(* The whole page. *)

PageInv == ClientsInv /\ SignOffInv /\ DigestInv

LEMMA CallIsTyped ==
  ASSUME ClientsInv, Call
  PROVE  calls' \in 0 .. MaxCalls
BY StatusPageAssumption DEF Call, ClientsInv, ClientsTypeOK

LEMMA ClientsStay ==
  ASSUME ClientsInv, UNCHANGED clientVars, UNCHANGED calls \/ Call
  PROVE  ClientsInv'
<1>1. UNCHANGED <<plan, owner, live, share, most, taken>> BY DEF clientVars
<1>2. calls' \in 0 .. MaxCalls BY CallIsTyped DEF ClientsInv, ClientsTypeOK
<1>3. ClientsTypeOK' BY <1>1, <1>2 DEF ClientsInv, ClientsTypeOK
<1>4. LimitRemembered' /\ ClientsWithinPlan'
  BY <1>1 DEF ClientsInv, LimitRemembered, ClientsWithinPlan, Counted
<1> QED BY <1>3, <1>4 DEF ClientsInv

LEMMA SignOffStays ==
  ASSUME SignOffInv, UNCHANGED signOffVars
  PROVE  SignOffInv'
<1>1. UNCHANGED <<milestone, approvals, edit, named, putBack>> BY DEF signOffVars
<1> QED BY <1>1 DEF SignOffInv, SignOffTypeOK, PresentIsNamed, StoredIsSound, PendingIsSound,
                    FirstHasWords, Sound, Present, Stands

LEMMA DigestStays ==
  ASSUME DigestInv, UNCHANGED digestVars
  PROVE  DigestInv'
<1>1. UNCHANGED <<weekly, lastSent, subscriber, run, day, mails>> BY DEF digestVars
<1>2. DigestTypeOK' BY <1>1 DEF DigestInv, DigestTypeOK
<1> QED BY <1>1, <1>2, NoRunMoves

\* The inductive invariant of a status page: the plan's limit covers the counted links, every approval
\* is for a version and words the milestone had, and every claim of a week is its own.
THEOREM PageSafe == Spec => []PageInv
<1>1. Init => PageInv BY ClientsStart, SignOffStart, DigestStart DEF Init, PageInv
<1>2. PageInv /\ [Next]_vars => PageInv'
  <2> SUFFICES ASSUME PageInv, [Next]_vars PROVE PageInv' OBVIOUS
  <2>1. CASE ClientsNext /\ UNCHANGED <<signOffVars, digestVars>>
    <3>1. UNCHANGED signOffVars /\ UNCHANGED digestVars BY <2>1
    <3> QED BY <2>1, <3>1, ClientsStep, SignOffStays, DigestStays DEF PageInv
  <2>2. CASE SignOffNext /\ UNCHANGED <<clientVars, digestVars>>
    <3>1. UNCHANGED clientVars /\ UNCHANGED digestVars BY <2>2
    <3>2. UNCHANGED calls \/ Call
      BY <2>2 DEF SignOffNext, EditStep, SetStart, SetWrite, FirstStart, FirstChange, FirstRemove,
                  FirstCreate, ApproveStart, ApproveStore, EditEnds, RemoveFeedback
    <3> QED BY <2>2, <3>1, <3>2, ClientsStay, SignOffStep, DigestStays DEF PageInv
  <2>3. CASE DigestNext /\ UNCHANGED <<clientVars, signOffVars>>
    <3>1. UNCHANGED clientVars /\ UNCHANGED signOffVars BY <2>3
    <3>2. UNCHANGED calls \/ Call
      BY <2>3 DEF DigestNext, SetWeekly, AddSubscriber, Unsubscribe, RemoveSubscriber, RunStep,
                  RunStart, Claim, List, Send, RunEnds, NextDay
    <3> QED BY <2>3, <3>1, <3>2, ClientsStay, SignOffStays, DigestStep DEF PageInv
  <2>4. CASE UNCHANGED vars
    <3>1. UNCHANGED clientVars /\ UNCHANGED signOffVars /\ UNCHANGED digestVars /\ UNCHANGED calls
      BY <2>4 DEF vars
    <3> QED BY <3>1, ClientsStay, SignOffStays, DigestStays DEF PageInv
  <2> QED BY <2>1, <2>2, <2>3, <2>4 DEF Next
<1> QED BY <1>1, <1>2, PTL DEF Spec

\* The state of a status page is typed.
THEOREM TypeCorrect == Spec => []TypeOK
<1>1. PageInv => TypeOK BY DEF PageInv, ClientsInv, SignOffInv, DigestInv, TypeOK
<1> QED BY <1>1, PageSafe, PTL

\* Links switched on at once, transfers and changes of plan never give anyone more active clients
\* than a plan of theirs has included, but for live links handed over (enableShare).
THEOREM WithinPlan == Spec => []ClientsWithinPlan
<1>1. PageInv => ClientsWithinPlan BY DEF PageInv, ClientsInv
<1> QED BY <1>1, PageSafe, PTL

\* However edits and approvals overlap, an approval that counts is for the words of the milestone,
\* unless an edit has put them back (setMilestones, feedback.submit).
THEOREM ApprovalsStand == Spec => []ApprovedWordsStand
<1>1. PageInv => ApprovedWordsStand
  BY DEF PageInv, SignOffInv, StoredIsSound, Sound, ApprovedWordsStand
<1> QED BY <1>1, PageSafe, PTL

\* Any number of instances and restarts mail nobody twice for a claim, and claims that mail are more
\* than the gap apart (sendForWorkspace).
THEOREM OneMail == Spec => []OneMailAWeek
<1>1. PageInv => OneMailAWeek BY DigestImplies DEF PageInv
<1> QED BY <1>1, PageSafe, PTL
=============================================================================
